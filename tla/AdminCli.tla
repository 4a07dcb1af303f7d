------------------------------- MODULE AdminCli -------------------------------
(***************************************************************************)
(* The admin tool: the thread of the prompt, the receiver thread, and the  *)
(* memory they share without a lock; the network and the board as far as   *)
(* the tool sees them.                                                     *)
(*                                                                         *)
(* A frame that the kernel or memcpy writes into a buffer arrives in two   *)
(* parts, head and tail, and the other thread may look between them.  The  *)
(* raw socket also delivers the frames the tool itself sends.  Frames may  *)
(* be lost; the board answers in order, now and then after the tool has    *)
(* stopped waiting.                                                        *)
(***************************************************************************)
EXTENDS AdminEdit, Bags

CONSTANTS
    BoardFilters,   \* what the board may hold before the tool is started
    TestFilters,    \* configurations of the self tests
    Scratch,        \* ADMIN_PKT_TMP_FILENAME
    Sessions,       \* bound: the kinds of the commands the user gives, in order
    MaxTestPkts,    \* bound: packets of a self test (10 per loop)
    MaxLooks        \* bound: looks of expect_receive (1000)

ASSUME ScratchAssumption == Scratch \in Names
\* The board holds what it was built with or what a tool has signed; the tests build
\* their configurations from {}.
ASSUME ConfigAssumption == \A c \in BoardFilters \cup TestFilters : SoundFilter(c) /\ Clean(c)

VARIABLES
    pc, cmd,                         \* the prompt's thread, and the command it executes
    want,                            \* the configuration the command applies
    f, s,                            \* the board's configuration and counters, cached
    pr,                              \* the answer being parsed
    verdict,                         \* what the command has told the user
    left,                            \* packets a self test has still to send
    payload, expected, looks, seen,  \* expect_receive: what for, is it to come, how often,
                                     \*   the frame looked at
    rpc,                             \* the receiver thread
    recv_pkt_buf, probe_pkt_buf,
    probe_reply_received, probe_receiver_shutdown,
    recv_sock_raw,                   \* the receiving socket: open, or not
    rx,                              \* frames that wait in it
    wire,                            \* frames on the way to the board
    board, counted, forwarded,       \* the board: configuration, packets judged, answers
    session,                         \* the commands still to come
    probes,                          \* probes sent
    late                             \* an answer was not waited for

probing == <<want, f, s, pr, verdict>>
testing == <<left, payload, expected, looks, seen>>
prompt == <<pc, cmd, probing, testing>>
buffers == <<recv_pkt_buf, probe_pkt_buf, probe_reply_received>>
ending == <<probe_receiver_shutdown, recv_sock_raw>>
net == <<rx, wire>>
fpga == <<board, counted, forwarded>>
history == <<session, probes, late>>
vars == <<editvars, prompt, rpc, buffers, ending, net, fpga, history>>

-------------------------------------------------------------------------------
(* Frames.  src tells what expect_receive and the receiver thread look at:    *)
(* the source address, for which the tool's own frames have a random one.     *)

Frame(src, cfg, n, id, pay) == [src |-> src, cfg |-> cfg, s |-> n, id |-> id, pay |-> pay]
Own(pay) == Frame("random", EmptyFilter, 0, 0, pay)
ZeroMemory == Frame("zero", EmptyFilter, 0, 0, << >>)

Whole(fr) == [head |-> fr, tail |-> fr]

\* What the parser sees in a buffer: the addresses are in the head, the rest is in
\* the tail.
Seen(b) == LET h == b.head.cfg  t == b.tail.cfg
           IN [BW |-> [x \in Sections |-> IF x = "dns" THEN t.BW[x] ELSE h.BW[x]],
               Length |-> [x \in Sections |-> IF x = "dns" THEN t.Length[x] ELSE h.Length[x]],
               List |-> h.List, dnsItemEndPtr |-> t.dnsItemEndPtr, dnsList |-> t.dnsList,
               replyType |-> t.replyType]

\* form_packet and trigger_send: to the board, and back through the raw socket.
Send(fr, pay) == /\ wire' = Append(wire, fr)
                 /\ rx' = IF recv_sock_raw THEN Append(rx, Own(pay)) ELSE rx

AdminFrame(c) == [to |-> "admin", cfg |-> c, id |-> 0, pkt |-> << >>]
ProbeFrame(n) == [to |-> "probe", cfg |-> EmptyFilter, id |-> n, pkt |-> << >>]
DataFrame(p) == [to |-> "other", cfg |-> EmptyFilter, id |-> 0, pkt |-> <<p>>]

Init == /\ EditInit
        /\ session \in Sessions
        /\ \/ pc = "prompt" /\ cmd = "none"
           \/ pc = "probe" /\ cmd = "launch"
        /\ want = EmptyFilter /\ f = DefaultFilter /\ s = 0 /\ pr = Whole(ZeroMemory)
        /\ verdict = "none"
        /\ left = 0 /\ payload = << >> /\ expected = FALSE /\ looks = 0 /\ seen = Whole(ZeroMemory)
        /\ rpc = "recv" /\ recv_pkt_buf = Whole(ZeroMemory) /\ probe_pkt_buf = Whole(ZeroMemory)
        /\ probe_reply_received = FALSE /\ probe_receiver_shutdown = FALSE
        /\ recv_sock_raw = TRUE
        /\ rx = << >> /\ wire = << >>
        /\ board \in BoardFilters /\ counted = 0 /\ forwarded = {}
        /\ probes = 0 /\ late = FALSE

-------------------------------------------------------------------------------
(* The prompt's thread.                                                       *)

\* readline, execute.
Prompt(kind) == /\ pc = "prompt" /\ session # << >>
                /\ Head(session) = kind /\ session' = Tail(session)

EditCommand == /\ Prompt("edit") /\ Edit
               /\ UNCHANGED <<prompt, rpc, buffers, ending, net, fpga, probes, late>>

\* com_admin_probe and com_stats_probe.
ProbeCommand == /\ Prompt("probe")
                /\ pc' = "probe" /\ cmd' = "probe"
                /\ UNCHANGED <<editvars, probing, testing, rpc, buffers, ending, net, fpga,
                               probes, late>>

\* Write the scratch file, read it back and send it.
SendConfig(c) == /\ file' = [file EXCEPT ![Scratch] = c]
                 /\ want' = c /\ Send(AdminFrame(c), << >>)
                 /\ UNCHANGED <<f_curr, f, s, pr, verdict, payload, expected, looks, seen, rpc,
                                buffers, ending, fpga, probes, late>>

ApplyCommand == /\ Prompt("apply") /\ SendConfig(f_curr)
                /\ pc' = "probe" /\ cmd' = "apply"
                /\ UNCHANGED left

\* A self test uses a configuration of its own, and the scratch file.
TestCommand == /\ Prompt("test") /\ \E c \in TestFilters : SendConfig(c)
               /\ pc' = "probe" /\ cmd' = "test"
               /\ left' = MaxTestPkts

probe_fpga == /\ pc = "probe" /\ pc' = "wait"
              /\ probe_reply_received' = FALSE
              /\ Send(ProbeFrame(probes + 1), << >>) /\ probes' = probes + 1
              /\ pr' = Whole(ZeroMemory)
              /\ UNCHANGED <<editvars, cmd, want, f, s, verdict, testing, rpc, recv_pkt_buf,
                             probe_pkt_buf, ending, fpga, session, late>>

\* Mutant: any answer counts as the confirmation.
Return_Unseen(c) == /\ f' = c
                    /\ pc' = IF cmd = "test" /\ c = want THEN "data" ELSE "prompt"
                    /\ verdict' = IF cmd = "apply" THEN "successful" ELSE "none"
                    /\ f_curr' = IF cmd = "launch" THEN c ELSE f_curr
                    /\ cmd' = IF cmd = "test" /\ c = want THEN cmd ELSE "none"

\* probe_fpga_update_local and, back in the command (main at launch, apply, or a
\* self test), check_fpga_filter_matches; the padding of filter_t is always zero.
Return(c) == /\ f' = c
             /\ pc' = IF cmd = "test" /\ c = want THEN "data" ELSE "prompt"
             /\ verdict' = IF cmd = "apply" THEN IF c = want THEN "successful" ELSE "failed"
                                            ELSE "none"
             /\ f_curr' = IF cmd = "launch" THEN c ELSE f_curr
             /\ cmd' = IF cmd = "test" /\ c = want THEN cmd ELSE "none"

\* No answer is on its way, or being received.
NothingPending == /\ \A n \in DOMAIN wire : wire[n].to # "probe"
                  /\ \A n \in DOMAIN rx : rx[n].src # "query"
                  /\ rpc # "recv" => recv_pkt_buf.head.src # "query"

\* probe_reply_recv: the time is over.  The answer is {}.
TimeOut == /\ pc = "wait" /\ ~probe_reply_received
           /\ Return(EmptyFilter) /\ s' = 0
           /\ late' = (late \/ ~NothingPending)
           /\ UNCHANGED <<file, want, pr, testing, rpc, buffers, ending, net, fpga, session, probes>>

\* parse_probe_pkt reads the addresses, ...
ParseHead == /\ pc = "wait" /\ probe_reply_received
             /\ pr' = [pr EXCEPT !.head = probe_pkt_buf.head]
             /\ pc' = "parse"
             /\ UNCHANGED <<editvars, cmd, want, f, s, verdict, testing, rpc, buffers, ending, net,
                            fpga, history>>

\* ... then the rest.
ParseTail == /\ pc = "parse"
             /\ LET b == [pr EXCEPT !.tail = probe_pkt_buf.tail]
                IN pr' = b /\ Return(Seen(b)) /\ s' = b.tail.s
             /\ UNCHANGED <<file, want, testing, rpc, buffers, ending, net, fpga, history>>

-------------------------------------------------------------------------------
(* The packets of a self test: any, the same one again included.              *)

Passes(c, p) == \A x \in Sections : Accepts(c, p, x)
Answer(c, p) == IF c.replyType = 0 THEN p.dnsPkt ELSE DNSHeader(p)

TestPacket(p) == /\ pc = "data" /\ left > 0
                 /\ Send(DataFrame(p), p.dnsPkt)
                 /\ payload' = Answer(want, p) /\ expected' = Passes(want, p)
                 /\ left' = left - 1 /\ looks' = 0 /\ seen' = Whole(ZeroMemory)
                 /\ pc' = "look" /\ verdict' = "none"
                 /\ UNCHANGED <<editvars, cmd, want, f, s, pr, rpc, buffers, ending, fpga, session,
                                probes, late>>

\* The test fails at the first packet that does not have the fate it expects, and
\* is over after the last.
Fate(received) == /\ verdict' = IF received THEN "received" ELSE "blocked"
                  /\ pc' = IF received = expected /\ left > 0 THEN "data" ELSE "prompt"
                  /\ cmd' = IF received = expected /\ left > 0 THEN cmd ELSE "none"

Miss == /\ looks' = looks + 1
        /\ IF looks + 1 = MaxLooks THEN Fate(FALSE)
                                   ELSE pc' = "look" /\ UNCHANGED <<cmd, verdict>>

\* Mutant: a frame with the payload is enough, wherever it comes from.
LookHead_AnySource == /\ pc = "look"
                      /\ seen' = [seen EXCEPT !.head = recv_pkt_buf.head]
                      /\ pc' = "look2" /\ UNCHANGED <<cmd, verdict, looks>>
                      /\ UNCHANGED <<editvars, want, f, s, pr, left, payload, expected, rpc, buffers,
                                     ending, net, fpga, history>>

\* expect_receive: the source address is compared first, ...
LookHead == /\ pc = "look"
            /\ seen' = [seen EXCEPT !.head = recv_pkt_buf.head]
            /\ IF recv_pkt_buf.head.src = "normal"
               THEN pc' = "look2" /\ UNCHANGED <<cmd, verdict, looks>>
               ELSE Miss
            /\ UNCHANGED <<editvars, want, f, s, pr, left, payload, expected, rpc, buffers, ending,
                           net, fpga, history>>

\* ... then the length and the payload.
LookTail == /\ pc = "look2"
            /\ seen' = [seen EXCEPT !.tail = recv_pkt_buf.tail]
            /\ IF recv_pkt_buf.tail.pay = payload
               THEN Fate(TRUE) /\ UNCHANGED looks
               ELSE Miss
            /\ UNCHANGED <<editvars, want, f, s, pr, left, payload, expected, rpc, buffers, ending,
                           net, fpga, history>>

-------------------------------------------------------------------------------
(* quit, or the end of the input.                                            *)

QuitCommand == /\ Prompt("quit")
               /\ pc' = "teardown" /\ cmd' = "quit"
               /\ UNCHANGED <<editvars, probing, testing, rpc, buffers, ending, net, fpga,
                              probes, late>>

\* A raw socket is not shut down, and to close it does not wake a thread in recvfrom.
CloseSocket == /\ pc = "teardown" /\ pc' = "flag"
               /\ recv_sock_raw' = FALSE
               /\ UNCHANGED <<editvars, cmd, probing, testing, rpc, buffers, probe_receiver_shutdown,
                              net, fpga, history>>

RaiseShutdown == /\ pc = "flag" /\ pc' = "join"
                 /\ probe_receiver_shutdown' = TRUE
                 /\ UNCHANGED <<editvars, cmd, probing, testing, rpc, buffers, recv_sock_raw,
                                net, fpga, history>>

Join == /\ pc = "join" /\ rpc = "ended" /\ pc' = "exited"
        /\ UNCHANGED <<editvars, cmd, probing, testing, rpc, buffers, ending, net, fpga, history>>

-------------------------------------------------------------------------------
(* The receiver thread: probe_receiver_daemon.                               *)

Again == rpc' = IF probe_receiver_shutdown THEN "ended" ELSE "recv"

\* trigger_recv: recvfrom copies a frame into the buffer, ...
RecvHead == /\ rpc = "recv" /\ rx # << >>
            /\ recv_pkt_buf' = [recv_pkt_buf EXCEPT !.head = Head(rx)]
            /\ rpc' = "fill"
            /\ UNCHANGED <<editvars, prompt, probe_pkt_buf, probe_reply_received, ending, net, fpga,
                           history>>

\* ... and returns its length.
RecvTail == /\ rpc = "fill"
            /\ recv_pkt_buf' = [recv_pkt_buf EXCEPT !.tail = Head(rx)]
            /\ rx' = Tail(rx)
            /\ IF recv_pkt_buf.head.src = "query" THEN rpc' = "copy" ELSE Again
            /\ UNCHANGED <<editvars, prompt, probe_pkt_buf, probe_reply_received, ending, wire, fpga,
                           history>>

\* Mutant: recvfrom waits for as long as no frame comes.
RecvNothing_NoTimeout == /\ rpc = "recv" /\ rx # << >>
                         /\ Again
                         /\ UNCHANGED <<editvars, prompt, buffers, ending, net, fpga, history>>

\* The second of SO_RCVTIMEO is over, or the socket is closed: -1.
RecvNothing == /\ rpc = "recv" /\ (rx = << >> \/ ~recv_sock_raw)
               /\ Again
               /\ UNCHANGED <<editvars, prompt, buffers, ending, net, fpga, history>>

\* Mutant: the flag is raised before the copy.
CopyHead_FlagFirst == /\ rpc = "copy" /\ rpc' = "copy2"
                      /\ probe_pkt_buf' = [probe_pkt_buf EXCEPT !.head = recv_pkt_buf.head]
                      /\ probe_reply_received' = TRUE
                      /\ UNCHANGED <<editvars, prompt, recv_pkt_buf, ending, net, fpga, history>>

\* An answer to a probe is copied, ...
CopyHead == /\ rpc = "copy" /\ rpc' = "copy2"
            /\ probe_pkt_buf' = [probe_pkt_buf EXCEPT !.head = recv_pkt_buf.head]
            /\ UNCHANGED <<editvars, prompt, recv_pkt_buf, probe_reply_received, ending, net, fpga,
                           history>>

CopyTail == /\ rpc = "copy2" /\ rpc' = "raise"
            /\ probe_pkt_buf' = [probe_pkt_buf EXCEPT !.tail = recv_pkt_buf.tail]
            /\ UNCHANGED <<editvars, prompt, recv_pkt_buf, probe_reply_received, ending, net, fpga,
                           history>>

\* ... and announced.
RaiseFlag == /\ rpc = "raise" /\ Again
             /\ probe_reply_received' = TRUE
             /\ UNCHANGED <<editvars, prompt, recv_pkt_buf, probe_pkt_buf, ending, net, fpga, history>>

-------------------------------------------------------------------------------
(* The network and the board (external to the tool; PacketFilter is the      *)
(* board's specification).                                                   *)

Deliver(fr) == rx' = IF recv_sock_raw THEN Append(rx, fr) ELSE rx

Board == /\ wire # << >> /\ wire' = Tail(wire)
         /\ LET fr == Head(wire)
            IN \/ /\ fr.to = "admin" /\ board' = fr.cfg
                  /\ UNCHANGED <<rx, counted, forwarded>>
               \/ /\ fr.to = "probe" /\ Deliver(Frame("query", board, counted, fr.id, << >>))
                  /\ UNCHANGED fpga
               \/ /\ fr.to = "other" /\ counted' = counted + 1
                  /\ IF Passes(board, fr.pkt[1])
                     THEN /\ Deliver(Frame("normal", EmptyFilter, 0, 0, Answer(board, fr.pkt[1])))
                          /\ forwarded' = forwarded \cup {Answer(board, fr.pkt[1])}
                     ELSE UNCHANGED <<rx, forwarded>>
                  /\ UNCHANGED board
         /\ UNCHANGED <<editvars, prompt, rpc, buffers, ending, history>>

\* A frame is lost on its way to the board.
Lose == /\ wire # << >> /\ wire' = Tail(wire)
        /\ UNCHANGED <<editvars, prompt, rpc, buffers, ending, rx, fpga, history>>

-------------------------------------------------------------------------------

Command == EditCommand \/ ProbeCommand \/ ApplyCommand \/ TestCommand \/ QuitCommand

PromptStep == \/ probe_fpga \/ TimeOut \/ ParseHead \/ ParseTail
              \/ \E p \in Packets : TestPacket(p)
              \/ LookHead \/ LookTail
              \/ CloseSocket \/ RaiseShutdown \/ Join

ReceiverStep == \/ RecvHead \/ RecvTail \/ RecvNothing \/ CopyHead \/ CopyTail \/ RaiseFlag

Next == Command \/ PromptStep \/ ReceiverStep \/ Board \/ Lose

\* Both threads are scheduled; nothing is assumed of the user, the network and the
\* board.
Spec == Init /\ [][Next]_vars /\ WF_vars(PromptStep) /\ WF_vars(ReceiverStep)

-------------------------------------------------------------------------------

Answered == pr # Whole(ZeroMemory) /\ pc # "parse"

\* An answer that is taken is whole, and answers the probe that was sent for it,
\* as long as no answer came late.
OwnAnswer == Answered /\ ~late => pr.head.id = probes /\ pr.tail.id = probes

\* Then an answered probe after an apply tells what the board holds.
AnswerConfirms == pc = "prompt" /\ verdict = "successful" /\ Answered /\ ~late => board = want

\* expect_receive finds a payload only if the board sent it on, unless the frame
\* was replaced between its looks at the source and at the payload.
ReceivedWasSent == verdict = "received" /\ seen.head = seen.tail => payload \in forwarded

\* Every command comes to an end, whatever is lost, and quit ends both threads.
CommandsEnd == pc # "prompt" ~> pc \in {"prompt", "exited"}

\* admin-apply.hh: "successful! apply confirmed via probing FPGA".  Without an answer
\* the empty configuration is confirmed, ...
ConfirmedMeansApplied == pc = "prompt" /\ verdict = "successful" => board = want

\* ... and a late answer to an earlier probe confirms what the board held then.
ConfirmingAnswerIsNew == pc = "prompt" /\ verdict = "successful" /\ Answered => board = want

\* test.hh: "FPGA validation failed, block not successful." is said of a packet that
\* the board did block, when its own copy replaces an answer between the two looks.
BlockFailureIsReal == verdict = "received" /\ ~expected => payload \in forwarded

-------------------------------------------------------------------------------

BagOf(c, x) == LET is == {i \in Entries : i < c.Length[x]}
                   At(i) == IF x = "dns" THEN [j \in 0 .. c.dnsItemEndPtr[i] - 1 |-> c.dnsList[i][j]]
                                         ELSE c.List[x][i]
               IN [e \in {At(i) : i \in is} |-> Cardinality({i \in is : At(i) = e})]

TableOf(c) == [entries |-> [x \in Sections |-> BagOf(c, x)],
               white |-> [x \in Sections |-> c.BW[x] = 1],
               reply |-> c.replyType]

Text(q) == [j \in 0 .. Len(q) - 1 |-> q[j + 1]]

EntryOf(x) == IF x = "dns" THEN {Text(q) : q \in Texts} ELSE Addr

Table == INSTANCE FilterTable WITH
           Entry <- EntryOf,
           Initial <- TableOf(DefaultFilter),
           Tests <- {TableOf(c) : c \in TestFilters},
           entries <- TableOf(f_curr).entries,
           white <- TableOf(f_curr).white,
           reply <- TableOf(f_curr).reply,
           saved <- {TableOf(file[n]) : n \in {n \in Names : file[n] # Short}},
           asking <- cmd = "launch"

\* Edits change one entry of one table and leave every other entry, with its end
\* pointer, as it is; the prompt's other commands change f_curr never, except that
\* a launch may take over the board's.
ImplementsTable == Table!Spec
===============================================================================
