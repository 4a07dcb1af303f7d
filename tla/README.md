# DNS anomaly filter on an FPGA: TLA+ models, model checks and proofs

The repository is a network filter for the Arty A7 board: Ethernet frames come
in on a 100 Mbit PHY, are compared with a configuration of seven black- or
whitelists, and are forwarded, answered or dropped. A command line tool on a
host changes the configuration with authenticated *admin* packets and reads it
back, with five packet counters, by *probe* packets.

Paths below are relative to
`src/hw/dns-anomaly-arty-a7/dns-anomaly-arty-a7.srcs/sources_1/` for VHDL and to
`src/sw/admin-cli/` for C++.

## 1. The system

```
 PHY rx clk          |            clk50                      |     PHY tx clk
 mac_rcv --> FIFO_rcv --> core input (i.vhd) --> core output --> FIFO_snd --> mac_snd
                     |        |   ^              (o.vhd)     |
                     |     siphasher                         |
                     host: admin-cli  (sender, receiver thread, commands)
```

| Component | State | Operations | Talks to |
|---|---|---|---|
| `mac_rcv.vhd` | nibble counter, state, record being filled | parse a frame, `Notify` | pulses `w_en` of the receive FIFO |
| `new/FIFO_receive.vhd`, `new/FIFO_send.vhd` | slots, write index, read index, next values | write on one clock, acknowledge on the other | shared signals across clock domains, no full flag |
| `i.vhd` | packet in work, configuration `f`, scan and copy counters, packet counters, LEDs | read, classify, probe answer, hash and update, seven scans, reply | FIFO head and acknowledge, hash start/ready, `snd_en` |
| `new/siphasher.vhd` | round state, four words | hash on `in_start`, pulse `out_ready` | the core |
| `new/o.vhd` | packet, checksum words | swap addresses, compute lengths and checksum, write | samples `snd_en`; pulses the send FIFO |
| `mac_snd.vhd`, `PCK_CRC32_D4.vhd` | nibble counter, CRC | take an entry, emit the frame | reads the send FIFO |
| `main.vhd`, `clock.vhd` | wiring, divided clock | - | - |
| `fpga-filter.hh`, `parse_*` of `fpga-prober.hh` | a global 64-bit packing buffer, a file | write an admin packet bit by bit, parse a file or a probe answer | files; the payloads `i.vhd` reads and writes |
| `commands/admin-edit*.hh`, load, save, show | configuration in edit, files | add, remove, set, load, save, show | the codec |
| `sender.hh`, `receiver.hh`, `probe_fpga`, apply, tests | packet buffers, flags, cached configuration and counters | probe with a timeout, apply and confirm, send and expect packets, teardown | raw socket; a receiver thread shares buffers with the prompt |
| `siphash-ref-impl/siphash.c` | four words | `siphash` | signs admin packets for the hash unit |
| `../eth-crc32-checker/crc32-checker.c` | CRC register, statics of `main` | check captured frames | judges what `mac_snd` sends |

What is hard here, and what makes each part correct:

* **FIFOs.** Two asynchronous clocks compare each other's indices; there is no
  full flag, so the indices may collide. Correct: a queue, with the losses of a
  collision and no others.
* **Core input.** About sixty states, some twenty counters reset in different
  states, a configuration copied over many cycles, handshakes by one-cycle
  pulses. Correct: as if each packet were handled at one instant, by one
  configuration.
* **Hash unit.** Its output register shows intermediate values and old tags; a
  round is cut into four cycles. Correct: it computes what `siphash.c` does, and
  the tag that is compared is the one of the packet in work.
* **Core output.** Pulses sampled only in one state; lengths and checksums at the
  edges of their ranges.
* **Ethernet receiver and sender.** Frames of any kind and length, cut off
  anywhere, into a record that is filled in place; counters that wrap. Correct:
  what is announced is what some frame spells, and what is sent spells the record.
* **Codec.** Fields of 1 to 64 bits across word and byte boundaries, a layout that
  is written down three times. Correct: reading inverts writing, on both sides.
* **Edit commands.** Lists of two entries, seven copies of each operation.
  Correct: a table, and a signed configuration the board can take.
* **Threads of the CLI.** No locks, a timeout whose result is used like an
  answer, answers that are not tied to probes. Correct: what the user is told
  about the board is true, and every command ends.

`PROJECT.json` lists the hazards line by line, with the properties that cover
them.

## 2. Modules

| Module | Models | Kind |
|---|---|---|
| `DropAllQueue` | what a FIFO promises | abstract specification |
| `Fifo` | `FIFO_receive.vhd`, `FIFO_send.vhd`, and the writer and reader sides of `mac_rcv`, `i.vhd`, `mac_snd` | component |
| `Common` | the records of `common.vhd`, and what can be in them | data |
| `Judgement` | the verdict on a packet and the answers, as functions | reference definitions |
| `PacketFilter` | what the core promises, one packet at a time | abstract specification |
| `CoreIn` | `i.vhd`, with its handshakes with the FIFO and `siphasher.vhd` | component |
| `SendData` | `snd_data_t`, and what the frame of an answer has to say | data, reference definitions |
| `CoreOut` | `o.vhd` | component |
| `Responder` | what the output side promises the core | abstract specification |
| `Core` | `CoreIn` and `CoreOut` as `main.vhd` connects them | composition |
| `EthFrame` | a UDP packet by the positions of its nibbles | reference definitions |
| `MacRcv`, `MacSnd` | `mac_rcv.vhd`, `mac_snd.vhd` | components |
| `EthCrc` | the check sequence in `mac_snd.vhd`, `PCK_CRC32_D4.vhd` and `crc32-checker.c` | component |
| `SipHash` | `siphash.c` | abstract specification |
| `SipHasher` | `siphasher.vhd` | component |
| `Word64` | `uint64_t` | data |
| `AdminStream` | what writing an admin packet promises | abstract specification |
| `AdminCodec` | `fpga-filter.hh`, the parsers of `fpga-prober.hh`, the bit slices of `i.vhd` | component |
| `FilterTable` | what editing a configuration promises | abstract specification |
| `AdminEdit` | the commands edit, load, save and show | component |
| `AdminCli` | `AdminEdit` with both threads, probe, apply, tests, quit, the network | composition |
| `FifoProofs`, `CoreInProofs`, `CoreProofs`, `MacProofs`, `EthCrcProofs`, `SipHasherProofs`, `AdminCodecProofs`, `AdminCliProofs` | - | theorems |
| `MCFifo`, `MCCoreIn`, `MCCore`, `MCIntegrity`, `MCAdmin` | - | instances for TLC |

### Fifo

A write is three steps, as in the code: `Notify` (the writer raises `w_en`),
`Capture` (`fifo_wnsl`: the slot is filled, the next index computed), `Publish`
(`fifo_wreg`: the index moves). A read clock cycle is one step, since the write
side never looks at the read side. `PublishCoincident` is the publication that
meets the reader's sampling edge: the bits of the index change one after the
other, and `buf_not_empty` can be seen although the final index equals
`r_index`. The reader is the state machine `i.vhd` and `mac_snd` have in common:
`Idle`, `Read` (latch the head, raise the acknowledge), then busy for any time.

`Waiting` reads the queue off the slots and the two indices. Its subtle part is
`Count`: equal indices mean *empty* for a reader in `Idle` and *full* for one
that was already in `Read` when they met.

Timing assumption: between two publications the read clock ticks at least once
(`ticked`). Frames are at least a preamble of sixteen nibbles apart and the
clocks are 25 and 50 MHz. `NoOverwrite` fails without it.

### CoreIn

One step is one cycle of `clk50`: `Clock` is the conjunction of the core's state
(`CoreCycle`), the hash unit (`Siphasher`), the core's copy of the hash
(`LatchHash`) and the FIFO's head (`FifoHead`), which all advance together on
the same clock. `Offer` is the arrival of a packet, between any two cycles.

The state `s.s` of the code is kept in two variables: `s` says what is done and
`k` to which of the seven sections; `CheckDstIP` is `s = "Check"`,
`k = "dstIP"`. The twelve states of two sections of equal shape thus share one
operator, and `FilterSrcMAC` .. `FilterDstPort`, `UpdateFilterSrcMAC` ..
`UpdateFilterDNS`, `ReplyQuerySrcMAC` .. `ReplyQueryDNS` are the actions for
each. The counters `fsmc` .. `fdnsc` are `fc[section]`, and `amc`, `aic`, `apc`,
`adc`, which pairs of sections share, are `ac`.

Abstractions of data:

* Bits are bytes where the code counts in steps of eight; an item's compare of
  32, 24, 16 or 8 bits is of 4, 3, 2 or 1 bytes.
* The 1024 payload bits are given as two independent views, `dnsPkt` for normal
  packets and `cfg` / `stats` / `mac` for admin and probe packets. A packet takes
  one route and each route uses one view, so this adds packets and removes none.
  The counter `spc` in a probe answer reaches into the bits of the tag; the
  answer's tag is therefore set to `NoTag`.
* SipHash is any function `Hash` into `Tag`; its rounds are a number of cycles in
  which the output register holds no tag. Nothing depends on collisions: an
  admin packet is authentic if its tag equals the hash of its configuration.
* The counters, 64 bits wide, are natural numbers: at one packet per 200 ns they
  wrap after more than a hundred thousand years.

What is assumed about packets (`Received` in `Common`): the payload is not
empty and the bytes behind it are zero, which is what `RecordSpelled` shows of
`mac_rcv`; and an authentic admin packet carries a configuration that fits the
lists and whose domains contain no zero byte, which `SignedSound` shows of every
configuration the tool can build, save, load back and sign. Outside the
assumption remain an admin packet signed by something other than the tool, and a
file the tool did not write that is long enough to be parsed. Packets that are
*not* authentic are unrestricted: run `core` includes a forged configuration with
a length of 3, which must never reach `f`.

### CoreOut and Core

`CoreOut` has one action per state of `o.vhd`. The process variables that
survive a cycle (`ipLengthbuf`, `udpLengthbuf` and the two address sums) are
variables of the model; `dnsLengthbuf` is not, since it equals `rd.dnsLength`
where it is used. `Core` steps both processors in every cycle (`Tick`); the
output processor sees `rd` and `snd_en` of the core as they were before the
clock edge. The core gets no signal back, so a second answer that came too early
would be lost without a trace.

A length in a received packet holds its nibbles in the order `mac_rcv` shifted
them in; `Spelled` gives the number that `o.vhd` writes from it. The lengths the
core sets itself are constants in that order, 201 for 156 and 130 for 40. An IP
address enters the checksum by the sum of its two words, `WordSum`, any function
with that range; `chksumbuf` is modelled with its lower half after the
complement, the only part that is used. A frame's fields are the numbers the
wire spells, so that they can be compared with each other.

`Responder` has three steps: an answer is handed over, its frame goes out,
or neither. What it means for a frame to answer a packet is `Answers` in
`SendData`: addresses and ports are swapped, the payload is the answer's, cut at
128 bytes, and the lengths say so. Two things are deliberately not in
`Answers`: a forwarded packet longer than 128 bytes, or with IP options, keeps
its original IP length (`LengthsAgree` is about packets that arrive whole), and
the checksum is right only if no second carry occurs and the length is below 256
(see `core_checksum`).

Answers are at least thirteen cycles apart (the step count `Ahead` in
`CoreProofs`), which also justifies the timing assumption of `Fifo` for the send
FIFO.

### MacRcv, MacSnd and EthFrame

One step is one nibble on the wire. `EthFrame` says, by positions, what a frame
with a UDP packet is (`IsUDP`, `Complete`) and what record it spells (`Record`);
the two machines are checked against it.

`MacRcv` has one action per state of `mac_rcv.vhd`; states that do nothing but
store, or pass over, a fixed number of nibbles share `StoreField` and `PassOver`,
which name the field. Counters have sixteen bits and wrap. The wire carries
*bursts*: whole frames, sound or not, or frames cut off, between which `E_RX_DV`
is low. `announced` keeps the records announced during a burst; it is a history
variable. The IP length is kept as the number the machine shifts together.
A burst has at most 16384 nibbles (`BurstAssumption`); the longest Ethernet frame
has less than a fifth of that. In a longer one the sixteen bit count could come
round, and a UDP length of 8, for which there is no payload, would be announced
after 16384 nibbles of it.

`MacSnd` walks through the fields by `Layout` (last count, step of the count,
next state), a table of the same constants as the code. The check sequence is
`EthCrc`'s matter; zeros stand for it here. The records it is given count their
payload alike in `udpLength` and in `dnsPktCnt` (`AnswerAssumption`), which is what
`LengthsAgree` shows of `o.vhd` for packets that arrive whole.

### EthCrc

The CRC is computed twice in this repository: by the sender, four bits at a time
with the equations of `PCK_CRC32_D4.vhd`, and by `crc32-checker.c`, bit by bit,
with reflections. Both are modelled on *symbolic* bits: a bit is a sum modulo 2
of terms, one for each bit of the frame. Two words that are equal symbolically are
equal for every frame, so one run of three bytes stands for all frames of three
bytes. One bit of the capture may be damaged. `main`'s variables `file_ret` and
`frame_sz` are static and set once, as in the code; `FramesMatch` therefore speaks of
the first file. `CrcAssumption` bounds frames by 255 bytes, beyond which the
checker's loop over a `uint8_t` does not end; `FlipAssumption` says that `NoFlip` is
not itself the number of a bit.

### SipHash, SipHasher, Word64

`SipHash` is `siphash` of `siphash.c`, with the arguments `append_auth_hash` gives
it, one SIPROUND per step. `SipHasher` is the unit of the board, one clock period
per step, a quarter of a round at a time, with inputs that may change at any
time. Both take addition, xor and rotation as constants, and nothing in the
refinement depends on them; the run gives them 64-bit words (`Word64`, four limbs,
since TLC's integers have 32 bits), messages of fifteen words and the board's
key. The refinement mapping finishes the round that was begun (`Finished`): after
the first quarter the abstract state is already that of the whole round. One of the messages
is the packet of the repository's own test bench `test_siphash_pkts.vhd`, whose tag
is known (`KnownAnswer`), so that both sides cannot be wrong alike.

### AdminCodec and AdminStream

The code moves bits and never looks at them, so bits are symbols here too:
`<<g, field, b>>` is bit `b` of a field of the `g`-th configuration, and a run with
symbols is a run with every configuration. Two configurations are written in
turn, because the packing buffer is global. `write_admin_buf` is modelled with its
mask, its shifts and its flush; a word is a function of 0 .. 63. `AdminStream` is
what it promises: each call adds exactly its bits to the stream. The reader's loop
over the bytes of a field is the recursive function in `Gathered`.

After that the packet goes the two ways it can: `Load` parses it as a file,
`UpdateFilter` takes the slices `i.vhd` takes, `ReplyQuery` puts them and the
counters into the probe answer, and `Probe` parses that. Only the positions of
the board's slices are in this module; how the board gets through them is `CoreIn`.

### AdminEdit and FilterTable

A text typed by the user is what the parser makes of it: well formed, too short,
or with a character that is not allowed, in which case the groups before it have
already been stored (more separators than the address has would be written behind the
local variable, `admin-edit.hh:57` and `:80`; no such text is modelled). A command that is refused prints a message and changes
nothing; it is not a step. `FilterTable` forgets the order of entries: each section
is a bag of at most two, and a removal, which moves the last entry into the gap,
takes out one element and leaves the others as they are, end pointers included.

### AdminCli

The prompt's thread (`pc`) and the receiver thread (`rpc`) share buffers and flags
without a lock. A frame is written into a buffer, and read from it, in two parts,
head and tail, with the other thread free to run in between. Steps that touch
nothing shared are merged with a neighbour. The raw socket also receives the
frames the tool itself sends. Frames are lost; the board answers in order, and
possibly after the tool has stopped waiting, which sets the history variable
`late`. Frames carry the number of the probe they answer as a history field the
code cannot see.

The board is external to this module: it behaves as `PacketFilter` says, one frame
at a time, which is what `ImplementsPacketFilter` shows of the core. A self test is
any sequence of a configuration of `TestFilters`, a confirmation and some packets
with `expect_receive` or `expect_block`; which ones a script chooses, and
whether it sends the same packet again, is left open.

## 3. Properties and runs

| Run | Instance | Distinct states | Checks |
|---|---|---|---|
| `fifo` | 4 slots, 2 records | 8 576 | `TypeOK`, `NoOverwrite`, `ImplementsQueue`, `SeenIsTaken` |
| `corein_verdicts` | about 200 boot configurations, one packet of some 25 | 80 218 | `ScanSound`, `ImplementsPacketFilter`, `PacketFinished` |
| `core` | up to 3 packets: updates signed and forged, probes, normal ones; full payloads | 40 766 | `TypeOK`, `HashFresh`, `TakenOnce`, `CountersNested`, `OutTypeOK`, `AnswerTaken`, `LengthsAgree`, `ImplementsPacketFilter`, `ImplementsResponder`, `PacketFinished`, `AnswerSent` |
| `integrity` | one of: receiver, sender, check sequence, hash unit | 17 783 | `RecordSpelled`, `FrameAnnounced`, `AnswerSpelled`, `FramesMatch`, `KnownAnswer`, `ImplementsSipHash`, `HashAnswers` |
| `admin_codec` | two symbolic configurations in turn | 318 | `RoundTrip`, `BoardReadsFilter`, `ProbeReadsBoard`, `ImplementsStream` |
| `admin_cli` | sessions of up to three commands | 79 306 | `SignedSound`, `AlwaysClean`, `ShownIsJudged`, `OwnAnswer`, `AnswerConfirms`, `ReceivedWasSent`, `CommandsEnd`, `ImplementsTable` |
| `fifo_collision` | as `fifo` | - | `CollisionDiscards` is violated |
| `core_checksum` | one packet between two addresses with large words | - | `ChecksumRight` is violated |
| `admin_confirm` | as `admin_cli` | - | `ConfirmedMeansApplied` is violated |
| `admin_late` | a probe, a self test, an apply | - | `ConfirmingAnswerIsNew` is violated |
| `admin_blocked` | as `admin_cli` | - | `BlockFailureIsReal` is violated |
| `admin_ports` | as `admin_cli` | - | `AddedIsMatched` is violated |

* `ImplementsQueue`: nothing is reordered, duplicated, torn or read before it is
  there; entries are lost only by a collision, all at once, and only if the
  reader has not yet committed to the head.
* `NoOverwrite`: the slot being filled is never one a committed reader will read.
* `SeenIsTaken`: an entry the reader can see is taken or lost to a collision.
* `ImplementsPacketFilter`: the core refines `PacketFilter`. An update takes
  effect at one instant although it is copied over many cycles, a probe answer
  is a snapshot, a packet is judged by one configuration and answered exactly
  when all seven sections accept it, the counters count exactly those decisions,
  and one packet gives at most one answer.
* `ScanSound`: what the scan's registers have established in every state, in
  terms of the reference judgement. In particular a match never involves the
  cleared bytes behind the payload, and no occurrence is skipped.
* `HashFresh`, `TakenOnce`: the two handshakes. `CountersNested`: what a probe
  reports. `PacketFinished`: whatever the packet and the configuration, the core
  comes back.
* `AnswerTaken`: the core's pulse always finds the output processor in `Idle`.
* `ImplementsResponder`: the two processors refine `Responder`; every answer
  becomes one frame that answers it, whatever the core does to `rd` meanwhile.
* `LengthsAgree`: IP length, UDP length and the number of bits sent agree, for
  forwarded packets, negative answers and probe answers alike.
* `AnswerSent`: an answer reaches the send FIFO.
* `RecordSpelled`: a record the receiver announces is spelled, field by field, by the
  nibbles after a start pattern of the burst, with zeros behind the payload, whatever
  frames, sound, rejected or cut off, came before it. It excepts UDP lengths of 8192 and more,
  for which the bit count wraps. The start pattern need not be the frame's own: a
  receiver that rejects a frame looks for one in the rest of it.
  `FrameAnnounced`: a whole UDP frame, its check sequence following, is announced as
  itself.
* `AnswerSpelled`: the sender's nibbles are a frame that spells the record, padded to
  Ethernet's least size with nothing cut off.
* `FramesMatch`: the checker accepts every frame the sender sends, and rejects it
  with any one bit damaged.
* `ImplementsSipHash`, `KnownAnswer`: the board's tag is the tool's.
  `HashAnswers`: a hash that was begun is announced.
* `ImplementsStream`: no bit is lost, moved or doubled, wherever in the packing
  buffer a field falls. `RoundTrip`, `BoardReadsFilter`, `ProbeReadsBoard`: the three
  places that know the layout agree.
* `SignedSound`, `AlwaysClean`: what the tool signs fits the board, and nothing of a
  removed entry stays behind (the board's answer is compared by `memcmp`).
* `ShownIsJudged`: what `show` announces of a section is what the board's judgement
  does with packets. `ImplementsTable`: edits change one entry, and nothing else
  changes the configuration in edit, except a load and the probe at launch.
* `OwnAnswer`, `AnswerConfirms`: as long as no answer comes late, a parsed answer is
  whole and is the answer to the probe that was sent, so that a confirmed apply is on
  the board. The condition is needed: nothing in an answer ties it to its probe, and
  a late answer is taken for that of a later probe (`admin_late`). Timeouts and late
  answers are therefore the subject of `admin_confirm` and `admin_late`, and what
  these invariants guard is the copying of an answer and its use.
* `ReceivedWasSent`: `expect_receive` reports only payloads the board forwarded,
  although the tool's own frames pass through the same buffer; excepted is a frame
  replaced between the two looks at it, which `admin_blocked` shows to matter. It
  says that the payload was forwarded, not when: a test that sends the same payload
  again (`test-dns.hh:360`) may find the answer to the earlier packet still there.
* `CommandsEnd`: every command ends whatever is lost, and quit stops both threads
  although the socket is closed under the receiver.

Each property of a passing run has a mutant in `PROJECT.json`: a plausible slip
in one action (a dropped reset, a swapped list type, a window one byte short, an
acknowledge that stays up) that breaks it.

### Bounds

* `Depth = 4`: an index that wraps, a full ring and a reader half way through an
  entry can all meet; two records tell entries apart. The theorems hold for
  every depth.
* `FilterDepth = 2` is the value in the code. `ItemBytes = 7` allows every
  compare width and every combination of a wide and a narrow one (4+3, 4+2,
  4+1); `PktBytes = 12` is the least that holds a DNS header and lets an item be
  shorter than, as long as and longer than the payload. Items and payloads use
  two letters and repeat them, so that a failed window overlaps a matching one.
* `core` uses `PktBytes = 128`, the value in the code, because the lengths the
  core sets are constants; its packets have payloads from one byte to a full
  record. The empty blacklists it boots with make the way through the core as
  short as it can be.
* `HashLatency = 3` leaves room for an intermediate value before the result.
* `MaxPkts` bounds the packets offered: one where every configuration is a boot
  configuration, three in `core`, enough for an update, a packet under the new
  configuration and a probe that arrive while the one before is in work. The bound is in the guard
  of `Offer`; the core itself never stops, so deadlock is checked.
* `integrity`: `RecordBytes = 20` (128 in the code) is the least that exceeds the 18
  bytes below which the sender pads; payloads have one byte, a record's and one more.
  `Cuts` breaks a burst off in the addresses, in the IP header and in the payload,
  and `MaxBursts = 2` follows it by another. `FrameBytes = 3` and symbolic bits:
  longer frames repeat the same step. `Blocks = 15` is the code's. The parts are
  independent and each stops at its bound, hence `CHECK_DEADLOCK FALSE`.
* `admin_cli`: four addresses, among them a pair of ports that differ in the order of
  their bytes; items of two bytes, so that a typed domain can be shorter, as long
  and too long; `Sessions` are the sequences of commands, up to three, that fill and
  empty a list or talk to the board twice; two test packets and two looks of `expect_receive`
  (ten and a thousand in the code), so that a frame can come before, between and
  after. A user may stop and the tool may have been quit, hence
  `CHECK_DEADLOCK FALSE`.

### Fairness

`CoreIn`, `Core`, `SipHasher`: weak fairness of `Clock` and `Tick` - the clock does
not stop. No fairness of `Offer`: packets need not come. `Fifo`: both clocks run,
and the reader finishes with every entry (`ReadDone`), which for the core is
`PacketFinished`. `AdminCli`: both threads are scheduled (`PromptStep`,
`ReceiverStep`); nothing is assumed of the user, the network and the board, and
the timeouts of the code (the counted loops of `probe_reply_recv` and
`expect_receive`, `SO_RCVTIMEO`) are steps of the threads.

### Disagreements with the report and within the code

* `src/docs/report/report.tex:693` has a collision "discard all eight packets left unprocessed
  within the FIFO"; a reader that has just left `Idle` takes the head, and the
  other seven remain (`fifo_collision`).
* `o.vhd:126` adds the carries of the IP checksum once, in sixteen bits, and loses
  the carry of that addition; `IPchecksum` in `fpga.hh:70` adds it again
  (`core_checksum`).
* `commands/admin-apply.hh:18` prints "successful! apply confirmed via probing
  FPGA" when the probe after an apply timed out and the configuration in edit is
  empty: `probe_fpga` returns `{}` for a timeout (`fpga-prober.hh:132`), and `{}`
  equals `{}`. The empty configuration is itself what a launch with `-p` adopts
  from a probe that timed out (`admin_confirm`).
* The same line is printed on an answer that is not new. Answers carry nothing that
  ties them to a probe, and a probe is waited for about a millisecond
  (`const.hh:10`). Two probes time out, one before and one after another
  configuration reached the board; the answer to the first is then taken for that
  of the probe after the apply (`admin_late`).
* `commands/test.hh:8` prints "FPGA validation failed, block not successful." of a
  packet that was blocked. `expect_receive` (`receiver.hh:125`) compares the source
  and then the payload, in the buffer the receiver thread is filling: it finds the
  source of the answer to the packet before, and the payload of the tool's own frame
  for this one (`admin_blocked`).
* `parse_port` stores a typed port with its bytes exchanged (`admin-edit.hh:102`),
  while the default configuration, the writer (`fpga-filter.hh:183`, `:105`) and the
  self tests keep ports in host order: a typed 53 is matched as 13568
  (`admin_ports`).

Two more are read off the states and have no run: `report.tex:714` has an accepted
admin packet "reset loggers and the system", and no state of `i.vhd` resets the
counters; `report.tex:710` bounds filtering by 120 cycles "with the largest
payload", and two sixteen byte domains over 128 bytes take 113 windows each, of at
least three cycles (`i.vhd:949`).

## 4. Proofs

TLAPS checks every theorem of the eight proof modules, for all values of the
constants that satisfy the named assumptions of the modules they are about:

* `Fifo`: a depth of at least 2.
* `Common`, `CoreIn`: lists of at least one entry; items no longer than a packet;
  packets as described by `Received`; any hash, any latency.
* `SendData`: 128 payload bytes, as in the code, and any address sums below 2^17.
* `EthFrame`, `MacRcv`, `MacSnd`: records of at least 18 bytes; bursts of any
  nibbles, up to 16384 of them; answers that count their payload alike in both
  fields.
* `SipHasher`: one compression and three finalisation rounds, as in the code; any
  number of blocks, any words, any operations on them.
* `AdminEdit`, `AdminCli`: lists of two entries, as in the code; texts without zero
  bytes; any addresses, file names, sessions and test packets; files that the tool
  wrote or that are too short to parse. The configurations
  the board is built with and those of the self tests are sound and clean
  (`ConfigAssumption`), which is what `i.vhd:203` and the tests write down.
* `EthCrc`: frames of 1 to 255 bytes with any content, any number of files.
* `AdminCodec`: nothing; which symbol stands for the bit 0 is left open.

**FifoProofs.** `Invariance` proves that the type invariant and `NoOverwrite`,
with the facts that tie them together, are inductive; `TypeCorrect` and
`NeverOverwrites` are its parts. `ImplementsDropAllQueue` shows that each step
maps to a step of `DropAllQueue` or a stutter: the work is in relating the
slots between two indices on a ring before and after one of them moves.

**CoreInProofs.** None of the core's invariants is inductive by itself. The
inductive invariant `IndInv` is the conjunction of

* `TypeOK`;
* `Flow`: where the packet in work comes from and which part of `Received` still
  holds of it - admin and probe states overwrite the views the others rely on -
  together with `TakenOnce`;
* `HashInv`: the five phases a hash goes through, from the start pulse to the
  cycle in which the copy agrees with the result. `HashFresh` is its last phase;
  the earlier ones exclude that an old ready pulse or an old value is taken;
* `CopyInv`: which sections, and which entries of the section in work, have been
  copied in an update or a probe answer. `TypeOK` needs it: the configuration in
  an update is sound because it is authentic;
* `CountInv`: the nesting of the counters with the slack the packet in work
  accounts for in each state;
* `ScanSound`.

`Invariance` proves `Spec => []IndInv` with a lemma per part and, under it, a
step per action; `TypeCorrect`, `HashIsFresh`, `PacketTakenOnce`,
`CountersAreNested` and `ScanIsSound` follow.

In the second half of the module `CoreIsFilter` proves `Spec => ImplementsPacketFilter`: every
cycle of the core is one of the steps `Accept`, `Admin`, `Query`, `Normal`, `Pass`,
`Fail`, `Answer`, `Withdraw` of `PacketFilter`, or none. It needs three facts on top
of `IndInv`, which theorem `Routes` establishes as `RouteInv`: the packet whose hash is
awaited is an admin packet and the one tried for a probe is not (`KindInv`); the part of
a probe answer already written is the board's configuration and counters
(`SnapshotInv`); and the header and lengths of a negative answer are set when it is
about to be sent (`AnswerInv`). States only overwrite what the answer replaces, so the
answer is that of the packet that was taken. That an update takes effect at one instant is
`AgreeEqual`: when the last section has been copied the configuration agrees with the
packet's everywhere, hence is equal to it.

**CoreProofs.** `CoreInvariance` proves `CoreSpec => []CoreInd`, where `CoreInd` is
`IndInv` with four parts about the output side:

* `OutTypeOK`;
* `Race`, the heart of it: `Ahead` bounds from below the cycles the core has spent
  since `Idle`, by state and section, and `Since` counts the cycles since the
  output processor took an answer. While it is busy, the core is not further
  ahead (`Ahead(s, k) <= Since(os)`); no action gains more than one cycle
  (`Arcs`), and `Send` is thirteen cycles ahead, seven the longest time the
  output processor is busy. So a pulse finds it idle;
* `Sizes`: the lengths of the packet in work and of the answer, through every
  state that sets them;
* `Assembly`: which fields of the frame are final at which stage.

`AnswerIsTaken`, `OutTypeCorrect` and `LengthsAlwaysAgree` follow, and
`CoreImplementsResponder` maps each cycle to a step of `Responder` or a stutter.

**MacProofs.** The sender: `Wire(a, p)` gives the nibble of the frame of record `a` at
position `p`. The inductive invariant `SndInd` says that state and count determine the
position (`Placed`) and that what was sent are the nibbles of `Wire` up to it
(`Spells`); `SentIsSpelled` is `AnswerSpelled` for every record.

The receiver: a record is filled in place, and the machine forgets where its frame
began. `RcvInd` finds that again: unless the receiver is looking for a start pattern,
there is a position `o` behind such a pattern that it is following (`Track(o)`).
`Place` computes from state and count how many nibbles were heard since `o`, and
`Heard` says that record and counters hold what those nibbles spell. Each handler has
a lemma: it hears the next nibble, or gives up because that nibble is wrong at its
place. `EndBit` shows that the bit count, although it wraps, is met with the last nibble
of the payload; `RecordAt` that a record that is complete is `Record` of the
nibbles. A sound frame is wrong nowhere, so the receiver follows it from its first
nibble to the last (`Followed`). `ReceivedIsSpelled` and `SoundIsAnnounced` are
`RecordSpelled` and `FrameAnnounced` for every sequence of bursts.

**EthCrcProofs.** `FramesAreMatched` is `FramesMatch` for frames of every length up to
255. A word is known by which bits have which terms (`In`). The four `cm_bit` steps
that the checker makes for half a byte are shown to be the equations of
`PCK_CRC32_D4` on the reflected word, once for each of the 32 bits; so registers that
agree before a byte agree after it, and those that differ in one bit of one term go on
differing, because the step can be undone. The induction over the frame is carried by
the invariant instead: `CrcInd` says that *some* history `R` of registers leads from the
initial one to the sender's (`Registers`), and each byte the sender finishes adds one
element. The checker's register is then the element of its own index, until the damaged
bit has been read.

**SipHasherProofs.** `SipInd` is the type invariant with `RoundInv`: no loop runs over its
bound, each is left in its last round, and finalisation follows the last block.
`UnitImplementsSipHash` shows that each clock period is a SIPROUND of `siphash.c` or a
stutter. Quarter rounds are related to whole ones by what is left to do:
`Finished` completes the round in work, so the first quarter is the abstract step and
the other three leave `Finished` as it is.

**AdminCodecProofs.** Four results about pure functions come first. `ReverseBits`: the
halving loop of `reverse_bits_64` reverses a word; `InMemory`: with `bswap_64` and the
multiplication trick of `reverse_bits_byte_64` the word's highest bit is the first in the
file. `WriteAppends`: a call of `write_admin_buf` with any 1 to 64 bits, at any place of
the buffer, appends these bits to what was written, also when they cross into the next
word. It rests on `Buffer`: the part of the word that is clean is zero, or the OR of the
next call would mix bits, and the hashed copy holds what the file holds.
`ExtractReads`: `extract_bits_from_arr` returns the bits asked for, from any position of
a packet of any length.

`WriterInvariance` adds where each of the 101 calls begins (`Pos`), so that the closes
fall where they do and the tag covers 960 bits; `CodecImplementsStream` follows: every
call is one step of `AdminStream`, for the second packet as for the first.
`CodecInvariance` proves `CodecInd`: the calls made so far lie in the stream where `Pos`
says (`Held`), a finished packet carries each field and a tag over what precedes it, and
what the tool and the board have read is the configuration. `FieldFacts` shows that
the calls, the parser's table and the slices of `i.vhd` place each field alike, and
`AnswerOwner` that no two of the fields and counters overlap in an answer. `SavedIsLoaded`,
`BoardGetsFilter` and `ProbeIsRead` are the run's three invariants.

**AdminCliProofs.** `EditInvariance`: the configuration in edit and that of every file
are always good (`GoodFilter`: they fit the board's lists, and entries not in use are
zero). The invariant has to speak of the files as well, since a load makes one
of them the configuration in edit.

`CliInvariance` proves `CliInd`, which is `EditInd` with

* `Types`: what the buffers and the frames under way are made of, and that the board
  and an apply hold good configurations;
* `Receiver`: what the two buffers hold at each state of the receiver;
* `Looked`: normal frames in the socket and in the buffers were forwarded by the
  board, and what `expect_receive` has seen of them;
* and, as long as no answer was late, `OnePlace` (an answer is in one place only - the
  network, a buffer or the parser - and only while the prompt waits for it), `Ids`
  (that answer is to the last probe sent) and `Confirms` (no configuration follows a
  probe, so the answer shows the board as the apply left it).

The last three are false as soon as an answer comes late: it stays in a buffer or
on the wire while the next probe is sent. `SignedIsSound`, `EditIsClean`, `ShowIsTrue`,
`TakenIsOwn`, `SuccessConfirms` and `ReceivedIsSent` follow.

`CliImplementsTable` maps every step of the tool, the network and the board to a step
of `FilterTable` or a stutter. The bag of a list of at most two entries is computed case by
case: adding puts one copy of the entry in, removing moves the last entry into the gap and
takes one copy out. `EditInd` is needed, since a list whose length exceeded two would not be a
bag of its entries. The return of a probe is `Adopt` at launch and a stutter
otherwise, by `Launching`; applies and self tests write a file and leave the edit alone.

**Model-checked only.**

* `SeenIsTaken`, `PacketFinished`, `AnswerSent`, `HashAnswers` and `CommandsEnd` are
  liveness under fairness, which is outside the prover's reach.
* `KnownAnswer` is one computation on 64-bit words; `Word64` uses `Bitwise`, which the
  theorem modules must not reach. `SipHasher` and `SipHash` do not, and take their
  words as constants.

## 5. Not modelled, and the plan

Not modelled, and why:

* the clock divider: a register that toggles; the models take the clocks as given.
  Metastability is represented only by `PublishCoincident`;
* the board as one composition with its FIFOs and MACs: the parts are checked
  against each other's promises (`RecordSpelled` is `Received`'s first half, `Fifo`
  refines the queue the core reads, `AnswerSpelled` reads what `Answers` describes),
  and their product is out of TLC's reach;
* the shell's line editing, completion, help, history and printing: pure I/O;
* which configurations and packets the self test scripts choose: `AdminCli` takes
  any;
* errors of `fopen`, `calloc`, `sendto` and of setting up sockets: the code prints
  them and goes on or exits;
* `siphash`'s sixteen byte output and left-over bytes: the tool never uses them;
* the `siphash-checker` main, the prototype tools under `src/sw/` (each a straight
  line from arguments to a packet or a print; their code lives on in `admin-cli`),
  the simulation test benches and the deprecated Spartan-3E tree.

Every invariant and every refinement that a passing run checks is also a theorem, but
for `KnownAnswer`. What is left is liveness, which TLC checks on the instances above.
