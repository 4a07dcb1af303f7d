------------------------------ MODULE AdminCodec ------------------------------
(***************************************************************************)
(* The bit formats of admin and probe packets: the writer of fpga-filter.hh *)
(* with its 64-bit buffer, the reader of fpga-prober.hh, and the fields of *)
(* the payload that i.vhd takes from an admin packet and puts into a probe *)
(* answer.                                                                 *)
(*                                                                         *)
(* Bits are symbols: <<g, fld, b>> is bit b of field fld of the g-th       *)
(* configuration.  The code moves bits and never looks at them, so a run   *)
(* with symbols is a run with every configuration.  A machine word is a    *)
(* function of 0 .. 63, a mask the set of its one bits, a field's value    *)
(* the sequence of its bits from the lowest.                               *)
(***************************************************************************)
EXTENDS Naturals, Sequences, FiniteSets, SequencesExt

CONSTANTS Zero, Clash   \* the bit 0; the OR of two bits neither of which is 0

VARIABLES
    g,                     \* the configuration being written, 1 or 2
    pc,                    \* the next call of write_admin_buf, 0 between packets
    admin_buf, admin_buf_bits_clean,
    admin_buf_data, admin_buf_data_ptr,
    admin_pkt,             \* the bits in the file
    stage,                 \* where the packet goes once it is written
    loaded,                \* what parse_admin_bin made of the file
    f,                     \* the board's configuration, as raw bits
    answer,                \* the payload of the board's probe answer
    probed                 \* what parse_probe_pkt made of it

writer == <<g, pc, admin_buf, admin_buf_bits_clean, admin_buf_data, admin_buf_data_ptr, admin_pkt>>
vars == <<writer, stage, loaded, f, answer, probed>>

-------------------------------------------------------------------------------
(* filter_t and stats_t, field by field.  A list is spelled in cells: bytes,  *)
(* or the two bytes of a port.                                                *)

Sections == {"srcMAC", "dstMAC", "srcIP", "dstIP", "srcPort", "dstPort", "dns"}
Ports == {"srcPort", "dstPort"}
Depth == 2

Cells == [srcMAC |-> 6, dstMAC |-> 6, srcIP |-> 4, dstIP |-> 4,
          srcPort |-> 1, dstPort |-> 1, dns |-> 16]

BW(x) == <<x, "BW", 0, 0>>
Length(x) == <<x, "Length", 0, 0>>
EndPtr(i) == <<"dns", "ItemEndPtr", i, 0>>
Cell(x, i, j) == <<x, "List", i, j>>
ReplyType == <<"replyType", "BW", 0, 0>>

ListFields(x) == {Cell(x, i, j) : i \in 0 .. Depth - 1, j \in 0 .. Cells[x] - 1}

FilterFields == {BW(x) : x \in Sections} \cup {Length(x) : x \in Sections}
                  \cup (UNION {ListFields(x) : x \in Sections})
                  \cup {EndPtr(i) : i \in 0 .. Depth - 1} \cup {ReplyType}

StatsNames == {"stc", "sfc", "smc", "sic", "spc"}
Stats == {<<x, "Counter", 0, 0>> : x \in StatsNames}

\* Whether a field is an entry of a list of ports.
IsPort(fld) == fld[1] \in Ports /\ fld[2] = "List"

Width(fld) == CASE fld[2] = "Counter"  -> 64
                [] fld[2] = "BW"       -> 1
                [] fld[2] = "Length"   -> 2
                [] IsPort(fld)         -> 16
                [] OTHER               -> 8

\* The value of a field of the c-th configuration.
Symbols(c, fld) == [b \in 1 .. Width(fld) |-> <<c, fld, b>>]

filter(c) == [fld \in FilterFields |-> Symbols(c, fld)]

NoFilter == [fld \in FilterFields |-> [b \in 1 .. Width(fld) |-> Zero]]

\* htons and ntohs on this machine.
htons(v) == SubSeq(v, 9, 16) \o SubSeq(v, 1, 8)

-------------------------------------------------------------------------------
(* 64-bit words.                                                             *)

WordBits == 0 .. 63

Word(v) == [p \in WordBits |-> IF p < Len(v) THEN v[p + 1] ELSE Zero]

Shl(w, n) == [p \in WordBits |-> IF p >= n THEN w[p - n] ELSE Zero]
Shr(w, n) == [p \in WordBits |-> IF p + n <= 63 THEN w[p + n] ELSE Zero]
And(w, mask) == [p \in WordBits |-> IF p \in mask THEN w[p] ELSE Zero]
Or(w, x) == [p \in WordBits |-> IF w[p] = Zero THEN x[p]
                                ELSE IF x[p] = Zero THEN w[p] ELSE Clash]

\* mask ^= (mask << s)
XorShifted(mask, s) == SymDiff(mask, {p \in WordBits : p >= s /\ p - s \in mask})

\* The body of the loop: blocks of s bits change places.
Exchange(t, s) ==
    LET mask == XorShifted(t.mask, s)
    IN [mask |-> mask, n |-> Or(And(Shr(t.n, s), mask), And(Shl(t.n, s), WordBits \ mask))]

\* Halves, quarters and so on down to neighbouring bits.
reverse_bits_64(n) ==
    LET loop[s \in {64, 32, 16, 8, 4, 2, 1}] ==
          IF s = 64 THEN [mask |-> WordBits, n |-> n] ELSE Exchange(loop[2 * s], s)
    IN loop[1].n

\* The product with 0x0202020202 holds five copies of the byte; 0x010884422010
\* keeps each bit in one of them, and the remainder by 1023 adds the ten-bit
\* digits of what is kept.
Copies == {1, 9, 17, 25, 33}
Kept == {4, 13, 17, 22, 26, 31, 35, 40}

reverse_bits_byte_64(n) ==
    [p \in WordBits |->
       LET d == CHOOSE d \in Kept : d % 10 = p % 8
           c == CHOOSE c \in Copies : d - c \in 0 .. 7
       IN n[8 * (p \div 8) + (d - c)]]

bswap_64(n) == [p \in WordBits |-> n[8 * (7 - (p \div 8)) + (p % 8)]]

-------------------------------------------------------------------------------
(* write_admin_buf and what it calls.                                        *)

\* The first n bytes of a word as they lie in memory and in the file.
Bytes(w, n) == [b \in 1 .. 8 * n |-> w[b - 1]]

write_admin_buf_item_and_hash(w, bytes_to_write) ==
    /\ admin_buf_data' = [q \in DOMAIN admin_buf_data |->
                            IF q - 8 * admin_buf_data_ptr \in 0 .. 8 * bytes_to_write - 1
                            THEN w[q - 8 * admin_buf_data_ptr] ELSE admin_buf_data[q]]
    /\ admin_buf_data_ptr' = admin_buf_data_ptr + bytes_to_write
    /\ admin_pkt' = admin_pkt \o Bytes(w, bytes_to_write)

\* bits = 0: write out what is left, in whole 32-bit words, and start afresh.
Close ==
    LET bytes_to_write == 4 * ((((64 - admin_buf_bits_clean) + 7) \div 8 + 3) \div 4)
    IN /\ write_admin_buf_item_and_hash(reverse_bits_byte_64(bswap_64(admin_buf)), bytes_to_write)
       /\ admin_buf_bits_clean' = 64
       /\ admin_buf' = Word(<< >>)

\* There is room in the buffer.
Fit(info, bits) ==
    /\ admin_buf_bits_clean >= bits
    /\ admin_buf' = Or(admin_buf, Shl(info, admin_buf_bits_clean - bits))
    /\ admin_buf_bits_clean' = admin_buf_bits_clean - bits
    /\ UNCHANGED <<admin_buf_data, admin_buf_data_ptr, admin_pkt>>

\* Mutant: the part that did not fit is left out of the next word.
Split_Cut(info, bits) ==
    LET bits_after_write == bits - admin_buf_bits_clean
    IN /\ admin_buf_bits_clean < bits
       /\ write_admin_buf_item_and_hash(
            reverse_bits_byte_64(bswap_64(Or(admin_buf, Shr(info, bits_after_write)))), 8)
       /\ admin_buf_bits_clean' = 64 - bits_after_write
       /\ admin_buf' = Shl(And(info, 0 .. bits_after_write - 2), 64 - bits_after_write)

\* The word is filled and written, the rest begins the next one.  The mask keeps
\* one bit too many, which the shift drops.  Shifts by 64 and beyond, undefined in
\* C++, happen on the zero words alone, and every outcome of them is zero.
Split(info, bits) ==
    LET bits_after_write == bits - admin_buf_bits_clean
    IN /\ admin_buf_bits_clean < bits
       /\ write_admin_buf_item_and_hash(
            reverse_bits_byte_64(bswap_64(Or(admin_buf, Shr(info, bits_after_write)))), 8)
       /\ admin_buf_bits_clean' = 64 - bits_after_write
       /\ admin_buf' = Shl(And(info, 0 .. bits_after_write), 64 - bits_after_write)

write_admin_buf(v) ==
    LET info == Shr(reverse_bits_64(Word(v)), 64 - Len(v))
    IN Fit(info, Len(v)) \/ Split(info, Len(v))

-------------------------------------------------------------------------------
(* write_to_admin_pkt as the list of its calls.                              *)

Call(v) == [op |-> "write", bits |-> v]
CloseCall == [op |-> "close", bits |-> << >>]
TagCall == [op |-> "tag", bits |-> << >>]

CellCalls(c, x) ==
    [n \in 1 .. Depth * Cells[x] |->
       LET v == filter(c)[Cell(x, (n - 1) \div Cells[x], (n - 1) % Cells[x])]
       IN Call(IF x \in Ports THEN htons(v) ELSE v)]

SectionCalls(c, x) ==
    <<Call(filter(c)[BW(x)]), Call(filter(c)[Length(x)])>>
      \o (IF x = "dns" THEN [n \in 1 .. Depth |-> Call(filter(c)[EndPtr(n - 1)])] ELSE << >>)
      \o CellCalls(c, x)

ZeroWord == [b \in 1 .. 64 |-> Zero]

write_to_admin_pkt(c) ==
    SectionCalls(c, "srcMAC") \o SectionCalls(c, "dstMAC")
      \o SectionCalls(c, "srcIP") \o SectionCalls(c, "dstIP")
      \o SectionCalls(c, "srcPort") \o SectionCalls(c, "dstPort")
      \o SectionCalls(c, "dns") \o <<Call(filter(c)[ReplyType]), CloseCall>>
      \o [n \in 1 .. 4 |-> Call(ZeroWord)] \o <<CloseCall>>
      \o <<TagCall, CloseCall>>

\* siphash of the first 120 bytes under the key both sides know (external here:
\* SipHash and SipHasher compare the two computations of it).
siphash(v) == [b \in 1 .. 64 |-> <<"siphash", v, b>>]

\* The two lists of calls, computed once.
Programs == <<write_to_admin_pkt(1), write_to_admin_pkt(2)>>

Init == /\ g = 2 /\ pc = 0
        /\ admin_buf = Word(<< >>) /\ admin_buf_bits_clean = 64
        /\ admin_buf_data = [q \in 0 .. 1023 |-> Zero] /\ admin_buf_data_ptr = 0
        /\ admin_pkt = << >> /\ stage = "idle"
        /\ loaded = NoFilter /\ f = NoFilter /\ answer = << >>
        /\ probed = [f |-> NoFilter, s |-> << >>]

\* fopen and the reset of the hashed copy; the buffer is left as the last packet
\* left it.
Open == /\ stage = "idle" /\ pc = 0
        /\ g' = 3 - g /\ pc' = 1 /\ admin_pkt' = << >>
        /\ admin_buf_data_ptr' = 0
        /\ admin_buf_data' = [q \in DOMAIN admin_buf_data |->
                                IF q < 960 THEN Zero ELSE admin_buf_data[q]]
        /\ UNCHANGED <<admin_buf, admin_buf_bits_clean, stage, loaded, f, answer, probed>>

\* One call of write_admin_buf; after the last the file is closed.
Write == /\ pc # 0
         /\ LET c == Programs[g][pc]
            IN CASE c.op = "close" -> Close
                 [] c.op = "write" -> write_admin_buf(c.bits)
                 [] c.op = "tag"   -> write_admin_buf(siphash([b \in 1 .. 960 |-> admin_buf_data[b - 1]]))
         /\ IF pc = Len(Programs[g]) THEN pc' = 0 /\ stage' = "written"
                                     ELSE pc' = pc + 1 /\ stage' = stage
         /\ UNCHANGED <<g, loaded, f, answer, probed>>

-------------------------------------------------------------------------------
(* Reading a packet back.                                                    *)

\* Byte i of a packet, and the bits of it in the mask.
PktByte(pkt, i, mask) == And(Word(SubSeq(pkt, 8 * i + 1, 8 * i + 8)), mask)

\* Bytes sb to eb of a packet from bit so of the first to bit eo - 1 of the last, those
\* between shifted into place.
Gathered(pkt, sb, so, eb, eo) ==
    LET buf[i \in sb .. eb] ==
          IF i = sb THEN Shr(PktByte(pkt, sb, so .. 7), so)
          ELSE Or(buf[i - 1], Shl(PktByte(pkt, i, IF i = eb THEN 0 .. eo - 1 ELSE 0 .. 7),
                                  (i - sb) * 8 - so))
    IN IF sb = eb THEN Shr(PktByte(pkt, sb, so .. eo - 1), so) ELSE buf[eb]

\* Mutant: the end of the field is taken exclusive.
extract_bits_from_arr_Exclusive(pkt, s, e) == Gathered(pkt, s \div 8, s % 8, e \div 8, e % 8)

\* Bits s to e of a packet.
extract_bits_from_arr(pkt, s, e) == Gathered(pkt, s \div 8, s % 8, e \div 8, (e % 8) + 1)

\* Where parse_admin_bin finds a section: its flag, its length, its list and the
\* distance of the list's items.
ParseAt == [srcMAC  |-> [bw |-> 0,   length |-> 1,   list |-> 3,   item |-> 48],
            dstMAC  |-> [bw |-> 99,  length |-> 100, list |-> 102, item |-> 48],
            srcIP   |-> [bw |-> 198, length |-> 199, list |-> 201, item |-> 32],
            dstIP   |-> [bw |-> 265, length |-> 266, list |-> 268, item |-> 32],
            srcPort |-> [bw |-> 332, length |-> 333, list |-> 335, item |-> 16],
            dstPort |-> [bw |-> 367, length |-> 368, list |-> 370, item |-> 16],
            dns     |-> [bw |-> 402, length |-> 403, list |-> 421, item |-> 128]]

ParseFrom(fld) ==
    CASE fld[2] = "BW"            -> IF fld = ReplyType THEN 677 ELSE ParseAt[fld[1]].bw
      [] fld[2] = "Length"        -> ParseAt[fld[1]].length
      [] fld[2] = "ItemEndPtr"    -> 405 + 8 * fld[3]
      [] fld[2] = "List"          -> ParseAt[fld[1]].list + ParseAt[fld[1]].item * fld[3] + 8 * fld[4]

\* A payload that is too short leaves the configuration as it is.
parse_admin_bin(payload, f_curr) ==
    IF Len(payload) < 8 * 85 THEN f_curr
    ELSE [fld \in FilterFields |->
            LET w == extract_bits_from_arr(payload, ParseFrom(fld), ParseFrom(fld) + Width(fld) - 1)
                v == [b \in 1 .. Width(fld) |-> w[b - 1]]
            IN IF IsPort(fld) THEN htons(v) ELSE v]

StatsFrom == [stc |-> 678, sfc |-> 742, smc |-> 806, sic |-> 870, spc |-> 934]

\* The headers are 42 bytes, but the sizes of three pointers are subtracted.
parse_probe_pkt(payload, length) ==
    IF length - 3 * 8 < 128 THEN [f |-> NoFilter, s |-> << >>]
    ELSE [f |-> parse_admin_bin(payload, NoFilter),
          s |-> [fld \in Stats |->
                   LET w == extract_bits_from_arr(payload, StatsFrom[fld[1]], StatsFrom[fld[1]] + 63)
                   IN [b \in 1 .. 64 |-> w[b - 1]]]]

\* admin load of the file.
Load == /\ stage = "written"
        /\ loaded' = parse_admin_bin(admin_pkt, loaded)
        /\ stage' = "loaded"
        /\ UNCHANGED <<writer, f, answer, probed>>

-------------------------------------------------------------------------------
(* The board.  dnsPkt bit n is the n-th bit of the payload on the wire.      *)

\* The low bits of the slices of i.vhd: flag, length and the two list entries.
SliceAt == [srcMAC  |-> [bw |-> 0,   length |-> 1,   list |-> <<3, 51>>],
            dstMAC  |-> [bw |-> 99,  length |-> 100, list |-> <<102, 150>>],
            srcIP   |-> [bw |-> 198, length |-> 199, list |-> <<201, 233>>],
            dstIP   |-> [bw |-> 265, length |-> 266, list |-> <<268, 300>>],
            srcPort |-> [bw |-> 332, length |-> 333, list |-> <<335, 351>>],
            dstPort |-> [bw |-> 367, length |-> 368, list |-> <<370, 386>>],
            dns     |-> [bw |-> 402, length |-> 403, list |-> <<421, 549>>]]

\* Mutant: the end pointers are taken for each other.
EndPtrAt_Swapped == <<413, 405>>

EndPtrAt == <<405, 413>>

\* Mutant: a counter overlaps the one before it.
CounterAt_Overlap == [stc |-> 678, sfc |-> 741, smc |-> 806, sic |-> 870, spc |-> 934]

CounterAt == [stc |-> 678, sfc |-> 742, smc |-> 806, sic |-> 870, spc |-> 934]

SliceFrom(fld) ==
    CASE fld[2] = "BW"            -> IF fld = ReplyType THEN 677 ELSE SliceAt[fld[1]].bw
      [] fld[2] = "Length"        -> SliceAt[fld[1]].length
      [] fld[2] = "ItemEndPtr"    -> EndPtrAt[fld[3] + 1]
      [] fld[2] = "Counter"       -> CounterAt[fld[1]]
      [] fld[2] = "List"          -> SliceAt[fld[1]].list[fld[3] + 1] + 8 * fld[4]

Slice(dnsPkt, low, width) == SubSeq(dnsPkt, low + 1, low + width)

\* HashAuth.
Authentic(dnsPkt) == Slice(dnsPkt, 960, 64) = siphash(Slice(dnsPkt, 0, 960))

\* The admin route: StartHash to UpdateReplyType.
UpdateFilter == /\ stage = "loaded"
                /\ f' = IF Authentic(admin_pkt)
                        THEN [fld \in FilterFields |-> Slice(admin_pkt, SliceFrom(fld), Width(fld))]
                        ELSE f
                /\ stage' = "applied"
                /\ UNCHANGED <<writer, loaded, answer, probed>>

\* The field a bit of a probe answer belongs to, if any.
AnswerField(n) == {fld \in FilterFields \cup Stats : n - SliceFrom(fld) \in 0 .. Width(fld) - 1}

\* The probe route: ReplyQueryHeader to ReplyQueryCountersSeg.  Bits of no field
\* stay as the probe held them.
ReplyQuery == /\ stage = "applied"
              /\ answer' = [b \in 1 .. 1024 |->
                              LET fld == CHOOSE fld \in AnswerField(b - 1) : TRUE
                              IN IF AnswerField(b - 1) = {} THEN <<"probe", b>>
                                 ELSE IF fld \in Stats THEN Symbols(g, fld)[b - SliceFrom(fld)]
                                 ELSE f[fld][b - SliceFrom(fld)]]
              /\ stage' = "answered"
              /\ UNCHANGED <<writer, loaded, f, probed>>

\* The answer reaches probe_fpga.
Probe == /\ stage = "answered"
         /\ probed' = parse_probe_pkt(answer, 42 + (Len(answer) \div 8))
         /\ stage' = "idle"
         /\ UNCHANGED <<writer, loaded, f, answer>>

Next == Open \/ Write \/ Load \/ UpdateFilter \/ ReplyQuery \/ Probe

Spec == Init /\ [][Next]_vars

-------------------------------------------------------------------------------

\* The bits that wait in the buffer, in the order they will be written.
Waiting == [b \in 1 .. 64 - admin_buf_bits_clean |-> admin_buf[64 - b]]

CallsOf(c) == Programs[c]
Sealed(v) == siphash(SubSeq(v, 1, 960))

Stream == INSTANCE AdminStream WITH
            Calls <- CallsOf, Tag <- Sealed,
            stream <- admin_pkt \o Waiting, file <- admin_pkt

\* Whatever the position in the buffer, also across a word and after an earlier
\* packet, a call of write_admin_buf adds exactly its bits to the stream.
ImplementsStream == Stream!Spec

\* A configuration that is saved and loaded is the configuration.
RoundTrip == stage \in {"loaded", "applied", "answered"} => loaded = filter(g)

\* The board accepts the packet and finds every field where the tool put it; a
\* port arrives in the byte order of the frames it is compared with.
BoardReadsFilter == stage \in {"applied", "answered"} =>
    \A fld \in FilterFields :
       f[fld] = IF IsPort(fld) THEN htons(filter(g)[fld]) ELSE filter(g)[fld]

\* The tool reads back from a probe what the board holds: the configuration that
\* was applied and the five counters.
ProbeReadsBoard == stage = "idle" /\ pc = 0 /\ answer # << >> =>
    /\ probed.f = filter(g)
    /\ \A fld \in Stats : probed.s[fld] = Symbols(g, fld)
===============================================================================
