--------------------------------- MODULE Fifo ---------------------------------
(***************************************************************************)
(* The dual-clock packet FIFO (FIFO_receive.vhd; FIFO_send.vhd is the same *)
(* entity over snd_data_t) between a writer that pulses w_en for one write *)
(* clock cycle and a reader with the Idle / Read / ... state machine that  *)
(* i.vhd and mac_snd.vhd share.                                            *)
(*                                                                         *)
(* A write is three edges of wclk: the writer raises w_en (rising), the    *)
(* FIFO fills the slot (next rising), the write index is published (next   *)
(* falling).  The writer never looks at the reader's registers, so both    *)
(* edges of a read clock cycle are one step.  The two clocks are           *)
(* asynchronous: steps interleave freely, and a publication may coincide   *)
(* with the reader's sampling edge (PublishCoincident).                    *)
(***************************************************************************)
EXTENDS Naturals, Sequences

CONSTANTS
    Depth,  \* g_depth
    Data,   \* the packet records carried
    Blank   \* the record of zeros every slot is initialised with

ASSUME DepthAssumption == Depth \in Nat /\ Depth >= 2
ASSUME BlankAssumption == Blank \in Data

VARIABLES
    w_en, w_data,        \* the writer's outputs
    buf,                 \* the slots
    w_index, win_index,  \* write index and its next value
    r_index,             \* read index
    rs,                  \* the reader: "Idle", "Read", or "Busy" with an entry
    r_en,                \* the reader's acknowledge pulse
    rd,                  \* the entry the reader latched
    ticked               \* a read clock cycle has passed since the last publication

vars == <<w_en, w_data, buf, w_index, win_index, r_index, rs, r_en, rd, ticked>>
writer == <<w_en, w_data, buf, w_index, win_index>>

Slots == 0 .. (Depth - 1)

TypeOK == /\ w_en \in BOOLEAN /\ w_data \in Data
          /\ buf \in [Slots -> Data]
          /\ w_index \in Slots /\ win_index \in Slots /\ r_index \in Slots
          /\ rs \in {"Idle", "Read", "Busy"}
          /\ r_en \in BOOLEAN
          /\ rd \in Data
          /\ ticked \in BOOLEAN

Init == /\ w_en = FALSE /\ w_data = Blank
        /\ buf = [i \in Slots |-> Blank]
        /\ w_index = 0 /\ win_index = 0 /\ r_index = 0
        /\ rs = "Idle" /\ r_en = FALSE /\ rd = Blank
        /\ ticked = FALSE

\* Mutant: the index register is not wrapped at g_depth - 1.
Inc_NoWrap(i) == i + 1

Inc(i) == IF i = Depth - 1 THEN 0 ELSE i + 1

buf_not_empty == w_index # r_index

-------------------------------------------------------------------------------
(* The write clock domain.                                                   *)

\* Mutant: entries may follow each other faster than the reader's clock.
Notify_TooFast(d) == /\ ~w_en /\ win_index = w_index
                     /\ w_en' = TRUE /\ w_data' = d
                     /\ UNCHANGED <<buf, w_index, win_index, r_index, rs, r_en, rd, ticked>>

\* The writer raises w_en.  Two frames are at least a preamble apart, so the
\* read clock has ticked since the previous entry was published: the only
\* timing assumption of this module.
Notify(d) == /\ ~w_en /\ win_index = w_index
             /\ ticked
             /\ w_en' = TRUE /\ w_data' = d
             /\ UNCHANGED <<buf, w_index, win_index, r_index, rs, r_en, rd, ticked>>

\* fifo_wnsl: the slot is filled before the index that shows it moves.
Capture == /\ w_en
           /\ buf' = [buf EXCEPT ![w_index] = w_data]
           /\ win_index' = Inc(w_index)
           /\ w_en' = FALSE
           /\ UNCHANGED <<w_data, w_index, r_index, rs, r_en, rd, ticked>>

\* fifo_wreg
Publish == /\ win_index # w_index
           /\ w_index' = win_index
           /\ ticked' = FALSE
           /\ UNCHANGED <<w_en, w_data, buf, win_index, r_index, rs, r_en, rd>>

-------------------------------------------------------------------------------
(* The read clock domain.                                                    *)

\* Mutant: the emptiness test forgets that the write index wraps.
ReadIdle_NoWrap == /\ rs = "Idle"
                   /\ rs' = IF w_index > r_index THEN "Read" ELSE "Idle"
                   /\ ticked' = TRUE
                   /\ UNCHANGED <<writer, r_index, r_en, rd>>

ReadIdle == /\ rs = "Idle"
            /\ rs' = IF buf_not_empty THEN "Read" ELSE "Idle"
            /\ ticked' = TRUE
            /\ UNCHANGED <<writer, r_index, r_en, rd>>

\* Mutant: the head is latched without an acknowledge.
ReadHead_NoAck == /\ rs = "Read"
                  /\ rd' = buf[r_index]
                  /\ rs' = "Busy"
                  /\ ticked' = TRUE
                  /\ UNCHANGED <<writer, r_index, r_en>>

ReadHead == /\ rs = "Read"
            /\ rd' = buf[r_index]
            /\ r_en' = TRUE
            /\ rs' = "Busy"
            /\ ticked' = TRUE
            /\ UNCHANGED <<writer, r_index>>

\* fifo_rnsl, fifo_rreg: the cycle after the acknowledge moves the read index.
Advance == /\ r_index' = IF r_en THEN Inc(r_index) ELSE r_index
           /\ r_en' = FALSE
           /\ ticked' = TRUE
           /\ UNCHANGED <<writer, rd>>

ReadBusy == rs = "Busy" /\ Advance /\ UNCHANGED rs

ReadDone == rs = "Busy" /\ Advance /\ rs' = "Idle"

\* The index bits change while the reader samples buf_not_empty: the sample may
\* say "not empty" although the new index equals r_index.
PublishCoincident == /\ rs = "Idle"
                     /\ win_index # w_index
                     /\ w_index' = win_index
                     /\ rs' = "Read"
                     /\ ticked' = FALSE
                     /\ UNCHANGED <<w_en, w_data, buf, win_index, r_index, r_en, rd>>

Next == \/ \E d \in Data : Notify(d)
        \/ Capture
        \/ Publish
        \/ PublishCoincident
        \/ ReadIdle
        \/ ReadHead
        \/ ReadBusy
        \/ ReadDone

\* The write clock runs, the read clock runs, and the reader finishes with
\* every entry.
Fairness == /\ WF_vars(Capture) /\ WF_vars(Publish)
            /\ WF_vars(ReadIdle) /\ WF_vars(ReadHead) /\ WF_vars(ReadDone)

Spec == Init /\ [][Next]_vars /\ Fairness

-------------------------------------------------------------------------------
(* The queue this FIFO implements.                                           *)

\* The reader is past buf_not_empty and its next cycle takes the head.
Committed == rs = "Read"

\* An acknowledged entry no longer counts, although r_index moves a cycle later.
HeadIndex == IF r_en THEN Inc(r_index) ELSE r_index

\* Equal indices mean empty, unless the reader committed before they met.
Count == IF w_index = HeadIndex THEN (IF Committed THEN Depth ELSE 0)
         ELSE IF w_index > HeadIndex THEN w_index - HeadIndex
         ELSE w_index + Depth - HeadIndex

Slot(i) == IF HeadIndex + i < Depth THEN HeadIndex + i ELSE HeadIndex + i - Depth

Waiting == [i \in 1 .. Count |-> buf[Slot(i - 1)]]

Queue == INSTANCE DropAllQueue WITH q <- Waiting, committed <- Committed, taken <- rd

\* Whatever the phase of the two clocks, the FIFO is the queue of DropAllQueue:
\* no entry is reordered, duplicated, torn or read before it is filled, and
\* entries are lost only by a collision the reader has not committed against.
ImplementsQueue == Queue!Spec

\* A full ring exists only until the committed reader's next cycle, and no write
\* is under way then: the slot being filled is never one the reader will read.
NoOverwrite == (w_en \/ win_index # w_index) => Count < Depth

\* buf_not_empty is never missed for good: an entry the reader can see is taken,
\* or a collision removes it (the index register comes back to r_index).
SeenIsTaken == buf_not_empty ~> (rs = "Read" \/ ~buf_not_empty)

\* report.tex, section on the FIFOs: when the index pointers collide, all the
\* packets left unprocessed in the FIFO are discarded.
CollisionDiscards == [][w_index' # w_index /\ w_index' = r_index /\ ~r_en => rs' # "Read"]_vars
===============================================================================
