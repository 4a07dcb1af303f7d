------------------------------ MODULE FifoProofs ------------------------------
(***************************************************************************)
(* Fifo is type correct, never overwrites a slot the reader will read, and *)
(* implements DropAllQueue, for every depth and every kind of data.        *)
(***************************************************************************)
EXTENDS Fifo, SequenceTheorems, TLAPS

USE DepthAssumption

\* A write under way: w_en is raised or a filled slot is not yet published.
Pending == w_en \/ win_index # w_index

\* The inductive invariant: the write index is at most one step behind its next
\* value; a write is under way only after the read clock has ticked; an index
\* collision under a committed reader lasts only until that tick.
FifoInv == /\ TypeOK
           /\ w_en => win_index = w_index
           /\ win_index # w_index => win_index = Inc(w_index)
           /\ Pending => ticked
           /\ rs = "Read" /\ w_index = r_index => ~ticked
           /\ r_en => rs = "Busy"

\* The index registers stay in range and move.
LEMMA IncType == \A i \in Slots : Inc(i) \in Slots /\ Inc(i) # i
  BY DEF Slots, Inc

\* Power-up establishes the invariant.
LEMMA InitInv == Init => FifoInv
<1> SUFFICES ASSUME Init PROVE FifoInv
  OBVIOUS
<1>1. 0 \in Slots
  BY DEF Slots
<1>2. buf \in [Slots -> Data]
  BY BlankAssumption DEF Init
<1>3. TypeOK
  BY <1>1, <1>2, BlankAssumption DEF Init, TypeOK
<1> QED
  BY <1>3 DEF Init, FifoInv, Pending

\* Every edge of either clock preserves the invariant.
LEMMA StepInv == FifoInv /\ [Next]_vars => FifoInv'
<1> SUFFICES ASSUME FifoInv, [Next]_vars PROVE FifoInv'
  OBVIOUS
<1> USE DEF FifoInv, TypeOK, Pending
<1>1. CASE \E d \in Data : Notify(d)
  BY <1>1 DEF Notify
<1>2. CASE Capture
  BY <1>2, IncType DEF Capture
<1>3. CASE Publish
  BY <1>3 DEF Publish
<1>4. CASE PublishCoincident
  BY <1>4 DEF PublishCoincident
<1>5. CASE ReadIdle
  BY <1>5 DEF ReadIdle, writer, buf_not_empty
<1>6. CASE ReadHead
  BY <1>6 DEF ReadHead, writer
<1>7. CASE ReadBusy
  BY <1>7, IncType DEF ReadBusy, Advance, writer
<1>8. CASE ReadDone
  BY <1>8, IncType DEF ReadDone, Advance, writer
<1>9. CASE UNCHANGED vars
  BY <1>9 DEF vars
<1> QED
  BY <1>1, <1>2, <1>3, <1>4, <1>5, <1>6, <1>7, <1>8, <1>9 DEF Next

\* The invariant holds throughout.
THEOREM Invariance == Spec => []FifoInv
  BY InitInv, StepInv, PTL DEF Spec

\* FIFO_receive.vhd, FIFO_send.vhd: the indices stay inside 0 .. g_depth - 1 and
\* every slot holds a packet.
THEOREM TypeCorrect == Spec => []TypeOK
  BY Invariance, PTL DEF FifoInv

\* No write ever targets a slot that a committed reader is about to read.
THEOREM NeverOverwrites == Spec => []NoOverwrite
<1>1. FifoInv => NoOverwrite
  BY DEF FifoInv, TypeOK, Pending, NoOverwrite, Count, Committed, HeadIndex, Slots, Inc
<1> QED
  BY <1>1, Invariance, PTL

-------------------------------------------------------------------------------
(* Refinement.  Count, Slot and Waiting describe the ring as a queue.        *)

\* The ring as a queue: its length, and where its entries are.
LEMMA RingFacts ==
  ASSUME FifoInv
  PROVE  /\ HeadIndex \in Slots
         /\ Count \in 0 .. Depth
         /\ ~Committed => Count < Depth
         /\ Pending => Count < Depth
         /\ \A i \in 0 .. Depth : i < Depth => Slot(i) \in Slots
         /\ Count < Depth => Slot(Count) = w_index
         /\ \A i \in 0 .. Depth : i < Count /\ Count < Depth => Slot(i) # w_index
  BY IncType DEF FifoInv, TypeOK, Pending, HeadIndex, Count, Committed, Slot, Slots, Inc

\* Waiting is a sequence of Count packets.
WaitingOK == /\ Count \in Nat
             /\ Waiting \in Seq(Data)
             /\ Len(Waiting) = Count
             /\ \A i \in 1 .. Count : Waiting[i] = buf[Slot(i - 1)]

\* The ring's entries form that sequence.
LEMMA WaitingSeq == FifoInv => WaitingOK
<1> SUFFICES ASSUME FifoInv PROVE WaitingOK
  OBVIOUS
<1>1. \A i \in 1 .. Count : buf[Slot(i - 1)] \in Data
  BY RingFacts DEF FifoInv, TypeOK
<1>2. Waiting \in [1 .. Count -> Data]
  BY <1>1 DEF Waiting
<1>3. Count \in Nat
  BY RingFacts
<1> QED
  BY <1>2, <1>3 DEF Waiting, WaitingOK

\* Power-up is an empty queue.
LEMMA RefInit == Init => Queue!Init
<1> SUFFICES ASSUME Init PROVE Queue!Init
  OBVIOUS
<1>1. Count = 0
  BY DEF Init, Count, HeadIndex, Committed
<1>2. Waiting = << >>
  BY <1>1 DEF Waiting
<1> QED
  BY <1>2, BlankAssumption DEF Init, Queue!Init, Committed

\* Every edge of either clock is a step of the queue or leaves it unchanged.
LEMMA RefStep == FifoInv /\ FifoInv' /\ [Next]_vars => [Queue!Next]_(Queue!qvars)
<1> SUFFICES ASSUME FifoInv, FifoInv', [Next]_vars PROVE [Queue!Next]_(Queue!qvars)
  OBVIOUS
<1>t. TypeOK
  BY DEF FifoInv
<1>0. ASSUME UNCHANGED <<buf, w_index, r_index, rs, r_en, rd>> PROVE UNCHANGED Queue!qvars
  BY <1>0 DEF Queue!qvars, Waiting, Count, Slot, HeadIndex, Committed
<1>1. CASE \E d \in Data : Notify(d)
  BY <1>1, <1>0 DEF Notify
<1>2. CASE Capture
  <2>1. Count' = Count /\ Committed' = Committed /\ \A i \in 0 .. Depth : Slot(i)' = Slot(i)
    BY <1>2 DEF Capture, Count, Committed, HeadIndex, Slot
  <2>2. \A i \in 1 .. Count : buf'[Slot(i - 1)] = buf[Slot(i - 1)]
    BY <1>2, <1>t, RingFacts DEF Capture, TypeOK, Pending
  <2>3. Waiting' = Waiting
    BY <2>1, <2>2, RingFacts DEF Waiting
  <2> QED
    BY <1>2, <2>1, <2>3 DEF Capture, Queue!qvars
<1>w. WaitingOK /\ WaitingOK'
  BY WaitingSeq, PTL
<1>p. ASSUME w_index' = win_index, win_index # w_index, HeadIndex' = HeadIndex,
             UNCHANGED <<buf, rd>>, Count' = Count + 1
      PROVE  Waiting' = Append(Waiting, buf[w_index])
  <2> DEFINE d == buf[w_index]
  <2>1. d \in Data
    BY <1>t DEF TypeOK
  <2>2. Len(Append(Waiting, d)) = Count + 1 /\ Append(Waiting, d) \in Seq(Data)
    BY <1>w, <2>1 DEF WaitingOK
  <2>3. Count < Depth
    BY <1>p, RingFacts DEF Pending
  <2>4. \A i \in 1 .. Count + 1 : Append(Waiting, d)[i] = buf[Slot(i - 1)]
    BY <1>w, RingFacts, <2>1, <2>3 DEF WaitingOK
  <2>5. \A i \in 1 .. Count + 1 : Waiting'[i] = buf[Slot(i - 1)]
    BY <1>p, <1>w DEF WaitingOK, Slot
  <2>6. Waiting' \in Seq(Data) /\ Len(Waiting') = Count + 1
    BY <1>p, <1>w DEF WaitingOK
  <2> QED
    BY <2>2, <2>4, <2>5, <2>6, SeqEqual
<1>3. CASE Publish
  <2>1. buf[w_index] \in Data
    BY <1>t DEF TypeOK
  <2>2. HeadIndex' = HeadIndex /\ (Committed' <=> Committed)
    BY <1>3 DEF Publish, HeadIndex, Committed
  <2>3. Count < Depth /\ HeadIndex \in Slots /\ w_index \in Slots /\ w_index' = Inc(w_index)
    BY <1>3, <1>t, RingFacts DEF Publish, Pending, FifoInv, TypeOK
  <2>4. CASE Count = Depth - 1 /\ ~Committed
    <3>1. Count' = 0
      BY <2>2, <2>3, <2>4 DEF Count, Slots, Inc
    <3>2. Waiting' = << >>
      BY <3>1, <1>w DEF WaitingOK
    <3> QED
      BY <1>3, <1>w, <2>1, <2>2, <2>4, <3>2
      DEF Publish, Queue!Next, Queue!Write, Queue!Overflow, WaitingOK
  <2>5. CASE ~(Count = Depth - 1 /\ ~Committed)
    <3>1. Count' = Count + 1
      BY <2>2, <2>3, <2>5 DEF Count, Slots, Inc
    <3>2. Waiting' = Append(Waiting, buf[w_index])
      BY <1>3, <1>p, <2>2, <3>1 DEF Publish
    <3> QED
      BY <1>3, <1>w, <2>1, <2>2, <2>5, <3>2
      DEF Publish, Queue!Next, Queue!Write, Queue!Overflow, WaitingOK
  <2> QED
    BY <2>4, <2>5
<1>4. CASE PublishCoincident
  <2>1. buf[w_index] \in Data
    BY <1>t DEF TypeOK
  <2>2. HeadIndex' = HeadIndex /\ ~Committed /\ Committed'
    BY <1>4 DEF PublishCoincident, HeadIndex, Committed
  <2>3. Count < Depth /\ HeadIndex \in Slots /\ w_index \in Slots /\ w_index' = Inc(w_index)
    BY <1>4, <1>t, RingFacts DEF PublishCoincident, Pending, FifoInv, TypeOK
  <2>4. Count' = Count + 1
    BY <2>2, <2>3 DEF Count, Slots, Inc
  <2>5. Waiting' = Append(Waiting, buf[w_index])
    BY <1>4, <1>p, <2>2, <2>4 DEF PublishCoincident
  <2> QED
    BY <1>4, <2>1, <2>2, <2>5 DEF PublishCoincident, Queue!Next, Queue!WriteAndCommit
<1>5. CASE ReadIdle
  <2>1. CASE ~buf_not_empty
    <3>1. UNCHANGED <<buf, w_index, r_index, rs, r_en, rd>>
      BY <1>5, <2>1 DEF ReadIdle, writer
    <3> QED
      BY <3>1, <1>0
  <2>2. CASE buf_not_empty
    <3>1. ~Committed /\ Committed' /\ HeadIndex = r_index /\ HeadIndex' = HeadIndex
      BY <1>5, <2>2 DEF ReadIdle, Committed, HeadIndex, writer, FifoInv
    <3>2. Count # 0 /\ Count' = Count
      BY <1>5, <1>t, <2>2, <3>1 DEF ReadIdle, writer, buf_not_empty, Count, TypeOK, Slots
    <3>3. Waiting' = Waiting /\ Waiting # << >>
      BY <1>5, <1>w, <3>1, <3>2 DEF ReadIdle, writer, Waiting, WaitingOK, Slot
    <3> QED
      BY <1>5, <3>1, <3>3 DEF ReadIdle, Queue!Next, Queue!Commit
  <2> QED
    BY <2>1, <2>2
<1>6. CASE ReadHead
  <2>1. /\ Committed /\ ~Committed'
        /\ r_index \in Slots /\ w_index \in Slots /\ w_index' = w_index
        /\ HeadIndex = r_index /\ HeadIndex' = Inc(r_index)
    BY <1>6, <1>t DEF ReadHead, writer, Committed, HeadIndex, FifoInv, TypeOK
  <2>2. Count >= 1 /\ Count' = Count - 1 /\ Count <= Depth
    BY <2>1, RingFacts DEF Count, Slots, Inc
  <2>3. Waiting # << >> /\ rd' = Head(Waiting)
    <3>1. Waiting[1] = buf[Slot(0)] /\ Slot(0) = r_index
      BY <1>w, <2>1, <2>2 DEF WaitingOK, Slot, Slots
    <3> QED
      BY <1>6, <1>w, <2>2, <3>1 DEF ReadHead, WaitingOK
  <2>4. Waiting' = Tail(Waiting)
    <3>1. Tail(Waiting) \in Seq(Data) /\ Len(Tail(Waiting)) = Count - 1
      BY <1>w, <2>2, <2>3 DEF WaitingOK
    <3>2. \A i \in 1 .. Count - 1 : Tail(Waiting)[i] = buf[Slot(i)]
      BY <1>w, <2>2, <2>3 DEF WaitingOK
    <3>3. \A i \in 1 .. Count - 1 : Slot(i - 1)' = Slot(i)
      BY <1>w, <2>1, <2>2 DEF WaitingOK, Slot, Slots, Inc
    <3>4. \A i \in 1 .. Count - 1 : Waiting'[i] = buf[Slot(i)]
      BY <1>6, <1>w, <2>2, <3>3 DEF WaitingOK, ReadHead, writer
    <3>5. Waiting' \in Seq(Data) /\ Len(Waiting') = Count - 1
      BY <1>w, <2>2 DEF WaitingOK
    <3> QED
      BY <3>1, <3>2, <3>4, <3>5, SeqEqual
  <2> QED
    BY <2>1, <2>3, <2>4 DEF Queue!Next, Queue!Take
<1>7. CASE ReadBusy \/ ReadDone
  <2>1. HeadIndex' = HeadIndex /\ Committed' = Committed /\ UNCHANGED <<buf, w_index, rd>>
    BY <1>7 DEF ReadBusy, ReadDone, Advance, writer, HeadIndex, Committed
  <2>2. Count' = Count /\ \A i \in 0 .. Depth : Slot(i)' = Slot(i)
    BY <2>1 DEF Count, Slot
  <2>3. Waiting' = Waiting
    BY <2>1, <2>2, RingFacts DEF Waiting
  <2> QED
    BY <2>1, <2>3 DEF Queue!qvars
<1>9. CASE UNCHANGED vars
  BY <1>9, <1>0 DEF vars
<1> QED
  BY <1>1, <1>2, <1>3, <1>4, <1>5, <1>6, <1>7, <1>9 DEF Next

\* The dual-clock FIFO implements the queue that loses everything on an
\* uncommitted collision and nothing otherwise, for every depth.
THEOREM ImplementsDropAllQueue == Spec => ImplementsQueue
  BY RefInit, RefStep, Invariance, PTL DEF Spec, ImplementsQueue, Queue!Spec
===============================================================================
