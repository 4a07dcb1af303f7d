----------------------------- MODULE DropAllQueue -----------------------------
(***************************************************************************)
(* What FIFO_rcv and FIFO_snd promise the two blocks they connect: a       *)
(* bounded queue without a full flag.  A write that finds Depth - 1        *)
(* entries waiting makes the two index registers collide, and a collision  *)
(* reads as "empty": the whole queue is lost.  The one exception is a      *)
(* reader that has already seen buf_not_empty and will take the head in    *)
(* its next clock cycle ("committed"): its queue survives a collision.     *)
(***************************************************************************)
EXTENDS Naturals, Sequences

CONSTANTS
    Depth,  \* g_depth, the number of slots
    Data    \* what is carried: rcv_data_t or snd_data_t records

VARIABLES
    q,          \* the entries waiting, oldest first
    committed,  \* the reader is about to take the head
    taken       \* the entry the reader works on

qvars == <<q, committed, taken>>

Init == /\ q = << >>
        /\ committed = FALSE
        /\ taken \in Data

Overflow == Len(q) = Depth - 1

Write(d) == /\ q' = IF Overflow /\ ~committed THEN << >> ELSE Append(q, d)
            /\ UNCHANGED <<committed, taken>>

Commit == /\ ~committed
          /\ q # << >>
          /\ committed' = TRUE
          /\ UNCHANGED <<q, taken>>

\* The reader samples the write index on the very edge that changes it.
WriteAndCommit(d) == /\ ~committed
                     /\ q' = Append(q, d)
                     /\ committed' = TRUE
                     /\ UNCHANGED taken

Take == /\ committed
        /\ taken' = Head(q)
        /\ q' = Tail(q)
        /\ committed' = FALSE

Next == \/ \E d \in Data : Write(d) \/ WriteAndCommit(d)
        \/ Commit
        \/ Take

Spec == Init /\ [][Next]_qvars
===============================================================================
