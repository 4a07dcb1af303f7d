------------------------------- MODULE Responder -------------------------------
(***************************************************************************)
(* What the output side promises the core: an answer handed over is        *)
(* pending until its frame is out, and none is handed over before that, so *)
(* that no answer is lost, merged with another or sent twice.              *)
(***************************************************************************)
EXTENDS SendData

CONSTANT None    \* no answer, no frame

VARIABLES
    pending,  \* the answer handed over and not yet sent, or None
    sent      \* the frame sent in this instant, or None

Init == pending = None /\ sent = None

Hand == /\ pending = None
        /\ pending' \in Packet
        /\ sent' = None

Emit == /\ pending # None
        /\ pending' = None
        /\ sent' \in SndData /\ Answers(sent', pending)

Withdraw == sent' = None /\ UNCHANGED pending

Next == Hand \/ Emit \/ Withdraw

Spec == Init /\ [][Next]_<<pending, sent>>
===============================================================================
