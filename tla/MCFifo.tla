-------------------------------- MODULE MCFifo --------------------------------
(* Fifo with a few slots and distinguishable packets; the slots hold the       *)
(* all-zero record before they are first filled.                               *)
EXTENDS Fifo

CONSTANTS p0, p1

MCData == {p0, p1}
===============================================================================
