------------------------------ MODULE AdminStream ------------------------------
(***************************************************************************)
(* What writing an admin packet promises: the arguments of the writes, low *)
(* bit first and in the order of the calls, with no bit lost, added or     *)
(* moved; a close fills up to whole 32-bit words with zeros; the tag seals *)
(* the bits before it.  The file holds some of the stream at any time and  *)
(* all of it after a close.                                                *)
(***************************************************************************)
EXTENDS Naturals, Sequences, SequencesExt

CONSTANTS Calls(_),   \* the calls for packet g; of a call: bits, the bits it writes
          Tag(_),     \* the 64 bits that seal a sequence of bits
          Zero        \* the bit 0

VARIABLES g,       \* the packet being written
          pc,      \* its next call, or 0
          stream,  \* the bits written
          file     \* the bits that are in the file

streamvars == <<g, pc, stream, file>>

Padding(n) == [b \in 1 .. (32 - (n % 32)) % 32 |-> Zero]

Init == g = 2 /\ pc = 0 /\ stream = << >> /\ file = << >>

Open == /\ pc = 0
        /\ g' = 3 - g /\ pc' = 1 /\ stream' = << >> /\ file' = << >>

\* The bits the next call adds.
Added == LET c == Calls(g)[pc]
         IN CASE c.op = "write" -> c.bits
              [] c.op = "tag"   -> Tag(stream)
              [] c.op = "close" -> Padding(Len(stream))

Write == /\ pc # 0
         /\ stream' = stream \o Added
         /\ IsPrefix(file, file') /\ IsPrefix(file', stream')
         /\ Calls(g)[pc].op = "close" => file' = stream'
         /\ pc' = IF pc = Len(Calls(g)) THEN 0 ELSE pc + 1
         /\ g' = g

Next == Open \/ Write

Spec == Init /\ [][Next]_streamvars
===============================================================================
