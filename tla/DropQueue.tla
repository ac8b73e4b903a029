------------------------------ MODULE DropQueue ------------------------------
(***************************************************************************)
(* What the serial device promises its reader about the bytes that arrive: *)
(* a queue of at most Capacity bytes, read oldest first; a byte that       *)
(* arrives at a full queue takes the place of the oldest one.              *)
(***************************************************************************)
EXTENDS Integers, Sequences

CONSTANTS Byte, Capacity

VARIABLES queue, last   \* last: the byte read most recently, 0 before the first

Init == queue = <<>> /\ last = 0

Put(b) ==
  /\ queue' = Append(IF Len(queue) = Capacity THEN Tail(queue) ELSE queue, b)
  /\ UNCHANGED last

Get ==
  /\ queue # <<>>
  /\ last' = Head(queue)
  /\ queue' = Tail(queue)

Next == (\E b \in Byte : Put(b)) \/ Get

Spec == Init /\ [][Next]_<<queue, last>>
==============================================================================
