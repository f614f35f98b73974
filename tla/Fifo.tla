-------------------------------- MODULE Fifo --------------------------------
(***************************************************************************)
(* What libos/libc/circular.h promises one producer and one consumer: the  *)
(* elements come out in the order they went in, each once.                 *)
(***************************************************************************)
EXTENDS Sequences

CONSTANT Value

VARIABLES
  queue,   \* what has been pushed and not popped
  got,     \* the last element handed to the consumer
  overrun  \* an element was pushed into a full queue

TypeOK == queue \in Seq(Value) /\ got \in Value /\ overrun \in BOOLEAN

Init == queue = <<>> /\ got \in Value /\ overrun = FALSE

Push == /\ \E x \in Value : queue' = Append(queue, x)
        /\ UNCHANGED <<got, overrun>>

Pop == /\ queue # <<>> /\ got' = Head(queue) /\ queue' = Tail(queue)
       /\ UNCHANGED overrun

Peek == /\ queue # <<>> /\ got' = Head(queue)
        /\ UNCHANGED <<queue, overrun>>

\* From here on nothing is promised.
Overrun == overrun'

Next == Push \/ Pop \/ Peek \/ Overrun

Spec == Init /\ [][Next]_<<queue, got, overrun>>
=============================================================================
