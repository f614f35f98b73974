------------------------------ MODULE Circular ------------------------------
(***************************************************************************)
(* libos/libc/circular.h: the lock-free circular queue.  One side pushes   *)
(* and alone moves head, the other pops and alone moves tail; either may   *)
(* be an interrupt handler, so each of their reads and writes of the       *)
(* queue is a step of its own.                                             *)
(***************************************************************************)
EXTENDS Integers, Sequences

CONSTANTS
  Value,      \* queue elements
  CQ_N,       \* slots; one of them stays free
  Word        \* values of an unsigned

ASSUME CircularAssumption ==
  /\ CQ_N \in Nat /\ CQ_N > 1
  /\ Word \in Nat /\ Word > CQ_N
  /\ Value # {}

Slot == 0..(CQ_N - 1)

VARIABLES
  c_buf, head, tail,
  \* The producer: its operation, where it is in it, the elements left to push,
  \* the one being pushed, and the pushes refused, counted to 1.
  pushing, pAt, pLeft, pItem, refused,
  \* The consumer: likewise, the element read, the tail and count cq_peek_n
  \* saved, and the last element handed to the caller.
  popping, cAt, cLeft, e, saved, sz, got,
  status,     \* "running", or the panic or assertion that stopped the machine
  \* History: a push found room only because cq_peek_n had moved tail ahead.
  overrun

shared == <<c_buf, head, tail>>
producer == <<pushing, pAt, pLeft, pItem, refused>>
reading == <<popping, cLeft, saved, sz>>
consumer == <<reading, cAt, e, got>>
vars == <<shared, producer, consumer, status, overrun>>

QueueOK == c_buf \in [Slot -> Value] /\ head \in Slot /\ tail \in Slot

ProducerOK ==
  /\ pushing \in {"none", "push", "push_n"}
  /\ pAt \in {"idle", "full", "write", "advance", "check"}
  /\ pLeft \in 0..CQ_N /\ pItem \in Value /\ refused \in 0..1

ConsumerOK ==
  /\ popping \in {"none", "pop", "pop_nonblock", "peek", "pop_n", "peek_n"}
  /\ cAt \in {"idle", "empty", "read", "advance", "restore", "check"}
  /\ cLeft \in 0..CQ_N /\ e \in Value /\ got \in Value
  /\ saved \in Slot /\ sz \in Slot

TypeOK ==
  /\ QueueOK /\ ProducerOK /\ ConsumerOK
  /\ status \in {"running", "deadlock", "push_n full", "push_n empty", "peek_n size"}
  /\ overrun \in BOOLEAN

Init ==
  /\ \E v \in Value :
       c_buf = [i \in Slot |-> v] /\ pItem = v /\ e = v /\ got = v
  /\ head = 0 /\ tail = 0
  /\ pushing = "none" /\ pAt = "idle" /\ pLeft = 0 /\ refused = 0
  /\ popping = "none" /\ cAt = "idle" /\ cLeft = 0 /\ saved = 0 /\ sz = 0
  /\ status = "running" /\ overrun = FALSE

\* (i + 1) % CQ_N of an index.
Inc(i) == IF i = CQ_N - 1 THEN 0 ELSE i + 1

cq_empty == head = tail

\* The difference of the two unsigned indices.
cq_nelem == ((head - tail) % Word) % CQ_N
cq_nspace == CQ_N - cq_nelem

\* A slip: full is when every slot is taken.
cq_full_counts == cq_nelem = CQ_N

cq_full == Inc(head) = tail

\* The oldest element the consumer has not taken: cq_peek_n moves tail forth, and
\* back to where it was.
Oldest == IF popping = "peek_n" THEN saved ELSE tail

-----------------------------------------------------------------------------
(* The producer. *)

Pushes(at) ==
  /\ status = "running" /\ pAt = at
  /\ UNCHANGED consumer

cq_push ==
  /\ Pushes("idle")
  /\ pushing' = "push" /\ pAt' = "full" /\ pLeft' = 1 /\ pItem' \in Value
  /\ UNCHANGED <<shared, refused, status, overrun>>

\* A whole block is refused unless cq_nspace covers it.
cq_push_n(n) ==
  /\ Pushes("idle")
  /\ IF cq_nspace < n
       THEN refused' = 1 /\ UNCHANGED <<pushing, pAt, pLeft, pItem>>
       ELSE /\ pushing' = "push_n" /\ pAt' = "full" /\ pLeft' = n /\ pItem' \in Value
            /\ UNCHANGED refused
  /\ UNCHANGED <<shared, status, overrun>>

EndPush == pushing' = "none" /\ pAt' = "idle" /\ pLeft' = 0

\* A full queue refuses a push; cq_push_n panics when one of its own is refused.
CheckFull ==
  /\ Pushes("full")
  /\ \/ ~cq_full /\ pAt' = "write" /\ UNCHANGED <<pushing, pLeft, refused, status>>
     \/ cq_full /\ pushing = "push" /\ EndPush /\ refused' = 1 /\ UNCHANGED status
     \/ /\ cq_full /\ pushing = "push_n" /\ status' = "push_n full"
        /\ UNCHANGED <<pushing, pAt, pLeft, refused>>
  /\ overrun' = (overrun \/ (~cq_full /\ tail # Oldest /\ Inc(head) = Oldest))
  /\ UNCHANGED <<shared, pItem>>

WriteSlot ==
  /\ Pushes("write")
  /\ c_buf' = [c_buf EXCEPT ![head] = pItem]
  /\ pAt' = "advance"
  /\ UNCHANGED <<head, tail, pushing, pLeft, pItem, refused, status, overrun>>

AdvanceHead ==
  /\ Pushes("advance")
  /\ head' = Inc(head)
  /\ \/ pLeft > 1 /\ pLeft' = pLeft - 1 /\ pAt' = "full" /\ pItem' \in Value /\ UNCHANGED pushing
     \/ pLeft = 1 /\ pushing = "push" /\ EndPush /\ UNCHANGED pItem
     \/ pLeft = 1 /\ pushing = "push_n" /\ pAt' = "check" /\ UNCHANGED <<pushing, pLeft, pItem>>
  /\ UNCHANGED <<c_buf, tail, refused, status, overrun>>

\* assert(!cq_empty(c)), after the last push of cq_push_n.
CheckPushed ==
  /\ Pushes("check")
  /\ status' = IF cq_empty THEN "push_n empty" ELSE status
  /\ EndPush
  /\ UNCHANGED <<shared, pItem, refused, overrun>>

-----------------------------------------------------------------------------
(* The consumer. *)

Pops(at) == status = "running" /\ cAt = at /\ UNCHANGED <<producer, overrun>>

cq_pop(kind) ==
  /\ Pops("idle")
  /\ popping' = kind /\ cAt' = "empty" /\ cLeft' = 1
  /\ UNCHANGED <<shared, e, saved, sz, got, status>>

cq_pop_n_noblk(n) ==
  /\ Pops("idle") /\ cq_nelem >= n
  /\ popping' = "pop_n" /\ cAt' = "empty" /\ cLeft' = n
  /\ UNCHANGED <<shared, e, saved, sz, got, status>>

\* The count it saves and cq_pop_n_noblk's own reading of it come one after the
\* other; between them it can only have grown.
cq_peek_n(n) ==
  /\ Pops("idle") /\ cq_nelem >= n
  /\ popping' = "peek_n" /\ cAt' = "empty" /\ cLeft' = n
  /\ saved' = tail /\ sz' = cq_nelem
  /\ UNCHANGED <<shared, e, got, status>>

\* The call returns and its locals are gone.
EndPop ==
  popping' = "none" /\ cAt' = "idle" /\ cLeft' = 0 /\ saved' = 0 /\ sz' = 0

\* Nothing to pop: the blocking forms panic, the others return 0.
CheckEmpty ==
  /\ Pops("empty")
  /\ \/ ~cq_empty /\ cAt' = "read" /\ UNCHANGED <<reading, status>>
     \/ cq_empty /\ popping \in {"pop_nonblock", "peek"} /\ EndPop /\ UNCHANGED status
     \/ /\ cq_empty /\ popping \notin {"pop_nonblock", "peek"} /\ status' = "deadlock"
        /\ UNCHANGED <<reading, cAt>>
  /\ UNCHANGED <<shared, e, got>>

\* A slip: the slot is given back before it is read.
ReadSlotLate ==
  /\ Pops("read")
  /\ tail' = Inc(tail) /\ cAt' = "advance"
  /\ UNCHANGED <<c_buf, head, reading, e, got, status>>

ReadSlot ==
  /\ Pops("read")
  /\ e' = c_buf[tail]
  /\ IF popping = "peek" THEN EndPop /\ got' = e'
                         ELSE cAt' = "advance" /\ UNCHANGED <<reading, got>>
  /\ UNCHANGED <<shared, status>>

AdvanceTail ==
  /\ Pops("advance")
  /\ tail' = Inc(tail)
  /\ got' = IF popping = "peek_n" THEN got ELSE e
  /\ \/ cLeft > 1 /\ cLeft' = cLeft - 1 /\ cAt' = "empty" /\ UNCHANGED <<popping, saved, sz>>
     \/ cLeft = 1 /\ popping # "peek_n" /\ EndPop
     \/ cLeft = 1 /\ popping = "peek_n" /\ cAt' = "restore" /\ UNCHANGED reading
  /\ UNCHANGED <<c_buf, head, e, status>>

RestoreTail ==
  /\ Pops("restore")
  /\ tail' = saved /\ cAt' = "check"
  /\ UNCHANGED <<c_buf, head, reading, e, got, status>>

\* assert(sz == cq_nelem(c)), at the end of cq_peek_n.
CheckPeeked ==
  /\ Pops("check")
  /\ status' = IF sz = cq_nelem THEN status ELSE "peek_n size"
  /\ EndPop
  /\ UNCHANGED <<shared, e, got>>

-----------------------------------------------------------------------------
Producer ==
  \/ cq_push \/ \E n \in 1..CQ_N : cq_push_n(n)
  \/ CheckFull \/ WriteSlot \/ AdvanceHead \/ CheckPushed

Consumer ==
  \/ \E kind \in {"pop", "pop_nonblock", "peek"} : cq_pop(kind)
  \/ \E n \in 1..(CQ_N - 1) : cq_pop_n_noblk(n) \/ cq_peek_n(n)
  \/ CheckEmpty \/ ReadSlot \/ AdvanceTail \/ RestoreTail \/ CheckPeeked

Stopped == status # "running" /\ UNCHANGED vars

Next == Producer \/ Consumer \/ Stopped

Spec == Init /\ [][Next]_vars

-----------------------------------------------------------------------------
\* Until a push has overrun the consumer's look-ahead, the slot being written is
\* free and never the one being read, and the one being read is filled (every
\* operation of the two sides interleaved anyhow).
SlotsApart ==
  ~overrun =>
    /\ pAt \in {"write", "advance"} => Inc(head) \notin {tail, Oldest}
    /\ cAt \in {"read", "advance"} => head # tail
    /\ cAt = "advance" => e = c_buf[tail]

\* The assertion cq_peek_n ends with: the queue holds as many elements as when it
\* began.
PeekHolds == status # "peek_n size"

Used(h, t) == IF h >= t THEN h - t ELSE CQ_N - t + h

Wrap(k) == IF k >= CQ_N THEN k - CQ_N ELSE k

Contents(b, h, t) == [i \in 1..Used(h, t) |-> b[Wrap(t + i - 1)]]

queue == Contents(c_buf, head, Oldest)

Abstract == INSTANCE Fifo

\* The circular queue is a FIFO: the write of head is the push, the write of tail
\* the pop, and a look-ahead is neither, with the producer at work or not, until a
\* push overruns it.
KeepsFifo == Abstract!Spec

=============================================================================
