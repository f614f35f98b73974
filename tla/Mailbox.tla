------------------------------ MODULE Mailbox -------------------------------
(***************************************************************************)
(* labs/21-user-processes/part0-mbox/mbox.c: a program that walks the tags *)
(* the firmware leaves in memory and then asks the GPU two questions       *)
(* through its mailbox.  A question is a buffer in memory, of which the    *)
(* mailbox carries the address both ways.                                  *)
(*                                                                         *)
(* External: the firmware's tags, the GPU, kmalloc_aligned (a new buffer), *)
(* clean_reboot.                                                           *)
(***************************************************************************)
EXTENDS Integers, Sequences

CONSTANTS
  TagLists,   \* what the firmware may leave: sequences of [tag, words, base]
  Leftovers,  \* what the inbox may hold at boot: sequences of [ch, buf]
  Depth       \* messages the mailbox holds each way before it is full

MBOX_CH == 8
Question == {"serial", "memsize"}
Other == "other"   \* a buffer of whoever ran before

ASSUME MailboxAssumption ==
  /\ Depth \in Nat \ {0}
  /\ \A l \in Leftovers : l \in Seq([ch : 0..15, buf : {Other}])

VARIABLES
  at,      \* where the driver is: a phase of notmain
  asking,  \* the question of the call of mbox_send under way
  tags,    \* the firmware's list
  i,       \* the tag the walk has come to
  outbox,  \* requests on their way to the GPU
  inbox,   \* replies on their way back
  u,       \* question -> its buffer: is it answered, does it hold the value
  gpu,     \* what the GPU is working on, or Idle
  taken,   \* the buffer the last reply taken was for
  got,     \* questions answered, as the program has printed them
  stale    \* a message was left over at boot

vars == <<at, asking, tags, i, outbox, inbox, u, gpu, taken, got, stale>>
driver == <<at, asking, tags, i, taken, got>>

Idle == [buf |-> Other]
Blank == [code |-> FALSE, value |-> FALSE]

TypeOK ==
  /\ at \in {"print", "mem", "fill", "write", "read", "check", "off", "panic"}
  /\ asking \in Question /\ tags \in TagLists /\ i \in 1..(Len(tags) + 1)
  /\ Len(outbox) <= Depth /\ Len(inbox) <= Depth + 1
  /\ u \in [Question -> [code : BOOLEAN, value : BOOLEAN]]
  /\ gpu.buf \in Question \cup {Other}
  /\ taken \in Question \cup {Other} /\ got \in [Question -> {"unasked", "right", "wrong"}]

Init ==
  /\ at = "print" /\ asking = "serial" /\ tags \in TagLists /\ i = 1
  /\ outbox = <<>> /\ inbox \in Leftovers /\ stale = (inbox # <<>>)
  /\ u = [q \in Question |-> Blank] /\ gpu = Idle /\ taken = Other
  /\ got = [q \in Question |-> "unasked"]

Stop(why) == at' = why /\ UNCHANGED <<asking, tags, i, taken, got>>
Mail == UNCHANGED <<outbox, inbox, u, gpu, stale>>

-----------------------------------------------------------------------------
(* The tags: atag_print, then atag_mem.  A tag of no words is its own next. *)

AtEnd == i = Len(tags) + 1
Onward == IF tags[i].words = 0 THEN i ELSE i + 1

\* A slip: the walk goes on past a tag nobody knows.
Known_any(t) == TRUE

Known(t) == t.tag \in {"core", "cmdline"} \/ (t.tag = "mem" /\ t.base = 0)

atag_print ==
  /\ at = "print" /\ Mail
  /\ IF AtEnd THEN at' = "mem" /\ i' = 1 /\ UNCHANGED <<asking, tags, taken, got>>
     ELSE IF Known(tags[i]) THEN i' = Onward /\ UNCHANGED <<at, asking, tags, taken, got>>
     ELSE Stop("panic")

atag_mem ==
  /\ at = "mem" /\ Mail
  /\ IF AtEnd THEN Stop("panic")
     ELSE IF tags[i].tag = "mem" THEN Stop(IF tags[i].base = 0 THEN "fill" ELSE "panic")
     ELSE i' = Onward /\ UNCHANGED <<at, asking, tags, taken, got>>

-----------------------------------------------------------------------------
(* rpi_get_serial, then rpi_get_memsize: fill a buffer, send it, look at it. *)

Fill ==
  /\ at = "fill"
  /\ u' = [u EXCEPT ![asking] = Blank] /\ at' = "write"
  /\ UNCHANGED <<asking, tags, i, outbox, inbox, gpu, taken, got, stale>>

\* It waits while the mailbox is full.
mbox_write ==
  /\ at = "write" /\ Len(outbox) < Depth
  /\ outbox' = Append(outbox, [ch |-> MBOX_CH, buf |-> asking]) /\ at' = "read"
  /\ UNCHANGED <<asking, tags, i, inbox, u, gpu, taken, got, stale>>

\* A slip: it does not wait while the mailbox is empty.
mbox_read_at_once ==
  /\ at = "read"
  /\ IF inbox = <<>> THEN Stop("check") /\ UNCHANGED inbox
     ELSE /\ inbox' = Tail(inbox) /\ taken' = Head(inbox).buf
          /\ at' = IF Head(inbox).ch = MBOX_CH THEN "check" ELSE "panic"
          /\ UNCHANGED <<asking, tags, i, got>>
  /\ UNCHANGED <<outbox, u, gpu, stale>>

\* It waits while the mailbox is empty, and takes the first reply there is:
\* mbox_send drops the address that comes back.
mbox_read ==
  /\ at = "read" /\ inbox # <<>>
  /\ inbox' = Tail(inbox) /\ taken' = Head(inbox).buf
  /\ at' = IF Head(inbox).ch = MBOX_CH THEN "check" ELSE "panic"
  /\ UNCHANGED <<asking, tags, i, outbox, u, gpu, got, stale>>

Answered(buffer) == buffer.code

Check ==
  /\ at = "check" /\ Mail
  /\ IF Answered(u[asking])
       THEN /\ got' = [got EXCEPT ![asking] = IF u[asking].value THEN "right" ELSE "wrong"]
            /\ at' = IF asking = "serial" THEN "fill" ELSE "off"
            /\ asking' = "memsize"
            /\ UNCHANGED <<tags, i, taken>>
       ELSE Stop("panic")

-----------------------------------------------------------------------------
(* The GPU: it takes a request, writes the code and the value into the      *)
(* buffer in either order, and sends the address back.                      *)

Take ==
  /\ gpu = Idle /\ outbox # <<>>
  /\ gpu' = Head(outbox) /\ outbox' = Tail(outbox)
  /\ UNCHANGED driver /\ UNCHANGED <<inbox, u, stale>>

Answer ==
  /\ gpu # Idle
  /\ \E field \in {"code", "value"} :
       ~u[gpu.buf][field] /\ u' = [u EXCEPT ![gpu.buf][field] = TRUE]
  /\ UNCHANGED driver /\ UNCHANGED <<outbox, inbox, gpu, stale>>

Reply ==
  /\ gpu # Idle /\ u[gpu.buf].code /\ u[gpu.buf].value /\ Len(inbox) < Depth
  /\ inbox' = Append(inbox, gpu) /\ gpu' = Idle
  /\ UNCHANGED driver /\ UNCHANGED <<outbox, u, stale>>

Stopped == at \in {"off", "panic"} /\ UNCHANGED vars

DriverStep == atag_print \/ atag_mem \/ Fill \/ mbox_write \/ mbox_read \/ Check
GpuStep == Take \/ Answer \/ Reply

Next == DriverStep \/ GpuStep \/ Stopped

\* The driver does nothing else, and the GPU answers what it is asked.
Spec == Init /\ [][Next]_vars /\ WF_vars(DriverStep) /\ WF_vars(GpuStep)

-----------------------------------------------------------------------------
\* The reply that ends a wait is for the buffer just sent, and the answer printed
\* is the GPU's, exactly if nothing was left over at boot; a message left over
\* puts the driver one reply behind, and it stays there: it compares no address,
\* and depends on asking one question at a time (mbox_send, mbox_read).
AnswerIsMine ==
  /\ at = "check" => (taken = asking <=> ~stale)
  /\ ~stale => \A q \in Question : got[q] # "wrong"

\* With tags that all have words, the program ends; with nothing left over and
\* tags it knows, one of them the memory's, with both answers.
WellFormed == \A k \in 1..Len(tags) : tags[k].words > 0
Usual == /\ WellFormed /\ \A k \in 1..Len(tags) : Known(tags[k])
         /\ \E k \in 1..Len(tags) : tags[k].tag = "mem"
Ends ==
  /\ WellFormed ~> at \in {"off", "panic"}
  /\ (Usual /\ ~stale) ~> (at = "off" /\ \A q \in Question : got[q] = "right")
=============================================================================
