--------------------------- MODULE EraserPromise ---------------------------
(***************************************************************************)
(* What the detector of eraser.c promises of a program, with no shadow     *)
(* memory, no phases and no lock ids: it stops the program with a report   *)
(* at the first store that makes a word shared and written, if the storing *)
(* thread holds no lock, and for no other access.  It may also stop the    *)
(* program when it runs out of lock slots or is called wrongly.            *)
(***************************************************************************)
CONSTANTS Word, Tid, Lock, NoLock

VARIABLES
  thread,       \* the running thread
  held,         \* the lock each thread holds, or NoLock
  touched,      \* the threads that accessed each word
  writeShared,  \* stored to by a second thread, or after one came
  verdict       \* "running", "report", or "panic" or "assert" for the rest

pvars == <<thread, held, touched, writeShared, verdict>>

PInit ==
  /\ thread \in Tid
  /\ held = [t \in Tid |-> NoLock]
  /\ touched = [w \in Word |-> {}]
  /\ writeShared = [w \in Word |-> FALSE]
  /\ verdict = "running"

TwoThreads(ts) == \E t1, t2 \in ts : t1 # t2

\* An access is noted and, when it is the first shared store, judged.
PAccess(w, op) ==
  LET now == touched[w] \cup {thread}
      written == writeShared[w] \/ (TwoThreads(now) /\ op = "store")
      racy == written /\ ~writeShared[w] /\ held[thread] = NoLock
  IN  /\ verdict = "running"
      /\ touched' = [touched EXCEPT ![w] = now]
      /\ writeShared' = [writeShared EXCEPT ![w] = written]
      /\ \/ verdict' = IF racy THEN "report" ELSE "running"
         \/ ~racy /\ held[thread] # NoLock /\ verdict' = "panic"
      /\ UNCHANGED <<thread, held>>

\* A thread takes or gives up its lock.
PHold ==
  /\ verdict = "running"
  /\ \E l \in Lock \cup {NoLock} : held' = [held EXCEPT ![thread] = l]
  /\ UNCHANGED <<thread, touched, writeShared, verdict>>

PSwitch ==
  /\ verdict = "running"
  /\ thread' \in Tid
  /\ UNCHANGED <<held, touched, writeShared, verdict>>

PMisuse ==
  /\ verdict = "running" /\ verdict' = "assert"
  /\ UNCHANGED <<thread, held, touched, writeShared>>

PNext ==
  \/ \E w \in Word, op \in {"load", "store"} : PAccess(w, op)
  \/ PHold \/ PSwitch \/ PMisuse

PSpec == PInit /\ [][PNext]_pvars
=============================================================================
