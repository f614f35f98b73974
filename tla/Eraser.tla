------------------------------- MODULE Eraser -------------------------------
(***************************************************************************)
(* The lockset race detector of labs/19-eraser/part2-eraser/eraser.c.      *)
(*                                                                         *)
(* A user program announces the thread it pretends to run, the lock that   *)
(* thread takes and gives back, and the blocks it allocates and frees.     *)
(* Each of its loads and stores of the tracked heap traps to               *)
(* ldr_str_handler, which moves the shadow word of the accessed word       *)
(* through the phases of the Eraser algorithm and reboots the machine with *)
(* an error when a write-shared word has an empty lockset.                 *)
(*                                                                         *)
(* One action is one operation of the program, the trap included: the trap *)
(* machinery is the subject of module Memtrace.                            *)
(***************************************************************************)
EXTENDS Integers

CONSTANTS
  NWords,      \* tracked 32-bit words of the heap: 1..NWords, ascending
  MaxThreads,  \* MAXTHREADS: thread ids are 0..MaxThreads-1, 0 at boot
  MaxLocks,    \* MAXLOCKS: slots of the lock table
  Lock,        \* addresses of lock variables
  NoLock       \* the NULL lock

ASSUME EraserAssumption ==
  /\ NWords \in Nat
  /\ MaxThreads \in 1..256        \* a thread id fits the u8 state_t.tid
  /\ MaxLocks \in Nat /\ MaxLocks <= 65535   \* a lock id fits the u16 state_t.ls
  /\ NoLock \notin Lock

Word == 1..NWords
Tid == 0..(MaxThreads - 1)
LockId == 0..MaxLocks

\* The SH_* states of a shadow word that the handler accepts.
Phase == {"invalid", "virgin", "exclusive", "shared", "shared_mod"}
ShadowWord == [state : Phase, tid : Tid, ls : LockId]

VARIABLES
  cur_thread_id,  \* the thread the program says it is running
  lockset,        \* lockset[t]: the lock thread t holds, or NoLock
  locks,          \* lock_to_int's table: the lock of slot i, or NoLock
  shadow,         \* the state_t of every tracked word
  marking,        \* the memset of eraser_mark_alloc/_free under way, if any
  status          \* "running", or why the machine rebooted

vars == <<cur_thread_id, lockset, locks, shadow, marking, status>>

\* A mark under way: the words lo..hi of a block are still to be stored.
Block == {b \in [kind : {"alloc", "free"}, lo : Word, hi : Word] : b.lo <= b.hi}
NotMarking == [kind |-> "none", lo |-> 0, hi |-> 0]

TypeOK ==
  /\ cur_thread_id \in Tid
  /\ lockset \in [Tid -> Lock \cup {NoLock}]
  /\ locks \in [1..MaxLocks -> Lock \cup {NoLock}]
  /\ shadow \in [Word -> ShadowWord]
  /\ marking \in {NotMarking} \cup Block
  /\ status \in {"running", "report", "panic", "assert"}

Init ==
  /\ cur_thread_id = 0
  /\ lockset = [t \in Tid |-> NoLock]
  /\ locks = [i \in 1..MaxLocks |-> NoLock]
  /\ shadow = [w \in Word |-> [state |-> "invalid", tid |-> 0, ls |-> 0]]
  /\ marking = NotMarking
  /\ status = "running"

Marking == marking # NotMarking
Idle == status = "running" /\ ~Marking
Holding == lockset[cur_thread_id]

-----------------------------------------------------------------------------
(* lock_to_int: a lock keeps the first slot it was given. *)

\* The first slot that holds l or is free: where the scan stops.
StopsAt(l, i) ==
  /\ locks[i] \in {l, NoLock}
  /\ \A j \in 1..(i - 1) : locks[j] \notin {l, NoLock}

\* lock_to_int(l) returns id, and registers l on its first use.
LockToInt(l, id) ==
  \/ l = NoLock /\ id = 0 /\ UNCHANGED locks
  \/ /\ l # NoLock
     /\ id \in 1..MaxLocks
     /\ StopsAt(l, id)
     /\ locks' = [locks EXCEPT ![id] = l]

\* A slip: scanning on when the table is full.
TooManyLocksSpins(l) == FALSE

TooManyLocks(l) ==
  l # NoLock /\ \A i \in 1..MaxLocks : locks[i] \notin {l, NoLock}

-----------------------------------------------------------------------------
(* Slips of the kind this code invites, never part of the specification:   *)
(* the properties are checked to notice each of them.                      *)

\* Forgetting to record the first thread.
FirstTouchWithoutTid(w) ==
  /\ shadow[w].state \in {"invalid", "virgin"}
  /\ shadow' = [shadow EXCEPT ![w].state = "exclusive"]
  /\ UNCHANGED <<locks, status>>

\* Any thread counts as the exclusive owner.
StayExclusiveForAll(w) ==
  shadow[w].state = "exclusive" /\ UNCHANGED <<locks, shadow, status>>

\* Keeping the first reader's lockset in the shared phase.
LoadSharedStale(w) ==
  shadow[w].state = "shared" /\ UNCHANGED <<locks, shadow, status>>

\* Entering shared-modified without falling into its check.
BecomeSharedModUnchecked(w) ==
  /\ shadow[w].state \in {"exclusive", "shared"} /\ shadow[w].tid # cur_thread_id
  /\ \E id \in LockId :
       /\ LockToInt(Holding, id)
       /\ shadow' = [shadow EXCEPT ![w] = [state |-> "shared_mod",
                                           tid |-> cur_thread_id, ls |-> id]]
       /\ UNCHANGED status

\* Entering shared-modified with the lockset the word had before.
BecomeSharedModStale(w) ==
  /\ shadow[w].state = "exclusive" /\ shadow[w].tid # cur_thread_id
  /\ shadow' = [shadow EXCEPT ![w].state = "shared_mod", ![w].tid = cur_thread_id]
  /\ status' = IF shadow[w].ls = 0 THEN "report" ELSE status
  /\ UNCHANGED locks

-----------------------------------------------------------------------------
(* ldr_str_handler, one operator per branch of its switch. *)

\* SH_INVALID is first turned into SH_VIRGIN; ls is left alone.
FirstTouch(w) ==
  /\ shadow[w].state \in {"invalid", "virgin"}
  /\ shadow' = [shadow EXCEPT ![w].state = "exclusive",
                              ![w].tid = cur_thread_id]
  /\ UNCHANGED <<locks, status>>

StayExclusive(w) ==
  /\ shadow[w].state = "exclusive"
  /\ shadow[w].tid = cur_thread_id
  /\ UNCHANGED <<locks, shadow, status>>

ExclusiveToOther(w) ==
  shadow[w].state = "exclusive" /\ shadow[w].tid # cur_thread_id

\* tid and ls keep what they were: the second thread's lock is not noted.
ShareByLoad(w) ==
  /\ ExclusiveToOther(w)
  /\ shadow' = [shadow EXCEPT ![w].state = "shared"]
  /\ UNCHANGED <<locks, status>>

\* "refine lockset": the set of the latest reader replaces the old one.
LoadShared(w) ==
  /\ shadow[w].state = "shared"
  /\ \E id \in LockId :
       /\ LockToInt(Holding, id)
       /\ shadow' = [shadow EXCEPT ![w].tid = cur_thread_id, ![w].ls = id]
  /\ UNCHANGED status

\* Falls through to the check of SH_SHARED_MOD with the set just stored.
BecomeSharedMod(w) ==
  /\ ExclusiveToOther(w) \/ shadow[w].state = "shared"
  /\ \E id \in LockId :
       /\ LockToInt(Holding, id)
       /\ shadow' = [shadow EXCEPT ![w] = [state |-> "shared_mod",
                                           tid |-> cur_thread_id, ls |-> id]]
       /\ status' = IF id = 0 THEN "report" ELSE status

\* No refinement here: only the set stored on entry is looked at.
CheckSharedMod(w) ==
  /\ shadow[w].state = "shared_mod"
  /\ status' = IF shadow[w].ls = 0 THEN "report" ELSE status
  /\ UNCHANGED <<locks, shadow>>

\* lock_to_int panics after the branch has already stored state and tid.
LockTableFull(w, op) ==
  /\ shadow[w].state = "shared" \/ (op = "store" /\ ExclusiveToOther(w))
  /\ TooManyLocks(Holding)
  /\ shadow' = [shadow EXCEPT
       ![w].tid = cur_thread_id,
       ![w].state = IF @ = "exclusive" THEN "shared_mod" ELSE @]
  /\ status' = "panic"
  /\ UNCHANGED locks

ldr_str_handler(w, op) ==
  \/ FirstTouch(w)
  \/ StayExclusive(w)
  \/ op = "load" /\ ShareByLoad(w)
  \/ op = "load" /\ LoadShared(w)
  \/ op = "store" /\ BecomeSharedMod(w)
  \/ CheckSharedMod(w)
  \/ LockTableFull(w, op)

-----------------------------------------------------------------------------
(* What the program does. *)

Access(w, op) ==
  /\ Idle
  /\ ldr_str_handler(w, op)
  /\ UNCHANGED <<cur_thread_id, lockset, marking>>

\* Both marks memset the block itself, not its shadow: each word stored is
\* one more trapped store of the current thread.
eraser_mark(kind, lo, hi) ==
  /\ Idle
  /\ marking' = [kind |-> kind, lo |-> lo, hi |-> hi]
  /\ UNCHANGED <<cur_thread_id, lockset, locks, shadow, status>>

\* One word of the memset. Its four byte stores are taken at once: after the
\* first, the handler finds the word in a phase the others leave alone.
MarkStep ==
  /\ status = "running" /\ Marking
  /\ ldr_str_handler(marking.lo, "store")
  /\ marking' = IF marking.lo < marking.hi
                  THEN [marking EXCEPT !.lo = @ + 1] ELSE NotMarking
  /\ UNCHANGED <<cur_thread_id, lockset>>

\* Asserts that the thread holds nothing yet.
eraser_lock(l) ==
  /\ Idle
  /\ IF Holding = NoLock
       THEN lockset' = [lockset EXCEPT ![cur_thread_id] = l] /\ UNCHANGED status
       ELSE status' = "assert" /\ UNCHANGED lockset
  /\ UNCHANGED <<cur_thread_id, locks, shadow, marking>>

\* The lock named in the call is not looked at.
eraser_unlock(l) ==
  /\ Idle
  /\ lockset' = [lockset EXCEPT ![cur_thread_id] = NoLock]
  /\ UNCHANGED <<cur_thread_id, locks, shadow, marking, status>>

\* Asserts 0 # tid < MAXTHREADS.
eraser_set_thread_id(tid) ==
  /\ Idle
  /\ IF tid \in Tid \ {0}
       THEN cur_thread_id' = tid /\ UNCHANGED status
       ELSE status' = "assert" /\ UNCHANGED cur_thread_id
  /\ UNCHANGED <<lockset, locks, shadow, marking>>

\* After a reboot nothing more happens.
Rebooted == status # "running" /\ UNCHANGED vars

Next ==
  \/ \E w \in Word, op \in {"load", "store"} : Access(w, op)
  \/ \E kind \in {"alloc", "free"}, lo, hi \in Word :
       lo <= hi /\ eraser_mark(kind, lo, hi)
  \/ MarkStep
  \/ \E l \in Lock : eraser_lock(l) \/ eraser_unlock(l)
  \/ \E tid \in 0..MaxThreads : eraser_set_thread_id(tid)
  \/ Rebooted

\* The memset is a straight-line loop that nothing preempts: it goes on.
Fairness == WF_vars(MarkStep)

Spec == Init /\ [][Next]_vars /\ Fairness

-----------------------------------------------------------------------------
(* Properties. *)

\* The lock table is packed and without duplicates, so the id a word keeps
\* stands for one lock (lock_to_int's first-fit scan).
LockTableOK ==
  \A i, j \in 1..MaxLocks :
    (i < j /\ locks[j] # NoLock) => locks[i] \notin {NoLock, locks[j]}

\* A block being marked is marked to its end unless the machine stops: the
\* stores of the memset trap, and no trap may leave it stuck.
MarkingEnds == Marking ~> (~Marking \/ status # "running")
=============================================================================
