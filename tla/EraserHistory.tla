--------------------------- MODULE EraserHistory ---------------------------
(***************************************************************************)
(* The detector of module Eraser beside a record of what the program did.  *)
(*                                                                         *)
(* The shadow word is four bytes; what it stands for is a history of       *)
(* accesses.  The history variables keep that history in full, as the      *)
(* Eraser algorithm of the lab's README (lines 37-52, 314-324) tells it,   *)
(* so that what the handler remembers and reports can be compared with it. *)
(* They never constrain the detector.                                      *)
(***************************************************************************)
EXTENDS Eraser

VARIABLES
  touched,      \* touched[w]: the threads that have accessed w
  writeShared,  \* writeShared[w]: stored to by or after a second thread
  candidates,   \* candidates[w]: locks held at every access since sharing
  entered       \* entered[w]: lock held at the access that last set its ls

history == <<touched, writeShared, candidates, entered>>
hvars == <<vars, history>>

HInit ==
  /\ Init
  /\ touched = [w \in Word |-> {}]
  /\ writeShared = [w \in Word |-> FALSE]
  /\ candidates = [w \in Word |-> Lock]
  /\ entered = [w \in Word |-> NoLock]

\* This access is one by a thread other than the only one before it, or the
\* word has been touched by two threads already.
SharedBy(w) == \E t \in touched[w] : t # cur_thread_id
SharedAlready(w) == \E t1, t2 \in touched[w] : t1 # t2
Shares(w) == SharedAlready(w) \/ SharedBy(w)

\* What the algorithm would note of an access of w by the current thread.
Note(w, op) ==
  /\ touched' = [touched EXCEPT ![w] = @ \cup {cur_thread_id}]
  /\ writeShared' = [writeShared EXCEPT ![w] = @ \/ (Shares(w) /\ op = "store")]
  /\ candidates' = [candidates EXCEPT
       ![w] = IF Shares(w) THEN @ \cap {Holding} ELSE @]
  /\ entered' = [entered EXCEPT
       ![w] = IF ~writeShared[w] /\ (SharedAlready(w) \/ (SharedBy(w) /\ op = "store"))
                THEN Holding ELSE @]

HNext ==
  \/ \E w \in Word, op \in {"load", "store"} : Access(w, op) /\ Note(w, op)
  \/ \E kind \in {"alloc", "free"}, lo, hi \in Word :
       lo <= hi /\ eraser_mark(kind, lo, hi) /\ UNCHANGED history
  \/ MarkStep /\ Note(marking.lo, "store")
  \/ \E l \in Lock :
       (eraser_lock(l) \/ eraser_unlock(l)) /\ UNCHANGED history
  \/ \E tid \in 0..MaxThreads : eraser_set_thread_id(tid) /\ UNCHANGED history
  \/ Rebooted /\ UNCHANGED history

HSpec == HInit /\ [][HNext]_hvars /\ Fairness

HTypeOK ==
  /\ TypeOK
  /\ touched \in [Word -> SUBSET Tid]
  /\ writeShared \in [Word -> BOOLEAN]
  /\ candidates \in [Word -> SUBSET Lock]
  /\ entered \in [Word -> Lock \cup {NoLock}]

-----------------------------------------------------------------------------
(* Properties. *)

\* The phase in four bytes of shadow is exactly the sharing history of the
\* word: untouched, private to the thread the shadow names, read by several
\* threads since it was shared, or stored to since it was shared.  No order
\* of accesses, thread switches and marks leaves it anywhere else (a panic
\* stops the handler half way through an access).
PhaseIsHistory ==
  status # "panic" => \A w \in Word :
    /\ shadow[w].state # "virgin"
    /\ shadow[w].state = "invalid" <=> touched[w] = {}
    /\ shadow[w].state = "exclusive" => touched[w] = {shadow[w].tid}
    /\ shadow[w].state \in {"shared", "shared_mod"} <=> SharedAlready(w)
    /\ shadow[w].state = "shared_mod" <=> writeShared[w]

\* The id in a shared word names the lock its last noted accessor held: the
\* lock table never lets an id drift to another lock, however many locks are
\* registered between two accesses.
LocksetNamesHeldLock ==
  status = "running" =>
    \A w \in Word :
      IF entered[w] = NoLock THEN shadow[w].ls = 0
      ELSE shadow[w].ls # 0 /\ locks[shadow[w].ls] = entered[w]

\* No false alarm: the handler stops the program only on a word that two
\* threads touched and one stored to since, with the access made by a thread
\* that holds nothing, when no lock protected every access since sharing.
ReportIsJustified ==
  status = "report" =>
    /\ Holding = NoLock
    /\ \E w \in Word :
         /\ SharedAlready(w) /\ writeShared[w]
         /\ candidates[w] = {}
         /\ shadow[w].state = "shared_mod"
         /\ shadow[w].tid = cur_thread_id
         /\ shadow[w].ls = 0

\* The alarm it never misses: while the program runs, every write-shared word
\* was made so by a store under a lock.
LocklessFirstStoreCaught ==
  status = "running" => \A w \in Word : writeShared[w] => entered[w] # NoLock

\* The detector keeps the promise of module EraserPromise.
Promise == INSTANCE EraserPromise WITH
  thread <- cur_thread_id, held <- lockset, verdict <- status

KeepsPromise == Promise!PSpec
=============================================================================
