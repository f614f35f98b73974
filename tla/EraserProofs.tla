---------------------------- MODULE EraserProofs ----------------------------
(***************************************************************************)
(* Proofs about the detector, for every number of words, threads, locks    *)
(* and lock slots.                                                         *)
(***************************************************************************)
EXTENDS EraserHistory, TLAPS

-----------------------------------------------------------------------------
(* Type correctness. *)

LEMMA InitType == HInit => HTypeOK
<1> SUFFICES ASSUME HInit PROVE HTypeOK
  OBVIOUS
<1>1. 0 \in Tid /\ 0 \in LockId
  BY EraserAssumption DEF Tid, LockId
<1>2. lockset \in [Tid -> Lock \cup {NoLock}] /\ locks \in [1..MaxLocks -> Lock \cup {NoLock}]
  BY DEF HInit, Init
<1>3. shadow \in [Word -> ShadowWord]
  <2>1. [state |-> "invalid", tid |-> 0, ls |-> 0] \in ShadowWord
    BY <1>1 DEF ShadowWord, Phase
  <2> QED BY <2>1 DEF HInit, Init
<1>4. cur_thread_id = 0 /\ marking = NotMarking /\ status = "running"
  BY DEF HInit, Init
<1>5. touched \in [Word -> SUBSET Tid] /\ writeShared \in [Word -> BOOLEAN]
  BY DEF HInit
<1>6. candidates \in [Word -> SUBSET Lock] /\ entered \in [Word -> Lock \cup {NoLock}]
  BY DEF HInit
<1> QED BY <1>1, <1>2, <1>3, <1>4, <1>5, <1>6 DEF HTypeOK, TypeOK

\* The handler keeps the shadow and the lock table well typed (all branches of
\* ldr_str_handler).
LEMMA HandlerType ==
  ASSUME TypeOK, NEW w \in Word, NEW op \in {"load", "store"},
         ldr_str_handler(w, op)
  PROVE  /\ locks' \in [1..MaxLocks -> Lock \cup {NoLock}]
         /\ shadow' \in [Word -> ShadowWord]
         /\ status' \in {"running", "report", "panic", "assert"}
<1> USE DEF TypeOK
<1>0. /\ cur_thread_id \in Tid /\ Holding \in Lock \cup {NoLock}
      /\ 0 \in LockId
  BY EraserAssumption DEF Holding, LockId
<1>1. ASSUME NEW l \in Lock \cup {NoLock}, NEW id \in LockId, LockToInt(l, id)
      PROVE  locks' \in [1..MaxLocks -> Lock \cup {NoLock}]
  BY <1>1 DEF LockToInt
<1>2. CASE FirstTouch(w)
  BY <1>0, <1>2 DEF FirstTouch, ShadowWord, Phase
<1>3. CASE StayExclusive(w)
  BY <1>3 DEF StayExclusive
<1>4. CASE ShareByLoad(w)
  BY <1>4 DEF ShareByLoad, ShadowWord, Phase
<1>5. CASE LoadShared(w)
  <2>1. PICK id \in LockId :
          /\ LockToInt(Holding, id)
          /\ shadow' = [shadow EXCEPT ![w].tid = cur_thread_id, ![w].ls = id]
    BY <1>5 DEF LoadShared
  <2>2. shadow' \in [Word -> ShadowWord]
    BY <1>0, <2>1 DEF ShadowWord
  <2> QED BY <1>0, <1>1, <1>5, <2>1, <2>2 DEF LoadShared
<1>6. CASE BecomeSharedMod(w)
  <2>1. PICK id \in LockId :
          /\ LockToInt(Holding, id)
          /\ shadow' = [shadow EXCEPT ![w] = [state |-> "shared_mod",
                                           tid |-> cur_thread_id, ls |-> id]]
          /\ status' = IF id = 0 THEN "report" ELSE status
    BY <1>6 DEF BecomeSharedMod
  <2>2. shadow' \in [Word -> ShadowWord]
    BY <1>0, <2>1 DEF ShadowWord, Phase
  <2> QED BY <1>0, <1>1, <2>1, <2>2
<1>7. CASE CheckSharedMod(w)
  BY <1>7 DEF CheckSharedMod
<1>8. CASE LockTableFull(w, op)
  BY <1>0, <1>8 DEF LockTableFull, ShadowWord, Phase
<1> QED
  BY <1>2, <1>3, <1>4, <1>5, <1>6, <1>7, <1>8 DEF ldr_str_handler

\* Noting an access keeps the history well typed.
LEMMA NoteType ==
  ASSUME HTypeOK, NEW w \in Word, NEW op, Note(w, op)
  PROVE  /\ touched' \in [Word -> SUBSET Tid]
         /\ writeShared' \in [Word -> BOOLEAN]
         /\ candidates' \in [Word -> SUBSET Lock]
         /\ entered' \in [Word -> Lock \cup {NoLock}]
BY DEF Note, HTypeOK, TypeOK, Holding

LEMMA NextType == HTypeOK /\ [HNext]_hvars => HTypeOK'
<1> SUFFICES ASSUME HTypeOK, [HNext]_hvars PROVE HTypeOK'
  OBVIOUS
<1> USE DEF HTypeOK, TypeOK
<1>1. CASE \E w \in Word, op \in {"load", "store"} : Access(w, op) /\ Note(w, op)
  BY <1>1, HandlerType, NoteType DEF Access
<1>2. CASE \E kind \in {"alloc", "free"}, lo, hi \in Word :
             lo <= hi /\ eraser_mark(kind, lo, hi) /\ UNCHANGED history
  BY <1>2 DEF eraser_mark, history, Block
<1>3. CASE MarkStep /\ Note(marking.lo, "store")
  <2>1. /\ marking \in Block
        /\ marking.lo \in Word
    BY <1>3 DEF MarkStep, Marking, Block
  <2>2. marking' \in {NotMarking} \cup Block
    <3>1. CASE marking.lo < marking.hi
      <4>1. marking \in [kind : {"alloc", "free"}, lo : Word, hi : Word]
        BY <2>1 DEF Block
      <4>2. marking.lo + 1 \in Word /\ marking.lo + 1 <= marking.hi
        BY <3>1, <4>1, EraserAssumption DEF Word
      <4>3. [marking EXCEPT !.lo = @ + 1] \in Block
        BY <4>1, <4>2 DEF Block
      <4> QED BY <1>3, <3>1, <4>3 DEF MarkStep
    <3>2. CASE ~(marking.lo < marking.hi)
      BY <1>3, <3>2 DEF MarkStep
    <3> QED BY <3>1, <3>2
  <2> QED BY <1>3, <2>1, <2>2, HandlerType, NoteType DEF MarkStep
<1>4. CASE \E l \in Lock :
             (eraser_lock(l) \/ eraser_unlock(l)) /\ UNCHANGED history
  BY <1>4 DEF eraser_lock, eraser_unlock, history
<1>5. CASE \E tid \in 0..MaxThreads : eraser_set_thread_id(tid) /\ UNCHANGED history
  BY <1>5 DEF eraser_set_thread_id, history
<1>6. CASE Rebooted /\ UNCHANGED history
  BY <1>6 DEF Rebooted, vars, history
<1>7. CASE UNCHANGED hvars
  BY <1>7 DEF hvars, vars, history
<1> QED BY <1>1, <1>2, <1>3, <1>4, <1>5, <1>6, <1>7 DEF HNext

\* Every variable keeps its type (a thread id always indexes the lockset, a
\* lock id always fits the shadow word).
THEOREM TypeCorrect == HSpec => []HTypeOK
BY InitType, NextType, PTL DEF HSpec

-----------------------------------------------------------------------------
(* The invariant of the detector.                                          *)
(*                                                                         *)
(* No part is inductive alone.  That an exclusive word was never written   *)
(* by two threads is read off its history; that the check of a             *)
(* write-shared word never fires late follows from the lock the word was   *)
(* entered with, whose id must still name it when the table has grown.     *)

DetectorInv ==
  /\ HTypeOK
  /\ LockTableOK
  /\ PhaseIsHistory
  /\ LocksetNamesHeldLock
  /\ LocklessFirstStoreCaught
  /\ ReportIsJustified

LEMMA InitInv == HInit => DetectorInv
<1> SUFFICES ASSUME HInit PROVE DetectorInv
  OBVIOUS
<1>1. HTypeOK
  BY InitType
<1>2. LockTableOK
  BY DEF HInit, Init, LockTableOK
<1>3. LocklessFirstStoreCaught
  BY DEF HInit, LocklessFirstStoreCaught
<1>4. PhaseIsHistory /\ LocksetNamesHeldLock /\ ReportIsJustified
  BY DEF HInit, Init, PhaseIsHistory, LocksetNamesHeldLock, ReportIsJustified,
     SharedAlready
<1> QED BY <1>1, <1>2, <1>3, <1>4 DEF DetectorInv

\* What lock_to_int does to the table: the id it returns stands for the lock,
\* every id given before keeps its lock, and the table stays packed.
LEMMA LockToIntFact ==
  ASSUME TypeOK, LockTableOK, NEW l \in Lock \cup {NoLock}, NEW id \in LockId,
         LockToInt(l, id)
  PROVE  /\ LockTableOK'
         /\ l = NoLock <=> id = 0
         /\ l # NoLock => id \in 1..MaxLocks /\ locks'[id] = l
         /\ \A i \in 1..MaxLocks : locks[i] # NoLock => locks'[i] = locks[i]
<1>1. CASE l = NoLock /\ id = 0 /\ UNCHANGED locks
  BY <1>1 DEF LockTableOK
<1>2. CASE /\ l # NoLock
           /\ id \in 1..MaxLocks
           /\ StopsAt(l, id)
           /\ locks' = [locks EXCEPT ![id] = l]
  <2>1. /\ \A i \in 1..MaxLocks : locks'[i] = IF i = id THEN l ELSE locks[i]
        /\ locks[id] \in {l, NoLock}
        /\ \A j \in 1..(id - 1) : locks[j] \notin {l, NoLock}
    BY <1>2 DEF TypeOK, StopsAt
  <2>2. LockTableOK'
    <3> SUFFICES ASSUME NEW i \in 1..MaxLocks, NEW j \in 1..MaxLocks,
                        i < j, locks'[j] # NoLock
                 PROVE  locks'[i] \notin {NoLock, locks'[j]}
      BY DEF LockTableOK
    <3>1. CASE j = id
      BY <1>2, <2>1, <3>1, EraserAssumption
    <3>2. CASE i = id
      BY <1>2, <2>1, <3>2 DEF LockTableOK
    <3>3. CASE i # id /\ j # id
      BY <2>1, <3>3 DEF LockTableOK
    <3> QED BY <3>1, <3>2, <3>3
  <2> QED BY <1>2, <2>1, <2>2
<1> QED BY <1>1, <1>2 DEF LockToInt

\* The phase after an access is the history after it (one step per branch of
\* the handler).
LEMMA AccessPhase ==
  ASSUME HTypeOK, PhaseIsHistory, status = "running",
         NEW w \in Word, NEW op \in {"load", "store"},
         ldr_str_handler(w, op), Note(w, op), UNCHANGED cur_thread_id
  PROVE  PhaseIsHistory'
<1> DEFINE t == cur_thread_id
<1> SUFFICES ASSUME status' # "panic", NEW v \in Word
    PROVE  /\ shadow'[v].state # "virgin"
           /\ shadow'[v].state = "invalid" <=> touched'[v] = {}
           /\ shadow'[v].state = "exclusive" => touched'[v] = {shadow'[v].tid}
           /\ shadow'[v].state \in {"shared", "shared_mod"} <=> SharedAlready(v)'
           /\ shadow'[v].state = "shared_mod" <=> writeShared'[v]
  BY DEF PhaseIsHistory
<1> USE DEF HTypeOK, TypeOK
<1>1. /\ shadow[v].state # "virgin"
      /\ shadow[v].state = "invalid" <=> touched[v] = {}
      /\ shadow[v].state = "exclusive" => touched[v] = {shadow[v].tid}
      /\ shadow[v].state \in {"shared", "shared_mod"} <=> SharedAlready(v)
      /\ shadow[v].state = "shared_mod" <=> writeShared[v]
  BY DEF PhaseIsHistory
<1>2. /\ v # w => touched'[v] = touched[v] /\ writeShared'[v] = writeShared[v]
      /\ touched'[w] = touched[w] \cup {t}
      /\ writeShared'[w] = (writeShared[w] \/ (Shares(w) /\ op = "store"))
  BY DEF Note
<1>3. CASE v # w
  <2>1. shadow'[v] = shadow[v]
    BY <1>3 DEF ldr_str_handler, FirstTouch, StayExclusive, ShareByLoad,
       LoadShared, BecomeSharedMod, CheckSharedMod, LockTableFull
  <2> QED BY <1>1, <1>2, <1>3, <2>1 DEF SharedAlready
<1>4. CASE v = w
  <2> USE <1>4
  <2>1. CASE FirstTouch(w)
    <3>1. shadow'[w].state = "exclusive" /\ shadow'[w].tid = t /\ touched[w] = {}
      BY <1>1, <2>1 DEF FirstTouch, ShadowWord
    <3> QED BY <1>1, <1>2, <3>1 DEF SharedAlready, SharedBy, Shares
  <2>2. CASE StayExclusive(w)
    BY <1>1, <1>2, <2>2 DEF StayExclusive, SharedAlready, SharedBy, Shares
  <2>3. CASE op = "load" /\ ShareByLoad(w)
    <3>1. shadow'[w].state = "shared" /\ touched[w] = {shadow[w].tid}
          /\ shadow[w].tid # t
      BY <1>1, <2>3 DEF ShareByLoad, ExclusiveToOther, ShadowWord
    <3> QED BY <1>1, <1>2, <2>3, <3>1 DEF SharedAlready, ShareByLoad, ExclusiveToOther
  <2>4. CASE op = "load" /\ LoadShared(w)
    <3>1. shadow'[w].state = "shared" /\ shadow[w].state = "shared"
      BY <2>4 DEF LoadShared, ShadowWord
    <3> QED BY <1>1, <1>2, <2>4, <3>1 DEF SharedAlready
  <2>5. CASE op = "store" /\ BecomeSharedMod(w)
    <3>1. shadow'[w].state = "shared_mod"
      BY <2>5 DEF BecomeSharedMod
    <3>2. SharedAlready(w) \/ (touched[w] = {shadow[w].tid} /\ shadow[w].tid # t)
      BY <1>1, <2>5 DEF BecomeSharedMod, ExclusiveToOther
    <3> QED BY <1>2, <2>5, <3>1, <3>2 DEF SharedAlready, SharedBy, Shares
  <2>6. CASE CheckSharedMod(w)
    BY <1>1, <1>2, <2>6 DEF CheckSharedMod, SharedAlready
  <2>7. CASE LockTableFull(w, op)
    BY <2>7 DEF LockTableFull
  <2> QED
    BY <2>1, <2>2, <2>3, <2>4, <2>5, <2>6, <2>7 DEF ldr_str_handler
<1> QED BY <1>3, <1>4

\* What the two branches that refine a lockset leave behind: the id they store
\* names the lock held, and every other word's id still names its lock.
LEMMA RefineFact ==
  ASSUME HTypeOK, LockTableOK, LocksetNamesHeldLock, status = "running",
         NEW w \in Word, NEW id \in LockId, LockToInt(Holding, id),
         \A v \in Word : v # w => /\ shadow'[v] = shadow[v]
                                 /\ entered'[v] = entered[v],
         shadow'[w].ls = id, entered'[w] = Holding
  PROVE  LockTableOK' /\ LocksetNamesHeldLock'
<1> USE DEF HTypeOK, TypeOK
<1>1. Holding \in Lock \cup {NoLock}
  BY DEF Holding
<1>2. /\ LockTableOK'
      /\ Holding = NoLock <=> id = 0
      /\ Holding # NoLock => id \in 1..MaxLocks /\ locks'[id] = Holding
      /\ \A i \in 1..MaxLocks : locks[i] # NoLock => locks'[i] = locks[i]
  BY <1>1, LockToIntFact
<1>3. ASSUME NEW v \in Word
      PROVE  IF entered'[v] = NoLock THEN shadow'[v].ls = 0
             ELSE shadow'[v].ls # 0 /\ locks'[shadow'[v].ls] = entered'[v]
  <2>1. CASE v = w
    BY <1>2, <2>1
  <2>2. CASE v # w
    <3>1. shadow[v].ls \in 0..MaxLocks
      BY DEF ShadowWord, LockId
    <3> QED BY <1>2, <2>2, <3>1 DEF LocksetNamesHeldLock
  <2> QED BY <2>1, <2>2
<1> QED BY <1>2, <1>3 DEF LocksetNamesHeldLock

\* An access that leaves the lock table and the lockset of the word alone.
LEMMA KeepFact ==
  ASSUME LockTableOK, LocksetNamesHeldLock, status = "running",
         UNCHANGED <<locks, entered>>,
         \A v \in Word : shadow'[v].ls = shadow[v].ls
  PROVE  LockTableOK' /\ LocksetNamesHeldLock'
BY DEF LockTableOK, LocksetNamesHeldLock

\* An access keeps the lock table, the locksets and the promise that every
\* lockless first store is reported, and no other is (branch by branch).
LEMMA AccessLockset ==
  ASSUME DetectorInv, status = "running",
         NEW w \in Word, NEW op \in {"load", "store"},
         ldr_str_handler(w, op), Note(w, op), UNCHANGED <<cur_thread_id, lockset>>
  PROVE  /\ LockTableOK'
         /\ LocksetNamesHeldLock'
         /\ LocklessFirstStoreCaught'
         /\ ReportIsJustified'
<1> USE DEF HTypeOK, TypeOK
<1> HTypeOK
  BY DEF DetectorInv
<1>1. /\ HTypeOK /\ LockTableOK /\ LocksetNamesHeldLock /\ PhaseIsHistory
      /\ LocklessFirstStoreCaught
  BY DEF DetectorInv
<1>2. /\ shadow[w] \in ShadowWord
      /\ shadow[w].state \in Phase
      /\ shadow[w].state = "invalid" <=> touched[w] = {}
      /\ shadow[w].state = "exclusive" => touched[w] = {shadow[w].tid}
      /\ shadow[w].state \in {"shared", "shared_mod"} <=> SharedAlready(w)
      /\ shadow[w].state = "shared_mod" <=> writeShared[w]
      /\ shadow[w].state # "virgin"
  BY <1>1 DEF PhaseIsHistory, ShadowWord
<1>3. /\ touched' = [touched EXCEPT ![w] = @ \cup {cur_thread_id}]
      /\ writeShared' = [writeShared EXCEPT ![w] = @ \/ (Shares(w) /\ op = "store")]
      /\ candidates' = [candidates EXCEPT
           ![w] = IF Shares(w) THEN @ \cap {Holding} ELSE @]
      /\ entered' = [entered EXCEPT
           ![w] = IF ~writeShared[w] /\ (SharedAlready(w) \/ (SharedBy(w) /\ op = "store"))
                    THEN Holding ELSE @]
  BY DEF Note
<1>4. ASSUME UNCHANGED <<locks, entered, writeShared, status>>,
             \A v \in Word : shadow'[v].ls = shadow[v].ls
      PROVE  /\ LockTableOK' /\ LocksetNamesHeldLock'
             /\ LocklessFirstStoreCaught' /\ ReportIsJustified'
  <2>1. LockTableOK' /\ LocksetNamesHeldLock'
    BY <1>1, <1>4, KeepFact
  <2> QED BY <1>1, <1>4, <2>1 DEF LocklessFirstStoreCaught, ReportIsJustified
<1>5. CASE FirstTouch(w)
  <2>1. \A v \in Word : shadow'[v].ls = shadow[v].ls
    BY <1>5 DEF FirstTouch, ShadowWord
  <2>2. ~SharedBy(w) /\ ~SharedAlready(w)
    BY <1>2, <1>5 DEF FirstTouch, SharedBy, SharedAlready
  <2>3. UNCHANGED <<entered, writeShared>>
    BY <1>3, <2>2 DEF Shares
  <2> QED BY <1>4, <1>5, <2>1, <2>3 DEF FirstTouch
<1>6. CASE StayExclusive(w)
  <2>1. ~SharedBy(w) /\ ~SharedAlready(w)
    BY <1>2, <1>6 DEF StayExclusive, SharedBy, SharedAlready
  <2>2. UNCHANGED <<entered, writeShared>>
    BY <1>3, <2>1 DEF Shares
  <2> QED BY <1>4, <1>6, <2>2 DEF StayExclusive
<1>7. CASE op = "load" /\ ShareByLoad(w)
  <2>1. \A v \in Word : shadow'[v].ls = shadow[v].ls
    BY <1>7 DEF ShareByLoad, ShadowWord
  <2>2. ~SharedAlready(w)
    BY <1>2, <1>7 DEF ShareByLoad, ExclusiveToOther, SharedAlready
  <2>3. UNCHANGED <<entered, writeShared>>
    BY <1>3, <1>7, <2>2
  <2> QED BY <1>4, <1>7, <2>1, <2>3 DEF ShareByLoad
<1>8. CASE op = "load" /\ LoadShared(w)
  <2>1. PICK id \in LockId :
          /\ LockToInt(Holding, id)
          /\ shadow' = [shadow EXCEPT ![w].tid = cur_thread_id, ![w].ls = id]
    BY <1>8 DEF LoadShared
  <2>2. shadow[w].state = "shared" /\ UNCHANGED status
    BY <1>8 DEF LoadShared
  <2>3. entered'[w] = Holding /\ UNCHANGED writeShared
    BY <1>2, <1>3, <1>8, <2>2
  <2>4. LockTableOK' /\ LocksetNamesHeldLock'
    BY <1>1, <1>3, <2>1, <2>3, RefineFact DEF ShadowWord
  <2>5. LocklessFirstStoreCaught' /\ ReportIsJustified'
    BY <1>1, <1>2, <1>3, <2>2, <2>3
       DEF LocklessFirstStoreCaught, ReportIsJustified
  <2> QED BY <2>4, <2>5
<1>9. CASE op = "store" /\ BecomeSharedMod(w)
  <2>1. PICK id \in LockId :
          /\ LockToInt(Holding, id)
          /\ shadow' = [shadow EXCEPT ![w] = [state |-> "shared_mod",
                                           tid |-> cur_thread_id, ls |-> id]]
          /\ status' = IF id = 0 THEN "report" ELSE status
    BY <1>9 DEF BecomeSharedMod
  <2>2. ~writeShared[w] /\ Shares(w) /\ (SharedAlready(w) \/ SharedBy(w))
    BY <1>2, <1>9 DEF BecomeSharedMod, ExclusiveToOther, Shares, SharedBy
  <2>3. entered'[w] = Holding /\ writeShared'[w] /\ candidates'[w] = candidates[w] \cap {Holding}
    BY <1>3, <1>9, <2>2
  <2>4. LockTableOK' /\ LocksetNamesHeldLock'
    BY <1>1, <1>3, <2>1, <2>3, RefineFact
  <2>5. Holding \in Lock \cup {NoLock} /\ (Holding = NoLock <=> id = 0)
    BY <1>1, <2>1, LockToIntFact DEF Holding
  <2>6. LocklessFirstStoreCaught'
    BY <1>1, <1>3, <2>1, <2>3, <2>5 DEF LocklessFirstStoreCaught
  <2>7. SharedAlready(w)'
    BY <1>3, <2>2 DEF SharedAlready, SharedBy
  <2>8. ReportIsJustified'
    <3> SUFFICES ASSUME status' = "report" PROVE ReportIsJustified'
      BY DEF ReportIsJustified
    <3>1. id = 0 /\ Holding = NoLock /\ Holding' = Holding
      BY <2>1, <2>5 DEF Holding
    <3>2. candidates'[w] = {}
      <4>1. candidates[w] \subseteq Lock
        BY DEF HTypeOK
      <4>2. candidates'[w] = candidates[w] \cap {NoLock}
        BY <2>3, <3>1
      <4>3. NoLock \notin Lock
        BY EraserAssumption
      <4> QED BY ONLY <4>1, <4>2, <4>3
    <3>3. /\ shadow'[w].state = "shared_mod" /\ shadow'[w].ls = 0
          /\ shadow'[w].tid = cur_thread_id'
      BY <2>1, <3>1
    <3> QED BY <2>3, <2>7, <3>1, <3>2, <3>3 DEF ReportIsJustified
  <2> QED BY <2>4, <2>6, <2>8
<1>10. CASE CheckSharedMod(w)
  <2>1. writeShared[w]
    BY <1>2, <1>10 DEF CheckSharedMod
  <2>2. UNCHANGED <<entered, writeShared>>
    BY <1>3, <2>1
  <2>3. shadow[w].ls # 0
    BY <1>1, <2>1 DEF LocklessFirstStoreCaught, LocksetNamesHeldLock
  <2> QED BY <1>4, <1>10, <2>2, <2>3 DEF CheckSharedMod
<1>11. CASE LockTableFull(w, op)
  BY <1>1, <1>11 DEF LockTableFull, LockTableOK, LocksetNamesHeldLock,
     LocklessFirstStoreCaught, ReportIsJustified
<1> QED
  BY <1>5, <1>6, <1>7, <1>8, <1>9, <1>10, <1>11 DEF ldr_str_handler

\* An operation that touches neither shadow nor history.
LEMMA QuietStep ==
  ASSUME DetectorInv, HTypeOK', UNCHANGED <<locks, shadow, history>>,
         status' # "report" \/ UNCHANGED <<status, cur_thread_id, lockset>>,
         status' = "running" => status = "running",
         status = "panic" => status' = "panic"
  PROVE  DetectorInv'
BY DEF DetectorInv, history, LockTableOK, PhaseIsHistory, LocksetNamesHeldLock,
   LocklessFirstStoreCaught, ReportIsJustified, SharedAlready, Holding

LEMMA NextInv == DetectorInv /\ [HNext]_hvars => DetectorInv'
<1> SUFFICES ASSUME DetectorInv, [HNext]_hvars PROVE DetectorInv'
  OBVIOUS
<1>1. HTypeOK /\ HTypeOK'
  BY NextType DEF DetectorInv
<1>2. ASSUME NEW w \in Word, NEW op \in {"load", "store"}, status = "running",
             ldr_str_handler(w, op), Note(w, op), UNCHANGED <<cur_thread_id, lockset>>
      PROVE  DetectorInv'
  <2>1. PhaseIsHistory'
    BY <1>1, <1>2, AccessPhase DEF DetectorInv
  <2>2. /\ LockTableOK' /\ LocksetNamesHeldLock'
        /\ LocklessFirstStoreCaught' /\ ReportIsJustified'
    BY <1>2, AccessLockset
  <2> QED BY <1>1, <2>1, <2>2 DEF DetectorInv
<1>3. CASE \E w \in Word, op \in {"load", "store"} : Access(w, op) /\ Note(w, op)
  BY <1>2, <1>3 DEF Access, Idle
<1>4. CASE \E kind \in {"alloc", "free"}, lo, hi \in Word :
             lo <= hi /\ eraser_mark(kind, lo, hi) /\ UNCHANGED history
  BY <1>1, <1>4, QuietStep DEF eraser_mark
<1>5. CASE MarkStep /\ Note(marking.lo, "store")
  <2>1. marking.lo \in Word
    BY <1>1, <1>5 DEF MarkStep, Marking, HTypeOK, TypeOK, Block
  <2> QED BY <1>2, <1>5, <2>1 DEF MarkStep
<1>6. CASE \E l \in Lock :
             (eraser_lock(l) \/ eraser_unlock(l)) /\ UNCHANGED history
  BY <1>1, <1>6, QuietStep DEF eraser_lock, eraser_unlock, Idle
<1>7. CASE \E tid \in 0..MaxThreads : eraser_set_thread_id(tid) /\ UNCHANGED history
  BY <1>1, <1>7, QuietStep DEF eraser_set_thread_id, Idle
<1>8. CASE Rebooted /\ UNCHANGED history
  BY <1>1, <1>8, QuietStep DEF Rebooted, vars
<1>9. CASE UNCHANGED hvars
  BY <1>1, <1>9, QuietStep DEF hvars, vars
<1> QED BY <1>3, <1>4, <1>5, <1>6, <1>7, <1>8, <1>9 DEF HNext

\* What the detector keeps in its four bytes and its table is, at every point,
\* what its history of accesses says (ldr_str_handler and the operations).
THEOREM DetectorInvariant == HSpec => []DetectorInv
BY InitInv, NextInv, PTL DEF HSpec

-----------------------------------------------------------------------------
(* What the invariant says, property by property. *)

\* The shadow word of every word is its sharing history.
THEOREM PhaseCorrect == HSpec => []PhaseIsHistory
BY DetectorInvariant, PTL DEF DetectorInv

\* A report is never a false alarm.
THEOREM ReportsJustified == HSpec => []ReportIsJustified
BY DetectorInvariant, PTL DEF DetectorInv

\* A word that is write-shared while the program runs was made so under a lock.
THEOREM FirstStoresCaught == HSpec => []LocklessFirstStoreCaught
BY DetectorInvariant, PTL DEF DetectorInv

\* The lock id of a shared word names the lock its last noted accessor held.
THEOREM LocksetsNamed == HSpec => []LocksetNamesHeldLock
BY DetectorInvariant, PTL DEF DetectorInv

\* The lock table is packed and free of duplicates.
THEOREM LockTablePacked == HSpec => []LockTableOK
BY DetectorInvariant, PTL DEF DetectorInv

-----------------------------------------------------------------------------
(* The detector implements the promise of module EraserPromise. *)

\* Every access of the detector is one the promise allows: a report exactly
\* when the access is the first shared store and its thread holds no lock.
LEMMA AccessKeepsPromise ==
  ASSUME DetectorInv, DetectorInv', status = "running",
         NEW w \in Word, NEW op \in {"load", "store"},
         ldr_str_handler(w, op), Note(w, op), UNCHANGED <<cur_thread_id, lockset>>
  PROVE  Promise!PAccess(w, op)
<1> DEFINE now == touched[w] \cup {cur_thread_id}
           written == writeShared[w] \/ (Promise!TwoThreads(now) /\ op = "store")
           racy == written /\ ~writeShared[w] /\ Holding = NoLock
<1> HTypeOK
  BY DEF DetectorInv
<1> USE DEF HTypeOK, TypeOK
<1>1. Promise!TwoThreads(now) <=> Shares(w)
  BY DEF Promise!TwoThreads, Shares, SharedAlready, SharedBy
<1>2. /\ touched' = [touched EXCEPT ![w] = now]
      /\ writeShared' = [writeShared EXCEPT ![w] = written]
  BY <1>1 DEF Note
<1>3. /\ shadow[w].state = "exclusive" => touched[w] = {shadow[w].tid}
      /\ shadow[w].state \in {"invalid", "exclusive", "shared", "shared_mod"}
      /\ shadow[w].state \in {"shared", "shared_mod"} <=> SharedAlready(w)
      /\ shadow[w].state = "shared_mod" <=> writeShared[w]
      /\ shadow[w].state = "invalid" <=> touched[w] = {}
  BY DEF DetectorInv, PhaseIsHistory, ShadowWord, Phase
<1>4. \/ status' = IF racy THEN "report" ELSE "running"
      \/ ~racy /\ Holding # NoLock /\ status' = "panic"
  <2>1. CASE FirstTouch(w)
    BY <1>1, <1>3, <2>1 DEF FirstTouch, Shares, SharedAlready, SharedBy
  <2>2. CASE StayExclusive(w)
    BY <1>1, <1>3, <2>2 DEF StayExclusive, Shares, SharedAlready, SharedBy
  <2>3. CASE op = "load" /\ ShareByLoad(w)
    BY <2>3 DEF ShareByLoad
  <2>4. CASE op = "load" /\ LoadShared(w)
    BY <2>4 DEF LoadShared
  <2>5. CASE op = "store" /\ BecomeSharedMod(w)
    <3>1. PICK id \in LockId :
            /\ LockToInt(Holding, id)
            /\ status' = IF id = 0 THEN "report" ELSE status
      BY <2>5 DEF BecomeSharedMod
    <3>2. Holding = NoLock <=> id = 0
      BY <3>1, LockToIntFact DEF DetectorInv, Holding
    <3>3. written /\ ~writeShared[w]
      BY <1>1, <1>3, <2>5
         DEF BecomeSharedMod, ExclusiveToOther, Shares, SharedBy
    <3> QED BY <3>1, <3>2, <3>3
  <2>6. CASE CheckSharedMod(w)
    <3>1. writeShared[w]
      BY <1>3, <2>6 DEF CheckSharedMod
    <3>2. shadow[w].ls # 0
      BY <3>1 DEF DetectorInv, LocklessFirstStoreCaught, LocksetNamesHeldLock
    <3> QED BY <2>6, <3>1, <3>2 DEF CheckSharedMod
  <2>7. CASE LockTableFull(w, op)
    BY <2>7 DEF LockTableFull, TooManyLocks
  <2> QED
    BY <2>1, <2>2, <2>3, <2>4, <2>5, <2>6, <2>7 DEF ldr_str_handler
<1> QED BY <1>2, <1>4 DEF Promise!PAccess, Holding

\* The detector reports the first lockless shared store of every word, and
\* nothing else, whatever the order of the program's operations.
THEOREM PromiseKept == HSpec => KeepsPromise
<1>1. HInit => Promise!PInit
  <2> SUFFICES ASSUME HInit PROVE Promise!PInit
    OBVIOUS
  <2>1. HTypeOK
    BY InitType
  <2> QED BY <2>1 DEF HInit, Init, Promise!PInit, HTypeOK, TypeOK
<1>2. DetectorInv /\ DetectorInv' /\ [HNext]_hvars => [Promise!PNext]_(Promise!pvars)
  <2> SUFFICES ASSUME DetectorInv, DetectorInv', [HNext]_hvars
               PROVE  [Promise!PNext]_(Promise!pvars)
    OBVIOUS
  <2> HTypeOK /\ HTypeOK'
    BY DEF DetectorInv
  <2> USE DEF HTypeOK, TypeOK
  <2>1. CASE \E w \in Word, op \in {"load", "store"} : Access(w, op) /\ Note(w, op)
    BY <2>1, AccessKeepsPromise DEF Access, Idle, Promise!PNext
  <2>2. CASE \E kind \in {"alloc", "free"}, lo, hi \in Word :
               lo <= hi /\ eraser_mark(kind, lo, hi) /\ UNCHANGED history
    BY <2>2 DEF eraser_mark, history, Promise!pvars
  <2>3. CASE MarkStep /\ Note(marking.lo, "store")
    <3>1. marking.lo \in Word
      BY <2>3 DEF MarkStep, Marking, Block
    <3> QED BY <2>3, <3>1, AccessKeepsPromise DEF MarkStep, Promise!PNext
  <2>4. CASE \E l \in Lock :
               (eraser_lock(l) \/ eraser_unlock(l)) /\ UNCHANGED history
    <3>1. PICK l \in Lock : (eraser_lock(l) \/ eraser_unlock(l)) /\ UNCHANGED history
      BY <2>4
    <3>2. Promise!PHold \/ Promise!PMisuse
      BY <3>1 DEF eraser_lock, eraser_unlock, Idle, history, Holding,
         Promise!PHold, Promise!PMisuse
    <3> QED BY <3>2 DEF Promise!PNext
  <2>5. CASE \E tid \in 0..MaxThreads : eraser_set_thread_id(tid) /\ UNCHANGED history
    <3>1. Promise!PSwitch \/ Promise!PMisuse
      BY <2>5 DEF eraser_set_thread_id, Idle, history, Promise!PSwitch, Promise!PMisuse
    <3> QED BY <3>1 DEF Promise!PNext
  <2>6. CASE Rebooted /\ UNCHANGED history
    BY <2>6 DEF Rebooted, vars, history, Promise!pvars
  <2>7. CASE UNCHANGED hvars
    BY <2>7 DEF hvars, vars, history, Promise!pvars
  <2> QED BY <2>1, <2>2, <2>3, <2>4, <2>5, <2>6, <2>7 DEF HNext
<1> QED BY <1>1, <1>2, DetectorInvariant, PTL DEF HSpec, KeepsPromise, Promise!PSpec
=============================================================================
