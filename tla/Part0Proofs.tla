----------------------------- MODULE Part0Proofs ----------------------------
(***************************************************************************)
(* The first trap machine, for a heap of any size and programs of any      *)
(* length: its shadow stays closed, its single stepper counts what it      *)
(* steps through, and a block given back stays shut.                       *)
(***************************************************************************)
EXTENDS Part0, TLAPS

-----------------------------------------------------------------------------
(* What the three-bit writes of dom_perm_set do to a register of permissions. *)

LEMMA Permissions == DOM_client \in Permission /\ DOM_no_access \in Permission
                     /\ DOM_client # DOM_no_access
BY DEF Permission, DOM_client, DOM_no_access

\* A permission is one bit, so clearing the low bit of the next domain closes it.
LEMMA SpareBit == \A v \in Permission : v - (v % 2) = DOM_no_access
BY DEF Permission, DOM_no_access, DOM_client

LEMMA DomainIds ==
  /\ dom_id \in Domain /\ track_id \in Domain /\ shadow_id \in Domain /\ shadow_id + 1 \in Domain
  /\ track_id + 1 = shadow_id /\ dom_id # track_id /\ dom_id # shadow_id /\ track_id # shadow_id
  /\ shadow_id + 1 \notin {dom_id, track_id, shadow_id}
BY DEF dom_id, track_id, shadow_id, Domain

\* The trap's write opens or closes the heap, always closes the shadow, and its
\* assertion holds (memtrace_trap_on, memtrace_trap_off).
LEMMA TrapWrite ==
  ASSUME NEW x \in [Domain -> Permission], NEW perm \in Permission, NEW y,
         y = dom_perm_set(x, track_id, perm)
  PROVE  /\ y \in [Domain -> Permission]
         /\ y[track_id] = perm /\ y[shadow_id] = DOM_no_access
         /\ y[dom_id] = x[dom_id]
         /\ memtrace_trap_enabled(y) <=> (perm = DOM_no_access)
<1>1. y = [x EXCEPT ![track_id] = perm, ![shadow_id] = DOM_no_access]
  BY DomainIds, SpareBit DEF dom_perm_set
<1>2. y \in [Domain -> Permission] /\ y[track_id] = perm
      /\ y[shadow_id] = DOM_no_access /\ y[dom_id] = x[dom_id]
  BY <1>1, DomainIds DEF Permission
<1>3. dom_perm_get(y, track_id) = perm
  BY <1>2, DomainIds DEF dom_perm_get, Permission, DOM_no_access, DOM_client
<1> QED
  BY <1>2, <1>3 DEF memtrace_trap_enabled

\* The shadow's write leaves the trap alone, and its assertion holds.
LEMMA ShadowWrite ==
  ASSUME NEW x \in [Domain -> Permission], NEW perm \in Permission, NEW y,
         y = dom_perm_set(x, shadow_id, perm)
  PROVE  /\ y \in [Domain -> Permission]
         /\ y[shadow_id] = perm /\ y[track_id] = x[track_id]
         /\ y[dom_id] = x[dom_id]
         /\ dom_perm_get(y, shadow_id) = perm
<1>1. y = [x EXCEPT ![shadow_id] = perm, ![shadow_id + 1] = DOM_no_access]
  BY DomainIds, SpareBit DEF dom_perm_set
<1>2. /\ y \in [Domain -> Permission] /\ y[shadow_id] = perm
      /\ y[track_id] = x[track_id] /\ y[dom_id] = x[dom_id]
      /\ y[shadow_id + 1] = DOM_no_access
  BY <1>1, DomainIds DEF Permission
<1>3. dom_perm_get(y, shadow_id) = perm
  BY <1>2 DEF dom_perm_get, Permission, DOM_no_access, DOM_client
<1> QED
  BY <1>2, <1>3

-----------------------------------------------------------------------------
(* The machine of part 0. *)

Going == status = "running"

\* Breakpoint 0 waits behind an access that has faulted under memtrace.
Waits == bcr = "mismatch" /\ breakpt_handler0 = "memtrace"

Types ==
  /\ at \in {"super", "memtrace", "steps"} /\ bcr \in {"off", "mismatch"}
  /\ pc \in Pc /\ dacr \in [Domain -> Permission] /\ mmu \in BOOLEAN
  /\ step_cnt \in Nat /\ begun \in Nat

\* The table memtrace_init makes.
MappedAt(t) ==
  /\ t["own"] = dom_id /\ t["heap"] = track_id /\ t["shadow"] = shadow_id
  /\ t["beyond"] = NoDomain

\* What memtrace_init sets up is left so: the heap is open only while the
\* breakpoint waits, which it does in no other mode.
SetUp ==
  /\ mmu <=> at = "memtrace"
  /\ initialized_memtrace => MappedAt(pt)
  /\ initialized_memtrace => /\ monitor /\ dacr[dom_id] = DOM_client
                             /\ dacr[shadow_id] = DOM_no_access
                             /\ at # "memtrace" => dacr[track_id] = DOM_no_access
  /\ at = "super" => bcr = "off"
  /\ at = "memtrace" => /\ initialized_memtrace
                        /\ bcr = "mismatch" => breakpt_handler0 = "memtrace"
                        /\ (dacr[track_id] = DOM_client) <=> Waits

\* The instruction it waits behind is the access.
AccessWaits ==
  at = "memtrace" /\ bcr = "mismatch" /\ pc = bvr => instr.op \in {"heap", "shadow"}

\* The stepper is one instruction behind until its breakpoint strikes; a program
\* it steps through makes no heap call.
NoHeap == {"plain", "sys10", "return"}
Stepping ==
  at = "steps" =>
    /\ instr.op \in NoHeap
    /\ bcr = "mismatch" /\ breakpt_handler0 = "steps"
    /\ step_cnt = IF ~monitor THEN 0 ELSE IF pc = bvr THEN begun ELSE begun - 1

TrapInv ==
  /\ status \notin {"nested", "assert"}
  /\ Going => Types /\ SetUp /\ AccessWaits /\ Stepping

-----------------------------------------------------------------------------
(* The domain register as the handlers leave it. *)

\* The access faults for its domain.
Closed ==
  at = "memtrace" /\ \/ instr.op = "heap" /\ dacr[track_id] = DOM_no_access
                     \/ instr.op = "shadow" /\ dacr[shadow_id] = DOM_no_access

\* Why an access faults, read off the table.
LEMMA ReasonFact ==
  ASSUME Types, SetUp
  PROVE  /\ at # "memtrace" => \A s, x : reason(s, x) = "none"
         /\ at = "memtrace" => \A x :
              /\ reason("beyond", x) = "translation_section"
              /\ reason("heap", x) =
                   IF x[track_id] = DOM_no_access THEN "domain_section" ELSE "none"
              /\ reason("shadow", x) =
                   IF x[shadow_id] = DOM_no_access THEN "domain_section" ELSE "none"
         /\ at = "memtrace" => reason("own", dacr) = "none"
BY Permissions, DomainIds DEF Types, SetUp, MappedAt, reason, NoDomain, Domain, Permission,
   dom_id, track_id, shadow_id

LEMMA ClosedIsReason ==
  ASSUME Types, SetUp
  PROVE  (reason(Target, dacr) = "domain_section") <=> Closed
<1>1. CASE at # "memtrace"
  BY <1>1, ReasonFact DEF Closed
<1>2. CASE at = "memtrace"
  <2>1. CASE instr.op \in {"heap", "shadow"}
    <3>1. Target = instr.op BY <2>1 DEF Target
    <3> QED BY <1>2, <2>1, <3>1, ReasonFact DEF Closed
  <2>2. CASE instr.op = "wild"
    <3>1. Target = "beyond" BY <2>2 DEF Target
    <3> QED BY <1>2, <2>2, <3>1, ReasonFact DEF Closed
  <2>3. CASE instr.op \notin {"heap", "shadow", "wild"}
    <3>1. Target = "own" BY <2>3 DEF Target
    <3> QED BY <1>2, <2>3, <3>1, ReasonFact DEF Closed
  <2> QED BY <2>1, <2>2, <2>3
<1> QED BY <1>1, <1>2

\* The look at the shadow never faults for its domain once the shadow is open.
LEMMA CheckFact ==
  ASSUME Types, SetUp, at = "memtrace", NEW x, x[shadow_id] = DOM_client
  PROVE  /\ check(x) \notin {"nested", "assert"}
         /\ instr.op = "heap" /\ check(x) = "running" => sh[instr.a] # "freed"
<1>1. /\ reason("beyond", x) = "translation_section" /\ reason("shadow", x) = "none"
  BY ReasonFact, DomainIds DEF Permission, DOM_client, DOM_no_access
<1>2. instr.op = "heap" => Target = "heap"
  BY DEF Target
<1> QED BY <1>1, <1>2 DEF check

LEMMA OpenedFact ==
  ASSUME NEW x \in [Domain -> Permission]
  PROVE  /\ opened(x) \in [Domain -> Permission]
         /\ opened(x)[track_id] = DOM_client /\ opened(x)[shadow_id] = DOM_client
         /\ opened(x)[dom_id] = x[dom_id]
         /\ dom_perm_get(opened(x), shadow_id) = DOM_client
<1> DEFINE y == dom_perm_set(x, track_id, DOM_client)
<1>1. y \in [Domain -> Permission] /\ y[track_id] = DOM_client /\ y[dom_id] = x[dom_id]
  BY TrapWrite, Permissions
<1>2. opened(x) = dom_perm_set(y, shadow_id, DOM_client)
  BY DEF opened, memtrace_trap_off
<1> HIDE DEF y
<1> QED BY <1>1, <1>2, ShadowWrite, Permissions

LEMMA ClosedFact ==
  ASSUME NEW x \in [Domain -> Permission], NEW y, y = dom_perm_set(opened(x), shadow_id, DOM_no_access)
  PROVE  /\ y \in [Domain -> Permission]
         /\ y[track_id] = DOM_client /\ y[shadow_id] = DOM_no_access /\ y[dom_id] = x[dom_id]
         /\ dom_perm_get(y, shadow_id) = DOM_no_access
<1> DEFINE o == opened(x)
<1>1. /\ o \in [Domain -> Permission] /\ o[track_id] = DOM_client /\ o[dom_id] = x[dom_id]
      /\ y = dom_perm_set(o, shadow_id, DOM_no_access)
  BY OpenedFact
<1> HIDE DEF o
<1> QED BY <1>1, ShadowWrite, Permissions

\* A system call leaves heap and shadow closed, and fails no assertion.
LEMMA SystemCallFact ==
  ASSUME Types, SystemCall
  PROVE  /\ status' = status /\ Fetched
         /\ dacr' \in [Domain -> Permission] /\ dacr'[dom_id] = dacr[dom_id]
         /\ dacr'[track_id] = DOM_no_access /\ dacr'[shadow_id] = DOM_no_access
<1> DEFINE x == opened(dacr)
           y == dom_perm_set(x, shadow_id, DOM_no_access)
           z == dom_perm_set(y, track_id, DOM_no_access)
<1>1. dacr \in [Domain -> Permission]
  BY DEF Types
<1>2. dom_perm_get(x, shadow_id) = DOM_client
  BY <1>1, OpenedFact
<1>3. /\ y \in [Domain -> Permission] /\ dom_perm_get(y, shadow_id) = DOM_no_access
      /\ y[dom_id] = dacr[dom_id]
  BY <1>1, ClosedFact
<1>4. /\ Fetched /\ dacr' = z
      /\ status' = IF /\ ~memtrace_trap_enabled(memtrace_trap_off(dacr))
                      /\ dom_perm_get(x, shadow_id) = DOM_client
                      /\ dom_perm_get(y, shadow_id) = DOM_no_access
                      /\ memtrace_trap_enabled(z) THEN status ELSE "assert"
  BY DEF SystemCall, Asserted, memtrace_trap_on
<1>6. ~memtrace_trap_enabled(memtrace_trap_off(dacr))
  BY <1>1, TrapWrite, Permissions DEF memtrace_trap_off
<1> HIDE DEF x, y
<1>5. /\ z \in [Domain -> Permission] /\ z[track_id] = DOM_no_access
      /\ z[shadow_id] = DOM_no_access /\ z[dom_id] = y[dom_id] /\ memtrace_trap_enabled(z)
  BY <1>3, TrapWrite, Permissions
<1> HIDE DEF z
<1> QED BY <1>2, <1>3, <1>4, <1>5, <1>6

-----------------------------------------------------------------------------
(* The steps. *)

LEMMA TrapInit == Init => TrapInv
<1> SUFFICES ASSUME Init PROVE TrapInv
  OBVIOUS
<1>1. dacr \in [Domain -> Permission]
  BY Permissions DEF Init
<1>2. Types
  BY <1>1 DEF Init, Types
<1>3. at = "super" /\ ~mmu /\ ~initialized_memtrace /\ bcr = "off"
  BY DEF Init
<1>4. SetUp /\ AccessWaits /\ Stepping
  BY <1>3 DEF SetUp, AccessWaits, Stepping
<1> QED BY <1>2, <1>4 DEF Init, TrapInv

LEMMA WatchKeeps == TrapInv /\ debug_watchpt0_on => TrapInv'
BY DEF TrapInv, Going, Types, SetUp, AccessWaits, Stepping, Waits, debug_watchpt0_on, debug_regs,
       tables, heap, faults, history

LEMMA MemtraceFnKeeps == ASSUME TrapInv, NEW c \in BOOLEAN, memtrace_fn(c) PROVE TrapInv'
<1>1. /\ at = "super" /\ Going /\ at' = "memtrace"
      /\ UNCHANGED <<bcr, bvr, breakpt_handler0, step_cnt, begun>>
  BY DEF memtrace_fn, Going, history
<1>2. pc' \in Pc
  BY DEF memtrace_fn, Goto
<1>3. bcr = "off" /\ ~mmu /\ Types /\ SetUp
  BY <1>1 DEF TrapInv, SetUp
<1>5. mmu' = TRUE /\ status' = status
  BY <1>3 DEF memtrace_fn, memtrace_on, mmu_enable, Asserted, mmu_is_enabled
<1>4. /\ MappedAt(pt')
      /\ initialized_memtrace' /\ monitor' /\ dacr' \in [Domain -> Permission]
      /\ dacr'[dom_id] = DOM_client /\ dacr'[shadow_id] = DOM_no_access
      /\ dacr'[track_id] = DOM_no_access
  <2>1. CASE initialized_memtrace
    BY <1>1, <1>3, <2>1 DEF memtrace_fn, SetUp, Types
  <2>2. CASE ~initialized_memtrace
    <3>1. MappedAt(pt')
      BY <2>2 DEF memtrace_fn, memtrace_init, mmu_map_section, mmu_pt_alloc_at, MappedAt, Section
    <3> QED
      BY <2>2, <3>1, Permissions, DomainIds
         DEF memtrace_fn, memtrace_init, debug_init, write_domain_access_ctrl
  <2> QED BY <2>1, <2>2
<1> QED
  BY <1>1, <1>2, <1>3, <1>4, <1>5, Permissions
     DEF TrapInv, Going, Types, SetUp, AccessWaits, Stepping, Waits

LEMMA MemcheckInitKeeps == TrapInv /\ memcheck_init => TrapInv'
<1> SUFFICES ASSUME TrapInv, memcheck_init PROVE TrapInv'
  OBVIOUS
<1>1. /\ at = "super" /\ Going /\ Types /\ SetUp /\ ~mmu
      /\ UNCHANGED <<at, initialized_memtrace, mmu, monitor, bcr, bvr, breakpt_handler0>>
      /\ UNCHANGED <<pc, instr, step_cnt, begun>>
  BY DEF memcheck_init, Going, TrapInv, SetUp, debug_regs, history
<1>2. status' = status
  BY <1>1 DEF memcheck_init, memtrace_init, mmu_init, mmu_is_enabled, Asserted
<1>3. MappedAt(pt')
  BY DEF memcheck_init, memtrace_init, mmu_map_section, mmu_pt_alloc_at, MappedAt, Section
<1>4. /\ dacr' \in [Domain -> Permission] /\ dacr'[dom_id] = DOM_client
      /\ dacr'[shadow_id] = DOM_no_access /\ dacr'[track_id] = DOM_no_access
  BY Permissions, DomainIds DEF memcheck_init, memtrace_init, write_domain_access_ctrl
<1>5. Types' /\ SetUp'
  BY <1>1, <1>3, <1>4 DEF Types, SetUp
<1> QED
  BY <1>1, <1>2, <1>5 DEF TrapInv, Going, AccessWaits, Stepping

LEMMA SingleStepRunKeeps == TrapInv /\ single_step_run => TrapInv'
<1> SUFFICES ASSUME TrapInv, single_step_run PROVE TrapInv'
  OBVIOUS
<1>1. /\ at = "super" /\ Going /\ at' = "steps" /\ step_cnt' = 0 /\ begun' = 1
      /\ bcr' = "mismatch" /\ bvr' = None /\ breakpt_handler0' = "steps"
      /\ monitor' \in {monitor, TRUE}
      /\ UNCHANGED <<initialized_memtrace, tables, dacr, status>>
  BY DEF single_step_run, Going, debug_mismatch_breakpt0_on, debug_breakpt0_on
<1>2. pc' \in Pc /\ pc' # None /\ instr'.op \in NoHeap
  BY <1>1, Part0Assumption DEF single_step_run, Goto, NoHeap
<1>3. Types /\ SetUp /\ (initialized_memtrace => monitor)
  BY <1>1 DEF TrapInv, SetUp
<1>4. initialized_memtrace => monitor'
  <2>1. CASE monitor' = monitor BY <1>3, <2>1
  <2>2. CASE monitor' = TRUE BY <2>2
  <2> QED BY <1>1, <2>1, <2>2
<1>5. Types' /\ SetUp'
  BY <1>1, <1>2, <1>3, <1>4 DEF Types, SetUp, tables
<1>6. AccessWaits' /\ Stepping'
  BY <1>1, <1>2 DEF AccessWaits, Stepping
<1> QED
  BY <1>1, <1>5, <1>6 DEF TrapInv, Going, Types, SetUp, AccessWaits, Stepping, Waits

LEMMA PrefetchAbortKeeps == TrapInv /\ prefetch_abort_vector => TrapInv'
<1> SUFFICES ASSUME TrapInv, prefetch_abort_vector PROVE TrapInv'
  OBVIOUS
<1>1. /\ Going /\ at # "super" /\ monitor /\ Types /\ SetUp /\ Stepping
      /\ bcr = "mismatch" /\ pc # bvr
      /\ UNCHANGED <<at, initialized_memtrace, mmu, pt, monitor, pc, instr, begun>>
  BY DEF prefetch_abort_vector, User, Breaks, TrapInv, Going, Types, tables
<1>2. CASE single_step_handler
  BY <1>1, <1>2, Permissions
     DEF single_step_handler, debug_mismatch_breakpt0_on, debug_breakpt0_on,
         TrapInv, Going, Types, SetUp, AccessWaits, Stepping, Waits
<1>3. CASE memtrace_step_handler
  <2>1. /\ dacr' \in [Domain -> Permission] /\ dacr'[track_id] = DOM_no_access
        /\ dacr'[shadow_id] = DOM_no_access /\ dacr'[dom_id] = dacr[dom_id]
        /\ memtrace_trap_enabled(dacr')
    BY <1>1, <1>3, TrapWrite, Permissions DEF memtrace_step_handler, memtrace_trap_on, Types
  <2>2. at = "memtrace" /\ bcr' = "off" /\ status' = status /\ step_cnt' = step_cnt
    BY <1>1, <1>3, <2>1
       DEF memtrace_step_handler, Asserted, debug_breakpt0_off, Stepping, Types
  <2> QED
    BY <1>1, <2>1, <2>2, Permissions DEF TrapInv, Going, Types, SetUp, AccessWaits, Stepping, Waits
<1> QED BY <1>2, <1>3 DEF prefetch_abort_vector

LEMMA DomainFaultKeeps == TrapInv /\ domain_fault => TrapInv'
<1> SUFFICES ASSUME TrapInv, domain_fault PROVE TrapInv'
  OBVIOUS
<1>1. /\ Going /\ at = "memtrace" /\ instr.op \in {"heap", "shadow"} /\ Types /\ SetUp
      /\ bcr' = "mismatch" /\ bvr' = pc /\ breakpt_handler0' = "memtrace"
      /\ UNCHANGED <<at, initialized_memtrace, mmu, pt, monitor, pc, instr, step_cnt, begun>>
  BY ClosedIsReason
     DEF domain_fault, Fetched, User, Closed, TrapInv, Going, debug_mismatch_breakpt0_on,
         debug_breakpt0_on, history, tables
<1>3. ~memtrace_trap_enabled(memtrace_trap_off(dacr))
  BY <1>1, TrapWrite, Permissions DEF memtrace_trap_off, Types
<1>2. /\ status' \notin {"nested", "assert"}
      /\ dacr' \in [Domain -> Permission] /\ dacr'[track_id] = DOM_client
      /\ dacr'[shadow_id] = DOM_no_access /\ dacr'[dom_id] = dacr[dom_id]
  <2>1. CASE shadow_check
    <3>1. opened(dacr)[shadow_id] = DOM_client
      BY <1>1, OpenedFact DEF Types
    <3>2. status' \notin {"nested", "assert"}
      BY <1>1, <1>3, <2>1, <3>1, CheckFact DEF domain_fault
    <3> QED BY <1>1, <2>1, <3>2, ClosedFact DEF domain_fault, Types
  <2>2. CASE ~shadow_check
    <3>1. /\ dacr' \in [Domain -> Permission] /\ dacr'[track_id] = DOM_client
          /\ dacr'[shadow_id] = DOM_no_access /\ dacr'[dom_id] = dacr[dom_id]
          /\ ~memtrace_trap_enabled(dacr')
      BY <1>1, <2>2, TrapWrite, Permissions DEF domain_fault, memtrace_trap_off, Types
    <3> QED BY <1>1, <2>2, <3>1 DEF domain_fault, Asserted, Going
  <2> QED BY <2>1, <2>2
<1> QED
  BY <1>1, <1>2, Permissions DEF TrapInv, Going, Types, SetUp, AccessWaits, Stepping, Waits

LEMMA OtherFaultKeeps == TrapInv /\ other_fault => TrapInv'
BY DEF TrapInv, Going, other_fault, last_fault_set

\* The program goes on: no breakpoint holds it, and at the instruction of one
\* that waits it goes through and away.
LEMMA OnwardFact ==
  ASSUME TrapInv, Fetched, Onward, UNCHANGED <<at, monitor, bcr, bvr, breakpt_handler0>>
  PROVE  /\ pc' \in Pc /\ begun' \in Nat
         /\ Types /\ SetUp
         /\ instr.op # "plain" => pc' # pc
         /\ at # "steps" => begun' = begun
         /\ at = "steps" =>
              begun' = (IF pc' # pc THEN begun + 1 ELSE begun) /\ instr'.op \in NoHeap
         /\ pc' = pc => instr' = instr
BY DEF TrapInv, Going, Fetched, User, Onward, Goto, Types, NoHeap

LEMMA ExecuteKeeps == TrapInv /\ Execute => TrapInv'
<1> SUFFICES ASSUME TrapInv, Execute PROVE TrapInv'
  OBVIOUS
<1>1. /\ Going /\ at # "super" /\ Fetched /\ ~Breaks /\ ~Closed
      /\ instr.op \in {"plain", "heap", "sys10"} /\ Onward
      /\ UNCHANGED <<at, initialized_memtrace, mmu, pt, monitor, bcr, bvr, breakpt_handler0, dacr,
                     step_cnt, status>>
  BY ClosedIsReason DEF Execute, Fetched, User, TrapInv, Going, debug_regs, tables
<1>2. /\ pc' \in Pc /\ begun' \in Nat /\ Types /\ SetUp
      /\ instr.op # "plain" => pc' # pc
      /\ at # "steps" => begun' = begun
      /\ at = "steps" =>
           begun' = (IF pc' # pc THEN begun + 1 ELSE begun) /\ instr'.op \in NoHeap
      /\ pc' = pc => instr' = instr
  BY <1>1, OnwardFact
<1>3. Types' /\ SetUp'
  BY <1>1, <1>2 DEF Types, SetUp, Waits
<1>4. AccessWaits'
  BY <1>1, <1>2 DEF AccessWaits, TrapInv, Breaks, SetUp
<1>5. Stepping'
  <2>1. CASE at = "steps" /\ monitor
    <3>1. pc = bvr /\ step_cnt = begun
      BY <1>1, <2>1 DEF TrapInv, Breaks, Stepping
    <3>2. /\ at' = "steps" /\ bcr' = "mismatch" /\ breakpt_handler0' = "steps"
          /\ instr'.op \in NoHeap
      BY <1>1, <1>2, <2>1 DEF TrapInv, Stepping
    <3>3. monitor'
      BY <1>1, <2>1
    <3>4. step_cnt' = IF pc' = bvr' THEN begun' ELSE begun' - 1
      <4>1. begun \in Nat /\ bvr' = pc /\ step_cnt' = begun
        BY <1>1, <1>2, <3>1 DEF Types
      <4>2. CASE pc' = pc
        BY <1>2, <2>1, <4>1, <4>2
      <4>3. CASE pc' # pc
        <5>1. begun' = begun + 1 BY <1>2, <2>1, <4>3
        <5>2. begun' - 1 = begun BY <4>1, <5>1
        <5> QED BY <4>1, <4>3, <5>2
      <4> QED BY <4>2, <4>3
    <3> QED
      BY <3>2, <3>3, <3>4 DEF Stepping
  <2>2. CASE at = "steps" /\ ~monitor
    <3>1. /\ at' = "steps" /\ bcr' = "mismatch" /\ breakpt_handler0' = "steps"
          /\ instr'.op \in NoHeap
      BY <1>1, <1>2, <2>2 DEF TrapInv, Stepping
    <3>2. step_cnt = 0 /\ step_cnt' = step_cnt
      BY <1>1, <2>2 DEF TrapInv, Stepping
    <3>3. ~monitor'
      BY <1>1, <2>2
    <3> QED BY <3>1, <3>2, <3>3 DEF Stepping
  <2>3. CASE at # "steps"
    BY <1>1, <2>3 DEF Stepping
  <2> QED BY <2>1, <2>2, <2>3
<1> QED BY <1>1, <1>3, <1>4, <1>5 DEF TrapInv, Going

LEMMA SystemCallKeeps ==
  ASSUME TrapInv, SystemCall, Onward, instr.op \in {"alloc", "free"}
  PROVE  TrapInv'
<1>1. /\ Going /\ Types /\ SetUp /\ at = "memtrace"
      /\ UNCHANGED <<at, initialized_memtrace, mmu, pt, monitor, bcr, bvr, breakpt_handler0,
                     step_cnt>>
  BY DEF SystemCall, Fetched, User, TrapInv, Going, debug_regs, tables, Types, Stepping, NoHeap
<1>2. /\ status' = status /\ Fetched
      /\ dacr' \in [Domain -> Permission] /\ dacr'[dom_id] = dacr[dom_id]
      /\ dacr'[track_id] = DOM_no_access /\ dacr'[shadow_id] = DOM_no_access
  BY <1>1, SystemCallFact
<1>3. bcr = "off"
  BY <1>1, <1>2 DEF Fetched, Breaks, TrapInv, AccessWaits, Types, SetUp
<1>4. pc' \in Pc /\ begun' \in Nat /\ begun' = begun
  BY <1>1, <1>2, OnwardFact
<1> QED
  BY <1>1, <1>2, <1>3, <1>4, Permissions
     DEF TrapInv, Going, Types, SetUp, AccessWaits, Stepping, Waits

LEMMA ReturnKeeps == TrapInv /\ Return => TrapInv'
<1> SUFFICES ASSUME TrapInv, Return PROVE TrapInv'
  OBVIOUS
<1>1. /\ Going /\ at \in {"memtrace", "steps"} /\ ~Breaks /\ instr.op = "return" /\ at' = "super"
      /\ Types /\ SetUp /\ AccessWaits
      /\ UNCHANGED <<initialized_memtrace, pt, dacr, monitor, pc, instr, step_cnt, begun>>
  BY DEF Return, Fetched, User, TrapInv, Going, Types, history
<1>4. mmu' = FALSE /\ status' = status
  BY <1>1 DEF Return, memtrace_off, mmu_disable, Asserted, mmu_is_enabled, SetUp, Types
<1>2. bcr' = "off"
  <2>1. CASE at = "steps" BY <2>1 DEF Return, debug_breakpt0_off
  <2>2. CASE at = "memtrace"
    BY <1>1, <2>2 DEF Return, Breaks, SetUp, AccessWaits, Types
  <2> QED BY <1>1, <2>1, <2>2
<1>3. initialized_memtrace => dacr[track_id] = DOM_no_access
  <2>1. CASE at = "steps" BY <1>1, <2>1 DEF SetUp
  <2>2. CASE at = "memtrace"
    <3>1. bcr = "off" BY <1>1, <2>2 DEF Breaks, SetUp, AccessWaits, Types
    <3> QED BY <1>1, <2>2, <3>1, DomainIds DEF SetUp, Waits, Types, Permission
  <2> QED BY <1>1, <2>1, <2>2
<1> QED
  BY <1>1, <1>2, <1>3, <1>4 DEF TrapInv, Going, Types, SetUp, AccessWaits, Stepping, Waits

-----------------------------------------------------------------------------
(* The theorems. *)

LEMMA TrapStep == TrapInv /\ [Next]_vars => TrapInv'
<1> SUFFICES ASSUME TrapInv, [Next]_vars PROVE TrapInv'
  OBVIOUS
<1>1. CASE debug_watchpt0_on BY <1>1, WatchKeeps
<1>2. CASE single_step_run BY <1>2, SingleStepRunKeeps
<1>3. CASE \E c \in BOOLEAN : memtrace_fn(c) BY <1>3, MemtraceFnKeeps
<1>4. CASE prefetch_abort_vector BY <1>4, PrefetchAbortKeeps
<1>5. CASE domain_fault BY <1>5, DomainFaultKeeps
<1>6. CASE other_fault BY <1>6, OtherFaultKeeps
<1>7. CASE Execute BY <1>7, ExecuteKeeps
<1>8. CASE syscall_alloc BY <1>8, SystemCallKeeps DEF syscall_alloc
<1>9. CASE syscall_free BY <1>9, SystemCallKeeps DEF syscall_free
<1>10. CASE Return BY <1>10, ReturnKeeps
<1>12. CASE memcheck_init BY <1>12, MemcheckInitKeeps
<1>11. CASE Stopped \/ UNCHANGED vars
  <2>1. UNCHANGED vars BY <1>11 DEF Stopped
  <2>2. /\ UNCHANGED <<at, initialized_memtrace, mmu, pt, dacr, monitor, bcr, bvr>>
        /\ UNCHANGED <<breakpt_handler0, pc, instr, step_cnt, begun, status>>
    BY <2>1 DEF vars, tables, debug_regs, history
  <2>3. UNCHANGED Types BY <2>2 DEF Types
  <2>4. UNCHANGED SetUp BY <2>2 DEF SetUp, Waits
  <2>5. UNCHANGED AccessWaits BY <2>2 DEF AccessWaits
  <2>6. UNCHANGED Stepping BY <2>2 DEF Stepping
  <2> QED BY <2>2, <2>3, <2>4, <2>5, <2>6 DEF TrapInv, Going
<1> QED
  BY <1>1, <1>2, <1>3, <1>4, <1>5, <1>6, <1>7, <1>8, <1>9, <1>10, <1>11, <1>12 DEF Next

LEMMA TrapInvariant == Spec => []TrapInv
<1> QED BY TrapInit, TrapStep, PTL DEF Spec

LEMMA SealedFact == TrapInv => Sealed
BY DEF TrapInv, Going, Types, SetUp, Waits, Sealed

\* While a program runs under memtrace its shadow is closed and its heap open
\* only behind memtrace's own breakpoint, whatever ran before; no handler faults
\* and no assertion about the domain register fails.
THEOREM MachineSealed == Spec => []Sealed
<1> QED BY TrapInvariant, SealedFact, PTL

LEMMA StepsCountedStep ==
  TrapInv /\ [Next]_vars =>
    [at = "steps" /\ at' = "super" => step_cnt = IF monitor THEN begun ELSE 0]_vars
<1> SUFFICES ASSUME TrapInv, Next, at = "steps", at' = "super"
             PROVE  step_cnt = IF monitor THEN begun ELSE 0
  OBVIOUS
<1>1. Return
  BY DEF Next, debug_watchpt0_on, memcheck_init, single_step_run, memtrace_fn, prefetch_abort_vector,
         domain_fault, other_fault, Execute, syscall_alloc, syscall_free, SystemCall, Return,
         Stopped, vars
<1>2. Going /\ ~Breaks
  BY <1>1 DEF Return, Fetched, User, Going
<1>3. bcr = "mismatch" /\ step_cnt = IF ~monitor THEN 0 ELSE IF pc = bvr THEN begun ELSE begun - 1
  BY <1>2 DEF TrapInv, Stepping
<1>4. CASE monitor
  <2>1. pc = bvr BY <1>2, <1>3, <1>4 DEF Breaks
  <2> QED BY <1>3, <1>4, <2>1
<1>5. CASE ~monitor BY <1>3, <1>5
<1> QED BY <1>4, <1>5

\* The single stepper has counted every instruction the program began, when the
\* program returns; none, if the debug hardware was never enabled.
THEOREM EveryStepCounted == Spec => StepsCounted
<1> QED BY TrapInvariant, StepsCountedStep, PTL DEF Spec, StepsCounted

-----------------------------------------------------------------------------
(* The heap: the first word of a block given back is marked until the heap    *)
(* starts anew, and memtrace opens the heap for no access to such a word.     *)

HeapTypes ==
  /\ brk \in Nat /\ brk % 4 = 0 /\ brk <= HeapBytes /\ sh \in [Byte -> {"invalid", "alloced", "freed"}]
  /\ owned \cup freed \subseteq {p \in Nat : p + 4 <= brk}

FreedMarked == \A p \in freed : \A a \in p..(p + 3) : sh[a] = "freed"

\* A program gives back what it was given, once or again.
Proper ==
  at = "memtrace" => /\ instr.op = "free" => instr.p \in owned \cup freed
                     /\ instr.op = "alloc" => instr.n \in Sizes

AccessChecked ==
  at = "memtrace" /\ shadow_check /\ bcr = "mismatch" /\ pc = bvr /\ instr.op = "heap" =>
    sh[instr.a] # "freed"

HeapInv == Going => HeapTypes /\ FreedMarked /\ Proper /\ AccessChecked

LEMMA HeapInit == Init => HeapInv
BY Part0Assumption DEF Init, HeapInv, HeapTypes, FreedMarked, Proper, AccessChecked, Plain, Byte

LEMMA HeapSame ==
  ASSUME HeapTypes, FreedMarked, UNCHANGED heap
  PROVE  HeapTypes' /\ FreedMarked'
BY DEF heap, HeapTypes, FreedMarked

LEMMA HeapAnew ==
  ASSUME sh' = [a \in Byte |-> "invalid"], brk' = 0, owned' = {}, freed' = {}
  PROVE  HeapTypes' /\ FreedMarked'
BY Part0Assumption DEF HeapTypes, FreedMarked

LEMMA GotoProper ==
  ASSUME NEW p \in Pc, Goto(p), at' = "memtrace"
  PROVE  Proper'
<1>1. instr' \in Instr /\ (instr'.op = "free" => instr'.p \in owned' \cup freed')
  BY DEF Goto
<1>2. instr'.op = "alloc" => instr' \in [op : {"alloc"}, n : Sizes]
  BY <1>1 DEF Instr, Accesses
<1> QED BY <1>1, <1>2 DEF Proper

\* An access that is let through behind the breakpoint has been looked up.
LEMMA FaultChecks ==
  ASSUME TrapInv, HeapInv, domain_fault
  PROVE  HeapInv'
<1>1. /\ Going /\ HeapTypes /\ FreedMarked /\ Proper /\ UNCHANGED heap
      /\ UNCHANGED <<at, instr, shadow_check, pc>> /\ at = "memtrace"
      /\ instr.op \in {"heap", "shadow"} /\ dacr \in [Domain -> Permission]
  BY ClosedIsReason DEF domain_fault, Fetched, User, HeapInv, Going, Closed, heap, TrapInv, Types
<1>2. HeapTypes' /\ FreedMarked'
  BY <1>1, HeapSame
<1>3. Proper'
  BY <1>1 DEF Proper
<1>4. ASSUME Going', shadow_check, instr.op = "heap" PROVE sh[instr.a] # "freed"
  <2>1. status' = check(opened(dacr)) /\ status' = "running"
    BY <1>4 DEF domain_fault, Going
  <2>2. opened(dacr)[shadow_id] = DOM_client
    BY <1>1, OpenedFact
  <2> QED BY <1>4, <2>1, <2>2 DEF check
<1>5. Going' => AccessChecked'
  BY <1>1, <1>4 DEF AccessChecked, heap
<1> QED BY <1>2, <1>3, <1>5 DEF HeapInv

LEMMA ExecuteChecks ==
  ASSUME TrapInv, HeapInv, Execute
  PROVE  HeapInv'
<1>1. /\ Going /\ ~Breaks /\ HeapTypes /\ FreedMarked /\ AccessChecked
      /\ UNCHANGED <<at, shadow_check, monitor, bcr, bvr>> /\ UNCHANGED heap
      /\ at # "super" /\ Types /\ SetUp
  BY DEF Execute, Fetched, User, HeapInv, Going, heap, debug_regs, TrapInv
<1>2. HeapTypes' /\ FreedMarked'
  BY <1>1, HeapSame
<1>3. PICK p \in Pc : pc' = p /\ Goto(p) /\ (p = pc => instr' = instr)
  BY DEF Execute, Onward, Goto
<1>4. Proper'
  <2>1. CASE at' = "memtrace" BY <1>3, <2>1, GotoProper
  <2>2. CASE at' # "memtrace" BY <2>2 DEF Proper
  <2> QED BY <2>1, <2>2
<1>5. AccessChecked'
  <2> SUFFICES ASSUME at = "memtrace", shadow_check, bcr = "mismatch", pc' = bvr, instr'.op = "heap"
               PROVE  sh'[instr'.a] # "freed"
    BY <1>1 DEF AccessChecked
  <2>1. monitor BY <1>1 DEF SetUp
  <2>2. pc = bvr BY <1>1, <2>1 DEF Breaks
  <2>3. instr' = instr BY <1>3, <2>2
  <2> QED BY <1>1, <2>2, <2>3 DEF AccessChecked, heap
<1> QED BY <1>2, <1>4, <1>5 DEF HeapInv

\* What the two calls have in common; the breakpoint does not wait after them.
LEMMA CallFact ==
  ASSUME TrapInv, HeapInv, SystemCall, Onward, instr.op \in {"alloc", "free"}
  PROVE  /\ HeapTypes /\ FreedMarked /\ Proper /\ at = "memtrace"
         /\ Proper' /\ AccessChecked'
<1>1. /\ Going /\ Types /\ HeapTypes /\ FreedMarked /\ Proper /\ at = "memtrace" /\ at' = at
  BY DEF SystemCall, Fetched, User, HeapInv, TrapInv, Going, Types, Stepping, NoHeap
<1>2. /\ TrapInv' /\ Going'
  BY <1>1, SystemCallKeeps, SystemCallFact DEF Going
<1>3. dacr'[track_id] = DOM_no_access
  BY <1>1, SystemCallFact
<1>4. bcr' # "mismatch"
  BY <1>1, <1>2, <1>3, Permissions DEF TrapInv, SetUp, Waits
<1>5. PICK p \in Pc : Goto(p)
  BY DEF Onward
<1>6. Proper' BY <1>1, <1>5, GotoProper
<1> QED BY <1>1, <1>4, <1>6 DEF AccessChecked

LEMMA WordsApart ==
  ASSUME NEW a \in Nat, NEW b \in Nat, a % 4 = 0, b % 4 = 0, a < b
  PROVE  a + 4 <= b
OBVIOUS

\* Blocks are whole words: marking the next one unmarks none given back.
LEMMA AllocChecks ==
  ASSUME TrapInv, HeapInv, syscall_alloc
  PROVE  HeapInv'
<1>1. /\ HeapTypes /\ FreedMarked /\ instr.n \in Nat \ {0} /\ Proper' /\ AccessChecked'
  BY CallFact, Part0Assumption DEF syscall_alloc, Proper
<1>2. PICK end \in (brk + instr.n)..HeapBytes : end % 4 = 0 /\ brk' = end
  BY DEF syscall_alloc
<1>3. brk' \in Nat /\ brk' % 4 = 0 /\ brk' <= HeapBytes /\ brk' >= brk + instr.n
  BY <1>1, <1>2, Part0Assumption DEF HeapTypes
<1>4. brk + 4 <= brk'
  <2>1. brk \in Nat /\ brk % 4 = 0 /\ brk < brk'
    BY <1>1, <1>3 DEF HeapTypes
  <2> QED BY <1>3, <2>1, WordsApart
<1>5. /\ owned' = owned \cup {brk} /\ freed' = freed
      /\ sh' = [a \in Byte |-> IF a \in brk..(brk + instr.n - 1) THEN "alloced" ELSE sh[a]]
  BY DEF syscall_alloc, Marked
<1>6. sh' \in [Byte -> {"invalid", "alloced", "freed"}]
  BY <1>1, <1>5 DEF HeapTypes
<1>7. HeapTypes'
  <2> SUFFICES ASSUME NEW p \in owned' \cup freed' PROVE p \in Nat /\ p + 4 <= brk'
    BY <1>3, <1>6 DEF HeapTypes
  <2>1. brk \in Nat /\ brk <= brk'
    BY <1>1, <1>3, <1>4 DEF HeapTypes
  <2>2. CASE p = brk BY <1>4, <2>1, <2>2
  <2>3. CASE p \in owned \cup freed BY <1>1, <1>3, <2>1, <2>3 DEF HeapTypes
  <2> QED BY <1>5, <2>2, <2>3
<1>8. FreedMarked'
  <2> SUFFICES ASSUME NEW p \in freed, NEW a \in p..(p + 3) PROVE sh'[a] = "freed"
    BY <1>5 DEF FreedMarked
  <2>1. p \in Nat /\ p + 4 <= brk /\ sh[a] = "freed"
    BY <1>1 DEF HeapTypes, FreedMarked
  <2>2. a \in Byte /\ a < brk
    BY <1>1, <2>1, Part0Assumption DEF HeapTypes, Byte
  <2>3. a \notin brk..(brk + instr.n - 1)
    BY <1>1, <2>2, Part0Assumption DEF HeapTypes, Byte
  <2> QED BY <1>5, <2>1, <2>2, <2>3
<1> QED BY <1>1, <1>7, <1>8 DEF HeapInv

LEMMA FreeChecks ==
  ASSUME TrapInv, HeapInv, syscall_free
  PROVE  HeapInv'
<1>1. /\ HeapTypes /\ FreedMarked /\ instr.p \in owned \cup freed /\ Proper' /\ AccessChecked'
  BY CallFact DEF syscall_free, Proper
<1>2. /\ freed' = freed \cup {instr.p} /\ owned' = owned \ {instr.p} /\ brk' = brk
      /\ sh' = [a \in Byte |-> IF a \in instr.p..(instr.p + 4 - 1) THEN "freed" ELSE sh[a]]
  BY DEF syscall_free, FreeMark, Marked
<1>3. sh' \in [Byte -> {"invalid", "alloced", "freed"}]
  BY <1>1, <1>2 DEF HeapTypes
<1>4. HeapTypes'
  BY <1>1, <1>2, <1>3 DEF HeapTypes
<1>5. FreedMarked'
  <2> SUFFICES ASSUME NEW p \in freed \cup {instr.p}, NEW a \in p..(p + 3) PROVE sh'[a] = "freed"
    BY <1>2 DEF FreedMarked
  <2>1. p \in Nat /\ p + 4 <= brk
    BY <1>1 DEF HeapTypes
  <2>2. a \in Byte
    BY <1>1, <2>1, Part0Assumption DEF HeapTypes, Byte
  <2>3. CASE p \in freed
    BY <1>1, <1>2, <2>2, <2>3 DEF FreedMarked
  <2>4. CASE p = instr.p
    BY <1>2, <2>1, <2>2, <2>4
  <2> QED BY <2>3, <2>4
<1> QED BY <1>1, <1>4, <1>5 DEF HeapInv

\* Every other step leaves the heap alone, and the breakpoint away from it.
LEMMA HeapStep == TrapInv /\ HeapInv /\ [Next]_vars => HeapInv'
<1> SUFFICES ASSUME TrapInv, HeapInv, [Next]_vars PROVE HeapInv'
  OBVIOUS
<1>1. CASE domain_fault BY <1>1, FaultChecks
<1>2. CASE Execute BY <1>2, ExecuteChecks
<1>3. CASE syscall_alloc BY <1>3, AllocChecks
<1>4. CASE syscall_free BY <1>4, FreeChecks
<1>5. CASE debug_watchpt0_on \/ other_fault
  <2>1. /\ UNCHANGED <<at, instr, shadow_check, pc, bcr, bvr>> /\ UNCHANGED heap /\ Going
    BY <1>5 DEF debug_watchpt0_on, other_fault, Fetched, User, Going, debug_regs
  <2>2. HeapTypes' /\ FreedMarked' BY <2>1, HeapSame DEF HeapInv
  <2>3. Proper' /\ AccessChecked' BY <2>1 DEF HeapInv, Proper, AccessChecked, heap
  <2> QED BY <2>2, <2>3 DEF HeapInv
<1>6. CASE single_step_run \/ Return
  <2>1. UNCHANGED heap /\ Going /\ at' # "memtrace"
    BY <1>6 DEF single_step_run, Return, Fetched, User, Going
  <2>2. HeapTypes' /\ FreedMarked' BY <2>1, HeapSame DEF HeapInv
  <2>3. Proper' /\ AccessChecked' BY <2>1 DEF Proper, AccessChecked
  <2> QED BY <2>2, <2>3 DEF HeapInv
<1>7. CASE \E c \in BOOLEAN : memtrace_fn(c)
  <2>1. Going /\ at = "super" /\ at' = "memtrace" /\ bcr' = bcr
    BY <1>7 DEF memtrace_fn, Going
  <2>2. HeapTypes' /\ FreedMarked'
    <3>1. CASE initialized_memtrace
      BY <1>7, <2>1, <3>1, HeapSame DEF memtrace_fn, HeapInv
    <3>2. CASE ~initialized_memtrace
      BY <1>7, <3>2, HeapAnew DEF memtrace_fn, memtrace_init
    <3> QED BY <3>1, <3>2
  <2>3. PICK p \in Pc : Goto(p) BY <1>7 DEF memtrace_fn
  <2>4. Proper' BY <2>1, <2>3, GotoProper
  <2>5. AccessChecked' BY <2>1 DEF TrapInv, SetUp, AccessChecked
  <2> QED BY <2>2, <2>4, <2>5 DEF HeapInv
<1>8. CASE prefetch_abort_vector
  <2>1. UNCHANGED heap /\ Going /\ UNCHANGED <<at, instr, shadow_check, pc>> /\ Breaks
    BY <1>8 DEF prefetch_abort_vector, User, Going
  <2>2. HeapTypes' /\ FreedMarked' BY <2>1, HeapSame DEF HeapInv
  <2>3. Proper' BY <2>1 DEF HeapInv, Proper, heap
  <2>4. AccessChecked'
    <3>1. CASE single_step_handler
      <4>1. breakpt_handler0 = "steps" /\ bcr = "mismatch"
        BY <2>1, <3>1 DEF single_step_handler, Breaks, TrapInv, Types
      <4>2. at' # "memtrace" BY <2>1, <4>1 DEF TrapInv, SetUp
      <4> QED BY <4>2 DEF AccessChecked
    <3>2. CASE memtrace_step_handler
      BY <3>2 DEF memtrace_step_handler, debug_breakpt0_off, AccessChecked
    <3> QED BY <1>8, <3>1, <3>2 DEF prefetch_abort_vector
  <2> QED BY <2>2, <2>3, <2>4 DEF HeapInv
<1>10. CASE memcheck_init
  <2>1. HeapTypes' /\ FreedMarked'
    BY <1>10, HeapAnew DEF memcheck_init, memtrace_init
  <2>2. at' # "memtrace" BY <1>10 DEF memcheck_init
  <2>3. Proper' /\ AccessChecked' BY <2>2 DEF Proper, AccessChecked
  <2> QED BY <2>1, <2>3 DEF HeapInv
<1>9. CASE UNCHANGED vars
  <2>1. UNCHANGED <<at, instr, shadow_check, pc, bcr, bvr, status>> /\ UNCHANGED heap
    BY <1>9 DEF vars, debug_regs
  <2> QED BY <2>1, HeapSame DEF HeapInv, Proper, AccessChecked, heap, Going
<1> QED
  BY <1>1, <1>2, <1>3, <1>4, <1>5, <1>6, <1>7, <1>8, <1>9, <1>10 DEF Next, Stopped

LEMMA FreedStep ==
  TrapInv /\ HeapInv /\ [Next]_vars =>
    [shadow_check /\ at = "memtrace" /\ instr.op = "heap" /\ pc' # pc =>
       \A p \in freed : instr.a \notin p..(p + 3)]_vars
<1> SUFFICES ASSUME TrapInv, HeapInv, Next, shadow_check, at = "memtrace", instr.op = "heap",
                    pc' # pc, NEW p \in freed, instr.a \in p..(p + 3)
             PROVE  FALSE
  OBVIOUS
<1>1. Execute
  BY DEF Next, debug_watchpt0_on, memcheck_init, single_step_run, memtrace_fn, prefetch_abort_vector,
         domain_fault, other_fault, Execute, syscall_alloc, syscall_free, Return, Stopped, vars
<1>2. Going /\ ~Breaks /\ ~Closed
  BY <1>1, ClosedIsReason DEF Execute, Fetched, User, TrapInv, Going
<1>3. dacr[track_id] = DOM_client
  BY <1>2, DomainIds DEF Closed, TrapInv, Types, Permission, SetUp, Waits
<1>4. bcr = "mismatch" /\ pc = bvr
  BY <1>2, <1>3 DEF TrapInv, SetUp, Waits, Breaks
<1>5. sh[instr.a] # "freed"
  BY <1>2, <1>4 DEF HeapInv, AccessChecked
<1> QED BY <1>2, <1>5 DEF HeapInv, FreedMarked

\* No access to the first word of a block given back goes through, once
\* memcheck_fn has been called: in that run or in a later one, until memcheck_init
\* starts heap and shadow anew.
THEOREM FreedShut == Spec => FreedStaysShut
<1>1. Spec => []HeapInv
  BY HeapInit, HeapStep, TrapInvariant, PTL DEF Spec
<1> QED BY <1>1, TrapInvariant, FreedStep, PTL DEF Spec, FreedStaysShut

=============================================================================
