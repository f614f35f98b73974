------------------------------- MODULE Part1 --------------------------------
(***************************************************************************)
(* The trap machine of labs/19-eraser/part1-refactor under the memory      *)
(* checker of module Memcheck: the registers its handlers open and close,  *)
(* and the two faults that stand around every access to the heap.          *)
(*                                                                         *)
(* Nothing preempts a handler: it is one step, and the order of its calls  *)
(* is in the registers it passes along.  module Memtrace takes the later   *)
(* version of this machine call by call, without the checker's shadow.     *)
(***************************************************************************)
EXTENDS Memcheck, Domains

CONSTANTS
  Pc,    \* addresses of user instructions
  NoPc   \* breakpoint 0 is off

ASSUME Part1Assumption == NoPc \notin Pc

VARIABLES
  mmu,      \* MMU_enabled of control register 1
  pt,       \* the page table: section -> its domain, or NoDomain
  monitor,  \* monitor debug mode, without which no breakpoint is taken
  dacr,     \* the domain access control register, per domain
  bp,       \* the address mismatch breakpoint 0 is armed on, or NoPc
  pc,       \* the user instruction about to execute
  lost      \* the program went where no handler brings it back from

registers == <<mmu, pt, monitor, dacr, bp>>
trapVars == <<vars, registers, pc, lost>>

\* A program's own code, stacks and devices; the heap; the megabyte of shadow
\* behind it; and what lies beyond, where nothing is mapped.
Section == {"own", "heap", "shadow", "beyond"}
NoDomain == 16
mmu_pt_alloc_at == [s \in Section |-> NoDomain]

TrapInit ==
  /\ Init
  /\ mmu = FALSE /\ pt = mmu_pt_alloc_at /\ monitor = FALSE /\ bp = NoPc
  /\ dacr = [d \in Domain |-> DOM_no_access]
  /\ pc \in Pc /\ lost = FALSE

-----------------------------------------------------------------------------
(* memtrace.c: the domains, and breakpoint 0. *)

trap_off(x) == dom_perm_set(x, track_id, DOM_client)
trap_on(x) == dom_perm_set(x, track_id, DOM_no_access)
shadow_set(x, perm) == dom_perm_set(x, shadow_id, perm)
shadow_get(x) == dom_perm_get(x, shadow_id)

debug_mismatch_breakpt0_on(addr) == bp' = addr
debug_breakpt0_off == bp' = NoPc

\* Their assertions about what they find.
Asserted(holds) == status' = IF holds THEN status ELSE "assert"

mmu_is_enabled == mmu
mmu_init == Asserted(~mmu_is_enabled)
mmu_enable == mmu' = TRUE
mmu_disable == mmu' = FALSE

\* The entry must be clear: the table has just been, for every run anew, and no
\* section is mapped twice.
mmu_map_section(t, s, dom) == [t EXCEPT ![s] = dom]
write_domain_access_ctrl(r) == dacr' = r

SetMappings ==
  LET own == mmu_map_section(mmu_pt_alloc_at, "own", dom_id)
      tracked == mmu_map_section(own, "heap", track_id)
  IN  pt' = mmu_map_section(tracked, "shadow", shadow_id)

single_step_init == monitor' = TRUE
user_mode_run_fn == at' = "user" /\ pc' \in Pc

\* memcheck_fn and memcheck_trace_only_fn: memtrace_init, then memtrace_fn.
memtrace_run(h) ==
  /\ at = "super" /\ load_store_handler' = h
  /\ mmu_init
  /\ brk' = 0 /\ sh' = [a \in Byte |-> "invalid"]
  /\ blocks' = {} /\ freed' = {}
  /\ SetMappings
  /\ write_domain_access_ctrl([d \in Domain |-> IF d = dom_id THEN DOM_client
                                                             ELSE DOM_no_access])
  /\ single_step_init /\ mmu_enable
  /\ user_mode_run_fn
  /\ UNCHANGED <<fault_addr, bp, lost>>

-----------------------------------------------------------------------------
(* The program, in user mode, goes to any instruction it likes; at the      *)
(* breakpoint it repeats the access that faulted there.                     *)

User == Running /\ ~lost
Breaks == monitor /\ bp \notin {NoPc, pc}
Fetched == User /\ ~Breaks
Fresh == Fetched /\ bp # pc

Plain ==
  /\ Fresh
  /\ pc' \in Pc
  /\ UNCHANGED <<vars, registers, lost>>

UserKmallocs(n) ==
  /\ Fresh /\ kmalloc(n)
  /\ pc' \in Pc
  /\ UNCHANGED <<at, load_store_handler, fault_addr, status, sh, history, registers, lost>>

Touches(a) == Fetched /\ (bp = pc => a = fault_addr)

\* Why an access to section s faults, the domains as in x.
reason(s, x) ==
  IF ~mmu THEN "none"
  ELSE IF pt[s] = NoDomain THEN "translation_section"
  ELSE IF x[pt[s]] = DOM_no_access THEN "domain_section"
  ELSE "none"

\* An access never branches to itself.
ldr_str(a) ==
  /\ Touches(a) /\ reason("heap", dacr) = "none"
  /\ pc' \in Pc \ {pc}
  /\ UNCHANGED <<vars, registers, lost>>

\* It touches the shadow, or what is not mapped: a handler that reads the
\* shadow's own shadow reboots, one that only traces resumes at the fault for
\* ever.
GoesAstray ==
  /\ Fresh /\ lost' = TRUE
  /\ \E s \in {"shadow", "beyond"} : reason(s, dacr) # "none"
  /\ UNCHANGED <<vars, registers, pc>>

\* swi 0, and memtrace_off.
Returns ==
  /\ Fresh /\ at' = "super"
  /\ Asserted(mmu_is_enabled) /\ mmu_disable
  /\ UNCHANGED <<load_store_handler, fault_addr, heap, pt, monitor, dacr, bp, pc, lost>>

-----------------------------------------------------------------------------
(* The handlers. *)

\* A slip: the step over goes by with the trap off.
single_step_handler_open ==
  /\ UNCHANGED <<dacr, status>>
  /\ debug_breakpt0_off

single_step_handler ==
  /\ dacr' = trap_on(dacr)
  /\ Asserted(memtrace_trap_enabled(dacr'))
  /\ debug_breakpt0_off

prefetch_abort_vector ==
  /\ User /\ Breaks
  /\ single_step_handler
  /\ UNCHANGED <<at, load_store_handler, fault_addr, heap, mmu, pt, monitor, pc, lost>>

\* A slip: the shadow is opened first, and the trap's three bits close it.
opened_first(x) == trap_off(shadow_set(x, DOM_client))
opened(x) == shadow_set(trap_off(x), DOM_client)

\* A slip: a byte that is not allocated is reported too.
check_strictly(a, x) ==
  IF load_store_handler = "traces" THEN "running"
  ELSE IF reason("shadow", x) # "none" THEN "nested"
  ELSE IF sh[a] # "alloced" THEN "report" ELSE "running"

\* What the client's handler comes to at a, with the domains as in x: under a
\* closed shadow it faults itself.
check_ldr_str_handler(a, x) ==
  IF load_store_handler = "traces" THEN "running"
  ELSE IF reason("shadow", x) # "none" THEN "nested"
  ELSE IF sh[a] = "freed" THEN "report" ELSE "running"

data_abort_vector(a) ==
  /\ Touches(a) /\ reason("heap", dacr) = "domain_section"
  /\ fault_addr' = a
  /\ status' = IF memtrace_trap_enabled(trap_off(dacr)) THEN "assert"
               ELSE check_ldr_str_handler(a, opened(dacr))
  /\ dacr' = shadow_set(opened(dacr), DOM_no_access)
  /\ debug_mismatch_breakpt0_on(pc)
  /\ UNCHANGED <<at, load_store_handler, heap, mmu, pt, monitor, pc, lost>>

\* swi 1 and 2 open both domains around the mark, and close both.
SystemCall ==
  LET x == opened(dacr)
      y == shadow_set(x, DOM_no_access)
  IN  /\ Fresh
      /\ dacr' = trap_on(y)
      /\ Asserted(/\ ~memtrace_trap_enabled(trap_off(dacr))
                  /\ shadow_get(x) = DOM_client
                  /\ shadow_get(y) = DOM_no_access
                  /\ memtrace_trap_enabled(dacr'))
      /\ pc' \in Pc \ {pc}
      /\ UNCHANGED <<at, load_store_handler, fault_addr, mmu, pt, monitor, bp, lost>>

Marked(mark, first, n) ==
  sh' = [a \in Byte |-> IF a \in first..(first + n - 1) THEN mark ELSE sh[a]]

syscall_alloc(n) ==
  /\ SystemCall /\ kmalloc(n)
  /\ Marked("alloced", brk, n)
  /\ blocks' = blocks \cup {[ptr |-> brk, n |-> n]} /\ UNCHANGED freed

\* A slip: the free marks one byte.
syscall_free_byte(p) ==
  /\ SystemCall
  /\ Marked("freed", p, 1)
  /\ freed' = freed \cup {p} /\ UNCHANGED <<brk, blocks>>

\* It falls into the case below it and returns 10.
syscall_free(p) ==
  /\ SystemCall
  /\ Marked("freed", p, 4)
  /\ freed' = freed \cup {p} /\ UNCHANGED <<brk, blocks>>

Stops == (status # "running" \/ lost) /\ UNCHANGED trapVars

TrapNext ==
  \/ \E h \in {"checks", "traces"} : memtrace_run(h)
  \/ Plain \/ GoesAstray \/ Returns \/ prefetch_abort_vector
  \/ \E n \in 1..HeapBytes : syscall_alloc(n) \/ UserKmallocs(n)
  \/ \E b \in blocks : syscall_free(b.ptr)
  \/ \E a \in Byte : ldr_str(a) \/ data_abort_vector(a)
  \/ Stops

TrapSpec == TrapInit /\ [][TrapNext]_trapVars

-----------------------------------------------------------------------------
\* The machine is the checker that Memcheck describes: the domain register is
\* as every handler expects to find it, none of their assertions fails, none
\* faults itself, though the trap's three bits overlap the shadow's
\* (data_abort_vector, single_step_handler, syscall_vector).
Implements == Spec

\* Between the fault that is checked and the one that closes the trap again, an
\* access goes through; under memcheck_fn none does to the first word of a
\* block given back (data_abort_vector, single_step_handler, the breakpoint).
FreedNeverReached ==
  [][\A p \in freed : \A a \in FirstWord(p) \cap Byte :
       ~(ldr_str(a) /\ load_store_handler = "checks")]_trapVars
=============================================================================
