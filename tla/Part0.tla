------------------------------- MODULE Part0 --------------------------------
(***************************************************************************)
(* labs/19-eraser/part0-tests: the first trap machine of the lab, with the *)
(* memory checker in its handlers, and the single stepper beside it.  Both *)
(* own breakpoint 0.                                                       *)
(*                                                                         *)
(* Nothing preempts a handler, so a handler is one step here; the order of *)
(* its calls is in the registers its definition passes along.  A mismatch  *)
(* breakpoint takes effect in user mode only.                              *)
(***************************************************************************)
EXTENDS Domains, FiniteSets

CONSTANTS
  Pc,         \* addresses of user instructions
  HeapBytes,  \* of the tracked heap; a megabyte in the code
  Touch,      \* the bytes of it that programs touch
  Sizes,      \* the sizes of blocks they ask for
  MaxCount,   \* bound: faults and steps are counted up to it
  None        \* no handler, no address

Byte == 0..(HeapBytes - 1)

ASSUME Part0Assumption ==
  /\ None \notin Pc /\ HeapBytes \in Nat /\ MaxCount \in Nat
  /\ Touch \subseteq Byte /\ Sizes \subseteq Nat \ {0}

VARIABLES
  at,           \* "super", or in user mode under "memtrace" or "steps"
  initialized_memtrace, shadow_check,
  mmu,          \* MMU_enabled of control register 1
  pt,           \* the page table: section -> its domain, or NoDomain
  dacr,         \* domain access control register, per domain
  monitor,      \* monitor debug mode is enabled (DSCR, bits 15:14)
  bcr,          \* breakpoint 0: "off", "match" or "mismatch"
  bvr,          \* its address; None for 0, where no program is
  breakpt_handler0,  \* None, or the single_step_handler of "memtrace" or "steps"
  wvr,          \* the byte watchpoint 0 is set on, or None
  pc, instr,    \* the user instruction about to execute
  sh, brk,      \* the shadow of every heap byte; kmalloc's pointer
  owned, freed, \* blocks given to the program and given back, by address
  step_cnt, last_fault, fault_count,
  begun,        \* instructions begun under single_step_run, repeats not counted
  done,         \* heap accesses gone through under memtrace
  status        \* "running", or how the machine stopped

tables == <<mmu, pt>>
debug_regs == <<monitor, bcr, bvr, breakpt_handler0>>
heap == <<sh, brk, owned, freed>>
faults == <<last_fault, fault_count>>
history == <<step_cnt, begun, done>>
vars == <<at, initialized_memtrace, shadow_check, mmu, pt, dacr, debug_regs, wvr, pc, instr, heap,
          faults, history, status>>

Accesses == [op : {"heap"}, a : Touch]
Instr == Accesses \cup [op : {"plain", "shadow", "wild", "sys10", "return"}]
           \cup [op : {"alloc"}, n : Sizes] \cup [op : {"free"}, p : Byte]
Plain == [op |-> "plain"]

\* A program's own code, stacks and devices; the heap; the megabyte of shadow
\* behind it; and what lies beyond, where nothing is mapped.
Section == {"own", "heap", "shadow", "beyond"}
NoDomain == 16
mmu_pt_alloc_at == [s \in Section |-> NoDomain]

Init ==
  /\ at = "super" /\ initialized_memtrace = FALSE /\ shadow_check = FALSE
  /\ mmu = FALSE /\ pt = mmu_pt_alloc_at
  /\ dacr = [d \in Domain |-> DOM_no_access] /\ monitor = FALSE /\ bcr = "off"
  /\ bvr = None /\ breakpt_handler0 = None /\ wvr = None /\ pc \in Pc /\ instr = Plain
  /\ sh = [a \in Byte |-> "invalid"] /\ brk = 0 /\ owned = {} /\ freed = {}
  /\ step_cnt = 0 /\ last_fault = None /\ fault_count = 0 /\ begun = 0 /\ done = 0
  /\ status = "running"

-----------------------------------------------------------------------------
(* debug.c: breakpoint and watchpoint 0. *)

debug_init == monitor' = TRUE

debug_breakpt0_on(kind, addr, handler) ==
  bcr' = kind /\ bvr' = addr /\ breakpt_handler0' = handler

debug_mismatch_breakpt0_on(addr, handler) == debug_breakpt0_on("mismatch", addr, handler)

\* Whatever address it is set on; the address and the handler stay.
debug_breakpt0_off(addr) == bcr' = "off" /\ UNCHANGED <<bvr, breakpt_handler0>>

debug_watchpt0_on ==
  /\ at = "super" /\ status = "running" /\ monitor
  /\ wvr' \in Touch
  /\ UNCHANGED <<at, initialized_memtrace, shadow_check, tables, dacr, debug_regs, pc, instr,
                 heap, faults, history, status>>

-----------------------------------------------------------------------------
(* mmu.c: the switch and the table; the control register is read back.     *)

Asserted(holds) == status' = IF holds THEN status ELSE "assert"

mmu_is_enabled == mmu

\* our_mmu_reset leaves the MMU as it is: the assertion that it is off is last.
mmu_init == Asserted(~mmu_is_enabled)

mmu_enable == Asserted(~mmu_is_enabled) /\ mmu' = TRUE
mmu_disable == Asserted(mmu_is_enabled) /\ mmu' = FALSE

\* The entry must be clear: the table has just been, and no section is mapped
\* twice.
mmu_map_section(t, s, dom) == [t EXCEPT ![s] = dom]

write_domain_access_ctrl(r) == dacr' = r

-----------------------------------------------------------------------------
(* The client, in supervisor mode. *)

memtrace_on == mmu_enable
memtrace_off == mmu_disable

\* Access to the program's own domain alone: heap and shadow are closed, and both
\* begin anew.
memtrace_init ==
  LET own == mmu_map_section(mmu_pt_alloc_at, "own", dom_id)
      tracked == mmu_map_section(own, "heap", track_id)
  IN  /\ mmu_init
      /\ pt' = mmu_map_section(tracked, "shadow", shadow_id)
      /\ write_domain_access_ctrl([d \in Domain |-> IF d = dom_id THEN DOM_client
                                                                 ELSE DOM_no_access])
      /\ sh' = [a \in Byte |-> "invalid"] /\ brk' = 0 /\ owned' = {} /\ freed' = {}

\* A client may set up itself; memtrace_fn does not know of it.
memcheck_init ==
  /\ at = "super" /\ status = "running"
  /\ memtrace_init
  /\ UNCHANGED <<at, initialized_memtrace, shadow_check, mmu, debug_regs, wvr, pc, instr,
                 faults, history>>

\* The program goes to an instruction of its choice and frees what the heap has
\* given out since it was last started.  Under single_step_run the
\* MMU is off; there it is any program that keeps clear of the heap, of MaxCount
\* instructions at most.  The heap is never exhausted.
Goto(p) ==
  /\ pc' = p
  /\ instr' \in IF at' = "memtrace"
       THEN {x \in Instr : /\ x.op = "free" => x.p \in owned' \cup freed'
                           /\ x.op = "alloc" => brk' + 4 * ((x.n + 3) \div 4) <= HeapBytes}
       ELSE IF begun' < MaxCount THEN [op : {"plain", "sys10", "return"}]
       ELSE [op : {"return"}]

\* The first call sets up; memcheck_fn also sets shadow_check, which stays set.
memtrace_fn(checking) ==
  /\ at = "super" /\ status = "running" /\ at' = "memtrace"
  /\ shadow_check' = (shadow_check \/ checking)
  /\ IF initialized_memtrace THEN UNCHANGED <<initialized_memtrace, pt, dacr, heap, monitor>>
     ELSE memtrace_init /\ debug_init /\ initialized_memtrace' = TRUE
  /\ memtrace_on
  /\ UNCHANGED <<bcr, bvr, breakpt_handler0, wvr, faults, history>>
  /\ \E p \in Pc : Goto(p)

\* single_step_init has been called, or has not.
single_step_run ==
  /\ at = "super" /\ status = "running" /\ at' = "steps"
  /\ monitor' \in {monitor, TRUE}
  /\ step_cnt' = 0 /\ begun' = 1
  /\ debug_mismatch_breakpt0_on(None, "steps")
  /\ UNCHANGED <<initialized_memtrace, shadow_check, tables, dacr, wvr, heap, faults, done,
                 status>>
  /\ \E p \in Pc : Goto(p)

-----------------------------------------------------------------------------
(* memtrace.c: the trap.  Its assertions hold of the register they leave.   *)

memtrace_trap_on(x) == dom_perm_set(x, track_id, DOM_no_access)
memtrace_trap_off(x) == dom_perm_set(x, track_id, DOM_client)

-----------------------------------------------------------------------------
(* prefetch_abort_vector: the handler of whoever set breakpoint 0 last. *)

User == at # "super" /\ status = "running"
Breaks ==
  monitor /\ ((bcr = "match" /\ pc = bvr) \/ (bcr = "mismatch" /\ pc # bvr))

\* A slip: the breakpoint is turned off, as memtrace's handler does.
single_step_handler_once ==
  /\ breakpt_handler0 = "steps" /\ step_cnt' = step_cnt + 1
  /\ debug_breakpt0_off(pc)
  /\ UNCHANGED <<dacr, status>>

\* single-step.c
single_step_handler ==
  /\ breakpt_handler0 = "steps" /\ step_cnt' = step_cnt + 1
  /\ debug_mismatch_breakpt0_on(pc, "steps")
  /\ UNCHANGED <<dacr, status>>

\* interrupt-vectors.c
memtrace_step_handler ==
  /\ breakpt_handler0 = "memtrace"
  /\ dacr' = memtrace_trap_on(dacr) /\ Asserted(memtrace_trap_enabled(dacr'))
  /\ debug_breakpt0_off(pc)
  /\ UNCHANGED step_cnt

prefetch_abort_vector ==
  /\ User /\ Breaks
  /\ single_step_handler \/ memtrace_step_handler
  /\ UNCHANGED <<at, initialized_memtrace, shadow_check, tables, monitor, wvr, pc, instr, heap,
                 faults, begun, done>>

-----------------------------------------------------------------------------
(* data_abort_vector (interrupt-vectors.c). *)

Fetched == User /\ ~Breaks

Target ==
  IF instr.op \in {"heap", "shadow"} THEN instr.op
  ELSE IF instr.op = "wild" THEN "beyond" ELSE "own"

\* Why an access to section s faults, the domains as in x.
reason(s, x) ==
  IF ~mmu THEN "none"
  ELSE IF pt[s] = NoDomain THEN "translation_section"
  ELSE IF x[pt[s]] = DOM_no_access THEN "domain_section"
  ELSE "none"
Watched == instr.op = "heap" /\ instr.a = wvr

last_fault_set(addr) ==
  /\ last_fault' = addr
  /\ fault_count' = IF fault_count < MaxCount THEN fault_count + 1 ELSE fault_count

\* The byte a megabyte on is read, of the heap its shadow.  The read may fault
\* itself: beyond the shadow nothing is mapped, and the machine reboots.
check(x) ==
  LET why == reason(IF Target = "heap" THEN "shadow" ELSE "beyond", x) IN
  IF why = "translation_section" THEN "reboot"
  ELSE IF why = "domain_section" THEN "nested"
  ELSE IF sh[instr.a] = "freed" THEN "report" ELSE "running"

\* A slip: the shadow is opened before the trap goes off.
opened_first(x) == memtrace_trap_off(dom_perm_set(x, shadow_id, DOM_client))

\* Trap off, then shadow open.
opened(x) == dom_perm_set(memtrace_trap_off(x), shadow_id, DOM_client)

domain_fault ==
  /\ Fetched /\ reason(Target, dacr) = "domain_section"
  /\ last_fault_set(IF instr.op = "heap" THEN instr.a ELSE None)
  /\ IF shadow_check
       THEN /\ status' = IF memtrace_trap_enabled(memtrace_trap_off(dacr)) THEN "assert"
                         ELSE check(opened(dacr))
            /\ dacr' = dom_perm_set(opened(dacr), shadow_id, DOM_no_access)
       ELSE dacr' = memtrace_trap_off(dacr) /\ Asserted(~memtrace_trap_enabled(dacr'))
  /\ debug_mismatch_breakpt0_on(pc, "memtrace")
  /\ UNCHANGED <<at, initialized_memtrace, shadow_check, tables, monitor, wvr, pc, instr, heap,
                 history>>

\* A watchpoint is not expected here, a translation fault reboots.
other_fault ==
  /\ Fetched
  /\ \/ /\ reason(Target, dacr) = "none" /\ Watched
        /\ status' = "panic" /\ UNCHANGED faults
     \/ /\ reason(Target, dacr) = "translation_section"
        /\ status' = "reboot" /\ last_fault_set(None)
  /\ UNCHANGED <<at, initialized_memtrace, shadow_check, tables, dacr, debug_regs, wvr, pc, instr,
                 heap, history>>

-----------------------------------------------------------------------------
(* The program goes on: an access goes through, or a system call returns.   *)

Onward ==
  \E p \in Pc :
    /\ begun' = IF at = "steps" /\ p # pc THEN begun + 1 ELSE begun
    /\ (instr.op # "plain" => p # pc) /\ Goto(p)
    /\ p = pc => instr' = instr

Execute ==
  /\ Fetched /\ reason(Target, dacr) = "none" /\ ~Watched
  /\ instr.op \in {"plain", "heap", "sys10"}
  /\ done' = IF instr.op = "heap" /\ done < MaxCount THEN done + 1 ELSE done
  /\ UNCHANGED <<at, initialized_memtrace, shadow_check, tables, dacr, debug_regs, wvr, heap,
                 faults, step_cnt, status>>
  /\ Onward

Marked(mark, first, n) ==
  sh' = [a \in Byte |-> IF a \in first..(first + n - 1) THEN mark ELSE sh[a]]

\* A slip: one byte is marked.
FreeMark_byte(p) == Marked("freed", p, 1)

\* Four bytes, however long the block.
FreeMark(p) == Marked("freed", p, 4)

\* swi 1 and 2, the trap off and the shadow open for the mark, then both closed;
\* their assertions see the registers as each call leaves them.
SystemCall ==
  LET x == opened(dacr)
      y == dom_perm_set(x, shadow_id, DOM_no_access)
      z == memtrace_trap_on(y)
  IN  /\ Fetched
      /\ dacr' = z
      /\ Asserted(/\ ~memtrace_trap_enabled(memtrace_trap_off(dacr))
                  /\ dom_perm_get(x, shadow_id) = DOM_client
                  /\ dom_perm_get(y, shadow_id) = DOM_no_access
                  /\ memtrace_trap_enabled(z))
      /\ UNCHANGED <<at, initialized_memtrace, shadow_check, tables, debug_regs, wvr, faults,
                     step_cnt, done>>

\* kmalloc, which is not in the repository, moves a pointer up to a word.
syscall_alloc ==
  /\ instr.op = "alloc" /\ SystemCall
  /\ brk' \in {end \in (brk + instr.n)..HeapBytes : end % 4 = 0}
  /\ Marked("alloced", brk, instr.n)
  /\ owned' = owned \cup {brk} /\ freed' = freed
  /\ Onward

\* It falls into the next case and returns 10.
syscall_free ==
  /\ instr.op = "free" /\ SystemCall
  /\ FreeMark(instr.p)
  /\ freed' = freed \cup {instr.p} /\ owned' = owned \ {instr.p} /\ brk' = brk
  /\ Onward

\* swi 0, back in memtrace_fn or in single_step_run.
Return ==
  /\ Fetched /\ instr.op = "return"
  /\ at' = "super"
  /\ IF at = "steps" THEN debug_breakpt0_off(None) /\ UNCHANGED <<mmu, status>>
     ELSE memtrace_off /\ UNCHANGED <<bcr, bvr, breakpt_handler0>>
  /\ UNCHANGED <<initialized_memtrace, shadow_check, pt, dacr, monitor, wvr, pc, instr, heap,
                 faults, history>>

Stopped == status # "running" /\ UNCHANGED vars

Next ==
  \/ debug_watchpt0_on \/ memcheck_init \/ single_step_run \/ \E c \in BOOLEAN : memtrace_fn(c)
  \/ prefetch_abort_vector \/ domain_fault \/ other_fault
  \/ Execute \/ syscall_alloc \/ syscall_free \/ Return
  \/ Stopped

Spec == Init /\ [][Next]_vars

-----------------------------------------------------------------------------
\* Whoever ran before, while a program runs under memtrace its shadow is closed
\* and the heap is open exactly while memtrace's breakpoint waits behind the one
\* instruction that faulted; no handler faults itself and no assertion about the
\* domain register fails, though the three-bit writes overlap.
Sealed ==
  /\ status \notin {"nested", "assert"}
  /\ at = "memtrace" /\ status = "running" =>
       /\ dacr[dom_id] = DOM_client /\ dacr[shadow_id] = DOM_no_access
       /\ dacr[track_id] = DOM_client <=>
            bcr = "mismatch" /\ breakpt_handler0 = "memtrace"
       /\ bcr # "match" /\ breakpt_handler0 = "steps" => bcr = "off"

\* The single stepper counts the instructions of the program: every one begun,
\* one that branches to itself once (the breakpoint set on it lets it repeat);
\* if debug_init was never called, none (single-step.c).
StepsCounted ==
  [][at = "steps" /\ at' = "super" => step_cnt = IF monitor THEN begun ELSE 0]_vars

\* Once memcheck_fn has been called no access to the first word of a block given
\* back goes through until memcheck_init starts the heap anew, in that run or a
\* later one, of memtrace_fn too: nothing clears shadow_check, memcheck_init not
\* either (data_abort_vector).
FreedStaysShut ==
  [][shadow_check /\ at = "memtrace" /\ instr.op = "heap" /\ pc' # pc =>
       \A p \in freed : instr.a \notin p..(p + 3)]_vars
=============================================================================
