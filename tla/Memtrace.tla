------------------------------ MODULE Memtrace ------------------------------
(***************************************************************************)
(* The trap machine of labs/19-eraser/part2-eraser/memtrace.c: how one     *)
(* user instruction that touches the tracked heap becomes a domain fault,  *)
(* a call of the client's handler, a single step under a mismatch          *)
(* breakpoint, and a second fault that closes the trap again.              *)
(*                                                                         *)
(* Nothing preempts the kernel's handlers; a step is one of their calls,   *)
(* so every intermediate state of the domain register is visible.          *)
(* Breakpoints take effect in user mode only.                              *)
(***************************************************************************)
EXTENDS Domains

CONSTANTS
  Pc,      \* addresses of user instructions
  NoPc     \* breakpoint 0 is disabled

ASSUME MemtraceAssumption == NoPc \notin Pc

\* What the instruction at the pc does: touch the heap, the shadow, mapped
\* memory outside both, or nothing mapped; call memcheck_alloc or _free (swi
\* 1, 2); or end the traced function (swi 0).
Instr == {"heap", "shadow", "plain", "wild", "alloc", "free", "return"}

\* The handlers clients install: one that reads the shadow of the address
\* (eraser, memcheck_fn) and one that only prints (memcheck_trace_only_fn).
Handler == {"checks", "traces"}

\* Control points: the client in supervisor mode, the program in user mode,
\* and the calls still to be made by the running exception handler.
Kernel == {"abort_trap_off", "abort_open", "abort_handler", "abort_close",
           "abort_step", "step_trap_on", "step_off",
           "sys_trap_off", "sys_open", "sys_mark", "sys_close", "sys_trap_on"}

VARIABLES
  at,                  \* control point
  mmu,                 \* MMU_enabled of control register 1
  mapped,              \* sections of the page table: "base", "track", "shadow"
  load_store_handler,  \* the client's handler, "none" before memtrace_init
  dacr,                \* domain access control register, per domain
  bp,                  \* address of the armed mismatch breakpoint, or NoPc
  pc, instr,           \* the user instruction about to execute
  calls,               \* handler calls made for it so far, counted to 2
  status               \* "running", or how the machine stopped

vars == <<at, mmu, mapped, load_store_handler, dacr, bp, pc, instr, calls, status>>
setup == <<mmu, mapped, load_store_handler>>
user == <<pc, instr, calls>>

TypeOK ==
  /\ at \in {"super", "user"} \cup Kernel
  /\ mmu \in BOOLEAN
  /\ mapped \in SUBSET {"base", "track", "shadow"}
  /\ load_store_handler \in Handler \cup {"none"}
  /\ dacr \in [Domain -> Permission]
  /\ bp \in Pc \cup {NoPc}
  /\ pc \in Pc /\ instr \in Instr /\ calls \in 0..2
  /\ status \in {"running", "reboot", "report", "panic", "assert", "nested"}

Init ==
  /\ at = "super"
  /\ mmu = FALSE
  /\ mapped = {}
  /\ load_store_handler = "none"
  /\ dacr = [d \in Domain |-> DOM_no_access]
  /\ bp = NoPc
  /\ pc \in Pc /\ instr = "plain" /\ calls = 0
  /\ status = "running"

-----------------------------------------------------------------------------
(* The switch (mmu.c), which its callers find the other way, or panic. *)

Asserted(holds) == status' = IF holds THEN status ELSE "assert"

mmu_is_enabled == mmu

\* our_mmu_reset leaves the MMU as it is: the assertion that it is off is last.
mmu_init == Asserted(~mmu_is_enabled)

mmu_enable == Asserted(~mmu_is_enabled) /\ mmu' = TRUE
mmu_disable == Asserted(mmu_is_enabled) /\ mmu' = FALSE

-----------------------------------------------------------------------------
(* The client, in supervisor mode. *)

\* The table is cleared before the program's own sections are mapped.
mmu_pt_alloc_at == {}

write_domain_access_ctrl(r) == dacr' = r

memtrace_init(h) ==
  /\ at = "super" /\ status = "running"
  /\ mmu_init
  /\ mapped' = mmu_pt_alloc_at \cup {"base"}
  /\ load_store_handler' = h
  /\ write_domain_access_ctrl([d \in Domain |-> IF d = dom_id THEN DOM_client
                                                             ELSE DOM_no_access])
  /\ UNCHANGED <<at, mmu, bp, user>>

\* mmu_map_section panics on a section already mapped.
MapSection(s) ==
  /\ at = "super" /\ status = "running" /\ "base" \in mapped
  /\ IF s \in mapped THEN status' = "panic" /\ UNCHANGED mapped
                     ELSE mapped' = mapped \cup {s} /\ UNCHANGED status

memtrace_map ==
  MapSection("track") /\ UNCHANGED <<at, mmu, load_store_handler, dacr, bp, user>>

memtrace_shadow ==
  /\ MapSection("shadow")
  /\ dacr' = IF status' = "panic" THEN dacr
             ELSE dom_perm_set(dacr, shadow_id, DOM_no_access)
  /\ UNCHANGED <<at, mmu, load_store_handler, bp, user>>

\* The program goes to an instruction of its own choice.  A program that calls
\* memcheck_alloc or memcheck_free has had its heap mapped: before that
\* kmalloc's heap is whatever libpi left, outside this model.
Goto(p) ==
  /\ pc' = p /\ calls' = 0
  /\ instr' \in IF "track" \in mapped THEN Instr ELSE Instr \ {"alloc", "free"}

\* MMU on, then user_mode_run_fn drops to user mode.
memtrace_fn ==
  /\ at = "super" /\ status = "running" /\ "base" \in mapped
  /\ mmu_enable
  /\ at' = "user"
  /\ \E p \in Pc : Goto(p)
  /\ UNCHANGED <<mapped, load_store_handler, dacr, bp>>

-----------------------------------------------------------------------------
(* The program, in user mode. *)

\* The fetch passes a mismatch breakpoint only at the address it is armed on.
Fetched == at = "user" /\ status = "running" /\ bp \in {NoPc, pc}

PrefetchAbort ==
  /\ at = "user" /\ status = "running" /\ bp \notin {NoPc, pc}
  /\ at' = "step_trap_on"
  /\ UNCHANGED <<setup, dacr, bp, user, status>>

Permitted(s) ==
  s = "plain" \/ (s = "heap" /\ dacr[track_id] = DOM_client)
              \/ (s = "shadow" /\ dacr[shadow_id] = DOM_client)

Present(s) ==
  s = "plain" \/ (s = "heap" /\ "track" \in mapped)
              \/ (s = "shadow" /\ "shadow" \in mapped)

\* The access goes through; an access never branches to itself.
Execute ==
  /\ Fetched /\ Present(instr) /\ Permitted(instr)
  /\ \E p \in Pc : (instr # "plain" => p # pc) /\ Goto(p)
  /\ UNCHANGED <<at, setup, dacr, bp, status>>

\* domain_section: data_abort_vector starts.
DataAbort ==
  /\ Fetched /\ Present(instr) /\ ~Permitted(instr)
  /\ at' = "abort_trap_off"
  /\ UNCHANGED <<setup, dacr, bp, user, status>>

\* translation_section: data_abort_vector reboots.
TranslationFault ==
  /\ Fetched /\ instr \in {"heap", "shadow", "wild"} /\ ~Present(instr)
  /\ status' = "reboot"
  /\ UNCHANGED <<at, setup, dacr, bp, user>>

Syscall ==
  /\ Fetched /\ instr \in {"alloc", "free"}
  /\ at' = "sys_trap_off"
  /\ UNCHANGED <<setup, dacr, bp, user, status>>

\* swi 0 goes back to memtrace_fn, which turns the MMU off.
Return ==
  /\ Fetched /\ instr = "return"
  /\ mmu_disable
  /\ at' = "super"
  /\ UNCHANGED <<mapped, load_store_handler, dacr, bp, user>>

-----------------------------------------------------------------------------
(* The calls of the exception handlers. *)

Call(from, to) == at = from /\ status = "running" /\ at' = to

memtrace_trap_off(from, to) ==
  /\ Call(from, to)
  /\ dacr' = dom_perm_set(dacr, track_id, DOM_client)
  /\ Asserted(~memtrace_trap_enabled(dacr'))
  /\ UNCHANGED <<setup, bp, user>>

memtrace_trap_on(from, to) ==
  /\ Call(from, to)
  /\ dacr' = dom_perm_set(dacr, track_id, DOM_no_access)
  /\ Asserted(memtrace_trap_enabled(dacr'))
  /\ UNCHANGED <<setup, bp, user>>

\* The system calls assert the permission they have just set.
SetShadow(from, to, perm) ==
  /\ Call(from, to)
  /\ dacr' = dom_perm_set(dacr, shadow_id, perm)
  /\ Asserted(from \in {"sys_open", "sys_close"} => dom_perm_get(dacr', shadow_id) = perm)
  /\ UNCHANGED <<setup, bp, user>>

\* What touching the heap's shadow from a handler comes to: a translation
\* fault reboots, a domain fault would enter the handler a second time.
ShadowAccess ==
  IF "shadow" \notin mapped THEN "reboot"
  ELSE IF dacr[shadow_id] = DOM_client THEN "running" ELSE "nested"

\* Below the heap's shadow lies its own: no section is mapped there.
CallHandler ==
  /\ Call("abort_handler", "abort_close")
  /\ calls' = IF calls < 2 THEN calls + 1 ELSE calls
  /\ \/ load_store_handler = "traces" /\ UNCHANGED status
     \/ /\ load_store_handler = "checks"
        /\ status' = IF instr = "heap" THEN ShadowAccess ELSE "reboot"
     \/ /\ load_store_handler = "checks" /\ instr = "heap"
        /\ ShadowAccess = "running" /\ status' = "report"
  /\ UNCHANGED <<setup, dacr, bp, pc, instr>>

\* A slip: lr is taken for the next instruction, the breakpoint armed behind it.
debug_mismatch_breakpt0_on_next ==
  /\ Call("abort_step", "user")
  /\ bp' \in Pc \ {pc}
  /\ UNCHANGED <<setup, dacr, user, status>>

debug_mismatch_breakpt0_on ==
  /\ Call("abort_step", "user")
  /\ bp' = pc
  /\ UNCHANGED <<setup, dacr, user, status>>

debug_breakpt0_off ==
  /\ Call("step_off", "user")
  /\ bp' = NoPc
  /\ UNCHANGED <<setup, dacr, user, status>>

\* kmalloc or kfree, then memset of the shadow of the block.
MarkShadow ==
  /\ Call("sys_mark", "sys_close")
  /\ status' = ShadowAccess
  /\ UNCHANGED <<setup, dacr, bp, user>>

\* The last call of a system call also returns to the instruction after it.
SyscallReturn ==
  /\ Call("sys_trap_on", "user")
  /\ dacr' = dom_perm_set(dacr, track_id, DOM_no_access)
  /\ Asserted(memtrace_trap_enabled(dacr'))
  /\ \E p \in Pc : Goto(p)
  /\ UNCHANGED <<setup, bp>>

\* A slip: the shadow is opened before the trap goes off, whose three-bit write
\* closes it again.
DataAbortStepShadowFirst ==
  \/ SetShadow("abort_trap_off", "abort_open", DOM_client)
  \/ memtrace_trap_off("abort_open", "abort_handler")
  \/ CallHandler
  \/ SetShadow("abort_close", "abort_step", DOM_no_access)
  \/ debug_mismatch_breakpt0_on

DataAbortStep ==
  \/ memtrace_trap_off("abort_trap_off", "abort_open")
  \/ SetShadow("abort_open", "abort_handler", DOM_client)
  \/ CallHandler
  \/ SetShadow("abort_close", "abort_step", DOM_no_access)
  \/ debug_mismatch_breakpt0_on

\* A slip: the step over takes the breakpoint away and leaves the trap off.
SingleStepUntrapped ==
  /\ Call("step_trap_on", "user")
  /\ bp' = NoPc
  /\ UNCHANGED <<setup, dacr, user, status>>

SingleStep ==
  \/ memtrace_trap_on("step_trap_on", "step_off")
  \/ debug_breakpt0_off

SyscallStep ==
  \/ memtrace_trap_off("sys_trap_off", "sys_open")
  \/ SetShadow("sys_open", "sys_mark", DOM_client)
  \/ MarkShadow
  \/ SetShadow("sys_close", "sys_trap_on", DOM_no_access)
  \/ SyscallReturn

KernelStep == DataAbortStep \/ SingleStep \/ SyscallStep

UserStep ==
  \/ PrefetchAbort \/ Execute \/ DataAbort \/ TranslationFault
  \/ Syscall \/ Return

Client ==
  \/ \E h \in Handler : memtrace_init(h)
  \/ memtrace_map \/ memtrace_shadow \/ memtrace_fn

Stopped == status # "running" /\ UNCHANGED vars

Next == Client \/ UserStep \/ KernelStep \/ Stopped

\* One processor, no preemption: it goes on executing.
Fairness == WF_vars(KernelStep) /\ WF_vars(UserStep)

Spec == Init /\ [][Next]_vars /\ Fairness

-----------------------------------------------------------------------------
(* What the machine promises. *)

\* Whenever the program runs, the shadow is out of its reach, the rest of its
\* memory within it, and the tracked heap open only while the breakpoint is
\* armed, that is, over one instruction whose handler has been called
\* (data_abort_vector, single_step_handler and syscall_vector leave it so).
UserSealed ==
  at = "user" /\ status = "running" =>
    /\ dacr[shadow_id] = DOM_no_access
    /\ dacr[dom_id] = DOM_client
    /\ (dacr[track_id] = DOM_client) <=> (bp # NoPc)
    /\ bp # NoPc => IF pc = bp THEN calls > 0 ELSE calls = 0

\* No handler touches memory it has closed, and none of its assertions about
\* the domain register fails, though the three-bit writes of the trap and the
\* shadow permissions overlap.
HandlersNeverFault == status \notin {"nested", "assert"}

\* An access to the heap goes through after exactly one call of the client's
\* handler, never with none and never after a second.
TracedOnce ==
  [][(at = "user" /\ at' = "user" /\ instr = "heap" /\ pc' # pc) => calls = 1]_vars

\* The heap access under way, as the client sees it.
access ==
  IF status # "running" THEN "stopped"
  ELSE IF instr # "heap" THEN "none"
  ELSE IF calls = 0 THEN "untraced"
  ELSE IF calls = 1 THEN "traced" ELSE "traced twice"

Program == INSTANCE TracedProgram

\* The trap machine implements that program: nothing is missed or handled
\* twice, and no access is trapped for ever.
TracesEveryAccess == Program!Spec
=============================================================================
