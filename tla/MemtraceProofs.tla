--------------------------- MODULE MemtraceProofs ---------------------------
(***************************************************************************)
(* Proofs about the trap machine, and about the tools over it, for any set *)
(* of instruction addresses.                                               *)
(* The inductive invariant says, for every control point of the handlers,  *)
(* which of the two domains are open, where the breakpoint is, and whether *)
(* the handler has been called for the instruction under way.              *)
(***************************************************************************)
EXTENDS Tools, SequenceTheorems, TLAPS

-----------------------------------------------------------------------------
(* What the three-bit writes of dom_perm_set do to a register of permissions. *)

LEMMA Permissions == DOM_client \in Permission /\ DOM_no_access \in Permission
                     /\ DOM_client # DOM_no_access
BY DEF Permission, DOM_client, DOM_no_access

\* A permission is one bit, so clearing the low bit of the next domain closes it.
LEMMA SpareBit == \A v \in Permission : v - (v % 2) = DOM_no_access
BY DEF Permission, DOM_no_access, DOM_client

LEMMA DomainIds ==
  /\ dom_id \in Domain /\ track_id \in Domain /\ shadow_id \in Domain /\ shadow_id + 1 \in Domain
  /\ track_id + 1 = shadow_id /\ dom_id # track_id /\ dom_id # shadow_id /\ track_id # shadow_id
  /\ shadow_id + 1 \notin {dom_id, track_id, shadow_id}
BY DEF dom_id, track_id, shadow_id, Domain

\* The trap's write opens or closes the heap, always closes the shadow, and its
\* assertion holds (memtrace_trap_on, memtrace_trap_off).
LEMMA TrapWrite ==
  ASSUME NEW x \in [Domain -> Permission], NEW perm \in Permission, NEW y,
         y = dom_perm_set(x, track_id, perm)
  PROVE  /\ y \in [Domain -> Permission]
         /\ y[track_id] = perm /\ y[shadow_id] = DOM_no_access
         /\ y[dom_id] = x[dom_id]
         /\ memtrace_trap_enabled(y) <=> (perm = DOM_no_access)
<1>1. y = [x EXCEPT ![track_id] = perm, ![shadow_id] = DOM_no_access]
  BY DomainIds, SpareBit DEF dom_perm_set
<1>2. y \in [Domain -> Permission] /\ y[track_id] = perm
      /\ y[shadow_id] = DOM_no_access /\ y[dom_id] = x[dom_id]
  BY <1>1, DomainIds DEF Permission
<1>3. dom_perm_get(y, track_id) = perm
  BY <1>2, DomainIds DEF dom_perm_get, Permission, DOM_no_access, DOM_client
<1> QED
  BY <1>2, <1>3 DEF memtrace_trap_enabled

\* The shadow's write leaves the trap alone, and its assertion holds.
LEMMA ShadowWrite ==
  ASSUME NEW x \in [Domain -> Permission], NEW perm \in Permission, NEW y,
         y = dom_perm_set(x, shadow_id, perm)
  PROVE  /\ y \in [Domain -> Permission]
         /\ y[shadow_id] = perm /\ y[track_id] = x[track_id]
         /\ y[dom_id] = x[dom_id]
         /\ dom_perm_get(y, shadow_id) = perm
<1>1. y = [x EXCEPT ![shadow_id] = perm, ![shadow_id + 1] = DOM_no_access]
  BY DomainIds, SpareBit DEF dom_perm_set
<1>2. /\ y \in [Domain -> Permission] /\ y[shadow_id] = perm
      /\ y[track_id] = x[track_id] /\ y[dom_id] = x[dom_id]
      /\ y[shadow_id + 1] = DOM_no_access
  BY <1>1, DomainIds DEF Permission
<1>3. dom_perm_get(y, shadow_id) = perm
  BY <1>2 DEF dom_perm_get, Permission, DOM_no_access, DOM_client
<1> QED
  BY <1>2, <1>3

-----------------------------------------------------------------------------
(* The trap machine. *)

\* Control points with the shadow open, and with the trap off whatever the
\* breakpoint.
ShadowOpen == {"abort_handler", "abort_close", "sys_mark", "sys_close"}
TrapOff == ShadowOpen \cup {"abort_open", "abort_step", "step_trap_on", "sys_open", "sys_trap_on"}

AbortBefore == {"abort_trap_off", "abort_open", "abort_handler"}
AbortAfter == {"abort_close", "abort_step"}
Step == {"step_trap_on", "step_off"}

DomainsFollow ==
  /\ mmu <=> at # "super"
  /\ at # "super" => "base" \in mapped
  /\ "base" \in mapped => dacr[dom_id] = DOM_client
  /\ (dacr[shadow_id] = DOM_client) <=> (at \in ShadowOpen)
  /\ (dacr[track_id] = DOM_client) <=>
       (at \in TrapOff \/ (at \in {"user", "abort_trap_off"} /\ bp # NoPc))

\* Where the breakpoint may be armed, and what has been called by then.
BreakpointFollows ==
  /\ at = "super" => bp = NoPc /\ instr # "heap"
  /\ at = "user" =>
       IF bp = pc THEN calls > 0 /\ instr \in {"heap", "shadow"} ELSE calls = 0
  /\ at \in AbortBefore \cup AbortAfter =>
       instr \in {"heap", "shadow"} /\ bp \in {NoPc, pc} /\ (instr = "heap" => bp = NoPc)
  /\ at \in Step => bp # NoPc /\ bp # pc /\ calls = 0
  /\ at \in Kernel \ (AbortBefore \cup AbortAfter \cup Step) =>
       bp = NoPc /\ instr \in {"alloc", "free"}

\* One call of the handler per heap access.
CallsFollow ==
  /\ instr = "heap" => calls < 2
  /\ instr = "heap" /\ at \in AbortBefore => calls = 0
  /\ at \in AbortAfter => calls > 0

IInv ==
  /\ TypeOK
  /\ DomainsFollow
  /\ BreakpointFollows
  /\ CallsFollow
  /\ HandlersNeverFault

-----------------------------------------------------------------------------
(* The inductive invariant. *)

LEMMA InitInvariant == Init => IInv
<1> SUFFICES ASSUME Init PROVE IInv
  OBVIOUS
<1>1. TypeOK
  <2>1. mmu \in BOOLEAN
    BY Zenon DEF Init
  <2>2. dacr \in [Domain -> Permission]
    BY Permissions DEF Init
  <2> QED BY <2>1, <2>2 DEF Init, TypeOK, Instr
<1>2. DomainsFollow
  BY Permissions DEF Init, DomainsFollow, Domain, shadow_id, track_id, ShadowOpen, TrapOff
<1>3. BreakpointFollows /\ CallsFollow /\ HandlersNeverFault
  BY DEF Init, BreakpointFollows, CallsFollow, HandlersNeverFault, Kernel,
     AbortBefore, AbortAfter, Step
<1> QED
  BY <1>1, <1>2, <1>3 DEF IInv

\* The client's calls keep the invariant: the machine is set up sealed.
LEMMA ClientStep == IInv /\ Client => IInv'
<1> SUFFICES ASSUME IInv, Client PROVE IInv'
  OBVIOUS
<1> USE DEF IInv
<1>t. TypeOK
  OBVIOUS
<1>1. ASSUME NEW h \in Handler, memtrace_init(h) PROVE IInv'
  <2>0. status' = status /\ status = "running"
    BY <1>1 DEF memtrace_init, mmu_init, mmu_is_enabled, Asserted, DomainsFollow
  <2>1. TypeOK'
    BY <1>1, <2>0, Permissions
       DEF memtrace_init, mmu_pt_alloc_at, write_domain_access_ctrl, TypeOK, user
  <2>2. DomainsFollow'
    BY <1>1, Permissions
       DEF memtrace_init, write_domain_access_ctrl, DomainsFollow, Domain, dom_id, shadow_id,
           track_id, ShadowOpen, TrapOff
  <2>3. BreakpointFollows' /\ CallsFollow' /\ HandlersNeverFault'
    BY <1>1, <2>0 DEF memtrace_init, user, BreakpointFollows, CallsFollow, HandlersNeverFault
  <2> QED BY <2>1, <2>2, <2>3
<1>2. CASE memtrace_map
  <2>1. TypeOK'
    BY <1>2 DEF memtrace_map, MapSection, TypeOK, user
  <2>2. DomainsFollow'
    BY <1>2 DEF memtrace_map, MapSection, DomainsFollow
  <2>3. BreakpointFollows' /\ CallsFollow' /\ HandlersNeverFault'
    BY <1>2 DEF memtrace_map, MapSection, user, BreakpointFollows, CallsFollow,
       HandlersNeverFault
  <2> QED BY <2>1, <2>2, <2>3
<1>3. CASE memtrace_shadow
  <2>1. /\ dacr' \in [Domain -> Permission]
        /\ dacr'[shadow_id] = DOM_no_access
        /\ dacr'[track_id] = dacr[track_id] /\ dacr'[dom_id] = dacr[dom_id]
    <3>1. CASE dacr' = dacr
      BY <1>3, <3>1, Permissions DEF memtrace_shadow, MapSection, DomainsFollow, ShadowOpen,
         TypeOK, Permission, Domain, shadow_id
    <3>2. CASE dacr' = dom_perm_set(dacr, shadow_id, DOM_no_access)
      BY <1>t, <3>2, ShadowWrite, Permissions DEF TypeOK
    <3> QED BY <1>3, <3>1, <3>2 DEF memtrace_shadow
  <2>2. TypeOK'
    BY <1>3, <2>1 DEF memtrace_shadow, MapSection, TypeOK, user
  <2>3. DomainsFollow'
    BY <1>3, <2>1, Permissions DEF memtrace_shadow, MapSection, DomainsFollow, ShadowOpen
  <2>4. BreakpointFollows' /\ CallsFollow' /\ HandlersNeverFault'
    BY <1>3 DEF memtrace_shadow, MapSection, user, BreakpointFollows, CallsFollow,
       HandlersNeverFault
  <2> QED BY <2>2, <2>3, <2>4
<1>4. CASE memtrace_fn
  <2>0. status' = status /\ status = "running" /\ mmu' = TRUE
    BY <1>4 DEF memtrace_fn, mmu_enable, mmu_is_enabled, Asserted, DomainsFollow
  <2>1. TypeOK'
    BY <1>4, <2>0 DEF memtrace_fn, Goto, TypeOK
  <2>2. DomainsFollow'
    BY <1>4, <2>0 DEF memtrace_fn, DomainsFollow, BreakpointFollows, ShadowOpen, TrapOff
  <2>3. BreakpointFollows' /\ CallsFollow' /\ HandlersNeverFault'
    BY <1>4, <2>0, MemtraceAssumption DEF memtrace_fn, Goto, BreakpointFollows, CallsFollow,
       HandlersNeverFault, Kernel, AbortBefore, AbortAfter, Step
  <2> QED BY <2>1, <2>2, <2>3
<1> QED
  BY <1>1, <1>2, <1>3, <1>4 DEF Client

\* The program's own steps keep it: what it may reach is what is open.
LEMMA UserStepKeeps == IInv /\ UserStep => IInv'
<1> SUFFICES ASSUME IInv, UserStep PROVE IInv'
  OBVIOUS
<1> USE DEF IInv
<1>t. TypeOK /\ DomainsFollow /\ BreakpointFollows /\ CallsFollow /\ HandlersNeverFault
  OBVIOUS
<1>1. CASE PrefetchAbort
  BY <1>1 DEF PrefetchAbort, setup, user, TypeOK, DomainsFollow, BreakpointFollows,
     CallsFollow, HandlersNeverFault, Kernel, AbortBefore, AbortAfter, Step, ShadowOpen, TrapOff
<1>2. CASE Execute
  <2>1. TypeOK'
    BY <1>2 DEF Execute, Goto, setup, TypeOK
  <2>2. at = "user" /\ UNCHANGED <<at, mmu, mapped, dacr, bp, status>> /\ calls' = 0
    BY <1>2 DEF Execute, Fetched, Goto, setup
  <2>3. DomainsFollow'
    BY <2>2 DEF DomainsFollow
  <2>4. bp' # pc'
    <3>1. CASE bp = NoPc
      BY <2>1, <2>2, <3>1, MemtraceAssumption DEF TypeOK
    <3>2. CASE bp = pc
      BY <1>2, <2>2, <3>2 DEF Execute, Goto, BreakpointFollows
    <3> QED BY <1>2, <3>1, <3>2 DEF Execute, Fetched
  <2>5. BreakpointFollows' /\ CallsFollow' /\ HandlersNeverFault'
    BY <2>2, <2>4 DEF BreakpointFollows, CallsFollow, HandlersNeverFault, Kernel,
       AbortBefore, AbortAfter, Step
  <2> QED BY <2>1, <2>3, <2>5
<1>3. CASE DataAbort
  <2>1. /\ at = "user" /\ at' = "abort_trap_off" /\ bp \in {NoPc, pc}
        /\ instr \in {"heap", "shadow"}
        /\ instr = "heap" => dacr[track_id] # DOM_client
        /\ UNCHANGED <<mmu, mapped, load_store_handler, dacr, bp, pc, instr, calls, status>>
    BY <1>3 DEF DataAbort, Fetched, Present, Permitted, setup, user
  <2>2. TypeOK'
    BY <2>1 DEF TypeOK, Kernel
  <2>3. DomainsFollow'
    BY <2>1 DEF DomainsFollow, ShadowOpen, TrapOff
  <2>4. instr = "heap" => bp = NoPc /\ bp # pc
    BY <2>1, MemtraceAssumption DEF DomainsFollow, TypeOK
  <2>5. BreakpointFollows' /\ CallsFollow' /\ HandlersNeverFault'
    BY <2>1, <2>4 DEF BreakpointFollows, CallsFollow, HandlersNeverFault, Kernel,
       AbortBefore, AbortAfter, Step
  <2> QED BY <2>2, <2>3, <2>5
<1>4. CASE TranslationFault
  BY <1>4 DEF TranslationFault, setup, user, TypeOK, DomainsFollow, BreakpointFollows,
     CallsFollow, HandlersNeverFault
<1>5. CASE Syscall
  <2>1. /\ at = "user" /\ at' = "sys_trap_off" /\ instr \in {"alloc", "free"} /\ bp = NoPc
        /\ UNCHANGED <<mmu, mapped, load_store_handler, dacr, bp, pc, instr, calls, status>>
    BY <1>5 DEF Syscall, Fetched, BreakpointFollows, setup, user
  <2> QED
    BY <2>1 DEF TypeOK, DomainsFollow, BreakpointFollows, CallsFollow, HandlersNeverFault,
       Kernel, AbortBefore, AbortAfter, Step, ShadowOpen, TrapOff
<1>6. CASE Return
  <2>1. /\ at = "user" /\ at' = "super" /\ instr = "return" /\ bp = NoPc
        /\ mmu' = FALSE /\ status' = status
        /\ UNCHANGED <<mapped, load_store_handler, dacr, bp, pc, instr, calls>>
    BY <1>6 DEF Return, Fetched, mmu_disable, mmu_is_enabled, Asserted, DomainsFollow,
       BreakpointFollows, user
  <2> QED
    BY <2>1 DEF TypeOK, DomainsFollow, BreakpointFollows, CallsFollow, HandlersNeverFault,
       Kernel, AbortBefore, AbortAfter, Step, ShadowOpen, TrapOff
<1> QED
  BY <1>1, <1>2, <1>3, <1>4, <1>5, <1>6 DEF UserStep

\* The writes as the handlers' calls make them.
LEMMA TrapOff_Step ==
  ASSUME TypeOK, NEW from, NEW to, memtrace_trap_off(from, to)
  PROVE  /\ at = from /\ at' = to /\ status' = status /\ status = "running"
         /\ dacr' \in [Domain -> Permission]
         /\ dacr'[track_id] = DOM_client /\ dacr'[shadow_id] = DOM_no_access
         /\ dacr'[dom_id] = dacr[dom_id]
         /\ UNCHANGED <<mmu, mapped, load_store_handler, bp, pc, instr, calls>>
<1>1. dacr \in [Domain -> Permission] /\ dacr' = dom_perm_set(dacr, track_id, DOM_client)
  BY DEF TypeOK, memtrace_trap_off
<1> QED
  BY <1>1, TrapWrite, Permissions DEF memtrace_trap_off, Asserted, Call, setup, user

LEMMA TrapOn_Step ==
  ASSUME TypeOK, NEW from, NEW to, memtrace_trap_on(from, to)
  PROVE  /\ at = from /\ at' = to /\ status' = status /\ status = "running"
         /\ dacr' \in [Domain -> Permission]
         /\ dacr'[track_id] = DOM_no_access /\ dacr'[shadow_id] = DOM_no_access
         /\ dacr'[dom_id] = dacr[dom_id]
         /\ UNCHANGED <<mmu, mapped, load_store_handler, bp, pc, instr, calls>>
<1>1. dacr \in [Domain -> Permission] /\ dacr' = dom_perm_set(dacr, track_id, DOM_no_access)
  BY DEF TypeOK, memtrace_trap_on
<1> QED
  BY <1>1, TrapWrite, Permissions DEF memtrace_trap_on, Asserted, Call, setup, user

LEMMA Shadow_Step ==
  ASSUME TypeOK, NEW from, NEW to, NEW perm \in Permission, SetShadow(from, to, perm)
  PROVE  /\ at = from /\ at' = to /\ status' = status /\ status = "running"
         /\ dacr' \in [Domain -> Permission]
         /\ dacr'[track_id] = dacr[track_id] /\ dacr'[shadow_id] = perm
         /\ dacr'[dom_id] = dacr[dom_id]
         /\ UNCHANGED <<mmu, mapped, load_store_handler, bp, pc, instr, calls>>
<1>1. dacr \in [Domain -> Permission] /\ dacr' = dom_perm_set(dacr, shadow_id, perm)
  BY DEF TypeOK, SetShadow
<1> QED
  BY <1>1, ShadowWrite DEF SetShadow, Asserted, Call, setup, user

\* The calls of data_abort_vector keep it: they open what the handler needs and
\* leave only the instruction under the breakpoint able to touch the heap.
LEMMA DataAbortKeeps == IInv /\ DataAbortStep => IInv'
<1> SUFFICES ASSUME IInv, DataAbortStep PROVE IInv'
  OBVIOUS
<1> USE DEF IInv
<1>t. TypeOK /\ DomainsFollow /\ BreakpointFollows /\ CallsFollow /\ HandlersNeverFault
  OBVIOUS
<1>1. CASE memtrace_trap_off("abort_trap_off", "abort_open")
  <2>1. /\ at = "abort_trap_off" /\ at' = "abort_open" /\ status' = status /\ status = "running"
        /\ dacr' \in [Domain -> Permission]
        /\ dacr'[track_id] = DOM_client /\ dacr'[shadow_id] = DOM_no_access
        /\ dacr'[dom_id] = dacr[dom_id]
        /\ UNCHANGED <<mmu, mapped, load_store_handler, bp, pc, instr, calls>>
    BY <1>1, <1>t, TrapOff_Step, Permissions
  <2> QED
    BY <1>t, <2>1, Permissions, MemtraceAssumption DEF DomainsFollow, BreakpointFollows, CallsFollow, HandlersNeverFault,
     TypeOK, Kernel, AbortBefore, AbortAfter, Step, ShadowOpen, TrapOff
<1>2. CASE SetShadow("abort_open", "abort_handler", DOM_client)
  <2>1. /\ at = "abort_open" /\ at' = "abort_handler" /\ status' = status /\ status = "running"
        /\ dacr' \in [Domain -> Permission]
        /\ dacr'[track_id] = dacr[track_id] /\ dacr'[shadow_id] = DOM_client
        /\ dacr'[dom_id] = dacr[dom_id]
        /\ UNCHANGED <<mmu, mapped, load_store_handler, bp, pc, instr, calls>>
    BY <1>2, <1>t, Shadow_Step, Permissions
  <2> QED
    BY <1>t, <2>1, Permissions, MemtraceAssumption DEF DomainsFollow, BreakpointFollows, CallsFollow, HandlersNeverFault,
     TypeOK, Kernel, AbortBefore, AbortAfter, Step, ShadowOpen, TrapOff
<1>3. CASE CallHandler
  <2>1. /\ at = "abort_handler" /\ at' = "abort_close"
        /\ calls' = IF calls < 2 THEN calls + 1 ELSE calls
        /\ UNCHANGED <<mmu, mapped, load_store_handler, dacr, bp, pc, instr>>
    BY <1>3 DEF CallHandler, Call, setup
  <2>2. ShadowAccess \in {"running", "reboot"}
    BY <1>t, <2>1 DEF ShadowAccess, DomainsFollow, ShadowOpen
  <2>3. status' \in {"running", "reboot", "report"}
    BY <1>3, <2>2 DEF CallHandler, Call
  <2> QED
    BY <1>t, <2>1, <2>3 DEF DomainsFollow, BreakpointFollows, CallsFollow, HandlersNeverFault,
     TypeOK, Kernel, AbortBefore, AbortAfter, Step, ShadowOpen, TrapOff
<1>4. CASE SetShadow("abort_close", "abort_step", DOM_no_access)
  <2>1. /\ at = "abort_close" /\ at' = "abort_step" /\ status' = status /\ status = "running"
        /\ dacr' \in [Domain -> Permission]
        /\ dacr'[track_id] = dacr[track_id] /\ dacr'[shadow_id] = DOM_no_access
        /\ dacr'[dom_id] = dacr[dom_id]
        /\ UNCHANGED <<mmu, mapped, load_store_handler, bp, pc, instr, calls>>
    BY <1>4, <1>t, Shadow_Step, Permissions
  <2> QED
    BY <1>t, <2>1, Permissions, MemtraceAssumption DEF DomainsFollow, BreakpointFollows, CallsFollow, HandlersNeverFault,
     TypeOK, Kernel, AbortBefore, AbortAfter, Step, ShadowOpen, TrapOff
<1>5. CASE debug_mismatch_breakpt0_on
  <2>1. /\ at = "abort_step" /\ at' = "user" /\ bp' = pc
        /\ UNCHANGED <<mmu, mapped, load_store_handler, dacr, pc, instr, calls, status>>
    BY <1>5 DEF debug_mismatch_breakpt0_on, Call, setup, user
  <2> QED
    BY <1>t, <2>1, MemtraceAssumption DEF DomainsFollow, BreakpointFollows, CallsFollow, HandlersNeverFault,
     TypeOK, Kernel, AbortBefore, AbortAfter, Step, ShadowOpen, TrapOff
<1> QED
  BY <1>1, <1>2, <1>3, <1>4, <1>5 DEF DataAbortStep

\* The step over closes the heap again.
LEMMA SingleStepKeeps == IInv /\ SingleStep => IInv'
<1> SUFFICES ASSUME IInv, SingleStep PROVE IInv'
  OBVIOUS
<1> USE DEF IInv
<1>t. TypeOK /\ DomainsFollow /\ BreakpointFollows /\ CallsFollow /\ HandlersNeverFault
  OBVIOUS
<1>1. CASE memtrace_trap_on("step_trap_on", "step_off")
  <2>1. /\ at = "step_trap_on" /\ at' = "step_off" /\ status' = status /\ status = "running"
        /\ dacr' \in [Domain -> Permission]
        /\ dacr'[track_id] = DOM_no_access /\ dacr'[shadow_id] = DOM_no_access
        /\ dacr'[dom_id] = dacr[dom_id]
        /\ UNCHANGED <<mmu, mapped, load_store_handler, bp, pc, instr, calls>>
    BY <1>1, <1>t, TrapOn_Step, Permissions
  <2> QED
    BY <1>t, <2>1, Permissions, MemtraceAssumption DEF DomainsFollow, BreakpointFollows, CallsFollow, HandlersNeverFault,
     TypeOK, Kernel, AbortBefore, AbortAfter, Step, ShadowOpen, TrapOff
<1>2. CASE debug_breakpt0_off
  <2>1. /\ at = "step_off" /\ at' = "user" /\ bp' = NoPc
        /\ UNCHANGED <<mmu, mapped, load_store_handler, dacr, pc, instr, calls, status>>
    BY <1>2 DEF debug_breakpt0_off, Call, setup, user
  <2> QED
    BY <1>t, <2>1, MemtraceAssumption DEF DomainsFollow, BreakpointFollows, CallsFollow, HandlersNeverFault,
     TypeOK, Kernel, AbortBefore, AbortAfter, Step, ShadowOpen, TrapOff
<1> QED
  BY <1>1, <1>2 DEF SingleStep

\* The system calls open the heap and its shadow and close both.
LEMMA SyscallKeeps == IInv /\ SyscallStep => IInv'
<1> SUFFICES ASSUME IInv, SyscallStep PROVE IInv'
  OBVIOUS
<1> USE DEF IInv
<1>t. TypeOK /\ DomainsFollow /\ BreakpointFollows /\ CallsFollow /\ HandlersNeverFault
  OBVIOUS
<1>1. CASE memtrace_trap_off("sys_trap_off", "sys_open")
  <2>1. /\ at = "sys_trap_off" /\ at' = "sys_open" /\ status' = status /\ status = "running"
        /\ dacr' \in [Domain -> Permission]
        /\ dacr'[track_id] = DOM_client /\ dacr'[shadow_id] = DOM_no_access
        /\ dacr'[dom_id] = dacr[dom_id]
        /\ UNCHANGED <<mmu, mapped, load_store_handler, bp, pc, instr, calls>>
    BY <1>1, <1>t, TrapOff_Step, Permissions
  <2> QED
    BY <1>t, <2>1, Permissions, MemtraceAssumption DEF DomainsFollow, BreakpointFollows, CallsFollow, HandlersNeverFault,
     TypeOK, Kernel, AbortBefore, AbortAfter, Step, ShadowOpen, TrapOff
<1>2. CASE SetShadow("sys_open", "sys_mark", DOM_client)
  <2>1. /\ at = "sys_open" /\ at' = "sys_mark" /\ status' = status /\ status = "running"
        /\ dacr' \in [Domain -> Permission]
        /\ dacr'[track_id] = dacr[track_id] /\ dacr'[shadow_id] = DOM_client
        /\ dacr'[dom_id] = dacr[dom_id]
        /\ UNCHANGED <<mmu, mapped, load_store_handler, bp, pc, instr, calls>>
    BY <1>2, <1>t, Shadow_Step, Permissions
  <2> QED
    BY <1>t, <2>1, Permissions, MemtraceAssumption DEF DomainsFollow, BreakpointFollows, CallsFollow, HandlersNeverFault,
     TypeOK, Kernel, AbortBefore, AbortAfter, Step, ShadowOpen, TrapOff
<1>3. CASE MarkShadow
  <2>1. /\ at = "sys_mark" /\ at' = "sys_close" /\ status' = ShadowAccess
        /\ UNCHANGED <<mmu, mapped, load_store_handler, dacr, bp, pc, instr, calls>>
    BY <1>3 DEF MarkShadow, Call, setup, user
  <2>2. ShadowAccess \in {"running", "reboot"}
    BY <1>t, <2>1 DEF ShadowAccess, DomainsFollow, ShadowOpen
  <2> QED
    BY <1>t, <2>1, <2>2 DEF DomainsFollow, BreakpointFollows, CallsFollow, HandlersNeverFault,
     TypeOK, Kernel, AbortBefore, AbortAfter, Step, ShadowOpen, TrapOff
<1>4. CASE SetShadow("sys_close", "sys_trap_on", DOM_no_access)
  <2>1. /\ at = "sys_close" /\ at' = "sys_trap_on" /\ status' = status /\ status = "running"
        /\ dacr' \in [Domain -> Permission]
        /\ dacr'[track_id] = dacr[track_id] /\ dacr'[shadow_id] = DOM_no_access
        /\ dacr'[dom_id] = dacr[dom_id]
        /\ UNCHANGED <<mmu, mapped, load_store_handler, bp, pc, instr, calls>>
    BY <1>4, <1>t, Shadow_Step, Permissions
  <2> QED
    BY <1>t, <2>1, Permissions, MemtraceAssumption DEF DomainsFollow, BreakpointFollows, CallsFollow, HandlersNeverFault,
     TypeOK, Kernel, AbortBefore, AbortAfter, Step, ShadowOpen, TrapOff
<1>5. CASE SyscallReturn
  <2>1. dacr' = dom_perm_set(dacr, track_id, DOM_no_access) /\ dacr \in [Domain -> Permission]
    BY <1>5, <1>t DEF SyscallReturn, TypeOK
  <2>2. /\ dacr' \in [Domain -> Permission]
        /\ dacr'[track_id] = DOM_no_access /\ dacr'[shadow_id] = DOM_no_access
        /\ dacr'[dom_id] = dacr[dom_id] /\ memtrace_trap_enabled(dacr')
    BY <2>1, TrapWrite, Permissions
  <2>3. /\ at = "sys_trap_on" /\ at' = "user" /\ status' = status
        /\ pc' \in Pc /\ instr' \in Instr /\ calls' = 0
        /\ UNCHANGED <<mmu, mapped, load_store_handler, bp>>
    BY <1>5, <2>2 DEF SyscallReturn, Asserted, Call, Goto, setup
  <2> QED
    BY <1>t, <2>2, <2>3, Permissions, MemtraceAssumption DEF DomainsFollow, BreakpointFollows, CallsFollow, HandlersNeverFault,
     TypeOK, Kernel, AbortBefore, AbortAfter, Step, ShadowOpen, TrapOff
<1> QED
  BY <1>1, <1>2, <1>3, <1>4, <1>5 DEF SyscallStep

LEMMA InvariantStep == IInv /\ [Next]_vars => IInv'
<1> SUFFICES ASSUME IInv, [Next]_vars PROVE IInv'
  OBVIOUS
<1>1. CASE UNCHANGED vars
  BY <1>1 DEF IInv, vars, TypeOK, DomainsFollow, BreakpointFollows, CallsFollow,
     HandlersNeverFault
<1>2. CASE Next
  BY <1>1, <1>2, ClientStep, UserStepKeeps, DataAbortKeeps, SingleStepKeeps, SyscallKeeps
     DEF Next, KernelStep, Stopped
<1> QED
  BY <1>1, <1>2

\* At each control point of the handlers the two domains, the breakpoint and the
\* count of calls are what the calls made so far leave (memtrace.c).
THEOREM Invariant == Spec => []IInv
BY InitInvariant, InvariantStep, PTL DEF Spec

-----------------------------------------------------------------------------
(* What follows. *)

\* The registers, the page table and the program keep their types
\* (every call of memtrace.c and every handler).
THEOREM TypeCorrect == Spec => []TypeOK
BY Invariant, PTL DEF IInv

LEMMA SealedState == IInv => UserSealed
BY MemtraceAssumption, Permissions, DomainIds DEF IInv, TypeOK, UserSealed, DomainsFollow,
   BreakpointFollows, ShadowOpen, TrapOff, Permission, DOM_client, DOM_no_access

\* While the program runs the shadow is closed to it, and the heap too but over
\* the one instruction whose handler has been called (data_abort_vector,
\* single_step_handler, syscall_vector).
THEOREM Sealed == Spec => []UserSealed
BY Invariant, SealedState, PTL

\* No handler faults on what it has closed, and no assertion about the domain
\* register fails (memtrace_trap_on, memtrace_trap_off, syscall_vector).
THEOREM HandlersSafe == Spec => []HandlersNeverFault
BY Invariant, PTL DEF IInv

\* The heap is touched under the breakpoint, after one call.
LEMMA HeapUnderBreakpoint ==
  ASSUME IInv, Execute, instr = "heap"
  PROVE  calls = 1 /\ pc' # pc /\ at = "user"
<1>1. at = "user" /\ bp \in {NoPc, pc} /\ dacr[track_id] = DOM_client /\ pc' # pc
  BY DEF Execute, Fetched, Permitted, Goto
<1>2. bp = pc
  BY <1>1 DEF IInv, DomainsFollow, TrapOff, ShadowOpen
<1>3. calls \in 0..2 /\ calls < 2 /\ calls > 0
  BY <1>1, <1>2 DEF IInv, TypeOK, BreakpointFollows, CallsFollow
<1> QED
  BY <1>1, <1>3

\* A heap access goes through after exactly one call of the client's handler
\* (data_abort_vector before it, single_step_handler after it).
THEOREM TracedExactlyOnce == Spec => TracedOnce
<1>1. ASSUME IInv, [Next]_vars, at = "user", at' = "user", instr = "heap", pc' # pc
      PROVE  calls = 1
  <2>1. CASE Client
    <3>1. \/ at' = at /\ UNCHANGED user
          \/ at = "super"
      BY <2>1 DEF Client, memtrace_init, memtrace_map, memtrace_shadow, memtrace_fn, MapSection
    <3> QED BY <1>1, <3>1 DEF user
  <2>2. CASE UserStep
    <3>1. CASE Execute
      BY <1>1, <3>1, HeapUnderBreakpoint
    <3>2. CASE ~Execute
      BY <1>1, <2>2, <3>2 DEF UserStep, PrefetchAbort, DataAbort, TranslationFault, Syscall,
         Return, user
    <3> QED BY <3>1, <3>2
  <2>3. CASE KernelStep
    BY <1>1, <2>3 DEF KernelStep, DataAbortStep, SingleStep, SyscallStep, memtrace_trap_off,
       memtrace_trap_on, SetShadow, CallHandler, debug_mismatch_breakpt0_on,
       debug_breakpt0_off, MarkShadow, SyscallReturn, Call
  <2>4. CASE UNCHANGED vars
    BY <1>1, <2>4 DEF vars
  <2> QED BY <1>1, <2>1, <2>2, <2>3, <2>4 DEF Next, Stopped
<1>2. IInv /\ [Next]_vars =>
        [(at = "user" /\ at' = "user" /\ instr = "heap" /\ pc' # pc) => calls = 1]_vars
  BY <1>1
<1> QED
  BY <1>2, Invariant, PTL DEF Spec, TracedOnce

-----------------------------------------------------------------------------
(* Refinement: the safety part of TracedProgram. *)

LEMMA Quiet ==
  ASSUME UNCHANGED <<instr, calls, status>>
  PROVE  access' = access
BY DEF access

\* What is under way once the program goes on to an instruction of its choice.
LEMMA GoneTo ==
  ASSUME status' = "running", calls' = 0
  PROVE  access' \in {"none", "untraced"}
BY DEF access

\* Where the machine stops, whatever was under way has stopped.
LEMMA Stopping ==
  ASSUME status = "running", status' # "running"
  PROVE  Program!Stop
BY DEF access, Program!Stop

LEMMA ClientAccess == IInv /\ Client => Program!Next \/ access' = access
<1> SUFFICES ASSUME IInv, Client PROVE Program!Next \/ access' = access
  OBVIOUS
<1>1. status = "running" /\ instr # "heap" /\ access = "none"
  <2>1. at = "super" /\ status = "running"
    BY DEF Client, memtrace_init, memtrace_map, memtrace_shadow, memtrace_fn, MapSection
  <2> QED BY <2>1 DEF IInv, BreakpointFollows, access
<1>2. CASE status' # "running"
  BY <1>1, <1>2, Stopping DEF Program!Next
<1>3. CASE status' = "running" /\ memtrace_fn
  <2>1. access' \in {"none", "untraced"}
    BY <1>3, GoneTo DEF memtrace_fn, Goto
  <2> QED BY <1>1, <2>1 DEF Program!Next, Program!Begin
<1>4. CASE status' = "running" /\ ~memtrace_fn
  <2>1. UNCHANGED <<instr, calls, status>>
    BY <1>1, <1>4 DEF Client, memtrace_init, memtrace_map, memtrace_shadow, user
  <2> QED BY <2>1, Quiet
<1> QED
  BY <1>2, <1>3, <1>4

LEMMA UserAccess == IInv /\ UserStep => Program!Next \/ access' = access
<1> SUFFICES ASSUME IInv, UserStep PROVE Program!Next \/ access' = access
  OBVIOUS
<1>1. CASE Execute
  <2>1. access' \in {"none", "untraced"} /\ status = "running"
    BY <1>1, GoneTo DEF Execute, Fetched, Goto
  <2>2. access \in {"none", "traced"}
    BY <1>1, <2>1, HeapUnderBreakpoint DEF access
  <2> QED
    BY <2>1, <2>2 DEF Program!Next, Program!Begin, Program!Retire
<1>2. CASE TranslationFault
  BY <1>2, Stopping DEF TranslationFault, Fetched, Program!Next
<1>3. CASE Return
  BY <1>3, Quiet DEF Return, Fetched, mmu_disable, mmu_is_enabled, Asserted, IInv, DomainsFollow,
     user
<1>4. CASE ~Execute /\ ~TranslationFault /\ ~Return
  BY <1>4, Quiet DEF UserStep, PrefetchAbort, DataAbort, Syscall, user
<1> QED
  BY <1>1, <1>2, <1>3, <1>4

LEMMA KernelAccess == IInv /\ KernelStep => Program!Next \/ access' = access
<1> SUFFICES ASSUME IInv, KernelStep PROVE Program!Next \/ access' = access
  OBVIOUS
<1>1. status = "running"
  BY DEF KernelStep, DataAbortStep, SingleStep, SyscallStep, memtrace_trap_off,
     memtrace_trap_on, SetShadow, CallHandler, debug_mismatch_breakpt0_on,
     debug_breakpt0_off, MarkShadow, SyscallReturn, Call
<1>2. CASE status' # "running"
  BY <1>1, <1>2, Stopping DEF Program!Next
<1>3. CASE status' = "running" /\ CallHandler
  <2>1. at = "abort_handler" /\ instr' = instr /\ calls' = IF calls < 2 THEN calls + 1 ELSE calls
    BY <1>3 DEF CallHandler, Call
  <2>2. instr = "heap" => calls = 0
    BY <2>1 DEF IInv, CallsFollow, AbortBefore
  <2>3. instr # "heap" => access' = access
    BY <1>1, <1>3, <2>1 DEF access
  <2>4. instr = "heap" => calls' = 1
    BY <2>1, <2>2
  <2>5. instr = "heap" => access = "untraced" /\ access' = "traced"
    BY <1>1, <1>3, <2>1, <2>2, <2>4 DEF access
  <2> QED
    BY <2>3, <2>5 DEF Program!Next, Program!Trace
<1>4. CASE status' = "running" /\ SyscallReturn
  <2>1. access' \in {"none", "untraced"}
    BY <1>4, GoneTo DEF SyscallReturn, Goto
  <2>2. access = "none"
    BY <1>1, <1>4 DEF SyscallReturn, Call, IInv, BreakpointFollows, Kernel, AbortBefore,
       AbortAfter, Step, access
  <2> QED BY <2>1, <2>2 DEF Program!Next, Program!Begin
<1>5. CASE status' = "running" /\ ~CallHandler /\ ~SyscallReturn
  <2>1. UNCHANGED <<instr, calls>>
    BY <1>5 DEF KernelStep, DataAbortStep, SingleStep, SyscallStep, memtrace_trap_off,
       memtrace_trap_on, SetShadow, debug_mismatch_breakpt0_on, debug_breakpt0_off,
       MarkShadow, user
  <2> QED BY <1>1, <1>5, <2>1, Quiet
<1> QED
  BY <1>2, <1>3, <1>4, <1>5

LEMMA AccessStep == IInv /\ [Next]_vars => [Program!Next]_access
<1>1. ASSUME UNCHANGED vars PROVE access' = access
  BY <1>1, Quiet DEF vars
<1> QED
  BY <1>1, ClientAccess, UserAccess, KernelAccess DEF Next, Stopped

\* The trap machine implements the traced program: every access to the heap is
\* shown to the handler once and then completes, unless the machine stops.
THEOREM ProgramTraced == Spec => Program!Steps
<1>1. Init => Program!Init
  BY DEF Init, access, Program!Init
<1> QED
  BY <1>1, AccessStep, Invariant, PTL DEF Spec, Program!Steps

-----------------------------------------------------------------------------
(* The tools over the machine: their calls are the client's.               *)

\* The four calls of the detector's first use, made one by one from supervisor
\* mode, each finding exactly the sections the calls before it have mapped.
SettingUp ==
  \/ at = "super" /\ todo = <<"checks", "map", "shadow", "fn">>
  \/ at = "super" /\ todo = <<"map", "shadow", "fn">> /\ mapped = {"base"}
  \/ at = "super" /\ todo = <<"shadow", "fn">> /\ mapped = {"base", "track"}
  \/ todo = <<"fn">> /\ at = "super" /\ mapped = {"base", "track", "shadow"}
  \/ todo = <<>> /\ mapped = {"base", "track", "shadow"}

SetUpOnce ==
  /\ "eraser" \in tools => eraser_initialized
  /\ firstCheck => eraser_initialized
  /\ tools = {} => todo = <<>> /\ mapped = {} /\ at = "super"
  /\ tools \subseteq {"eraser"} /\ firstCheck => SettingUp

\* What the first use of the detector asks for, call by call.
LEMMA FirstUse ==
  ASSUME need_to_check'
  PROVE  eraser_init \o <<"fn">> = <<"checks", "map", "shadow", "fn">>
<1> DEFINE u == eraser_init \o <<"fn">>
<1>1. eraser_init = <<"checks", "map">> \o <<"shadow">>
  BY DEF eraser_init
<1>2. /\ <<"checks", "map">> \in Seq(MemtraceCall) /\ Len(<<"checks", "map">>) = 2
      /\ <<"shadow">> \in Seq(MemtraceCall) /\ Len(<<"shadow">>) = 1
      /\ <<"fn">> \in Seq(MemtraceCall) /\ Len(<<"fn">>) = 1
  BY DEF MemtraceCall, Handler
<1>3. u \in Seq(MemtraceCall) /\ Len(u) = 4
  BY <1>1, <1>2, ConcatProperties, SMT
<1>4. u[1] = "checks" /\ u[2] = "map" /\ u[3] = "shadow" /\ u[4] = "fn"
  BY <1>1, SMT
<1> HIDE DEF u
<1>5. u = <<"checks", "map", "shadow", "fn">>
  BY <1>3, <1>4, SMT
<1> QED BY <1>5 DEF u

LEMMA TInitInvariant == TInit => IInv /\ SetUpOnce /\ CheckedHeapIsThere
<1>1. TInit => IInv
  BY InitInvariant DEF TInit
<1>2. TInit => SetUpOnce /\ CheckedHeapIsThere
  BY DEF TInit, Init, SetUpOnce, CheckedHeapIsThere
<1> QED
  BY <1>1, <1>2

\* Every step of such a program is one of the machine, or leaves it alone.
LEMMA MachineStep == [TNext]_tvars => [Next]_vars
<1> SUFFICES ASSUME [TNext]_tvars PROVE [Next]_vars
  OBVIOUS
<1>1. MakeCall => Client
  BY DEF MakeCall, Client
<1> QED
  BY <1>1 DEF TNext, EraserFn, MemcheckFn, Direct, Next, tvars

\* The sections are mapped in supervisor mode only.
LEMMA MappedByCalls ==
  ASSUME UserStep \/ KernelStep \/ Stopped
  PROVE  mapped' = mapped /\ (at = "super" => at' = "super")
<1>1. CASE UserStep
  BY <1>1 DEF UserStep, PrefetchAbort, Execute, DataAbort, TranslationFault, Syscall, Return,
     Fetched, setup
<1>2. CASE KernelStep
  BY <1>2 DEF KernelStep, DataAbortStep, SingleStep, SyscallStep, memtrace_trap_off,
     memtrace_trap_on, SetShadow, CallHandler, debug_mismatch_breakpt0_on,
     debug_breakpt0_off, MarkShadow, SyscallReturn, Call, setup
<1>3. CASE Stopped
  BY <1>3 DEF Stopped, vars
<1> QED
  BY <1>1, <1>2, <1>3

\* A call of memtrace.h takes the first use of the detector one step on.
LEMMA CallSetsUp ==
  ASSUME IInv, SettingUp, MakeCall
  PROVE  SettingUp'
<1> USE DEF SettingUp
<1>m. at = "super" => mmu = FALSE
  BY DEF IInv, DomainsFollow
<1>1. CASE todo = <<"checks", "map", "shadow", "fn">>
  <2>1. Head(todo) = "checks" /\ todo' = <<"map", "shadow", "fn">>
    BY <1>1 DEF MakeCall
  <2>2. memtrace_init("checks")
    BY <2>1 DEF MakeCall, Handler
  <2> QED BY <1>m, <2>1, <2>2 DEF memtrace_init, mmu_pt_alloc_at
<1>2. CASE todo = <<"map", "shadow", "fn">>
  <2>1. Head(todo) = "map" /\ todo' = <<"shadow", "fn">>
    BY <1>2 DEF MakeCall
  <2>2. memtrace_map /\ mapped = {"base"}
    BY <1>2, <2>1 DEF MakeCall, Handler
  <2> QED BY <2>1, <2>2 DEF memtrace_map, MapSection
<1>3. CASE todo = <<"shadow", "fn">>
  <2>1. Head(todo) = "shadow" /\ todo' = <<"fn">>
    BY <1>3 DEF MakeCall
  <2>2. memtrace_shadow /\ mapped = {"base", "track"}
    BY <1>3, <2>1 DEF MakeCall, Handler
  <2> QED BY <2>1, <2>2 DEF memtrace_shadow, MapSection
<1>4. CASE todo = <<"fn">>
  <2>1. Head(todo) = "fn" /\ todo' = <<>>
    BY <1>4 DEF MakeCall
  <2>2. memtrace_fn /\ mapped = {"base", "track", "shadow"}
    BY <1>4, <2>1 DEF MakeCall, Handler
  <2> QED BY <2>1, <2>2 DEF memtrace_fn
<1> QED
  BY <1>1, <1>2, <1>3, <1>4 DEF MakeCall

LEMMA SetUpStep == IInv /\ SetUpOnce /\ [TNext]_tvars => SetUpOnce'
<1> SUFFICES ASSUME IInv, SetUpOnce, [TNext]_tvars PROVE SetUpOnce'
  OBVIOUS
<1>1. ASSUME NEW check \in BOOLEAN, EraserFn(check) PROVE SetUpOnce'
  <2>1. at = "super" /\ todo = <<>> /\ UNCHANGED vars /\ eraser_initialized' = TRUE
    BY <1>1 DEF EraserFn, Free
  <2>2. CASE eraser_initialized
    <3>1. todo' = <<"fn">> /\ firstCheck' = firstCheck /\ tools' = tools \cup {"eraser"}
      BY <1>1, <2>2 DEF EraserFn
    <3>2. SettingUp => SettingUp'
      BY <2>1, <3>1 DEF SettingUp, vars
    <3> QED BY <2>1, <2>2, <3>1, <3>2 DEF SetUpOnce
  <2>3. CASE ~eraser_initialized
    <3>1. /\ tools' = tools \cup {"eraser"} /\ firstCheck' = check /\ need_to_check' = check
          /\ todo' = eraser_init \o <<"fn">>
      BY <1>1, <2>3 DEF EraserFn
    <3>2. firstCheck' => todo' = <<"checks", "map", "shadow", "fn">>
      BY <3>1, FirstUse
    <3> QED BY <2>1, <3>1, <3>2 DEF SetUpOnce, SettingUp, vars
  <2> QED BY <2>2, <2>3
<1>2. ASSUME NEW h \in Handler, MemcheckFn(h) PROVE SetUpOnce'
  BY <1>2 DEF MemcheckFn, SetUpOnce, eraser
<1>3. CASE Direct
  BY <1>3 DEF Direct, SetUpOnce, eraser
<1>4. CASE MakeCall
  <2>1. todo # <<>> /\ UNCHANGED <<eraser, tools>>
    BY <1>4 DEF MakeCall
  <2> QED BY <1>4, <2>1, CallSetsUp DEF SetUpOnce, eraser
<1>5. CASE (UserStep \/ KernelStep \/ Stopped) /\ UNCHANGED toolVars
  <2>1. mapped' = mapped /\ (at = "super" => at' = "super")
    BY <1>5, MappedByCalls
  <2> QED BY <1>5, <2>1 DEF SetUpOnce, SettingUp, toolVars, eraser
<1>6. CASE UNCHANGED tvars
  BY <1>6 DEF tvars, vars, toolVars, eraser, SetUpOnce, SettingUp
<1> QED
  BY <1>1, <1>2, <1>3, <1>4, <1>5, <1>6 DEF TNext

\* What a reboot says of the program that is stopped: it touched the shadow or
\* nothing mapped, if the heap and its shadow were there.
LEMMA RebootSays ==
  ASSUME IInv, UserStep \/ KernelStep, status' = "reboot",
         mapped = {"base", "track", "shadow"}
  PROVE  instr' \in {"shadow", "wild"}
<1>1. status = "running"
  BY DEF UserStep, PrefetchAbort, Execute, DataAbort, TranslationFault, Syscall, Return,
     Fetched, KernelStep, DataAbortStep, SingleStep, SyscallStep, memtrace_trap_off,
     memtrace_trap_on, SetShadow, CallHandler, debug_mismatch_breakpt0_on,
     debug_breakpt0_off, MarkShadow, SyscallReturn, Call
<1>2. CASE CallHandler
  <2>1. at = "abort_handler" /\ instr \in {"heap", "shadow"} /\ instr' = instr
    BY <1>2 DEF CallHandler, Call, IInv, BreakpointFollows, AbortBefore
  <2>2. ShadowAccess # "reboot"
    BY DEF ShadowAccess
  <2> QED BY <1>1, <1>2, <2>1, <2>2 DEF CallHandler
<1>3. CASE MarkShadow
  BY <1>3 DEF MarkShadow, ShadowAccess
<1>4. CASE TranslationFault
  BY <1>4 DEF TranslationFault, Present, user
<1>5. CASE ~CallHandler /\ ~MarkShadow /\ ~TranslationFault
  BY <1>1, <1>5 DEF UserStep, PrefetchAbort, Execute, DataAbort, Syscall, Return, mmu_disable,
     KernelStep, DataAbortStep, SingleStep, SyscallStep, memtrace_trap_off,
     memtrace_trap_on, SetShadow, debug_mismatch_breakpt0_on,
     debug_breakpt0_off, SyscallReturn, Asserted
<1> QED
  BY <1>2, <1>3, <1>4, <1>5

LEMMA HeapStep ==
  IInv /\ SetUpOnce /\ CheckedHeapIsThere /\ [TNext]_tvars => CheckedHeapIsThere'
<1> SUFFICES ASSUME IInv, SetUpOnce, CheckedHeapIsThere, [TNext]_tvars,
                    status' = "reboot", tools' = {"eraser"}, firstCheck'
             PROVE  instr' \in {"shadow", "wild"}
  BY DEF CheckedHeapIsThere
<1>1. CASE status = "reboot"
  <2>1. UNCHANGED <<instr, tools, firstCheck>>
    <3>1. ~MakeCall
      BY <1>1 DEF MakeCall, memtrace_init, memtrace_map, memtrace_shadow, memtrace_fn, MapSection
    <3>2. ~UserStep /\ ~KernelStep
      BY <1>1 DEF UserStep, PrefetchAbort, Execute, DataAbort, TranslationFault, Syscall, Return,
         Fetched, KernelStep, DataAbortStep, SingleStep, SyscallStep, memtrace_trap_off,
         memtrace_trap_on, SetShadow, CallHandler, debug_mismatch_breakpt0_on,
         debug_breakpt0_off, MarkShadow, SyscallReturn, Call
    <3> QED
      BY <1>1, <3>1, <3>2 DEF TNext, EraserFn, MemcheckFn, Direct, Free, Stopped, tvars, vars,
         toolVars, eraser
  <2> QED BY <1>1, <2>1 DEF CheckedHeapIsThere
<1>2. CASE status # "reboot"
  <2>1. ~MakeCall
    BY <1>2 DEF MakeCall, memtrace_init, memtrace_map, memtrace_shadow, memtrace_fn, MapSection,
       mmu_init, mmu_enable, Asserted
  <2>2. (UserStep \/ KernelStep) /\ UNCHANGED toolVars
    BY <1>2, <2>1 DEF TNext, EraserFn, MemcheckFn, Direct, Stopped, tvars, vars
  <2>3. at # "super"
    BY <2>2 DEF UserStep, PrefetchAbort, Execute, DataAbort, TranslationFault, Syscall, Return,
       Fetched, KernelStep, DataAbortStep, SingleStep, SyscallStep, memtrace_trap_off,
       memtrace_trap_on, SetShadow, CallHandler, debug_mismatch_breakpt0_on,
       debug_breakpt0_off, MarkShadow, SyscallReturn, Call
  <2>4. mapped = {"base", "track", "shadow"}
    BY <2>2, <2>3 DEF toolVars, eraser, SetUpOnce, SettingUp
  <2> QED BY <2>2, <2>4, RebootSays
<1> QED
  BY <1>1, <1>2

\* So they are under any tools, and the sections mapped are those the first use of
\* the detector has come to (eraser_init).
THEOREM ToolsInvariant == TSpec => [](IInv /\ SetUpOnce /\ CheckedHeapIsThere)
<1>1. IInv /\ SetUpOnce /\ CheckedHeapIsThere /\ [TNext]_tvars
        => (IInv /\ SetUpOnce /\ CheckedHeapIsThere)'
  BY MachineStep, InvariantStep, SetUpStep, HeapStep
<1> QED
  BY <1>1, TInitInvariant, PTL DEF TSpec

\* A program that calls the detector's tools only, eraser_check_fn first, is never
\* stopped by a heap access that finds its heap or its shadow missing
\* (eraser_init, memtrace_map, memtrace_shadow).
THEOREM CheckedHeap == TSpec => []CheckedHeapIsThere
BY ToolsInvariant, PTL

\* Whatever tools a program calls, its shadow is closed to it, and its heap but
\* over an instruction whose handler has been called.
THEOREM ToolsSealed == TSpec => []UserSealed
BY ToolsInvariant, SealedState, PTL

\* Whatever tools a program calls, no handler faults on what it has closed.
THEOREM ToolsHandlersSafe == TSpec => []HandlersNeverFault
BY ToolsInvariant, PTL DEF IInv

\* Under the tools too the machine implements the traced program: no access of
\* the heap is missed or handled twice, unless the machine stops.
THEOREM ToolsTraced == TSpec => Program!Steps
<1>1. TInit => Program!Init
  BY DEF TInit, Init, access, Program!Init
<1>2. IInv /\ [TNext]_tvars => [Program!Next]_access
  BY MachineStep, AccessStep
<1> QED
  BY <1>1, <1>2, ToolsInvariant, PTL DEF TSpec, Program!Steps


=============================================================================
