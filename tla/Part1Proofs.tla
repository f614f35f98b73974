---------------------------- MODULE Part1Proofs -----------------------------
(***************************************************************************)
(* The memory checker and the trap machine of part 1, for a heap of any    *)
(* size and a program of any length.  First what module Memcheck promises: *)
(* the invariant that carries it is about the blocks, which are aligned to *)
(* words and lie one behind the other below kmalloc's pointer, so the word *)
(* that a free marks is in no other block.  Then the machine implements    *)
(* the checker: the invariant is that a program runs with its shadow       *)
(* closed, and with its heap closed but for the one access that has been   *)
(* checked.                                                                *)
(***************************************************************************)
EXTENDS Part1, TLAPS

-----------------------------------------------------------------------------
(* What the three-bit writes of dom_perm_set do to a register of permissions. *)

LEMMA Permissions == DOM_client \in Permission /\ DOM_no_access \in Permission
                     /\ DOM_client # DOM_no_access
BY DEF Permission, DOM_client, DOM_no_access

\* A permission is one bit, so clearing the low bit of the next domain closes it.
LEMMA SpareBit == \A v \in Permission : v - (v % 2) = DOM_no_access
BY DEF Permission, DOM_no_access, DOM_client

LEMMA DomainIds ==
  /\ dom_id \in Domain /\ track_id \in Domain /\ shadow_id \in Domain /\ shadow_id + 1 \in Domain
  /\ track_id + 1 = shadow_id /\ dom_id # track_id /\ dom_id # shadow_id /\ track_id # shadow_id
  /\ shadow_id + 1 \notin {dom_id, track_id, shadow_id}
BY DEF dom_id, track_id, shadow_id, Domain

\* The trap's write opens or closes the heap, always closes the shadow, and its
\* assertion holds (memtrace_trap_on, memtrace_trap_off).
LEMMA TrapWrite ==
  ASSUME NEW x \in [Domain -> Permission], NEW perm \in Permission, NEW y,
         y = dom_perm_set(x, track_id, perm)
  PROVE  /\ y \in [Domain -> Permission]
         /\ y[track_id] = perm /\ y[shadow_id] = DOM_no_access
         /\ y[dom_id] = x[dom_id]
         /\ memtrace_trap_enabled(y) <=> (perm = DOM_no_access)
<1>1. y = [x EXCEPT ![track_id] = perm, ![shadow_id] = DOM_no_access]
  BY DomainIds, SpareBit DEF dom_perm_set
<1>2. y \in [Domain -> Permission] /\ y[track_id] = perm
      /\ y[shadow_id] = DOM_no_access /\ y[dom_id] = x[dom_id]
  BY <1>1, DomainIds DEF Permission
<1>3. dom_perm_get(y, track_id) = perm
  BY <1>2, DomainIds DEF dom_perm_get, Permission, DOM_no_access, DOM_client
<1> QED
  BY <1>2, <1>3 DEF memtrace_trap_enabled

\* The shadow's write leaves the trap alone, and its assertion holds.
LEMMA ShadowWrite ==
  ASSUME NEW x \in [Domain -> Permission], NEW perm \in Permission, NEW y,
         y = dom_perm_set(x, shadow_id, perm)
  PROVE  /\ y \in [Domain -> Permission]
         /\ y[shadow_id] = perm /\ y[track_id] = x[track_id]
         /\ y[dom_id] = x[dom_id]
         /\ dom_perm_get(y, shadow_id) = perm
<1>1. y = [x EXCEPT ![shadow_id] = perm, ![shadow_id + 1] = DOM_no_access]
  BY DomainIds, SpareBit DEF dom_perm_set
<1>2. /\ y \in [Domain -> Permission] /\ y[shadow_id] = perm
      /\ y[track_id] = x[track_id] /\ y[dom_id] = x[dom_id]
      /\ y[shadow_id + 1] = DOM_no_access
  BY <1>1, DomainIds DEF Permission
<1>3. dom_perm_get(y, shadow_id) = perm
  BY <1>2 DEF dom_perm_get, Permission, DOM_no_access, DOM_client
<1> QED
  BY <1>2, <1>3

-----------------------------------------------------------------------------
(* The memory checker. *)

Layout ==
  /\ brk % 4 = 0
  /\ \A b \in blocks : b.ptr % 4 = 0 /\ b.ptr + b.n <= brk
  /\ \A b1, b2 \in blocks : b1.ptr < b2.ptr => b1.ptr + b1.n <= b2.ptr
  /\ \A p \in freed : \E b \in blocks : b.ptr = p

\* The machine does not run on after a report.
ReportStops == status = "report" => at = "user"

IInv == TypeOK /\ Layout /\ ShadowIsHistory /\ NoFalseAlarm /\ ReportStops

\* Two words that begin at multiples of four do not overlap.
LEMMA WordsApart ==
  ASSUME NEW i \in Nat, NEW j \in Nat, i % 4 = 0, j % 4 = 0, i < j
  PROVE  i + 4 <= j
OBVIOUS

\* A byte of the first word of a block given back is in no block but that one.
LEMMA FirstWordAlone ==
  ASSUME TypeOK, Layout,
         NEW p \in freed, NEW a \in FirstWord(p), NEW b \in blocks, a \in Extent(b)
  PROVE  b.ptr = p
<1>1. PICK c \in blocks : c.ptr = p
  BY DEF Layout
<1>2. /\ b \in Block /\ c \in Block
      /\ b.ptr \in Nat /\ b.n \in Nat /\ p \in Nat /\ a \in Int
  BY <1>1, MemcheckAssumption DEF TypeOK, Block, Byte, FirstWord
<1>3. p <= a /\ a < p + 4 /\ b.ptr <= a /\ a < b.ptr + b.n
  BY <1>2 DEF FirstWord, Extent
<1>4. ~(b.ptr < p)
  BY <1>1, <1>2, <1>3 DEF Layout
<1>5. ~(p < b.ptr)
  <2>1. p % 4 = 0 /\ b.ptr % 4 = 0
    BY <1>1 DEF Layout
  <2> QED BY <1>2, <1>3, <2>1, WordsApart
<1> QED BY <1>2, <1>4, <1>5

\* kmalloc's pointer stays word-aligned and moves past the block.
LEMMA KmallocFact ==
  ASSUME TypeOK, NEW n \in 1..HeapBytes, kmalloc(n)
  PROVE  /\ brk' \in 0..HeapBytes /\ brk' % 4 = 0
         /\ brk + n <= brk' /\ brk \in Byte
<1>1. brk \in Nat /\ n \in Nat /\ n > 0 /\ HeapBytes \in Nat
  BY MemcheckAssumption DEF TypeOK
<1>2. brk' \in (brk + n)..HeapBytes /\ brk' % 4 = 0
  BY DEF kmalloc
<1>3. brk' \in Nat /\ brk + n <= brk' /\ brk' <= HeapBytes
  BY <1>1, <1>2
<1>4. brk \in 0..(HeapBytes - 1)
  BY ONLY <1>1, <1>3
<1>5. brk' \in 0..HeapBytes
  BY ONLY <1>1, <1>3
<1> QED BY <1>2, <1>3, <1>4, <1>5, Zenon DEF Byte

LEMMA InitInv == Init => IInv
<1> SUFFICES ASSUME Init PROVE IInv
  OBVIOUS
<1>1. TypeOK
  BY MemcheckAssumption DEF Init, TypeOK, Mark
<1>2. Layout /\ ShadowIsHistory /\ NoFalseAlarm /\ ReportStops
  BY DEF Init, Layout, ShadowIsHistory, NoFalseAlarm, ReportStops
<1> QED BY <1>1, <1>2 DEF IInv

\* An allocation: the new block lies behind all others, and its first word was
\* never given back.
LEMMA AllocInv ==
  ASSUME IInv, NEW n \in 1..HeapBytes, sys_memcheck_alloc(n)
  PROVE  IInv'
<1> DEFINE new == [ptr |-> brk, n |-> n]
<1>1. /\ TypeOK /\ Layout /\ ShadowIsHistory
      /\ brk' \in 0..HeapBytes /\ brk' % 4 = 0 /\ brk + n <= brk' /\ brk \in Byte
      /\ brk \in Nat /\ n \in Nat /\ n > 0 /\ HeapBytes \in Nat /\ brk' \in Nat
  BY KmallocFact, MemcheckAssumption DEF IInv, sys_memcheck_alloc, TypeOK
<1>2. /\ sh' = [a \in Byte |-> IF a \in brk..(brk + n - 1) THEN "alloced" ELSE sh[a]]
      /\ blocks' = blocks \cup {new} /\ freed' = freed
      /\ UNCHANGED <<at, load_store_handler, fault_addr, status>>
      /\ status = "running"
  BY DEF sys_memcheck_alloc, Running
<1>3. new \in Block /\ new.ptr = brk /\ new.n = n
  BY <1>1 DEF Block
<1>4. TypeOK'
  BY <1>1, <1>2, <1>3 DEF TypeOK, Mark
<1>5. \A b \in blocks : b.ptr \in Nat /\ b.n \in Nat /\ b.n > 0 /\ b.ptr + b.n <= brk
  BY <1>1 DEF TypeOK, Block, Byte, Layout
<1>6. Layout'
  <2>1. \A b \in blocks' : b.ptr % 4 = 0 /\ b.ptr + b.n <= brk'
    BY <1>1, <1>2, <1>3, <1>5 DEF Layout
  <2>2. ASSUME NEW b1 \in blocks', NEW b2 \in blocks', b1.ptr < b2.ptr
        PROVE  b1.ptr + b1.n <= b2.ptr
    <3>1. b1 \in blocks
      BY <1>1, <1>2, <1>3, <1>5, <2>2
    <3> QED BY <1>1, <1>2, <1>3, <1>5, <2>2, <3>1 DEF Layout
  <2> QED BY <1>1, <1>2, <2>1, <2>2 DEF Layout
<1>7. ASSUME NEW p \in freed
      PROVE  p \in Nat /\ p + 4 <= brk
  <2>1. PICK b \in blocks : b.ptr = p
    BY <1>1 DEF Layout
  <2>2. p \in Nat /\ p < brk /\ p % 4 = 0 /\ brk % 4 = 0
    BY <1>1, <1>5, <2>1 DEF Layout
  <2> QED BY <1>1, <2>2, WordsApart
<1>8. ShadowIsHistory'
  <2> SUFFICES ASSUME NEW a \in Byte
      PROVE  /\ sh'[a] = "freed" <=> \E p \in freed : a \in FirstWord(p)
             /\ sh'[a] = "alloced" <=>
                  (\E b \in blocks' : a \in Extent(b)) /\ ~\E p \in freed : a \in FirstWord(p)
    BY <1>2 DEF ShadowIsHistory
  <2>0. a \in Nat
    BY <1>1 DEF Byte
  <2>1. CASE a \in brk..(brk + n - 1)
    <3>1. sh'[a] = "alloced" /\ a \in Extent(new)
      BY <1>2, <1>3, <2>1 DEF Extent
    <3>2. \A p \in freed : a \notin FirstWord(p)
      BY <1>1, <1>7, <2>0, <2>1 DEF FirstWord
    <3> QED BY <1>2, <3>1, <3>2
  <2>2. CASE a \notin brk..(brk + n - 1)
    <3>1. sh'[a] = sh[a] /\ a \notin Extent(new)
      BY <1>2, <1>3, <2>2 DEF Extent
    <3>2. (\E b \in blocks' : a \in Extent(b)) <=> (\E b \in blocks : a \in Extent(b))
      BY <1>2, <3>1
    <3> QED BY <1>1, <3>1, <3>2 DEF ShadowIsHistory
  <2> QED BY <2>1, <2>2
<1>9. NoFalseAlarm' /\ ReportStops'
  BY <1>2 DEF NoFalseAlarm, ReportStops
<1> QED BY <1>4, <1>6, <1>8, <1>9 DEF IInv

\* A free: the word it marks begins where its block does.
LEMMA FreeInv ==
  ASSUME IInv, NEW c \in blocks, sys_memcheck_free(c.ptr)
  PROVE  IInv'
<1> DEFINE q == c.ptr
<1>1. /\ TypeOK /\ Layout /\ ShadowIsHistory /\ q \in Byte
  BY DEF IInv, TypeOK, Block
<1>2. /\ sh' = [a \in Byte |-> IF a \in FirstWord(q) THEN "freed" ELSE sh[a]]
      /\ freed' = freed \cup {q}
      /\ UNCHANGED <<at, load_store_handler, fault_addr, status, brk, blocks>>
      /\ status = "running"
  BY DEF sys_memcheck_free, Running, FirstWord
<1>3. TypeOK'
  BY <1>1, <1>2 DEF TypeOK, Mark
<1>4. Layout'
  BY <1>1, <1>2 DEF Layout
<1>5. ShadowIsHistory'
  <2> SUFFICES ASSUME NEW a \in Byte
      PROVE  /\ sh'[a] = "freed" <=> \E p \in freed' : a \in FirstWord(p)
             /\ sh'[a] = "alloced" <=>
                  (\E b \in blocks : a \in Extent(b)) /\ ~\E p \in freed' : a \in FirstWord(p)
    BY <1>2 DEF ShadowIsHistory
  <2>1. (\E p \in freed' : a \in FirstWord(p))
          <=> a \in FirstWord(q) \/ \E p \in freed : a \in FirstWord(p)
    BY <1>2
  <2> QED BY <1>1, <1>2, <2>1 DEF ShadowIsHistory
<1>6. NoFalseAlarm' /\ ReportStops'
  BY <1>2 DEF NoFalseAlarm, ReportStops
<1> QED BY <1>3, <1>4, <1>5, <1>6 DEF IInv

\* An access: what it reports was given back, and is in no other block.
LEMMA AccessInv ==
  ASSUME IInv, NEW a \in Byte, Access(a)
  PROVE  IInv'
<1>1. TypeOK /\ Layout /\ ShadowIsHistory /\ a \in 0..HeapBytes
  BY MemcheckAssumption DEF IInv, Byte
<1>2. /\ fault_addr' = a
      /\ status' = IF load_store_handler = "checks" /\ sh[a] = "freed"
                   THEN "report" ELSE status
      /\ UNCHANGED <<at, load_store_handler, brk, sh, blocks, freed>>
      /\ at = "user" /\ status = "running"
  BY DEF Access, Running, heap, history
<1>3. TypeOK'
  BY <1>1, <1>2 DEF TypeOK
<1>4. Layout' /\ ShadowIsHistory' /\ ReportStops'
  BY <1>1, <1>2 DEF Layout, ShadowIsHistory, ReportStops
<1>5. NoFalseAlarm'
  <2> SUFFICES ASSUME status' = "report" PROVE NoFalseAlarm'
    BY DEF NoFalseAlarm
  <2>1. load_store_handler = "checks" /\ sh[a] = "freed"
    BY <1>2
  <2>2. PICK p \in freed : a \in FirstWord(p)
    BY <1>1, <2>1 DEF ShadowIsHistory
  <2>3. \A b \in blocks : a \in Extent(b) => b.ptr \in freed
    BY <1>1, <2>2, FirstWordAlone
  <2> QED BY <1>2, <2>1, <2>2, <2>3 DEF NoFalseAlarm
<1> QED BY <1>3, <1>4, <1>5 DEF IInv

LEMMA NextInv == IInv /\ [Next]_vars => IInv'
<1> SUFFICES ASSUME IInv, [Next]_vars PROVE IInv'
  OBVIOUS
<1>1. ASSUME NEW h \in {"checks", "traces"}, memcheck_fn(h) PROVE IInv'
  <2>1. TypeOK'
    BY <1>1, MemcheckAssumption DEF IInv, TypeOK, Mark, memcheck_fn
  <2>2. status' = "running" /\ at' = "user"
    BY <1>1 DEF IInv, TypeOK, ReportStops, memcheck_fn
  <2>3. Layout' /\ ShadowIsHistory' /\ NoFalseAlarm' /\ ReportStops'
    BY <1>1, <2>2 DEF Layout, ShadowIsHistory, NoFalseAlarm, ReportStops, memcheck_fn
  <2> QED BY <2>1, <2>3 DEF IInv
<1>2. CASE Return
  BY <1>2 DEF IInv, TypeOK, Layout, ShadowIsHistory, NoFalseAlarm, ReportStops,
              Return, Running, heap, history
<1>3. ASSUME NEW n \in 1..HeapBytes, UserKmalloc(n) PROVE IInv'
  <2>1. /\ brk' \in 0..HeapBytes /\ brk' % 4 = 0 /\ brk + n <= brk'
        /\ UNCHANGED <<at, load_store_handler, fault_addr, status, sh, blocks, freed>>
    BY <1>3, KmallocFact DEF IInv, UserKmalloc, history
  <2>2. TypeOK' /\ ShadowIsHistory' /\ NoFalseAlarm' /\ ReportStops'
    BY <2>1 DEF IInv, TypeOK, ShadowIsHistory, NoFalseAlarm, ReportStops
  <2>3. Layout'
    <3>1. brk \in Nat /\ n \in Nat /\ brk' \in Nat
          /\ \A b \in blocks : b.ptr \in Nat /\ b.n \in Nat
      BY <2>1, MemcheckAssumption DEF IInv, TypeOK, Block, Byte
    <3>2. \A b \in blocks : b.ptr + b.n <= brk'
      BY <2>1, <3>1 DEF IInv, Layout
    <3> QED BY <2>1, <3>2 DEF IInv, Layout
  <2> QED BY <2>2, <2>3 DEF IInv
<1>4. CASE UNCHANGED vars
  BY <1>4 DEF IInv, TypeOK, Layout, ShadowIsHistory, NoFalseAlarm, ReportStops,
              vars, heap, history
<1>5. CASE Rebooted
  BY <1>4, <1>5 DEF Rebooted
<1> QED
  BY <1>1, <1>2, <1>3, <1>4, <1>5, AllocInv, FreeInv, AccessInv DEF Next

-----------------------------------------------------------------------------
\* At every point of a run the checker's blocks are laid out one after another,
\* and its shadow marks those freed (memcheck.c).
THEOREM Invariant == Spec => []IInv
BY InitInv, NextInv, PTL DEF Spec

\* Every variable of the memory checker keeps its type.
THEOREM TypeCorrect == Spec => []TypeOK
BY Invariant, PTL DEF IInv

\* The shadow is the history of allocations and frees.
THEOREM ShadowCorrect == Spec => []ShadowIsHistory
BY Invariant, PTL DEF IInv

\* Every report is about a block given back, and about no other.
THEOREM NoFalseAlarms == Spec => []NoFalseAlarm
BY Invariant, PTL DEF IInv

\* Every checked access to the first word of a block given back is reported.
THEOREM FreedUseCaught == Spec => UseAfterFreeCaught
<1>1. IInv => [\A p \in freed : \A a \in FirstWord(p) \cap Byte :
         Access(a) /\ load_store_handler = "checks" => status' = "report"]_vars
  BY DEF IInv, ShadowIsHistory, Access
<1> QED BY <1>1, Invariant, PTL DEF UseAfterFreeCaught

-----------------------------------------------------------------------------
(* The trap machine. *)

TrapTypes ==
  /\ at \in {"super", "user"} /\ pc \in Pc
  /\ dacr \in [Domain -> Permission]

SuperQuiet == at = "super" => ~mmu /\ bp = NoPc

\* The table memtrace_init makes.
Mapped == pt["heap"] = track_id /\ pt["shadow"] = shadow_id

UserSealed ==
  at = "user" /\ status = "running" =>
    /\ mmu = TRUE /\ Mapped /\ monitor /\ load_store_handler \in {"checks", "traces"}
    /\ dacr[shadow_id] = DOM_no_access
    /\ (dacr[track_id] = DOM_client) <=> (bp # NoPc)

\* The access under way has been checked.
AccessChecked ==
  at = "user" /\ status = "running" /\ bp # NoPc /\ load_store_handler = "checks" =>
    fault_addr \in Byte /\ sh[fault_addr] # "freed"

TrapInv == TrapTypes /\ SuperQuiet /\ UserSealed /\ AccessChecked

-----------------------------------------------------------------------------
(* The registers after each handler. *)

\* While a program runs, an access to the heap or its shadow faults exactly when
\* the domain is closed.
LEMMA ReasonFact ==
  ASSUME TrapInv, at = "user", status = "running"
  PROVE  \A x : /\ reason("heap", x) =
                     IF x[track_id] = DOM_no_access THEN "domain_section" ELSE "none"
                /\ reason("shadow", x) =
                     IF x[shadow_id] = DOM_no_access THEN "domain_section" ELSE "none"
BY DEF TrapInv, UserSealed, Mapped, reason, NoDomain, track_id, shadow_id

\* Trap off, then shadow open: both assertions hold.
LEMMA OpenedFact ==
  ASSUME NEW x \in [Domain -> Permission]
  PROVE  /\ opened(x) \in [Domain -> Permission]
         /\ ~memtrace_trap_enabled(trap_off(x))
         /\ opened(x)[track_id] = DOM_client /\ opened(x)[shadow_id] = DOM_client
         /\ dom_perm_get(opened(x), shadow_id) = DOM_client
<1>1. /\ trap_off(x) \in [Domain -> Permission] /\ trap_off(x)[track_id] = DOM_client
      /\ ~memtrace_trap_enabled(trap_off(x))
  BY TrapWrite, Permissions DEF trap_off
<1>2. /\ opened(x) \in [Domain -> Permission]
      /\ opened(x)[shadow_id] = DOM_client
      /\ opened(x)[track_id] = trap_off(x)[track_id]
      /\ dom_perm_get(opened(x), shadow_id) = DOM_client
  BY <1>1, ShadowWrite, Permissions DEF opened, shadow_set
<1> QED BY <1>1, <1>2

\* Closing the shadow again leaves the heap open.
LEMMA ClosedFact ==
  ASSUME NEW x \in [Domain -> Permission]
  PROVE  /\ shadow_set(opened(x), DOM_no_access) \in [Domain -> Permission]
         /\ shadow_set(opened(x), DOM_no_access)[track_id] = DOM_client
         /\ shadow_set(opened(x), DOM_no_access)[shadow_id] = DOM_no_access
         /\ dom_perm_get(shadow_set(opened(x), DOM_no_access), shadow_id) = DOM_no_access
<1> DEFINE x1 == opened(x)
           y == dom_perm_set(x1, shadow_id, DOM_no_access)
<1>1. x1 \in [Domain -> Permission] /\ x1[track_id] = DOM_client
  BY OpenedFact
<1> HIDE DEF x1
<1>2. /\ y \in [Domain -> Permission]
      /\ y[shadow_id] = DOM_no_access /\ y[track_id] = x1[track_id]
      /\ dom_perm_get(y, shadow_id) = DOM_no_access
  BY <1>1, ShadowWrite, Permissions
<1>3. shadow_set(opened(x), DOM_no_access) = y
  BY DEF shadow_set, x1
<1> QED BY <1>1, <1>2, <1>3

\* Turning the trap on closes the heap, and leaves the shadow closed.
LEMMA TrapOnFact ==
  ASSUME NEW x \in [Domain -> Permission]
  PROVE  /\ trap_on(x) \in [Domain -> Permission]
         /\ trap_on(x)[track_id] = DOM_no_access /\ trap_on(x)[shadow_id] = DOM_no_access
         /\ memtrace_trap_enabled(trap_on(x))
BY TrapWrite, Permissions DEF trap_on

\* A system call leaves the machine as it found it, no assertion fails.
LEMMA SystemCallFact ==
  ASSUME TrapInv, SystemCall
  PROVE  /\ at = "user" /\ status = "running" /\ status' = "running" /\ bp = NoPc
         /\ UNCHANGED <<at, load_store_handler, fault_addr, mmu, pt, monitor, bp>>
         /\ pc' \in Pc /\ dacr' \in [Domain -> Permission]
         /\ dacr'[track_id] = DOM_no_access /\ dacr'[shadow_id] = DOM_no_access
<1>1. at = "user" /\ status = "running" /\ dacr \in [Domain -> Permission]
  BY DEF SystemCall, Fresh, Fetched, User, Running, TrapInv, TrapTypes
<1>2. bp = NoPc
  BY <1>1 DEF SystemCall, Fresh, Fetched, Breaks, TrapInv, UserSealed
<1>3. dacr' = trap_on(shadow_set(opened(dacr), DOM_no_access))
  BY DEF SystemCall
<1>4. status' = "running"
  BY <1>1, <1>3, OpenedFact, ClosedFact, TrapOnFact DEF SystemCall, Asserted, shadow_get
<1> QED BY <1>1, <1>2, <1>3, <1>4, ClosedFact, TrapOnFact DEF SystemCall

-----------------------------------------------------------------------------
(* The invariant, and every step as a step of the checker. *)

LEMMA TrapInitInv == TrapInit => TrapInv
BY DEF TrapInit, Init, TrapInv, TrapTypes, SuperQuiet, UserSealed, AccessChecked, Permission

LEMMA RunStep ==
  ASSUME TrapInv, NEW h \in {"checks", "traces"}, memtrace_run(h)
  PROVE  TrapInv' /\ memcheck_fn(h)
<1>1. ~mmu /\ bp = NoPc /\ status' = status
  BY DEF TrapInv, SuperQuiet, memtrace_run, mmu_init, Asserted, mmu_is_enabled
<1>2. /\ dacr' \in [Domain -> Permission]
      /\ dacr'[shadow_id] = DOM_no_access /\ dacr'[track_id] = DOM_no_access
  BY DomainIds, Permissions DEF memtrace_run, write_domain_access_ctrl
<1>5. Mapped'
  BY DEF memtrace_run, SetMappings, mmu_map_section, mmu_pt_alloc_at, Mapped, Section
<1>3. TrapInv'
  BY <1>1, <1>2, <1>5, Permissions DEF memtrace_run, TrapInv, TrapTypes, SuperQuiet, UserSealed, Mapped,
     AccessChecked, mmu_enable, single_step_init, user_mode_run_fn
<1>4. memcheck_fn(h)
  BY <1>1 DEF memtrace_run, memcheck_fn, user_mode_run_fn
<1> QED BY <1>3, <1>4

LEMMA ReturnStep ==
  ASSUME TrapInv, Returns
  PROVE  TrapInv' /\ Return
<1>1. at = "user" /\ status = "running" /\ bp = NoPc /\ mmu /\ status' = status
  BY DEF Returns, Fresh, Fetched, Breaks, User, Running, TrapInv, UserSealed, Asserted,
     mmu_is_enabled
<1> QED BY <1>1 DEF Returns, Return, Running, mmu_disable, TrapInv, TrapTypes, SuperQuiet,
           UserSealed, Mapped, AccessChecked

LEMMA AllocStep ==
  ASSUME TrapInv, NEW n \in 1..HeapBytes, syscall_alloc(n)
  PROVE  TrapInv' /\ sys_memcheck_alloc(n)
<1>1. SystemCall
  BY DEF syscall_alloc
<1>2. TrapInv'
  BY <1>1, SystemCallFact, Permissions DEF TrapInv, TrapTypes, SuperQuiet, UserSealed, Mapped,
     AccessChecked
<1>3. sys_memcheck_alloc(n)
  BY <1>1, SystemCallFact DEF syscall_alloc, sys_memcheck_alloc, Marked, Running
<1> QED BY <1>2, <1>3

LEMMA FreeStep ==
  ASSUME TrapInv, NEW b \in blocks, syscall_free(b.ptr)
  PROVE  TrapInv' /\ sys_memcheck_free(b.ptr)
<1>1. SystemCall
  BY DEF syscall_free
<1>2. TrapInv'
  BY <1>1, SystemCallFact, Permissions DEF TrapInv, TrapTypes, SuperQuiet, UserSealed, Mapped,
     AccessChecked
<1>3. sh' = [a \in Byte |-> IF a \in b.ptr..(b.ptr + 3) THEN "freed" ELSE sh[a]]
  <2>1. b.ptr + 4 - 1 = b.ptr + 3
    OBVIOUS
  <2> QED BY <2>1 DEF syscall_free, Marked
<1>4. sys_memcheck_free(b.ptr)
  BY <1>1, <1>3, SystemCallFact DEF syscall_free, sys_memcheck_free, Running
<1> QED BY <1>2, <1>4

\* The fault of an access is the access, as the checker sees it.
LEMMA AbortStep ==
  ASSUME TrapInv, NEW a \in Byte, data_abort_vector(a)
  PROVE  TrapInv' /\ Access(a)
<1>1. /\ at = "user" /\ status = "running" /\ pc \in Pc /\ pc # NoPc
      /\ dacr \in [Domain -> Permission] /\ load_store_handler \in {"checks", "traces"}
      /\ UNCHANGED <<at, load_store_handler, brk, sh, blocks, freed, mmu, pt, monitor, pc>>
      /\ fault_addr' = a /\ bp' = pc
  BY Part1Assumption DEF data_abort_vector, Touches, Fetched, User, Running, TrapInv, TrapTypes,
     UserSealed, heap, history, debug_mismatch_breakpt0_on
<1>2. status' = IF load_store_handler = "checks" /\ sh[a] = "freed" THEN "report" ELSE "running"
  <2>1. opened(dacr)[shadow_id] = DOM_client /\ ~memtrace_trap_enabled(trap_off(dacr))
    BY <1>1, OpenedFact
  <2>2. reason("shadow", opened(dacr)) = "none"
    BY <1>1, <2>1, ReasonFact, Permissions
  <2> QED BY <1>1, <2>1, <2>2 DEF data_abort_vector, check_ldr_str_handler
<1>3. /\ dacr' \in [Domain -> Permission]
      /\ dacr'[track_id] = DOM_client /\ dacr'[shadow_id] = DOM_no_access
  BY <1>1, ClosedFact DEF data_abort_vector
<1>4. TrapInv'
  BY <1>1, <1>2, <1>3 DEF TrapInv, TrapTypes, SuperQuiet, UserSealed, Mapped,
     AccessChecked
<1>5. Access(a)
  BY <1>1, <1>2 DEF Access, Running, heap, history
<1> QED BY <1>4, <1>5

\* The rest the checker does not see.
LEMMA SteppedStep ==
  ASSUME TrapInv, prefetch_abort_vector
  PROVE  TrapInv' /\ UNCHANGED vars
<1>1. /\ at = "user" /\ status = "running" /\ dacr \in [Domain -> Permission]
      /\ dacr' = trap_on(dacr) /\ bp' = NoPc
      /\ UNCHANGED <<at, load_store_handler, fault_addr, heap, mmu, pt, monitor, pc>>
  BY DEF prefetch_abort_vector, single_step_handler, User, Running, TrapInv, TrapTypes,
     debug_breakpt0_off
<1>2. status' = status
  BY <1>1, TrapOnFact DEF prefetch_abort_vector, single_step_handler, Asserted
<1>3. TrapInv'
  BY <1>1, <1>2, TrapOnFact, Permissions DEF TrapInv, TrapTypes, SuperQuiet, UserSealed, Mapped,
     AccessChecked
<1> QED BY <1>1, <1>2, <1>3 DEF vars

LEMMA ProgramStep ==
  ASSUME TrapInv, Plain \/ GoesAstray \/ Stops \/ UNCHANGED trapVars \/ \E a \in Byte : ldr_str(a)
  PROVE  TrapInv' /\ UNCHANGED vars
<1>1. UNCHANGED <<vars, registers>> /\ pc' \in Pc
  BY DEF Plain, GoesAstray, Stops, ldr_str, trapVars, TrapInv, TrapTypes
<1> QED BY <1>1 DEF TrapInv, TrapTypes, SuperQuiet, UserSealed, Mapped, AccessChecked, vars, heap,
           registers

LEMMA UserKmallocStep ==
  ASSUME TrapInv, NEW n \in 1..HeapBytes, UserKmallocs(n)
  PROVE  TrapInv' /\ UserKmalloc(n)
<1>1. /\ UNCHANGED <<at, load_store_handler, fault_addr, status, sh, registers>> /\ pc' \in Pc
  BY DEF UserKmallocs
<1>2. TrapInv'
  BY <1>1 DEF TrapInv, TrapTypes, SuperQuiet, UserSealed, Mapped, AccessChecked, registers
<1> QED BY <1>1, <1>2 DEF UserKmallocs, UserKmalloc, Fresh, Fetched, User

LEMMA TrapStep == TrapInv /\ [TrapNext]_trapVars => TrapInv' /\ [Next]_vars
<1> SUFFICES ASSUME TrapInv, [TrapNext]_trapVars PROVE TrapInv' /\ [Next]_vars
  OBVIOUS
<1> QED BY RunStep, ReturnStep, AllocStep, FreeStep, AbortStep, SteppedStep, ProgramStep,
           UserKmallocStep DEF TrapNext, Next

-----------------------------------------------------------------------------
LEMMA TrapInvariant == TrapSpec => []TrapInv
BY TrapInitInv, TrapStep, PTL DEF TrapSpec

\* The trap machine of part 1 implements the memory checker.
THEOREM MachineImplements == TrapSpec => Implements
<1>1. TrapInit => Init
  BY DEF TrapInit
<1> QED BY <1>1, TrapStep, TrapInvariant, PTL DEF TrapSpec, Implements, Spec

\* So its shadow is the history of the run,
THEOREM MachineShadow == TrapSpec => []ShadowIsHistory
BY MachineImplements, ShadowCorrect, PTL DEF Implements

\* and it reports nothing that was not given back.
THEOREM MachineNoFalseAlarm == TrapSpec => []NoFalseAlarm
BY MachineImplements, NoFalseAlarms, PTL DEF Implements

\* No access to the first word of a block given back goes through: the one the
\* breakpoint waits behind has been checked, and the shadow is the history.
THEOREM FreedShut == TrapSpec => FreedNeverReached
<1>1. TrapInv /\ ShadowIsHistory =>
        [\A p \in freed : \A a \in FirstWord(p) \cap Byte :
           ~(ldr_str(a) /\ load_store_handler = "checks")]_trapVars
  <2> SUFFICES ASSUME TrapInv, ShadowIsHistory,
                      NEW p \in freed, NEW a \in FirstWord(p) \cap Byte,
                      ldr_str(a), load_store_handler = "checks"
               PROVE  FALSE
    OBVIOUS
  <2>1. sh[a] = "freed"
    BY DEF ShadowIsHistory
  <2>2. at = "user" /\ status = "running" /\ bp # NoPc
    <3>1. at = "user" /\ status = "running" /\ reason("heap", dacr) = "none"
      BY DEF ldr_str, Touches, Fetched, User, Running
    <3>2. dacr[track_id] # DOM_no_access
      BY <3>1, ReasonFact
    <3>3. dacr[track_id] \in Permission
      BY DomainIds DEF TrapInv, TrapTypes
    <3> QED BY <3>1, <3>2, <3>3 DEF TrapInv, UserSealed, Permission
  <2>3. a = fault_addr
    BY <2>2 DEF ldr_str, Touches, Fetched, Breaks, TrapInv, UserSealed
  <2> QED BY <2>1, <2>2, <2>3 DEF TrapInv, AccessChecked
<1> QED BY <1>1, TrapInvariant, MachineShadow, PTL DEF FreedNeverReached
=============================================================================
