-------------------------------- MODULE Mmu ---------------------------------
(***************************************************************************)
(* The memory management unit as pix/mmu.c drives it: a table of one word  *)
(* per megabyte section, the words the hardware has cached of it (its      *)
(* TLB), the domain register, and the control register that turns it on.   *)
(* The copies of mmu.c in labs/19-eraser differ only in having no nG       *)
(* argument.  The calls come in any order, as mmu.h offers them.           *)
(*                                                                         *)
(* External (assembly of libpi, headers of libpi): the five our_mmu_       *)
(* routines, which flush what the hardware has cached; AP_no_access.       *)
(***************************************************************************)
EXTENDS Cp15, FiniteSets

CONSTANTS
  Section,       \* section numbers in use: addresses shifted right by 20
  Request,       \* the <<va, pa, dom, nG>> that callers map, addresses in bytes
  Written,       \* the domains whose permission callers set
  MaxMark,       \* longest range marked, in sections
  AP_no_access   \* of a libpi header: no access, or none for the user

ASSUME MmuAssumption ==
  /\ Section \subseteq Nat
  /\ \A s \in Section : s - (s % 2) \in Section
  /\ \A r \in Request : /\ r[1] \in Nat /\ r[1] \div 2^20 \in Section
                         /\ r[2] \in Nat /\ r[2] \div 2^20 \in Section
                         /\ r[3] \in Domain /\ r[4] \in {0, 1}
  /\ Written \subseteq Domain
  /\ MaxMark \in Nat
  /\ AP_no_access \in {0, 1}

VARIABLES
  pt,        \* section -> word of the table
  tlb,       \* section -> the word the hardware has cached, or NoEntry
  c1,        \* control register 1, a word
  dacr,      \* the domain access control register, a word
  marking,   \* the call of mmu_mark_sec_ap_perm under way, or NoMark
  status,    \* fault status of the last access, 0 if it went through
  halted     \* an assertion has failed: the machine has stopped

vars == <<pt, tlb, c1, dacr, marking, status, halted>>

AP_rd_only == 2
AP_rw == 3

\* Where the fields of a word lie: the first bit, and how many.
fld_t ==
  [tag |-> <<0, 2>>, B |-> <<2, 1>>, C |-> <<3, 1>>, XN |-> <<4, 1>>, domain |-> <<5, 4>>,
   IMP |-> <<9, 1>>, AP |-> <<10, 2>>, TEX |-> <<12, 3>>, APX |-> <<15, 1>>, S |-> <<16, 1>>,
   nG |-> <<17, 1>>, super |-> <<18, 1>>, sec_base_addr |-> <<20, 12>>]

control_reg1 == [MMU_enabled |-> <<0, 1>>, C_unified_enable |-> <<2, 1>>, XP_pt |-> <<23, 1>>]

Get(at, w) == bits_get(w, at[1], at[1] + at[2] - 1)
Put(at, w, v) == bits_set(w, at[1], at[1] + at[2] - 1, v)

NoEntry == 0
fld_mk == Put(fld_t.tag, NoEntry, 2)
fld_check_valid(f) ==
  /\ Get(fld_t.tag, f) = 2
  /\ \A field \in {"S", "IMP", "TEX", "C", "B", "super"} : Get(fld_t[field], f) = 0

NoMark == [left |-> 0]
OneMB == 2^20

\* The bits of a - 1 are asked for; the callers pass a number of bits.
is_aligned(x, a) == \A k \in 0..30 : bit_is_on(a - 1, k) => ~bit_is_on(x, k)

\* An address has its section above bit 20: a bit more is masked off.
mmu_sec_bits_only(u) == u - (u % 2^21)
mmu_sec_num(u) == u \div 2^20

Running == ~halted /\ marking = NoMark
mmu_is_enabled == Get(control_reg1.MMU_enabled, c1) # 0

-----------------------------------------------------------------------------
TypeOK ==
  /\ pt \in [Section -> Nat] /\ tlb \in [Section -> Nat]
  /\ c1 \in Nat /\ dacr \in Nat
  /\ marking \in {NoMark} \cup [va : Nat, left : 0..MaxMark, perm : {AP_no_access, AP_rd_only, AP_rw}]
  /\ status \in reason_t
  /\ halted \in BOOLEAN

Empty == [s \in Section |-> NoEntry]

\* The table in the client's memory, cleared by mmu_pt_alloc_at; the MMU off.
Init ==
  /\ pt = Empty /\ tlb = Empty
  /\ c1 = 0 /\ dacr = 0 /\ marking = NoMark /\ status = 0 /\ halted = FALSE

Flush == tlb' = Empty

Panic == halted' = TRUE /\ UNCHANGED <<pt, tlb, dacr, c1, marking, status>>

-----------------------------------------------------------------------------
(* The switch. *)

\* our_mmu_reset invalidates and leaves the control register alone: the
\* assertion that the MMU is off comes last.
mmu_init ==
  /\ Running
  /\ Flush
  /\ c1' = Put(control_reg1.XP_pt, c1, 1)
  /\ halted' = mmu_is_enabled
  /\ UNCHANGED <<pt, dacr, marking, status>>

\* mmu_enable, or a client with a control register of its own (mmu_enable_set).
mmu_enable_set(c) ==
  /\ Running
  /\ IF Get(control_reg1.MMU_enabled, c) = 0 THEN Panic
     ELSE c1' = c /\ Flush /\ UNCHANGED <<pt, dacr, marking, status, halted>>

mmu_enable ==
  IF mmu_is_enabled THEN Running /\ Panic
  ELSE mmu_enable_set(Put(control_reg1.MMU_enabled, c1, 1))

\* Not with the cache on.
mmu_disable_set(c) ==
  IF Get(control_reg1.MMU_enabled, c) # 0 \/ Get(control_reg1.C_unified_enable, c) # 0 THEN Panic
  ELSE c1' = c /\ Flush /\ UNCHANGED <<pt, dacr, marking, status, halted>>

mmu_disable ==
  /\ Running
  /\ IF ~mmu_is_enabled THEN Panic
     ELSE mmu_disable_set(Put(control_reg1.MMU_enabled, c1, 0))

\* The machine must not stop under the MMU, where panic cannot print; with the
\* cache on, mmu_disable stops it there all the same.
asm_not_implemented ==
  /\ Running /\ halted' = TRUE
  /\ IF mmu_is_enabled /\ Get(control_reg1.C_unified_enable, c1) = 0
       THEN c1' = Put(control_reg1.MMU_enabled, c1, 0) /\ Flush
       ELSE UNCHANGED <<c1, tlb>>
  /\ UNCHANGED <<pt, dacr, marking, status>>

\* A process id above 64 in 24 bits, an address space id in 1..63.
ProcidFits(pid, asid) == pid < 2^24 /\ pid > 64 /\ asid < 64 /\ asid > 0

set_procid_ttbr0(pid, asid) ==
  /\ Running
  /\ IF ProcidFits(pid, asid)
       THEN Flush /\ UNCHANGED <<pt, c1, dacr, marking, status, halted>>
       ELSE Panic

write_domain_access_ctrl(r) == dacr' = r

dom_perm_set_bits(dom, perm) ==
  /\ Running
  /\ IF (dom + 1) * 2 < 32
       THEN /\ write_domain_access_ctrl(bits_set(dacr, dom * 2, (dom + 1) * 2, perm))
            /\ UNCHANGED <<pt, tlb, c1, marking, status, halted>>
       ELSE Panic   \* domain 15 passes the assertion on dom, not the range's

-----------------------------------------------------------------------------
(* The table. *)

\* The word of a new mapping, before its base address is put in.
Fresh(dom, nG) ==
  Put(fld_t.domain, Put(fld_t.AP, Put(fld_t.nG, fld_mk, nG), AP_rw), dom)

fld_set_base_addr(f, addr) == Put(fld_t.sec_base_addr, f, mmu_sec_num(addr))

\* What the calls of mmu_map_section come to on a table: it refuses an address
\* that fails its assertion and a section already set.  One that is not at the
\* start of a section may pass: of va the rest is dropped; of pa, the machine
\* stops with the entry set.
Refuses(table, va, pa) ==
  ~is_aligned(va, 20) \/ ~is_aligned(pa, 20) \/ Get(fld_t.tag, table[mmu_sec_num(va)]) # 0

SetEntry(table, va, pa, dom, nG) ==
  [table EXCEPT ![mmu_sec_num(va)] = fld_set_base_addr(Fresh(dom, nG), pa)]

\* A slip: an entry already set is set anew.
mmu_map_section_anew(va, pa, dom, nG) ==
  /\ Running
  /\ pt' = SetEntry(pt, va, pa, dom, nG) /\ halted' = (pa % OneMB # 0)
  /\ UNCHANGED <<tlb, c1, dacr, marking, status>>

\* No flush: an absent entry is never cached.
mmu_map_section(va, pa, dom, nG) ==
  /\ Running
  /\ IF Refuses(pt, va, pa) THEN Panic
     ELSE /\ pt' = SetEntry(pt, va, pa, dom, nG) /\ halted' = (pa % OneMB # 0)
          /\ UNCHANGED <<tlb, c1, dacr, marking, status>>

\* Two sections in a row; the first stays mapped when the second is refused.
mmu_map_sections(va, pa, dom) ==
  /\ Running
  /\ {mmu_sec_num(va) + 1, mmu_sec_num(pa) + 1} \subseteq Section
  /\ IF Refuses(pt, va, pa) THEN Panic
     ELSE LET first == SetEntry(pt, va, pa, dom, 0)
              alone == pa % OneMB # 0 \/ Refuses(first, va + OneMB, pa + OneMB)
          IN /\ pt' = IF alone THEN first ELSE SetEntry(first, va + OneMB, pa + OneMB, dom, 0)
             /\ halted' = alone
             /\ UNCHANGED <<tlb, c1, dacr, marking, status>>

\* The three mmu_mark_sec_ functions: the entries are written one by one in
\* memory, then everything cached of them is flushed.
mmu_mark_sec_ap_perm(va, nsec, perm) ==
  /\ Running
  /\ marking' = [va |-> mmu_sec_bits_only(va), left |-> nsec, perm |-> perm]
  /\ UNCHANGED <<pt, tlb, c1, dacr, status, halted>>

\* The loop never moves va on.
MarkEntry ==
  /\ ~halted /\ marking # NoMark /\ marking.left > 0
  /\ IF Get(fld_t.tag, pt[mmu_sec_num(marking.va)]) = 0 THEN Panic
     ELSE /\ pt' = [pt EXCEPT ![mmu_sec_num(marking.va)] = Put(fld_t.AP, @, marking.perm)]
          /\ marking' = [marking EXCEPT !.left = @ - 1]
          /\ UNCHANGED <<tlb, c1, dacr, status, halted>>

\* A slip: the cached entries are left to be evicted one day.
our_mmu_sync_pte_mods_lazy ==
  /\ ~halted /\ marking # NoMark /\ marking.left = 0
  /\ marking' = NoMark
  /\ UNCHANGED <<pt, tlb, c1, dacr, status, halted>>

our_mmu_sync_pte_mods ==
  /\ ~halted /\ marking # NoMark /\ marking.left = 0
  /\ marking' = NoMark /\ Flush
  /\ UNCHANGED <<pt, c1, dacr, status, halted>>

-----------------------------------------------------------------------------
(* The hardware (ARM1176): an access finds its entry in the cache or in the *)
(* table; what it found in the table it may keep.                           *)

\* A word as the manual of the processor lays it out, or no section.
Decoded(w) ==
  [section |-> w % 4 = 2 /\ (w \div 2^18) % 2 = 0, base |-> w \div 2^20,
   domain |-> (w \div 2^5) % 16, AP |-> ((w \div 2^10) % 4) + 4 * ((w \div 2^15) % 2),
   global |-> (w \div 2^17) % 2 = 0, executable |-> (w \div 2^4) % 2 = 0]

Cached(s) == IF tlb[s] # NoEntry THEN tlb[s] ELSE pt[s]

Allowed(e, mode, op) ==
  \/ e.AP = 3
  \/ e.AP = 1 /\ mode = "privileged"
  \/ e.AP = 2 /\ (mode = "privileged" \/ op = "load")

\* Domain fields are two bits: 0 no access, 1 as the entry says, 3 always.
FaultOf(s, mode, op) ==
  LET e == Decoded(Cached(s)) IN
  IF c1 % 2 = 0 THEN 0
  ELSE IF ~e.section THEN translation_section
  ELSE LET p == (dacr \div 4^e.domain) % 4 IN
       IF p \in {0, 2} THEN domain_section
       ELSE IF p = 3 \/ Allowed(e, mode, op) THEN 0 ELSE permission_section

Kept(s) ==
  \/ UNCHANGED tlb
  \/ c1 % 2 = 1 /\ Decoded(pt[s]).section /\ tlb' = [tlb EXCEPT ![s] = Cached(s)]
  \/ tlb' = [tlb EXCEPT ![s] = NoEntry]

\* An access by the kernel or the process; while entries are being marked,
\* only the kernel runs.
Touch(s, mode, op) ==
  /\ ~halted
  /\ marking # NoMark => mode = "privileged"
  /\ status' = FaultOf(s, mode, op)
  /\ Kept(s)
  /\ UNCHANGED <<pt, c1, dacr, marking, halted>>

Stopped == halted /\ UNCHANGED vars

-----------------------------------------------------------------------------
Map == \E r \in Request : mmu_map_section(r[1], r[2], r[3], r[4])
MapTwo == \E r \in Request : mmu_map_sections(r[1], r[2], r[3])
SetDomain == \E dom \in Written, perm \in Permission : dom_perm_set_bits(dom, perm)
SetProcess == \E pid \in {64, 65, 2^24}, asid \in {0, 1, 63, 64} : set_procid_ttbr0(pid, asid)
SetEnabled == \E cache \in {0, 1} :
                mmu_enable_set(Put(control_reg1.C_unified_enable,
                                   Put(control_reg1.MMU_enabled, c1, 1), cache))
Mark == \E s \in Section, n \in 0..MaxMark, perm \in {AP_no_access, AP_rd_only, AP_rw} :
          mmu_mark_sec_ap_perm(s * OneMB, n, perm)
AnyTouch == \E s \in Section, mode \in Mode, op \in Access : Touch(s, mode, op)

Next ==
  \/ mmu_init \/ mmu_enable \/ SetEnabled \/ mmu_disable \/ asm_not_implemented
  \/ Map \/ MapTwo \/ SetDomain \/ SetProcess
  \/ Mark \/ MarkEntry \/ our_mmu_sync_pte_mods
  \/ AnyTouch \/ Stopped

Spec == Init /\ [][Next]_vars

-----------------------------------------------------------------------------
\* Outside a mark, what the hardware has cached of a section is its entry in
\* the table, or nothing: no access is ever judged by an entry since rewritten
\* (mmu_mark_sec_ap_perm and its flush, the flushes of the switch).
TlbAgrees ==
  marking = NoMark => \A s \in Section : tlb[s] \in {NoEntry, pt[s]}

\* What the processor reads in the words of the table is what was asked for, and
\* stays so whatever is called later, but for the permission: a new section has
\* its base, domain and process; an old one is never moved, nor are the bits
\* disturbed that must be zero (mmu_map_section, fld_set_base_addr).
Asked(s, e) ==
  \E r \in Request, k \in {0, 1} :
    /\ s = mmu_sec_num(r[1]) + k /\ e.base = mmu_sec_num(r[2]) + k
    /\ e.domain = r[3] /\ e.AP = AP_rw
    /\ k = 1 => e.global
    /\ ~e.global => r[4] = 1
MappingsStable ==
  [][\A s \in Section :
       LET old == Decoded(pt[s])  new == Decoded(pt'[s]) IN
       /\ old.section => /\ new.section /\ fld_check_valid(pt'[s])
                         /\ [new EXCEPT !.AP = old.AP] = old
       /\ new.section /\ ~old.section /\ ~halted' => Asked(s, new) /\ new.executable]_pt

Fields(x) == [d \in Domain |-> (x \div 4^d) % 4]

\* Written bit by bit or as one number per domain (module Domains), the register
\* holds the same (dom_perm_set over bits_set).
FieldsAgree ==
  [][\A dom \in Written, perm \in Permission :
       dom_perm_set_bits(dom, perm) /\ ~halted' =>
         Fields(dacr') = dom_perm_set(Fields(dacr), dom, perm)]_vars
=============================================================================
