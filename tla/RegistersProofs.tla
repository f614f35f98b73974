-------------------------- MODULE RegistersProofs ---------------------------
(***************************************************************************)
(* Proofs about the two pieces of hardware the labs drive bit by bit, for  *)
(* any sections, requests, addresses and handlers, and any contents of the *)
(* registers at reset; and about the kernel of pix, which runs a process   *)
(* under the first of them.                                                *)
(***************************************************************************)
EXTENDS Registers, Pix, TLAPS

-----------------------------------------------------------------------------
(* The words of the table. *)

\* The fields of mmu.h, as the shifts and masks of bit-support.h read them.
LEMMA FieldsRead ==
  ASSUME NEW w \in Nat
  PROVE  /\ Get(fld_t.tag, w) = w % 4
         /\ Get(fld_t.S, w) = (w \div 2^16) % 2
         /\ Get(fld_t.IMP, w) = (w \div 2^9) % 2
         /\ Get(fld_t.TEX, w) = (w \div 2^12) % 8
         /\ Get(fld_t.C, w) = (w \div 2^3) % 2
         /\ Get(fld_t.B, w) = (w \div 2^2) % 2
         /\ Get(fld_t.super, w) = (w \div 2^18) % 2
<1>1. /\ Get(fld_t.tag, w) = w % 4
      /\ Get(fld_t.C, w) = (w \div 2^3) % 2
      /\ Get(fld_t.B, w) = (w \div 2^2) % 2
  BY DEF Get, fld_t, bits_get, bits_mask
<1>2. /\ Get(fld_t.S, w) = (w \div 2^16) % 2
      /\ Get(fld_t.super, w) = (w \div 2^18) % 2
  BY DEF Get, fld_t, bits_get, bits_mask
<1>3. /\ Get(fld_t.IMP, w) = (w \div 2^9) % 2
      /\ Get(fld_t.TEX, w) = (w \div 2^12) % 8
  BY DEF Get, fld_t, bits_get, bits_mask
<1> QED BY <1>1, <1>2, <1>3

\* The bits of a word that must be zero.
ReservedClear(w) ==
  /\ (w \div 2^2) % 2 = 0 /\ (w \div 2^3) % 2 = 0 /\ (w \div 2^9) % 2 = 0
  /\ (w \div 2^12) % 8 = 0 /\ (w \div 2^16) % 2 = 0 /\ (w \div 2^18) % 2 = 0

LEMMA ValidWord ==
  ASSUME NEW w \in Nat
  PROVE  fld_check_valid(w) <=> w % 4 = 2 /\ ReservedClear(w)
<1>1. fld_check_valid(w) <=>
        /\ Get(fld_t.tag, w) = 2 /\ Get(fld_t.S, w) = 0 /\ Get(fld_t.IMP, w) = 0
        /\ Get(fld_t.TEX, w) = 0 /\ Get(fld_t.C, w) = 0 /\ Get(fld_t.B, w) = 0
        /\ Get(fld_t.super, w) = 0
  BY DEF fld_check_valid
<1> QED BY <1>1, FieldsRead DEF ReservedClear

\* Changing the permission of a word changes nothing else in it
\* (mmu_mark_sec_ap_perm).
LEMMA PermissionOnly ==
  ASSUME NEW w \in Nat, NEW perm \in 0..3
  PROVE  LET x == Put(fld_t.AP, w, perm) IN
         /\ x \in Nat
         /\ fld_check_valid(x) <=> fld_check_valid(w)
         /\ [Decoded(x) EXCEPT !.AP = Decoded(w).AP] = Decoded(w)
<1> DEFINE x == Put(fld_t.AP, w, perm)
<1>1. x = w - ((w \div 2^10) % 4) * 2^10 + perm * 2^10
  BY DEF Put, fld_t, bits_get, bits_mask, bits_set, bits_clr
<1> HIDE DEF x
<1>2. x \in Nat /\ x % 4 = w % 4 /\ x \div 2^20 = w \div 2^20
  BY <1>1
<1>3. /\ (x \div 2^2) % 2 = (w \div 2^2) % 2 /\ (x \div 2^3) % 2 = (w \div 2^3) % 2
      /\ (x \div 2^4) % 2 = (w \div 2^4) % 2 /\ (x \div 2^9) % 2 = (w \div 2^9) % 2
      /\ (x \div 2^5) % 16 = (w \div 2^5) % 16
  BY <1>1
<1>4. /\ (x \div 2^12) % 8 = (w \div 2^12) % 8 /\ (x \div 2^15) % 2 = (w \div 2^15) % 2
      /\ (x \div 2^16) % 2 = (w \div 2^16) % 2 /\ (x \div 2^17) % 2 = (w \div 2^17) % 2
      /\ (x \div 2^18) % 2 = (w \div 2^18) % 2
  BY <1>1
<1>5. fld_check_valid(x) <=> fld_check_valid(w)
  BY <1>2, <1>3, <1>4, ValidWord DEF ReservedClear
<1>6. [Decoded(x) EXCEPT !.AP = Decoded(w).AP] = Decoded(w)
  BY <1>2, <1>3, <1>4 DEF Decoded
<1> QED BY <1>2, <1>5, <1>6, Zenon DEF x

\* A new word, as the processor reads it, is what was asked for
\* (mmu_map_section).
LEMMA NewWord ==
  ASSUME NEW dom \in Domain, NEW nG \in {0, 1}, NEW pa \in Nat,
         NEW x, x = fld_set_base_addr(Fresh(dom, nG), pa)
  PROVE  /\ x \in Nat /\ fld_check_valid(x)
         /\ Decoded(x) = [section |-> TRUE, base |-> mmu_sec_num(pa), domain |-> dom,
                          AP |-> AP_rw, global |-> (nG = 0), executable |-> TRUE]
<1>1. fld_mk = 2
  BY DEF fld_mk, Put, fld_t, NoEntry, bits_get, bits_mask, bits_set, bits_clr
<1>2. Put(fld_t.nG, fld_mk, nG) = 2 + nG * 2^17
  BY <1>1 DEF Put, fld_t, bits_get, bits_mask, bits_set, bits_clr
<1>3. Put(fld_t.AP, 2 + nG * 2^17, AP_rw) = 2 + 3 * 2^10 + nG * 2^17
  BY DEF Put, fld_t, bits_get, bits_mask, bits_set, bits_clr, AP_rw
<1>4. Put(fld_t.domain, 2 + 3 * 2^10 + nG * 2^17, dom) = 2 + dom * 2^5 + 3 * 2^10 + nG * 2^17
  BY DEF Put, fld_t, bits_get, bits_mask, bits_set, bits_clr, Domain
<1>5. Fresh(dom, nG) = 2 + dom * 2^5 + 3 * 2^10 + nG * 2^17
  BY <1>2, <1>3, <1>4, Zenon DEF Fresh
<1> DEFINE b == mmu_sec_num(pa)
<1>6. b \in Nat
  BY DEF mmu_sec_num
<1> HIDE DEF b
<1>7. x = 2 + dom * 2^5 + 3 * 2^10 + nG * 2^17 + b * 2^20
  <2>1. x = Put(fld_t.sec_base_addr, 2 + dom * 2^5 + 3 * 2^10 + nG * 2^17, b)
    BY <1>5 DEF fld_set_base_addr, b
  <2> QED BY <1>6, <2>1 DEF Put, fld_t, bits_get, bits_mask, bits_set, bits_clr, Domain
<1>8. x \in Nat /\ x % 4 = 2 /\ x \div 2^20 = b /\ (x \div 2^5) % 16 = dom
  BY <1>6, <1>7 DEF Domain
<1>9. /\ (x \div 2^2) % 2 = 0 /\ (x \div 2^3) % 2 = 0 /\ (x \div 2^4) % 2 = 0
      /\ (x \div 2^9) % 2 = 0 /\ (x \div 2^10) % 4 = 3 /\ (x \div 2^12) % 8 = 0
  BY <1>6, <1>7 DEF Domain
<1>10. /\ (x \div 2^15) % 2 = 0 /\ (x \div 2^16) % 2 = 0 /\ (x \div 2^17) % 2 = nG
       /\ (x \div 2^18) % 2 = 0
  <2>1. x \div 2^15 = 4 * nG + 32 * b /\ x \div 2^16 = 2 * nG + 16 * b
    BY <1>6, <1>7 DEF Domain
  <2>2. x \div 2^17 = nG + 8 * b /\ x \div 2^18 = 4 * b
    BY <1>6, <1>7 DEF Domain
  <2> QED BY <1>6, <2>1, <2>2
<1>11. fld_check_valid(x)
  BY <1>8, <1>9, <1>10, ValidWord DEF ReservedClear
<1>12. Decoded(x) = [section |-> TRUE, base |-> b, domain |-> dom, AP |-> AP_rw,
                     global |-> (nG = 0), executable |-> TRUE]
  <2>1. ((x \div 2^10) % 4) + 4 * ((x \div 2^15) % 2) = AP_rw
    BY <1>9, <1>10 DEF AP_rw
  <2>2. (x % 4 = 2 /\ (x \div 2^18) % 2 = 0) = TRUE
    BY <1>8, <1>10, Zenon
  <2>3. ((x \div 2^17) % 2 = 0) = (nG = 0) /\ ((x \div 2^4) % 2 = 0) = TRUE
    BY <1>9, <1>10, Zenon
  <2> QED BY <1>8, <2>1, <2>2, <2>3, Zenon DEF Decoded
<1> QED
  BY <1>8, <1>11, <1>12 DEF b

-----------------------------------------------------------------------------
(* The table and what the hardware has cached of it. *)

\* A section is set in full or not at all.
WordsValid == \A s \in Section : pt[s] = NoEntry \/ fld_check_valid(pt[s])

\* Nothing is cached of a section that is not set: mmu_map_section needs no flush.
CachedPresent == \A s \in Section : tlb[s] # NoEntry => pt[s] # NoEntry

MInv == TypeOK /\ WordsValid /\ CachedPresent /\ TlbAgrees

LEMMA InitMmu == Init => MInv
<1> SUFFICES ASSUME Init PROVE MInv
  OBVIOUS
<1>1. pt \in [Section -> Nat] /\ tlb \in [Section -> Nat] /\ \A s \in Section : pt[s] = 0 /\ tlb[s] = 0
  BY DEF Init, Empty, NoEntry
<1>2. halted \in BOOLEAN
  BY Zenon DEF Init
<1>3. TypeOK
  BY <1>1, <1>2 DEF Init, TypeOK, reason_t
<1> QED
  BY <1>1, <1>3 DEF MInv, WordsValid, CachedPresent, TlbAgrees, NoEntry

LEMMA QuietMmu ==
  ASSUME MInv, TypeOK', UNCHANGED <<pt, tlb, marking>>
  PROVE  MInv'
BY DEF MInv, WordsValid, CachedPresent, TlbAgrees

LEMMA FlushedMmu ==
  ASSUME MInv, TypeOK', UNCHANGED pt, Flush
  PROVE  MInv'
<1>1. \A s \in Section : tlb'[s] = NoEntry
  BY DEF Flush, Empty
<1> QED
  BY <1>1 DEF MInv, WordsValid, CachedPresent, TlbAgrees

LEMMA PanicMmu == MInv /\ Panic => MInv'
<1> SUFFICES ASSUME MInv, Panic PROVE MInv'
  OBVIOUS
<1>1. halted' \in BOOLEAN
  BY Zenon DEF Panic
<1>2. TypeOK'
  BY <1>1 DEF MInv, TypeOK, Panic
<1> QED
  BY <1>2, QuietMmu DEF Panic

LEMMA ControlWord ==
  ASSUME NEW w \in Nat, NEW v \in {0, 1}
  PROVE  /\ Put(control_reg1.MMU_enabled, w, v) \in Nat
         /\ Put(control_reg1.C_unified_enable, w, v) \in Nat
         /\ Put(control_reg1.XP_pt, w, v) \in Nat
BY DEF Put, control_reg1, bits_get, bits_mask, bits_set, bits_clr

\* The switch, and the process id: all flush what they change the meaning of.
LEMMA EnableSet ==
  ASSUME MInv, NEW c \in Nat, mmu_enable_set(c)
  PROVE  MInv'
<1>1. CASE Panic
  BY <1>1, PanicMmu
<1>2. CASE c1' = c /\ Flush /\ UNCHANGED <<pt, dacr, marking, status, halted>>
  <2>1. TypeOK'
    BY <1>2 DEF MInv, TypeOK, Flush, Empty, NoEntry
  <2> QED BY <1>2, <2>1, FlushedMmu
<1> QED
  BY <1>1, <1>2 DEF mmu_enable_set

LEMMA SwitchMmu ==
  MInv /\ (mmu_init \/ mmu_enable \/ SetEnabled \/ mmu_disable \/ asm_not_implemented \/ SetProcess)
    => MInv'
<1> SUFFICES ASSUME MInv PROVE
      mmu_init \/ mmu_enable \/ SetEnabled \/ mmu_disable \/ asm_not_implemented \/ SetProcess => MInv'
  OBVIOUS
<1>t. c1 \in Nat /\ TypeOK
  BY DEF MInv, TypeOK
<1>1. CASE mmu_init
  <2>1. mmu_is_enabled \in BOOLEAN
    BY Zenon DEF mmu_is_enabled
  <2>2. c1' \in Nat /\ halted' \in BOOLEAN /\ Flush /\ UNCHANGED <<pt, dacr, marking, status>>
    BY <1>1, <1>t, <2>1, ControlWord DEF mmu_init
  <2>3. TypeOK'
    BY <1>t, <2>2 DEF TypeOK, Flush, Empty, NoEntry
  <2> QED BY <2>2, <2>3, FlushedMmu
<1>2. CASE mmu_enable
  <2>1. Put(control_reg1.MMU_enabled, c1, 1) \in Nat
    BY <1>t, ControlWord
  <2> QED BY <1>2, <2>1, EnableSet, PanicMmu DEF mmu_enable
<1>3. CASE SetEnabled
  <2>1. PICK cache \in {0, 1} :
          mmu_enable_set(Put(control_reg1.C_unified_enable, Put(control_reg1.MMU_enabled, c1, 1), cache))
    BY <1>3 DEF SetEnabled
  <2>2. Put(control_reg1.C_unified_enable, Put(control_reg1.MMU_enabled, c1, 1), cache) \in Nat
    BY <1>t, ControlWord
  <2> QED BY <2>1, <2>2, EnableSet
<1>4. CASE mmu_disable
  <2>1. CASE Panic
    BY <2>1, PanicMmu
  <2>2. CASE ~Panic
    <3>1. /\ c1' = Put(control_reg1.MMU_enabled, c1, 0)
          /\ Flush /\ UNCHANGED <<pt, dacr, marking, status, halted>>
      BY <1>4, <2>2 DEF mmu_disable, mmu_disable_set
    <3>2. TypeOK'
      BY <1>t, <3>1, ControlWord DEF TypeOK, Flush, Empty, NoEntry
    <3> QED BY <3>1, <3>2, FlushedMmu
  <2> QED BY <2>1, <2>2
<1>5. CASE asm_not_implemented
  <2>1. halted' \in BOOLEAN
    BY <1>5, Zenon DEF asm_not_implemented
  <2>2. CASE Flush /\ c1' = Put(control_reg1.MMU_enabled, c1, 0)
    <3>1. TypeOK'
      BY <1>5, <1>t, <2>1, <2>2, ControlWord DEF asm_not_implemented, TypeOK, Flush, Empty, NoEntry
    <3> QED BY <1>5, <2>2, <3>1, FlushedMmu DEF asm_not_implemented
  <2>3. CASE UNCHANGED <<c1, tlb>>
    <3>1. TypeOK'
      BY <1>5, <1>t, <2>1, <2>3 DEF asm_not_implemented, TypeOK
    <3> QED BY <1>5, <2>3, <3>1, QuietMmu DEF asm_not_implemented
  <2> QED BY <1>5, <2>2, <2>3 DEF asm_not_implemented
<1>6. CASE SetProcess
  <2>1. CASE Panic
    BY <2>1, PanicMmu
  <2>2. CASE ~Panic
    <3>1. Flush /\ UNCHANGED <<pt, c1, dacr, marking, status, halted>>
      BY <1>6, <2>2 DEF SetProcess, set_procid_ttbr0
    <3>2. TypeOK'
      BY <1>t, <3>1 DEF TypeOK, Flush, Empty, NoEntry
    <3> QED BY <3>1, <3>2, FlushedMmu
  <2> QED BY <2>1, <2>2
<1> QED
  BY <1>1, <1>2, <1>3, <1>4, <1>5, <1>6

\* The shifts of dom_perm_set, whose domains stop short of 15.
Shift == {0, 2, 4, 6, 8, 10, 12, 14, 16, 18, 20, 22, 24, 26, 28}

LEMMA ShiftPower == \A e \in Shift : 2^e \in Nat \ {0}
<1>1. /\ 2^0 \in Nat \ {0} /\ 2^2 \in Nat \ {0} /\ 2^4 \in Nat \ {0} /\ 2^6 \in Nat \ {0}
      /\ 2^8 \in Nat \ {0} /\ 2^10 \in Nat \ {0} /\ 2^12 \in Nat \ {0} /\ 2^14 \in Nat \ {0}
      /\ 2^16 \in Nat \ {0} /\ 2^18 \in Nat \ {0} /\ 2^20 \in Nat \ {0} /\ 2^22 \in Nat \ {0}
      /\ 2^24 \in Nat \ {0} /\ 2^26 \in Nat \ {0} /\ 2^28 \in Nat \ {0}
  OBVIOUS
<1> QED BY <1>1, Zenon DEF Shift

LEMMA ShiftOf == \A dom \in Domain : (dom + 1) * 2 < 32 => dom * 2 \in Shift
BY DEF Domain, Shift

\* A range is cleared before it is set, so a word never goes below zero.
LEMMA RangeCleared ==
  ASSUME NEW x \in Nat, NEW p \in Nat \ {0}, NEW m \in Nat \ {0}
  PROVE  x - ((x \div p) % m) * p \in Nat
<1> DEFINE q == x \div p
<1>1. q \in Nat /\ q * p <= x
  OBVIOUS
<1>2. q % m \in Nat /\ q % m <= q
  OBVIOUS
<1> HIDE DEF q
<1>3. (q % m) * p \in Nat /\ q * p \in Nat /\ (q % m) * p <= q * p
  BY <1>1, <1>2
<1> QED BY <1>1, <1>3 DEF q

LEMMA SetDomainMmu == MInv /\ SetDomain => MInv'
<1> SUFFICES ASSUME MInv, SetDomain PROVE MInv'
  OBVIOUS
<1>t. dacr \in Nat /\ TypeOK
  BY DEF MInv, TypeOK
<1>1. PICK dom \in Written, perm \in Permission : dom_perm_set_bits(dom, perm)
  BY DEF SetDomain
<1>2. CASE Panic
  BY <1>2, PanicMmu
<1>3. CASE ~Panic
  <2>1. /\ (dom + 1) * 2 < 32 /\ dacr' = bits_set(dacr, dom * 2, (dom + 1) * 2, perm)
        /\ UNCHANGED <<pt, tlb, c1, marking, status, halted>>
    BY <1>1, <1>3 DEF dom_perm_set_bits, write_domain_access_ctrl
  <2>2. dom \in Domain /\ 2^(dom * 2) \in Nat \ {0}
    BY <2>1, MmuAssumption, ShiftOf, ShiftPower
  <2>3. (dom + 1) * 2 - dom * 2 + 1 = 3
    BY <2>2 DEF Domain
  <2>4. bits_mask((dom + 1) * 2 - dom * 2 + 1) + 1 = 8
    <3>1. bits_mask(3) + 1 = 8
      BY DEF bits_mask
    <3> QED BY <2>3, <3>1, Zenon
  <2>5. dacr - ((dacr \div 2^(dom * 2)) % 8) * 2^(dom * 2) \in Nat
    BY <1>t, <2>2, RangeCleared
  <2>6. perm * 2^(dom * 2) \in Nat
    BY <2>2 DEF Permission, DOM_no_access, DOM_client
  <2>7. dacr' = dacr - ((dacr \div 2^(dom * 2)) % 8) * 2^(dom * 2) + perm * 2^(dom * 2)
    BY <2>1, <2>4 DEF bits_set, bits_clr, bits_get
  <2>8. dacr' \in Nat
    BY <2>5, <2>6, <2>7
  <2>9. TypeOK'
    BY <1>t, <2>1, <2>8 DEF TypeOK
  <2> QED BY <2>1, <2>9, QuietMmu
<1> QED
  BY <1>2, <1>3

\* A new mapping is what was asked for, and every other stays
\* (mmu_map_section).
SetAt(v, old, new, base, dom, nG) ==
  /\ new \in [Section -> Nat]
  /\ \A s \in Section \ {v} : new[s] = old[s]
  /\ fld_check_valid(new[v])
  /\ Decoded(new[v]) = [section |-> TRUE, base |-> base, domain |-> dom,
                        AP |-> AP_rw, global |-> (nG = 0), executable |-> TRUE]

LEMMA SetEntryKeeps ==
  ASSUME NEW table \in [Section -> Nat], NEW va \in Nat, NEW pa \in Nat,
         NEW dom \in Domain, NEW nG \in {0, 1}, mmu_sec_num(va) \in Section
  PROVE  SetAt(mmu_sec_num(va), table, SetEntry(table, va, pa, dom, nG), mmu_sec_num(pa), dom, nG)
<1> DEFINE x == fld_set_base_addr(Fresh(dom, nG), pa)
           v == mmu_sec_num(va)
           new == SetEntry(table, va, pa, dom, nG)
<1>1. /\ x \in Nat /\ fld_check_valid(x)
      /\ Decoded(x) = [section |-> TRUE, base |-> mmu_sec_num(pa), domain |-> dom,
                       AP |-> AP_rw, global |-> (nG = 0), executable |-> TRUE]
  BY NewWord, Zenon
<1>2. new = [table EXCEPT ![v] = x] /\ v \in Section
  BY DEF SetEntry
<1> HIDE DEF x, v, new
<1>3. new \in [Section -> Nat] /\ new[v] = x /\ \A s \in Section \ {v} : new[s] = table[s]
  BY <1>1, <1>2
<1> QED
  BY <1>1, <1>3, Zenon DEF v, new, SetAt

LEMMA AbsentEntry ==
  ASSUME NEW table \in [Section -> Nat], NEW va, NEW pa, mmu_sec_num(va) \in Section,
         ~Refuses(table, va, pa),
         \A s \in Section : table[s] = NoEntry \/ fld_check_valid(table[s])
  PROVE  table[mmu_sec_num(va)] = NoEntry
<1> DEFINE v == mmu_sec_num(va)
<1>1. Get(fld_t.tag, table[v]) = 0
  BY DEF Refuses
<1>2. ~fld_check_valid(table[v])
  BY <1>1 DEF fld_check_valid
<1> QED BY <1>2

LEMMA TablesDiffer ==
  ASSUME MInv, TypeOK', UNCHANGED <<tlb, marking>>,
         \A s \in Section : pt'[s] = pt[s] \/ (pt[s] = NoEntry /\ fld_check_valid(pt'[s]))
  PROVE  MInv'
<1>1. \A s \in Section : pt'[s] # NoEntry \/ pt'[s] = pt[s]
  <2>1. ~fld_check_valid(NoEntry)
    BY FieldsRead DEF fld_check_valid, NoEntry
  <2> QED BY <2>1, Zenon
<1> QED
  BY <1>1 DEF MInv, WordsValid, CachedPresent, TlbAgrees

LEMMA MapMmu == MInv /\ Map => MInv'
<1> SUFFICES ASSUME MInv, Map PROVE MInv'
  OBVIOUS
<1>t. TypeOK /\ pt \in [Section -> Nat]
  BY DEF MInv, TypeOK
<1>1. PICK r \in Request : mmu_map_section(r[1], r[2], r[3], r[4])
  BY DEF Map
<1>2. /\ r[1] \in Nat /\ r[2] \in Nat /\ r[3] \in Domain /\ r[4] \in {0, 1}
      /\ mmu_sec_num(r[1]) \in Section
  BY MmuAssumption DEF mmu_sec_num
<1>3. CASE Panic
  BY <1>3, PanicMmu
<1>4. CASE ~Panic
  <2>1. /\ ~Refuses(pt, r[1], r[2]) /\ pt' = SetEntry(pt, r[1], r[2], r[3], r[4])
        /\ UNCHANGED <<tlb, c1, dacr, marking, status>>
    BY <1>1, <1>4 DEF mmu_map_section
  <2>2. halted' \in BOOLEAN
    BY <1>1, <1>4, Zenon DEF mmu_map_section
  <2>3. pt[mmu_sec_num(r[1])] = NoEntry
    BY <1>t, <1>2, <2>1, AbsentEntry, Zenon DEF MInv, WordsValid
  <2>4. SetAt(mmu_sec_num(r[1]), pt, pt', mmu_sec_num(r[2]), r[3], r[4])
    BY <1>t, <1>2, <2>1, SetEntryKeeps
  <2>5. TypeOK'
    BY <1>t, <2>1, <2>2, <2>4 DEF TypeOK, SetAt
  <2> QED BY <2>1, <2>3, <2>4, <2>5, TablesDiffer DEF SetAt
<1> QED
  BY <1>3, <1>4

\* The second of two sections, if it is mapped, is the next.
LEMMA TwoSections ==
  ASSUME MInv, NEW r \in Request, mmu_map_sections(r[1], r[2], r[3]), ~Panic,
         NEW first, first = SetEntry(pt, r[1], r[2], r[3], 0),
         NEW v, v = mmu_sec_num(r[1])
  PROVE  /\ UNCHANGED <<tlb, c1, dacr, marking, status>> /\ halted' \in BOOLEAN
         /\ pt' \in [Section -> Nat]
         /\ pt[v] = NoEntry /\ fld_check_valid(pt'[v])
         /\ Decoded(pt'[v]) = [section |-> TRUE, base |-> mmu_sec_num(r[2]), domain |-> r[3],
                               AP |-> AP_rw, global |-> TRUE, executable |-> TRUE]
         /\ \A s \in Section \ {v, v + 1} : pt'[s] = pt[s]
         /\ \/ pt'[v + 1] = pt[v + 1]
            \/ /\ pt[v + 1] = NoEntry /\ fld_check_valid(pt'[v + 1])
               /\ Decoded(pt'[v + 1]) =
                    [section |-> TRUE, base |-> mmu_sec_num(r[2]) + 1, domain |-> r[3],
                     AP |-> AP_rw, global |-> TRUE, executable |-> TRUE]
<1>t. TypeOK /\ pt \in [Section -> Nat] /\ WordsValid
  BY DEF MInv, TypeOK
<1>2. r[1] \in Nat /\ r[2] \in Nat /\ r[3] \in Domain /\ v \in Section /\ v \in Nat
  BY MmuAssumption DEF mmu_sec_num
<1>3. /\ r[1] + OneMB \in Nat /\ r[2] + OneMB \in Nat
      /\ mmu_sec_num(r[1] + OneMB) = v + 1
      /\ mmu_sec_num(r[2] + OneMB) = mmu_sec_num(r[2]) + 1
  BY <1>2 DEF mmu_sec_num, OneMB
<1>4. ~Refuses(pt, r[1], r[2]) /\ v + 1 \in Section
  BY DEF mmu_map_sections
<1> DEFINE alone == r[2] % OneMB # 0 \/ Refuses(first, r[1] + OneMB, r[2] + OneMB)
<1>5. /\ UNCHANGED <<tlb, c1, dacr, marking, status>> /\ halted' = alone
      /\ pt' = IF alone THEN first
               ELSE SetEntry(first, r[1] + OneMB, r[2] + OneMB, r[3], 0)
  BY <1>4, Zenon DEF mmu_map_sections
<1>6. halted' \in BOOLEAN
  BY <1>5, Zenon
<1>7. pt[v] = NoEntry
  BY <1>t, <1>2, <1>4, AbsentEntry, Zenon DEF WordsValid
<1>8. SetAt(v, pt, first, mmu_sec_num(r[2]), r[3], 0)
  BY <1>t, <1>2, SetEntryKeeps
<1>9. (0 = 0) = TRUE /\ v # v + 1
  BY <1>2
<1> HIDE DEF alone
<1>10. CASE alone
  BY <1>2, <1>4, <1>5, <1>6, <1>7, <1>8, <1>9, <1>10 DEF SetAt
<1>11. CASE ~alone
  <2>1. pt' = SetEntry(first, r[1] + OneMB, r[2] + OneMB, r[3], 0)
    BY <1>5, <1>11
  <2>2. 0 \in {0, 1} /\ mmu_sec_num(r[1] + OneMB) \in Section /\ first \in [Section -> Nat]
    BY <1>3, <1>4, <1>8 DEF SetAt
  <2>3. SetAt(v + 1, first, pt', mmu_sec_num(r[2]) + 1, r[3], 0)
    BY <1>2, <1>3, <2>1, <2>2, SetEntryKeeps
  <2>4. \A s \in Section : first[s] = NoEntry \/ fld_check_valid(first[s])
    BY <1>t, <1>8 DEF WordsValid, SetAt
  <2>5. first[v + 1] = NoEntry
    <3>1. ~Refuses(first, r[1] + OneMB, r[2] + OneMB)
      BY <1>11 DEF alone
    <3> QED BY <1>3, <1>8, <2>2, <2>4, <3>1, AbsentEntry
  <2> QED
    BY <1>2, <1>3, <1>4, <1>5, <1>6, <1>7, <1>8, <1>9, <2>3, <2>5 DEF SetAt
<1> QED
  BY <1>10, <1>11

LEMMA MapTwoMmu == MInv /\ MapTwo => MInv'
<1> SUFFICES ASSUME MInv, MapTwo PROVE MInv'
  OBVIOUS
<1>1. PICK r \in Request : mmu_map_sections(r[1], r[2], r[3])
  BY DEF MapTwo
<1>2. CASE Panic
  BY <1>2, PanicMmu
<1>3. CASE ~Panic
  <2> DEFINE v == mmu_sec_num(r[1])
  <2>1. /\ UNCHANGED <<tlb, c1, dacr, marking, status>> /\ halted' \in BOOLEAN
        /\ pt' \in [Section -> Nat]
        /\ pt[v] = NoEntry /\ fld_check_valid(pt'[v])
        /\ \A s \in Section \ {v, v + 1} : pt'[s] = pt[s]
        /\ pt'[v + 1] = pt[v + 1] \/ (pt[v + 1] = NoEntry /\ fld_check_valid(pt'[v + 1]))
    BY <1>1, <1>3, TwoSections, Zenon
  <2>2. TypeOK'
    BY <2>1 DEF MInv, TypeOK
  <2> HIDE DEF v
  <2>3. \A s \in Section : pt'[s] = pt[s] \/ (pt[s] = NoEntry /\ fld_check_valid(pt'[s]))
    BY <2>1
  <2> QED BY <2>1, <2>2, <2>3, TablesDiffer
<1> QED
  BY <1>2, <1>3

\* While a range is marked what is cached of it may differ, until the flush
\* that ends the mark (mmu_mark_sec_ap_perm).
Marks == [va : Nat, left : 0..MaxMark, perm : {AP_no_access, AP_rd_only, AP_rw}]

LEMMA MarkRecord == \A m \in Marks : m # NoMark /\ m.perm \in 0..3
BY MmuAssumption DEF Marks, NoMark, AP_rd_only, AP_rw

LEMMA MarkMmu == MInv /\ (Mark \/ our_mmu_sync_pte_mods) => MInv'
<1> SUFFICES ASSUME MInv, Mark \/ our_mmu_sync_pte_mods PROVE MInv'
  OBVIOUS
<1>1. CASE Mark
  <2>1. PICK s \in Section, n \in 0..MaxMark, perm \in {AP_no_access, AP_rd_only, AP_rw} :
          mmu_mark_sec_ap_perm(s * OneMB, n, perm)
    BY <1>1 DEF Mark
  <2>2. mmu_sec_bits_only(s * OneMB) \in Nat
    <3>1. s * OneMB \in Nat
      BY MmuAssumption DEF OneMB
    <3> QED BY <3>1 DEF mmu_sec_bits_only
  <2>3. marking' \in Marks /\ UNCHANGED <<pt, tlb, c1, dacr, status, halted>>
    BY <2>1, <2>2 DEF mmu_mark_sec_ap_perm, Marks
  <2>4. marking' # NoMark
    BY <2>3, MarkRecord
  <2>5. TypeOK'
    BY <2>3 DEF MInv, TypeOK, Marks
  <2> QED BY <2>3, <2>4, <2>5 DEF MInv, WordsValid, CachedPresent, TlbAgrees
<1>2. CASE our_mmu_sync_pte_mods
  <2>1. Flush /\ marking' = NoMark /\ UNCHANGED <<pt, c1, dacr, status, halted>>
    BY <1>2 DEF our_mmu_sync_pte_mods
  <2>2. TypeOK'
    BY <2>1 DEF MInv, TypeOK, Flush, Empty, NoEntry
  <2> QED BY <2>1, <2>2, FlushedMmu
<1> QED
  BY <1>1, <1>2

\* What a step of a mark does to the table.
LEMMA MarkedTable ==
  ASSUME MInv, MarkEntry, ~Panic
  PROVE  /\ pt' \in [Section -> Nat] /\ marking' \in Marks
         /\ UNCHANGED <<tlb, c1, dacr, status, halted>>
         /\ \A s \in Section :
              /\ fld_check_valid(pt[s]) => fld_check_valid(pt'[s])
              /\ pt[s] = NoEntry => pt'[s] = NoEntry
              /\ [Decoded(pt'[s]) EXCEPT !.AP = Decoded(pt[s]).AP] = Decoded(pt[s])
<1> DEFINE v == mmu_sec_num(marking.va)
           x == Put(fld_t.AP, pt[v], marking.perm)
<1>1. /\ pt \in [Section -> Nat] /\ marking \in Marks /\ marking.left > 0
      /\ pt' = [pt EXCEPT ![v] = x] /\ marking' = [marking EXCEPT !.left = @ - 1]
      /\ UNCHANGED <<tlb, c1, dacr, status, halted>> /\ Get(fld_t.tag, pt[v]) # 0
  BY DEF MarkEntry, MInv, TypeOK, Marks
<1>2. marking' \in Marks
  BY <1>1, MmuAssumption DEF Marks
<1>3. v \in Section =>
        /\ x \in Nat /\ (fld_check_valid(x) <=> fld_check_valid(pt[v])) /\ pt[v] # NoEntry
        /\ [Decoded(x) EXCEPT !.AP = Decoded(pt[v]).AP] = Decoded(pt[v])
  <2>1. SUFFICES ASSUME v \in Section
                 PROVE  /\ x \in Nat /\ (fld_check_valid(x) <=> fld_check_valid(pt[v]))
                        /\ pt[v] # NoEntry
                        /\ [Decoded(x) EXCEPT !.AP = Decoded(pt[v]).AP] = Decoded(pt[v])
    OBVIOUS
  <2>2. pt[v] \in Nat /\ marking.perm \in 0..3
    BY <1>1, <2>1, MarkRecord
  <2>3. pt[v] # NoEntry
    BY <1>1, <2>2, FieldsRead DEF NoEntry
  <2>4. /\ x \in Nat /\ (fld_check_valid(x) <=> fld_check_valid(pt[v]))
        /\ [Decoded(x) EXCEPT !.AP = Decoded(pt[v]).AP] = Decoded(pt[v])
    BY <2>2, PermissionOnly, Zenon
  <2> QED BY <2>3, <2>4
<1>4. \A s \in Section : s # v => pt'[s] = pt[s]
  BY <1>1
<1>5. v \in Section => pt'[v] = x
  BY <1>1
<1> HIDE DEF v, x
<1>6. pt' \in [Section -> Nat]
  BY <1>1, <1>3
<1>7. \A s \in Section : [Decoded(pt[s]) EXCEPT !.AP = Decoded(pt[s]).AP] = Decoded(pt[s])
  BY DEF Decoded
<1>8. ASSUME NEW s \in Section
      PROVE  /\ fld_check_valid(pt[s]) => fld_check_valid(pt'[s])
             /\ pt[s] = NoEntry => pt'[s] = NoEntry
             /\ [Decoded(pt'[s]) EXCEPT !.AP = Decoded(pt[s]).AP] = Decoded(pt[s])
  <2>1. CASE s = v
    BY <1>3, <1>5, <2>1, Zenon
  <2>2. CASE s # v
    BY <1>4, <1>7, <2>2, Zenon
  <2> QED BY <2>1, <2>2
<1> QED
  BY <1>1, <1>2, <1>6, <1>8

LEMMA MarkEntryMmu == MInv /\ MarkEntry => MInv'
<1> SUFFICES ASSUME MInv, MarkEntry PROVE MInv'
  OBVIOUS
<1>1. CASE Panic
  BY <1>1, PanicMmu
<1>2. CASE ~Panic
  <2>1. /\ pt' \in [Section -> Nat] /\ marking' \in Marks
        /\ UNCHANGED <<tlb, c1, dacr, status, halted>>
        /\ \A s \in Section : /\ fld_check_valid(pt[s]) => fld_check_valid(pt'[s])
                              /\ pt[s] = NoEntry => pt'[s] = NoEntry
    BY <1>2, MarkedTable
  <2>2. TypeOK'
    BY <2>1 DEF MInv, TypeOK, Marks
  <2>3. marking' # NoMark
    BY <2>1, MarkRecord
  <2>4. ~fld_check_valid(NoEntry)
    BY FieldsRead DEF fld_check_valid, NoEntry
  <2> QED BY <2>1, <2>2, <2>3, <2>4 DEF MInv, WordsValid, CachedPresent, TlbAgrees
<1> QED
  BY <1>1, <1>2

\* An access caches the entry it found, which is a section.
LEMMA TouchMmu == MInv /\ AnyTouch => MInv'
<1> SUFFICES ASSUME MInv, AnyTouch PROVE MInv'
  OBVIOUS
<1>1. PICK s \in Section, mode \in Mode, op \in Access : Touch(s, mode, op)
  BY DEF AnyTouch
<1>2. UNCHANGED <<pt, c1, dacr, marking, halted>>
  BY <1>1 DEF Touch
<1>3. status' \in reason_t
  BY <1>1 DEF Touch, FaultOf, reason_t, translation_section, domain_section, permission_section
<1>4. \/ UNCHANGED tlb
      \/ Decoded(pt[s]).section /\ tlb' = [tlb EXCEPT ![s] = Cached(s)]
      \/ tlb' = [tlb EXCEPT ![s] = NoEntry]
  BY <1>1 DEF Touch, Kept
<1>5. Decoded(pt[s]).section => pt[s] # NoEntry
  <2>1. 0 % 4 # 2
    OBVIOUS
  <2> QED BY <2>1, Zenon DEF Decoded, NoEntry
<1>6. pt \in [Section -> Nat] /\ tlb \in [Section -> Nat]
  BY DEF MInv, TypeOK
<1>7. /\ tlb' \in [Section -> Nat]
      /\ \A x \in Section : tlb'[x] \in {tlb[x], NoEntry} \/ (tlb'[x] = pt[x] /\ pt[x] # NoEntry)
  BY <1>4, <1>5, <1>6 DEF Cached, NoEntry
<1>8. TypeOK'
  BY <1>2, <1>3, <1>7 DEF MInv, TypeOK
<1> QED
  BY <1>2, <1>7, <1>8 DEF MInv, WordsValid, CachedPresent, TlbAgrees

LEMMA MmuStep == MInv /\ [Next]_vars => MInv'
<1> SUFFICES ASSUME MInv, [Next]_vars PROVE MInv'
  OBVIOUS
<1>1. CASE UNCHANGED vars
  <2>1. TypeOK'
    BY <1>1 DEF vars, MInv, TypeOK
  <2> QED BY <1>1, <2>1, QuietMmu DEF vars
<1> QED
  BY <1>1, SwitchMmu, SetDomainMmu, MapMmu, MapTwoMmu, MarkMmu, MarkEntryMmu, TouchMmu
     DEF Next, Stopped

\* Every word of the table is empty or valid, and what is cached of it agrees,
\* after any calls of mmu.c.
THEOREM MmuInvariant == RSpec => []MInv
<1>1. RInit => MInv
  BY InitMmu DEF RInit
<1>2. MInv /\ [RNext]_<<debugs_p, vars, dvars>> => MInv'
  BY MmuStep DEF RNext
<1> QED
  BY <1>1, <1>2, PTL DEF RSpec

\* The table, what is cached of it and the registers of the MMU keep their types
\* (every function of mmu.c).
THEOREM MmuTypeCorrect == RSpec => []TypeOK
BY MmuInvariant, PTL DEF MInv

\* No access is judged by an entry since rewritten: outside a mark, what is
\* cached of a section is its entry or nothing (mmu_mark_sec_ap_perm, and
\* mmu_map_section, which does not flush).
THEOREM TlbNeverStale == RSpec => []TlbAgrees
BY MmuInvariant, PTL DEF MInv

-----------------------------------------------------------------------------
(* What the processor reads stays what was asked for. *)

LEMMA SectionRead ==
  /\ ~Decoded(NoEntry).section
  /\ \A w \in Nat : fld_check_valid(w) => Decoded(w).section
<1>1. 0 % 4 # 2
  OBVIOUS
<1>2. ~Decoded(NoEntry).section
  BY <1>1, Zenon DEF Decoded, NoEntry
<1>3. ASSUME NEW w \in Nat, fld_check_valid(w) PROVE Decoded(w).section
  <2>1. w % 4 = 2 /\ (w \div 2^18) % 2 = 0
    BY <1>3, ValidWord DEF ReservedClear
  <2> QED BY <2>1, Zenon DEF Decoded
<1> QED BY <1>2, <1>3

\* MappingsStable of one section.
EntryStable(s) ==
  LET old == Decoded(pt[s])  new == Decoded(pt'[s]) IN
  /\ old.section => /\ new.section /\ fld_check_valid(pt'[s])
                    /\ [new EXCEPT !.AP = old.AP] = old
  /\ new.section /\ ~old.section /\ ~halted' => Asked(s, new) /\ new.executable

LEMMA SameEntry ==
  ASSUME MInv, NEW s \in Section, pt'[s] = pt[s]
  PROVE  EntryStable(s)
<1>1. Decoded(pt[s]).section => fld_check_valid(pt[s])
  BY SectionRead, Zenon DEF MInv, WordsValid
<1>2. [Decoded(pt[s]) EXCEPT !.AP = Decoded(pt[s]).AP] = Decoded(pt[s])
  BY DEF Decoded
<1> QED
  BY <1>1, <1>2, Zenon DEF EntryStable

LEMMA NewEntry ==
  ASSUME NEW s \in Section, pt[s] = NoEntry,
         Asked(s, Decoded(pt'[s])) /\ Decoded(pt'[s]).executable
  PROVE  EntryStable(s)
BY SectionRead, Zenon DEF EntryStable

LEMMA RequestAsked ==
  ASSUME NEW r \in Request, NEW k \in {0, 1}, NEW nG \in {0, r[4]}, NEW e,
         e = [section |-> TRUE, base |-> mmu_sec_num(r[2]) + k, domain |-> r[3],
              AP |-> AP_rw, global |-> (nG = 0), executable |-> TRUE],
         k = 1 => nG = 0
  PROVE  Asked(mmu_sec_num(r[1]) + k, e) /\ e.executable
<1>1. e.base = mmu_sec_num(r[2]) + k /\ e.domain = r[3] /\ e.AP = AP_rw /\ e.executable
  BY Zenon
<1>2. e.global <=> nG = 0
  BY Zenon
<1>3. ~e.global => r[4] = 1
  BY <1>2, MmuAssumption
<1> QED
  BY <1>1, <1>2, <1>3, Zenon DEF Asked

LEMMA MapStable == MInv /\ Map => \A s \in Section : EntryStable(s)
<1> SUFFICES ASSUME MInv, Map, NEW s \in Section PROVE EntryStable(s)
  OBVIOUS
<1>1. PICK r \in Request : mmu_map_section(r[1], r[2], r[3], r[4])
  BY DEF Map
<1>2. CASE pt' = pt
  BY <1>2, SameEntry
<1>3. CASE pt' # pt
  <2>1. ~Refuses(pt, r[1], r[2]) /\ pt' = SetEntry(pt, r[1], r[2], r[3], r[4])
    BY <1>1, <1>3 DEF mmu_map_section, Panic
  <2>2. /\ r[1] \in Nat /\ r[2] \in Nat /\ r[3] \in Domain /\ r[4] \in {0, 1}
        /\ mmu_sec_num(r[1]) \in Section /\ mmu_sec_num(r[1]) \in Nat /\ mmu_sec_num(r[2]) \in Nat
    BY MmuAssumption DEF mmu_sec_num
  <2>3. pt \in [Section -> Nat]
    BY DEF MInv, TypeOK
  <2>4. SetAt(mmu_sec_num(r[1]), pt, pt', mmu_sec_num(r[2]), r[3], r[4])
    BY <2>1, <2>2, <2>3, SetEntryKeeps
  <2>5. CASE s = mmu_sec_num(r[1])
    <3>1. pt[s] = NoEntry
      BY <2>1, <2>2, <2>3, <2>5, AbsentEntry, Zenon DEF MInv, WordsValid
    <3>2. mmu_sec_num(r[1]) + 0 = s /\ mmu_sec_num(r[2]) + 0 = mmu_sec_num(r[2])
      BY <2>2, <2>5
    <3>3. Decoded(pt'[s]) = [section |-> TRUE, base |-> mmu_sec_num(r[2]) + 0, domain |-> r[3],
                             AP |-> AP_rw, global |-> (r[4] = 0), executable |-> TRUE]
      BY <2>4, <2>5, <3>2, Zenon DEF SetAt
    <3>4. Asked(mmu_sec_num(r[1]) + 0, Decoded(pt'[s])) /\ Decoded(pt'[s]).executable
      <4>1. 0 \in {0, 1} /\ r[4] \in {0, r[4]} /\ 0 # 1
        OBVIOUS
      <4> QED BY <3>3, <4>1, RequestAsked, Zenon
    <3> QED BY <3>1, <3>2, <3>4, NewEntry
  <2>6. CASE s # mmu_sec_num(r[1])
    BY <2>4, <2>6, SameEntry DEF SetAt
  <2> QED BY <2>5, <2>6
<1> QED
  BY <1>2, <1>3

LEMMA MapTwoStable == MInv /\ MapTwo => \A s \in Section : EntryStable(s)
<1> SUFFICES ASSUME MInv, MapTwo, NEW s \in Section PROVE EntryStable(s)
  OBVIOUS
<1>1. PICK r \in Request : mmu_map_sections(r[1], r[2], r[3])
  BY DEF MapTwo
<1>2. CASE pt'[s] = pt[s]
  BY <1>2, SameEntry
<1>3. CASE pt'[s] # pt[s]
  <2> DEFINE v == mmu_sec_num(r[1])
             b == mmu_sec_num(r[2])
             e(k) == [section |-> TRUE, base |-> b + k, domain |-> r[3],
                      AP |-> AP_rw, global |-> TRUE, executable |-> TRUE]
  <2>1. ~Panic
    BY <1>3 DEF Panic
  <2>2. /\ pt[v] = NoEntry
        /\ Decoded(pt'[v]) = [section |-> TRUE, base |-> b, domain |-> r[3],
                              AP |-> AP_rw, global |-> TRUE, executable |-> TRUE]
        /\ \A x \in Section \ {v, v + 1} : pt'[x] = pt[x]
        /\ \/ pt'[v + 1] = pt[v + 1]
           \/ pt[v + 1] = NoEntry /\ Decoded(pt'[v + 1]) = e(1)
    BY <1>1, <2>1, TwoSections, Zenon
  <2>3. v \in Nat /\ b \in Nat
    BY MmuAssumption DEF mmu_sec_num
  <2>4. /\ Asked(v + 0, e(0)) /\ e(0).executable
        /\ Asked(v + 1, e(1)) /\ e(1).executable
    <3>1. /\ 0 \in {0, 1} /\ 1 \in {0, 1} /\ 0 \in {0, r[4]} /\ 0 # 1
          /\ TRUE = (0 = 0)
      OBVIOUS
    <3> QED BY <3>1, RequestAsked, Zenon
  <2>5. v + 0 = v /\ b + 0 = b
    BY <2>3
  <2>6. s \in {v, v + 1}
    BY <1>3, <2>2
  <2>7. CASE s = v
    BY <2>2, <2>4, <2>5, <2>7, NewEntry, Zenon
  <2>8. CASE s = v + 1
    BY <1>3, <2>2, <2>4, <2>8, NewEntry, Zenon
  <2> QED BY <2>6, <2>7, <2>8
<1> QED
  BY <1>2, <1>3

LEMMA MarkEntryStable == MInv /\ MarkEntry => \A s \in Section : EntryStable(s)
<1> SUFFICES ASSUME MInv, MarkEntry, NEW s \in Section PROVE EntryStable(s)
  OBVIOUS
<1>1. CASE Panic
  BY <1>1, SameEntry DEF Panic
<1>2. CASE ~Panic
  <2>1. /\ fld_check_valid(pt[s]) => fld_check_valid(pt'[s])
        /\ pt[s] = NoEntry => pt'[s] = NoEntry
        /\ [Decoded(pt'[s]) EXCEPT !.AP = Decoded(pt[s]).AP] = Decoded(pt[s])
        /\ pt' \in [Section -> Nat]
    BY <1>2, MarkedTable
  <2>2. CASE pt[s] = NoEntry
    BY <2>1, <2>2, SameEntry
  <2>3. CASE fld_check_valid(pt[s])
    <3>1. /\ pt[s] \in Nat /\ pt'[s] \in Nat
          /\ Decoded(pt[s]).section /\ Decoded(pt'[s]).section
      BY <2>1, <2>3, SectionRead DEF MInv, TypeOK
    <3> QED BY <2>1, <2>3, <3>1, Zenon DEF EntryStable
  <2> QED BY <2>2, <2>3 DEF MInv, WordsValid
<1> QED
  BY <1>1, <1>2

\* An entry once set is never moved, and a new one is what was asked for, word
\* by word as the processor reads them (mmu_map_section, fld_set_base_addr,
\* mmu_mark_sec_ap_perm).
THEOREM EntriesStable == RSpec => MappingsStable
<1>1. ASSUME MInv, [RNext]_<<debugs_p, vars, dvars>>, pt' # pt
      PROVE  \A s \in Section : EntryStable(s)
  <2>1. Map \/ MapTwo \/ MarkEntry
    BY <1>1 DEF RNext, Next, Stopped, vars, mmu_init, mmu_enable, SetEnabled, mmu_enable_set,
       mmu_disable, mmu_disable_set, asm_not_implemented, SetDomain, dom_perm_set_bits,
       SetProcess, set_procid_ttbr0, Mark, mmu_mark_sec_ap_perm, our_mmu_sync_pte_mods,
       AnyTouch, Touch, Panic
  <2> QED BY <1>1, <2>1, MapStable, MapTwoStable, MarkEntryStable
<1>2. MInv /\ [RNext]_<<debugs_p, vars, dvars>> => [\A s \in Section : EntryStable(s)]_pt
  BY <1>1
<1> QED
  BY <1>2, MmuInvariant, PTL DEF RSpec, MappingsStable, EntryStable

-----------------------------------------------------------------------------
(* The control registers of the debug unit, written from their upper bits  *)
(* down: each write leaves what is above it.                               *)

LEMMA BitWritten ==
  ASSUME NEW x \in Nat
  PROVE  /\ bit_clr(x, 0) \in Nat /\ ~bit_is_on(bit_clr(x, 0), 0)
         /\ bit_set(x, 0) \in Nat /\ bit_is_on(bit_set(x, 0), 0)
         /\ bit_set(x, 0) \div 2 = x \div 2
         /\ bit_clr(x, 20) \in Nat /\ (bit_clr(x, 20) \div 2^20) % 2 = 0
         /\ bit_clr(x, 20) \div 2^21 = x \div 2^21
<1>1. /\ bit_clr(x, 0) \in Nat /\ ~bit_is_on(bit_clr(x, 0), 0)
      /\ bit_set(x, 0) \in Nat /\ bit_is_on(bit_set(x, 0), 0)
      /\ bit_set(x, 0) \div 2 = x \div 2
  BY DEF bit_clr, bit_set, bit_is_on
<1>2. /\ bit_clr(x, 20) \in Nat /\ (bit_clr(x, 20) \div 2^20) % 2 = 0
      /\ bit_clr(x, 20) \div 2^21 = x \div 2^21
  BY DEF bit_clr, bit_is_on
<1> QED BY <1>1, <1>2

LEMMA RangeWritten ==
  ASSUME NEW x \in Nat
  PROVE  /\ LET y == bits_set(x, 1, 2, 3) IN
              y \in Nat /\ (y \div 2) % 4 = 3 /\ y \div 2^3 = x \div 2^3
         /\ LET y == bits_set(x, 3, 4, 3) IN
              y \in Nat /\ (y \div 2^3) % 4 = 3 /\ y \div 2^5 = x \div 2^5
         /\ LET y == bits_set(x, 5, 8, 15) IN
              y \in Nat /\ (y \div 2^5) % 16 = 15 /\ y \div 2^9 = x \div 2^9
         /\ LET y == bits_clr(x, 14, 15) IN
              y \in Nat /\ (y \div 2^14) % 4 = 0 /\ y \div 2^16 = x \div 2^16
         /\ LET y == bits_clr(x, 21, 22) IN
              y \in Nat /\ (y \div 2^21) % 4 = 0
         /\ LET y == bits_set(x, 21, 22, 2) IN
              y \in Nat /\ (y \div 2^21) % 4 = 2
<1>1. LET y == bits_set(x, 1, 2, 3) IN
        y \in Nat /\ (y \div 2) % 4 = 3 /\ y \div 2^3 = x \div 2^3
  BY DEF bits_set, bits_clr, bits_get, bits_mask
<1>2. LET y == bits_set(x, 3, 4, 3) IN
        y \in Nat /\ (y \div 2^3) % 4 = 3 /\ y \div 2^5 = x \div 2^5
  BY DEF bits_set, bits_clr, bits_get, bits_mask
<1>3. LET y == bits_set(x, 5, 8, 15) IN
        y \in Nat /\ (y \div 2^5) % 16 = 15 /\ y \div 2^9 = x \div 2^9
  BY DEF bits_set, bits_clr, bits_get, bits_mask
<1>4. LET y == bits_clr(x, 14, 15) IN
        y \in Nat /\ (y \div 2^14) % 4 = 0 /\ y \div 2^16 = x \div 2^16
  BY DEF bits_clr, bits_get, bits_mask
<1>5. LET y == bits_clr(x, 21, 22) IN y \in Nat /\ (y \div 2^21) % 4 = 0
  BY DEF bits_clr, bits_get, bits_mask
<1>6. LET y == bits_set(x, 21, 22, 2) IN y \in Nat /\ (y \div 2^21) % 4 = 2
  BY DEF bits_set, bits_clr, bits_get, bits_mask
<1> QED BY <1>1, <1>2, <1>3, <1>4, <1>5, <1>6, Zenon

\* On, in both modes, all four bytes, in any world, linked to nothing.
Armed(r) ==
  /\ r \in Nat /\ r % 2 = 1 /\ (r \div 2) % 4 = 3 /\ (r \div 2^5) % 16 = 15
  /\ (r \div 2^20) % 2 = 0

LEMMA Lower ==
  ASSUME NEW m \in Nat, NEW d, NEW w, NEW b, NEW c,
         w = bits_clr(m, 14, 15), b = bits_set(w, 5, 8, 15), c = bits_set(b, 1, 2, 3),
         d = bit_set(c, 0), (m \div 2^20) % 2 = 0
  PROVE  Armed(d) /\ (d \div 2^14) % 2 = 0 /\ d \div 2^21 = m \div 2^21
<1>1. w \in Nat /\ (w \div 2^14) % 4 = 0 /\ w \div 2^16 = m \div 2^16
  BY RangeWritten
<1>2. b \in Nat /\ (b \div 2^5) % 16 = 15 /\ b \div 2^9 = w \div 2^9
  BY <1>1, RangeWritten
<1>3. c \in Nat /\ (c \div 2) % 4 = 3 /\ c \div 2^3 = b \div 2^3
  BY <1>2, RangeWritten
<1>4. d \in Nat /\ d % 2 = 1 /\ d \div 2 = c \div 2
  BY <1>3, BitWritten DEF bit_is_on
<1>5. (d \div 2) % 4 = 3 /\ d \div 2^3 = c \div 2^3
  BY <1>3, <1>4
<1>6. d \div 2^5 = b \div 2^5 /\ d \div 2^9 = b \div 2^9
  BY <1>2, <1>3, <1>4, <1>5
<1>7. d \div 2^14 = w \div 2^14 /\ d \div 2^16 = w \div 2^16
  BY <1>1, <1>2, <1>4, <1>6
<1>8. d \div 2^20 = m \div 2^20 /\ d \div 2^21 = m \div 2^21
  BY <1>1, <1>4, <1>7
<1>9. (d \div 2^14) % 2 = 0
  BY <1>1, <1>7
<1> QED
  BY <1>2, <1>4, <1>5, <1>6, <1>8, <1>9 DEF Armed

\* Whatever the register held (debug_match_breakpt0_on, debug_mismatch_breakpt0_on,
\* debug_watchpt0_on).
LEMMA MatchBits ==
  ASSUME NEW r \in Nat
  PROVE  LET d == match_bits(r) IN
         Armed(d) /\ (d \div 2^14) % 2 = 0 /\ (d \div 2^21) % 4 = 0
<1> DEFINE a == bits_clr(bit_clr(r, 0), 21, 22)
           m == bit_clr(a, 20)
           w == bits_clr(m, 14, 15)
           b == bits_set(w, 5, 8, 15)
           c == bits_set(b, 1, 2, 3)
           d == bit_set(c, 0)
<1>1. a \in Nat /\ (a \div 2^21) % 4 = 0
  BY BitWritten, RangeWritten, Zenon
<1> HIDE DEF a
<1>2. m \in Nat /\ (m \div 2^20) % 2 = 0 /\ m \div 2^21 = a \div 2^21
  BY <1>1, BitWritten
<1> HIDE DEF m
<1>3. Armed(d) /\ (d \div 2^14) % 2 = 0 /\ d \div 2^21 = m \div 2^21
  BY <1>2, Lower, Zenon
<1> HIDE DEF d
<1>4. Armed(d) /\ (d \div 2^14) % 2 = 0 /\ (d \div 2^21) % 4 = 0
  BY <1>1, <1>2, <1>3
<1>5. d = match_bits(r)
  BY Zenon DEF match_bits, d, c, b, w, m, a
<1> QED BY <1>4, <1>5, Zenon

LEMMA MismatchBits ==
  ASSUME NEW r \in Nat
  PROVE  LET d == mismatch_bits(r) IN
         Armed(d) /\ (d \div 2^14) % 2 = 0 /\ (d \div 2^21) % 4 = 2
<1> DEFINE a == bits_set(bit_clr(r, 0), 21, 22, 2)
           m == bit_clr(a, 20)
           w == bits_clr(m, 14, 15)
           b == bits_set(w, 5, 8, 15)
           c == bits_set(b, 1, 2, 3)
           d == bit_set(c, 0)
<1>1. a \in Nat /\ (a \div 2^21) % 4 = 2
  BY BitWritten, RangeWritten, Zenon
<1> HIDE DEF a
<1>2. m \in Nat /\ (m \div 2^20) % 2 = 0 /\ m \div 2^21 = a \div 2^21
  BY <1>1, BitWritten
<1> HIDE DEF m
<1>3. Armed(d) /\ (d \div 2^14) % 2 = 0 /\ d \div 2^21 = m \div 2^21
  BY <1>2, Lower, Zenon
<1> HIDE DEF d
<1>4. Armed(d) /\ (d \div 2^14) % 2 = 0 /\ (d \div 2^21) % 4 = 2
  BY <1>1, <1>2, <1>3
<1>5. d = mismatch_bits(r)
  BY Zenon DEF mismatch_bits, d, c, b, w, m, a
<1> QED BY <1>4, <1>5, Zenon

LEMMA WatchBits ==
  ASSUME NEW r \in Nat
  PROVE  LET d == watchpoint_bits(r) IN Armed(d) /\ (d \div 2^3) % 4 = 3
<1> DEFINE u == bit_clr(bit_clr(r, 0), 20)
           b == bits_set(u, 5, 8, 15)
           o == bits_set(b, 3, 4, 3)
           c == bits_set(o, 1, 2, 3)
           d == bit_set(c, 0)
<1>1. u \in Nat /\ (u \div 2^20) % 2 = 0
  BY BitWritten, Zenon
<1> HIDE DEF u
<1>2. b \in Nat /\ (b \div 2^5) % 16 = 15 /\ b \div 2^9 = u \div 2^9
  BY <1>1, RangeWritten, Zenon
<1> HIDE DEF b
<1>3. o \in Nat /\ (o \div 2^3) % 4 = 3 /\ o \div 2^5 = b \div 2^5
  BY <1>2, RangeWritten, Zenon
<1> HIDE DEF o
<1>4. c \in Nat /\ (c \div 2) % 4 = 3 /\ c \div 2^3 = o \div 2^3
  BY <1>3, RangeWritten, Zenon
<1> HIDE DEF c
<1>5. d \in Nat /\ d % 2 = 1 /\ d \div 2 = c \div 2
  <2>1. d \in Nat /\ bit_is_on(d, 0) /\ d \div 2 = c \div 2
    BY <1>4, BitWritten, Zenon
  <2> HIDE DEF d
  <2> QED BY <2>1 DEF bit_is_on
<1> HIDE DEF d
<1>6. (d \div 2) % 4 = 3 /\ d \div 2^3 = o \div 2^3
  BY <1>4, <1>5
<1>7. (d \div 2^3) % 4 = 3 /\ d \div 2^5 = b \div 2^5
  BY <1>2, <1>3, <1>5, <1>6
<1>8. (d \div 2^5) % 16 = 15 /\ d \div 2^20 = u \div 2^20
  BY <1>1, <1>2, <1>5, <1>7
<1>9. Armed(d) /\ (d \div 2^3) % 4 = 3
  BY <1>1, <1>5, <1>6, <1>7, <1>8 DEF Armed
<1>10. d = watchpoint_bits(r)
  BY Zenon DEF watchpoint_bits, d, c, o, b, u
<1> QED BY <1>9, <1>10, Zenon

-----------------------------------------------------------------------------
(* What breakpoint 0 and watchpoint 0 were asked for, and hold. *)

Wish == [kind : {"match", "mismatch"}, addr : Address, handler : Client]

DTypes ==
  /\ dscr \in Nat /\ bcr0 \in Nat /\ wcr0 \in Nat
  /\ asked \in {Off} \cup Wish /\ watched \in Address \cup {None}

AskedHeld ==
  /\ asked = Off => bcr0 % 2 = 0
  /\ asked # Off =>
       /\ Armed(bcr0) /\ (bcr0 \div 2^14) % 2 = 0
       /\ (bcr0 \div 2^21) % 4 = IF asked.kind = "match" THEN 0 ELSE 2
       /\ bvr0 = asked.addr /\ breakpt_handler0 = asked.handler

WatchedHeld ==
  /\ watched = None => wcr0 % 2 = 0
  /\ watched # None => Armed(wcr0) /\ (wcr0 \div 2^3) % 4 = 3 /\ wvr0 = watched

DInv == DTypes /\ AskedHeld /\ WatchedHeld /\ FaultsToldApart

LEMMA WishKinds ==
  /\ \A a \in Wish : a # Off /\ a.kind \in {"match", "mismatch"} /\ a.handler # None
  /\ Off.kind = "off"
BY DebugAssumption DEF Wish, Off

LEMMA InitDebug == RInit => DInv
<1> SUFFICES ASSUME RInit PROVE DInv
  OBVIOUS
<1>1. \A r \in AtReset : r \in Nat /\ r % 2 = 0
  BY DebugAssumption
<1>2. dscr \in Nat /\ bcr0 \in Nat /\ wcr0 \in Nat /\ bcr0 % 2 = 0 /\ wcr0 % 2 = 0
  BY <1>1 DEF RInit, DInit
<1>3. asked = Off /\ watched = None /\ fault = None
  BY DEF RInit, DInit
<1> QED
  BY <1>2, <1>3, Zenon DEF DInv, DTypes, AskedHeld, WatchedHeld, FaultsToldApart

LEMMA EntryWord ==
  ASSUME NEW x \in Nat, NEW source \in 0..15
  PROVE  bits_set(x, 2, 5, source) \in Nat /\ bits_get(bits_set(x, 2, 5, source), 2, 5) = source
BY DEF bits_set, bits_clr, bits_get, bits_mask

\* The status a fault register holds is a debug event for debug events only.
LEMMA EventStatus ==
  /\ was_debugfault_r(debug_event) /\ was_debugfault_r(debug_event + 2^11)
  /\ ~was_debugfault_r(translation_section)
BY DEF was_debugfault_r, debug_event, translation_section, bit_is_on, bits_get, bits_mask

LEMMA FaultStatus ==
  ASSUME NEW st \in reason_t \ {0, debug_event}, NEW op \in Access,
         NEW dfsr, dfsr = Dfsr(st, 15) + WriteBit(op)
  PROVE  /\ ~was_debugfault_r(dfsr)
         /\ datafault_from_ld(dfsr) <=> op = "load"
         /\ st < 16 => fault_reason(dfsr) = st
<1>1. WriteBit(op) \in {0, 2048} /\ (WriteBit(op) = 0 <=> op = "load")
  BY DEF WriteBit, Access
<1> DEFINE low == st % 16
           high == st \div 16
<1>2. low \in 0..15 /\ high \in {0, 1} /\ st = low + 16 * high /\ low # 2
  BY DEF reason_t, debug_event
<1>3. dfsr = low + 240 + 1024 * high + WriteBit(op)
  BY DEF Dfsr
<1> HIDE DEF low, high
<1>4. /\ bits_get(dfsr, 0, 3) = low
      /\ bits_get(dfsr, 10, 10) = high
  BY <1>1, <1>2, <1>3 DEF bits_get, bits_mask
<1>5. bit_is_on(dfsr, 11) <=> WriteBit(op) = 2048
  BY <1>1, <1>2, <1>3 DEF bit_is_on
<1>6. ~was_debugfault_r(dfsr)
  BY <1>2, <1>4 DEF was_debugfault_r, debug_event
<1>7. st < 16 => fault_reason(dfsr) = st
  BY <1>2, <1>4 DEF fault_reason, Or1
<1> QED
  BY <1>1, <1>5, <1>6, <1>7 DEF datafault_from_ld

\* The calls of debug.c leave the breakpoint and the watchpoint as they ask.
LEMMA SetsDebug ==
  DInv /\ (debug_init \/ SetWatchpoint \/ SetMatch \/ SetMismatch \/ SetOff) => DInv'
<1> SUFFICES ASSUME DInv,
                    debug_init \/ SetWatchpoint \/ SetMatch \/ SetMismatch \/ SetOff
             PROVE  DTypes' /\ AskedHeld' /\ WatchedHeld' /\ UNCHANGED exception
  BY DEF DInv, FaultsToldApart, exception
<1>t. DTypes /\ AskedHeld /\ WatchedHeld
  BY DEF DInv
<1>1. CASE debug_init
  <2>1. bit_clr(bit_set(dscr, 15), 14) \in Nat
    <3>1. bit_set(dscr, 15) \in Nat
      BY <1>t DEF DTypes, bit_set, bit_clr, bit_is_on
    <3> QED BY <3>1 DEF bit_clr, bit_is_on
  <2> QED
    BY <1>1, <1>t, <2>1 DEF debug_init, DTypes, AskedHeld, WatchedHeld, handlers, wishes, exception
<1>2. CASE SetWatchpoint
  <2>1. PICK a \in Address, h \in Client : debug_watchpt0_on(a, h)
    BY <1>2 DEF SetWatchpoint
  <2>2. /\ wvr0' = a /\ wcr0' = watchpoint_bits(wcr0) /\ watched' = a
        /\ UNCHANGED <<dscr, bvr0, bcr0, breakpt_handler0, asked, exception>>
    BY <2>1 DEF debug_watchpt0_on
  <2>3. Armed(wcr0') /\ (wcr0' \div 2^3) % 4 = 3
    BY <1>t, <2>2, WatchBits DEF DTypes
  <2>4. WatchedHeld'
    BY <2>2, <2>3, DebugAssumption DEF WatchedHeld, Armed
  <2>5. DTypes' /\ AskedHeld'
    BY <1>t, <2>2, <2>3 DEF DTypes, AskedHeld, Armed
  <2> QED BY <2>2, <2>4, <2>5
<1>3. CASE SetMatch
  <2>1. PICK a \in Address, h \in Client : debug_match_breakpt0_on(a, h)
    BY <1>3 DEF SetMatch
  <2>2. /\ bcr0' = match_bits(bcr0) /\ bvr0' = a /\ breakpt_handler0' = h
        /\ asked' = [kind |-> "match", addr |-> a, handler |-> h]
        /\ UNCHANGED <<dscr, wvr0, wcr0, watched, exception>>
    BY <2>1 DEF debug_match_breakpt0_on, Breakpoint
  <2>3. Armed(bcr0') /\ (bcr0' \div 2^14) % 2 = 0 /\ (bcr0' \div 2^21) % 4 = 0
    BY <1>t, <2>2, MatchBits DEF DTypes
  <2>4. asked' \in Wish /\ asked' # Off /\ asked'.kind = "match"
    BY <2>2, WishKinds DEF Wish
  <2>5. AskedHeld'
    BY <2>2, <2>3, <2>4 DEF AskedHeld
  <2>6. DTypes' /\ WatchedHeld'
    BY <1>t, <2>2, <2>3, <2>4 DEF DTypes, WatchedHeld, Armed
  <2> QED BY <2>2, <2>5, <2>6
<1>4. CASE SetMismatch
  <2>1. PICK a \in Address, h \in Client : debug_mismatch_breakpt0_on(a, h)
    BY <1>4 DEF SetMismatch
  <2>2. /\ bcr0' = mismatch_bits(bcr0) /\ bvr0' = a /\ breakpt_handler0' = h
        /\ asked' = [kind |-> "mismatch", addr |-> a, handler |-> h]
        /\ UNCHANGED <<dscr, wvr0, wcr0, watched, exception>>
    BY <2>1 DEF debug_mismatch_breakpt0_on, Breakpoint
  <2>3. Armed(bcr0') /\ (bcr0' \div 2^14) % 2 = 0 /\ (bcr0' \div 2^21) % 4 = 2
    BY <1>t, <2>2, MismatchBits DEF DTypes
  <2>4. asked' \in Wish /\ asked' # Off /\ asked'.kind # "match"
    BY <2>2, WishKinds DEF Wish
  <2>5. AskedHeld'
    BY <2>2, <2>3, <2>4 DEF AskedHeld
  <2>6. DTypes' /\ WatchedHeld'
    BY <1>t, <2>2, <2>3, <2>4 DEF DTypes, WatchedHeld, Armed
  <2> QED BY <2>2, <2>5, <2>6
<1>5. CASE SetOff
  <2>1. bcr0' = bit_clr(bcr0, 0) /\ asked' = Off
        /\ UNCHANGED <<dscr, wvr0, wcr0, watched, exception>>
    BY <1>5 DEF SetOff, debug_breakpt0_off
  <2>2. bcr0' \in Nat /\ bcr0' % 2 = 0
    BY <1>t, <2>1, BitWritten DEF DTypes, bit_clr, bit_is_on
  <2> QED BY <1>t, <2>1, <2>2 DEF DTypes, AskedHeld, WatchedHeld
<1> QED
  BY <1>1, <1>2, <1>3, <1>4, <1>5

\* A breakpoint is on because it was asked for, and its handler is in store.
LEMMA BreaksOnAsked ==
  ASSUME DInv, NEW a, NEW mode, Breaks(a, mode)
  PROVE  asked \in Wish /\ breakpt_handler0 = asked.handler /\ breakpt_handler0 # None
<1>1. bcr0 % 2 = 1
  <2>1. bcr0 \in Nat /\ bit_is_on(bcr0, 0)
    BY Zenon DEF DInv, DTypes, Breaks, Enabled
  <2> QED BY <2>1 DEF bit_is_on
<1> QED
  BY <1>1, WishKinds DEF DInv, DTypes, AskedHeld

\* The handlers tell a fault by the status and the entry it has just left.
LEMMA FaultsDebug ==
  DInv /\ (AnyBreakpointHit \/ OtherFetch \/ AnyWatchpointHit \/ AnyOtherAccess) => DInv'
<1> SUFFICES ASSUME DInv,
                    AnyBreakpointHit \/ OtherFetch \/ AnyWatchpointHit \/ AnyOtherAccess
             PROVE  /\ dscr' \in Nat /\ UNCHANGED <<bvr0, bcr0, wvr0, wcr0, handlers, wishes>>
                    /\ FaultsToldApart'
  BY DEF DInv, DTypes, AskedHeld, WatchedHeld, handlers, wishes
<1>t. dscr \in Nat
  BY DEF DInv, DTypes
<1>e. \A n \in 0..15 : Entry(n) => dscr' \in Nat /\ bits_get(dscr', 2, 5) = n
  BY <1>t, EntryWord DEF Entry
<1>1. CASE AnyBreakpointHit
  <2>1. PICK a \in Address, mode \in Mode : BreakpointHit(a, mode)
    BY <1>1 DEF AnyBreakpointHit
  <2>2. dscr' \in Nat /\ bits_get(dscr', 2, 5) = 1
    BY <1>e, <2>1 DEF BreakpointHit
  <2>3. was_debug_instfault(debug_event) /\ breakpt_handler0 # None /\ breakpt_handler0 = asked.handler
    BY <2>1, <2>2, BreaksOnAsked, EventStatus DEF BreakpointHit, was_debug_instfault
  <2>4. /\ taken' = [as |-> "breakpoint", handler |-> asked.handler]
        /\ fault' = [is |-> "breakpoint", handler |-> asked.handler]
        /\ UNCHANGED <<bvr0, bcr0, wvr0, wcr0, handlers, wishes>>
    BY <2>1, <2>3 DEF BreakpointHit, prefetch_abort_vector
  <2>5. FaultsToldApart'
    BY <2>4 DEF FaultsToldApart
  <2> QED BY <2>2, <2>4, <2>5
<1>2. CASE OtherFetch
  <2>1. PICK ifsr \in {debug_event, translation_section} :
          prefetch_abort_vector(ifsr) /\ ~was_debug_instfault(ifsr)
    <3>1. CASE Entry(3) /\ prefetch_abort_vector(debug_event)
      BY <1>e, <3>1 DEF was_debug_instfault
    <3>2. CASE prefetch_abort_vector(translation_section)
      BY <3>2, EventStatus DEF was_debug_instfault
    <3> QED BY <1>2, <3>1, <3>2 DEF OtherFetch
  <2>2. taken' = [as |-> "panic"] /\ UNCHANGED <<bvr0, bcr0, wvr0, wcr0, handlers, wishes>>
    BY <2>1 DEF prefetch_abort_vector
  <2>3. dscr' \in Nat /\ fault' \in {[is |-> "bkpt"], [is |-> "fetch"]}
    BY <1>2, <1>e, <1>t DEF OtherFetch
  <2>4. FaultsToldApart'
    BY <2>2, <2>3 DEF FaultsToldApart
  <2> QED BY <2>2, <2>3, <2>4
<1>3. CASE AnyWatchpointHit
  <2>1. PICK a \in Address, mode \in Mode, op \in Access : WatchpointHit(a, mode, op)
    BY <1>3 DEF AnyWatchpointHit
  <2>2. dscr' \in Nat /\ bits_get(dscr', 2, 5) = 2
    BY <1>e, <2>1 DEF WatchpointHit
  <2>3. was_debug_datafault(debug_event + WriteBit(op))
    <3>1. WriteBit(op) \in {0, 2^11} /\ debug_event + 0 = debug_event
      BY DEF WriteBit, debug_event
    <3> QED BY <2>2, <3>1, EventStatus DEF was_debug_datafault
  <2>4. /\ taken' = [as |-> "watchpoint"] /\ fault' = [is |-> "watchpoint"]
        /\ UNCHANGED <<bvr0, bcr0, wvr0, wcr0, handlers, wishes>>
    BY <2>1, <2>3 DEF WatchpointHit, data_abort
  <2>5. FaultsToldApart'
    BY <2>4 DEF FaultsToldApart
  <2> QED BY <2>2, <2>4, <2>5
<1>4. CASE AnyOtherAccess
  <2>1. PICK op \in Access, st \in reason_t \ {0, debug_event} : OtherAccess(op, st, 15)
    BY <1>4 DEF AnyOtherAccess
  <2> DEFINE dfsr == Dfsr(st, 15) + WriteBit(op)
  <2>2. /\ ~was_debugfault_r(dfsr)
        /\ datafault_from_ld(dfsr) <=> op = "load"
        /\ st < 16 => fault_reason(dfsr) = st
    BY FaultStatus, Zenon
  <2>3. datafault_from_ld(dfsr) = (op = "load")
    <3>1. datafault_from_ld(dfsr) \in BOOLEAN
      BY Zenon DEF datafault_from_ld
    <3> QED BY <2>2, <3>1, Zenon
  <2>4. /\ taken' = [as |-> "fault", reason |-> fault_reason(dfsr), load |-> datafault_from_ld(dfsr)]
        /\ fault' = [is |-> "fault", status |-> st, load |-> (op = "load")]
        /\ UNCHANGED <<dscr, bvr0, bcr0, wvr0, wcr0, handlers, wishes>>
    BY <2>1, <2>2, Zenon DEF OtherAccess, data_abort, was_debug_datafault
  <2> HIDE DEF dfsr
  <2>5. FaultsToldApart'
    <3>1. /\ fault'.is = "fault" /\ fault'.status = st /\ fault'.load = (op = "load")
          /\ taken'.as = "fault" /\ taken'.reason = fault_reason(dfsr)
          /\ taken'.load = datafault_from_ld(dfsr)
      BY <2>4, Zenon
    <3> QED BY <2>2, <2>3, <3>1, Zenon DEF FaultsToldApart
  <2> QED BY <1>t, <2>4, <2>5
<1> QED
  BY <1>1, <1>2, <1>3, <1>4

\* The fields of both control registers are those of the last wish, after any
\* calls of debug.c and any faults.
THEOREM DebugInvariant == RSpec => []DInv
<1>1. DInv /\ UNCHANGED dvars => DInv'
  BY DEF DInv, dvars, cp14, handlers, wishes, exception, DTypes, AskedHeld, WatchedHeld,
     FaultsToldApart
<1>2. DInv /\ DNext => DInv'
  BY SetsDebug, FaultsDebug DEF DNext
<1>3. DInv /\ [RNext]_<<debugs_p, vars, dvars>> => DInv'
  BY <1>1, <1>2 DEF RNext
<1> QED
  BY <1>3, InitDebug, PTL DEF RSpec

\* An armed register is one the processor acts on, in either mode.
LEMMA ArmedEnabled ==
  ASSUME NEW r, Armed(r), NEW mode \in Mode, Monitors
  PROVE  Enabled(r, mode) <=> ~bit_is_on(r, 14)
<1>1. bit_is_on(r, 0) /\ bit_is_on(r, 1) /\ bit_is_on(r, 2) /\ ~bit_is_on(r, 20)
  BY DEF Armed, bit_is_on
<1>2. bits_get(r, 5, 8) = 15
  BY DEF Armed, bits_get, bits_mask
<1>3. Privilege(r, mode)
  <2>1. bit_is_on(r, IF mode = "user" THEN 2 ELSE 1)
    <3>1. CASE mode = "user"
      BY <1>1, <3>1, Zenon
    <3>2. CASE mode # "user"
      BY <1>1, <3>2, Zenon
    <3> QED BY <3>1, <3>2
  <2> QED BY <2>1, Zenon DEF Privilege
<1> QED
  BY <1>1, <1>2, <1>3, Zenon DEF Enabled

LEMMA DisabledNever ==
  ASSUME NEW r \in Nat, r % 2 = 0, NEW mode
  PROVE  ~Enabled(r, mode)
<1>1. ~bit_is_on(r, 0)
  BY DEF bit_is_on
<1> QED BY <1>1, Zenon DEF Enabled

LEMMA BreaksAre ==
  ASSUME DInv, Monitors, NEW pc \in Address, NEW mode \in Mode
  PROVE  Breaks(pc, mode) <=>
           \/ asked.kind = "match" /\ pc = asked.addr
           \/ asked.kind = "mismatch" /\ pc # asked.addr /\ mode = "user"
<1>1. bcr0 \in Nat /\ asked \in {Off} \cup Wish
  BY DEF DInv, DTypes
<1>2. CASE asked = Off
  <2>1. bcr0 % 2 = 0
    BY <1>2 DEF DInv, AskedHeld
  <2>2. ~Breaks(pc, mode)
    BY <1>1, <2>1, DisabledNever, Zenon DEF Breaks
  <2> QED BY <1>2, <2>2, WishKinds
<1>3. CASE asked # Off
  <2>1. /\ Armed(bcr0) /\ (bcr0 \div 2^14) % 2 = 0
        /\ (bcr0 \div 2^21) % 4 = IF asked.kind = "match" THEN 0 ELSE 2
        /\ bvr0 = asked.addr
    BY <1>3 DEF DInv, AskedHeld
  <2>2. ~bit_is_on(bcr0, 14)
    BY <1>1, <2>1 DEF bit_is_on
  <2>3. Enabled(bcr0, mode)
    BY <2>1, <2>2, ArmedEnabled
  <2>4. bits_get(bcr0, 21, 22) = IF asked.kind = "match" THEN 0 ELSE 2
    BY <1>1, <2>1 DEF bits_get, bits_mask
  <2>5. asked.kind \in {"match", "mismatch"}
    BY <1>1, <1>3, WishKinds
  <2> QED BY <2>1, <2>3, <2>4, <2>5 DEF Breaks
<1> QED
  BY <1>2, <1>3

LEMMA WatchesAre ==
  ASSUME DInv, Monitors, ~bit_is_on(wcr0, 14),
         NEW a \in Address, NEW mode \in Mode, NEW op \in Access
  PROVE  Watches(a, mode, op) <=> a = watched
<1>1. wcr0 \in Nat /\ watched \in Address \cup {None}
  BY DEF DInv, DTypes
<1>2. CASE watched = None
  <2>1. wcr0 % 2 = 0
    BY <1>2 DEF DInv, WatchedHeld
  <2>2. ~Watches(a, mode, op)
    BY <1>1, <2>1, DisabledNever, Zenon DEF Watches
  <2> QED BY <1>2, <2>2, DebugAssumption
<1>3. CASE watched # None
  <2>1. Armed(wcr0) /\ (wcr0 \div 2^3) % 4 = 3 /\ wvr0 = watched
    BY <1>3 DEF DInv, WatchedHeld
  <2>2. Enabled(wcr0, mode)
    BY <2>1, ArmedEnabled
  <2>3. bit_is_on(wcr0, 3) /\ bit_is_on(wcr0, 4)
    BY <1>1, <2>1 DEF bit_is_on
  <2>4. bit_is_on(wcr0, IF op = "load" THEN 3 ELSE 4)
    <3>1. CASE op = "load"
      BY <2>3, <3>1, Zenon
    <3>2. CASE op # "load"
      BY <2>3, <3>2, Zenon
    <3> QED BY <3>1, <3>2
  <2> QED BY <2>1, <2>2, <2>4, Zenon DEF Watches
<1> QED
  BY <1>2, <1>3

\* In debug mode breakpoint 0 breaks on what it was last asked for and nothing
\* else, with the handler asked for, and watchpoint 0 watches what it was asked
\* for, whatever their registers held (debug.c).
THEOREM BreakpointsAsAsked == RSpec => []BreaksAsAsked
<1>1. DInv => BreaksAsAsked
  <2> SUFFICES ASSUME DInv, Monitors
               PROVE  /\ \A pc \in Address, mode \in Mode :
                           Breaks(pc, mode) <=>
                             \/ asked.kind = "match" /\ pc = asked.addr
                             \/ asked.kind = "mismatch" /\ pc # asked.addr /\ mode = "user"
                      /\ asked # Off => breakpt_handler0 = asked.handler
                      /\ ~bit_is_on(wcr0, 14) =>
                           \A a \in Address, mode \in Mode, op \in Access :
                             Watches(a, mode, op) <=> a = watched
    BY Zenon DEF BreaksAsAsked
  <2>1. asked # Off => breakpt_handler0 = asked.handler
    BY DEF DInv, AskedHeld
  <2> QED BY <2>1, BreaksAre, WatchesAre, Zenon
<1> QED
  BY <1>1, DebugInvariant, PTL

\* A fault is taken for what it was, whatever faults came before it
\* (prefetch_abort_vector, data_abort_vector, was_debug_datafault).
THEOREM FaultsApart == RSpec => []FaultsToldApart
BY DebugInvariant, PTL DEF DInv

-----------------------------------------------------------------------------
(* The domain register, bit by bit and field by field. *)

\* Domains whose range dom_perm_set accepts.
Below == {0, 1, 2, 3, 4, 5, 6, 7, 8, 9, 10, 11, 12, 13, 14}

LEMMA PowersOfFour == \A n \in Below : 4^(n + 1) = 4 * 4^n /\ 2^(n * 2) = 4^n
<1>1. /\ 4^(0 + 1) = 4 * 4^0 /\ 2^(0 * 2) = 4^0 /\ 4^(1 + 1) = 4 * 4^1 /\ 2^(1 * 2) = 4^1
      /\ 4^(2 + 1) = 4 * 4^2 /\ 2^(2 * 2) = 4^2 /\ 4^(3 + 1) = 4 * 4^3 /\ 2^(3 * 2) = 4^3
      /\ 4^(4 + 1) = 4 * 4^4 /\ 2^(4 * 2) = 4^4 /\ 4^(5 + 1) = 4 * 4^5 /\ 2^(5 * 2) = 4^5
      /\ 4^(6 + 1) = 4 * 4^6 /\ 2^(6 * 2) = 4^6 /\ 4^(7 + 1) = 4 * 4^7 /\ 2^(7 * 2) = 4^7
      /\ 4^(8 + 1) = 4 * 4^8 /\ 2^(8 * 2) = 4^8 /\ 4^(9 + 1) = 4 * 4^9 /\ 2^(9 * 2) = 4^9
      /\ 4^(10 + 1) = 4 * 4^10 /\ 2^(10 * 2) = 4^10 /\ 4^(11 + 1) = 4 * 4^11 /\ 2^(11 * 2) = 4^11
      /\ 4^(12 + 1) = 4 * 4^12 /\ 2^(12 * 2) = 4^12 /\ 4^(13 + 1) = 4 * 4^13 /\ 2^(13 * 2) = 4^13
      /\ 4^(14 + 1) = 4 * 4^14 /\ 2^(14 * 2) = 4^14
  OBVIOUS
<1> QED BY <1>1, Zenon DEF Below

LEMMA PowerNat == \A n \in Domain : 4^n \in Nat \ {0}
<1>1. /\ 4^0 \in Nat \ {0} /\ 4^1 \in Nat \ {0} /\ 4^2 \in Nat \ {0} /\ 4^3 \in Nat \ {0}
      /\ 4^4 \in Nat \ {0} /\ 4^5 \in Nat \ {0} /\ 4^6 \in Nat \ {0} /\ 4^7 \in Nat \ {0}
      /\ 4^8 \in Nat \ {0} /\ 4^9 \in Nat \ {0} /\ 4^10 \in Nat \ {0} /\ 4^11 \in Nat \ {0}
      /\ 4^12 \in Nat \ {0} /\ 4^13 \in Nat \ {0} /\ 4^14 \in Nat \ {0} /\ 4^15 \in Nat \ {0}
  OBVIOUS
<1>2. \A n \in Below \cup {15} : 4^n \in Nat \ {0}
  BY <1>1, Zenon DEF Below
<1>3. Domain = Below \cup {15}
  BY DEF Domain, Below
<1> QED
  BY <1>2, <1>3, Zenon

\* A sum of exponents is a product of powers, up to the last domain.
SplitsAt(g) == \A d \in Domain : d + g \in Domain => 4^(d + g) = 4^d * 4^g

LEMMA SplitNext ==
  ASSUME NEW g \in 0..14, SplitsAt(g)
  PROVE  SplitsAt(g + 1)
<1> SUFFICES ASSUME NEW d \in Domain, d + (g + 1) \in Domain
             PROVE  4^(d + (g + 1)) = 4^d * 4^(g + 1)
  BY DEF SplitsAt
<1>1. d + g \in Domain /\ d + g \in Below /\ g \in Below /\ g \in Domain
  BY DEF Domain, Below
<1>2. 4^(d + g) = 4^d * 4^g
  BY <1>1 DEF SplitsAt
<1>3. 4^((d + g) + 1) = 4 * 4^(d + g) /\ 4^(g + 1) = 4 * 4^g
  BY <1>1, PowersOfFour
<1>4. d + (g + 1) = (d + g) + 1
  BY DEF Domain
<1>5. 4^d \in Nat /\ 4^g \in Nat
  BY <1>1, PowerNat
<1> DEFINE a == 4^d
           b == 4^g
<1> HIDE DEF a, b
<1>6. 4 * (a * b) = a * (4 * b)
  BY <1>5 DEF a, b
<1> QED
  BY <1>2, <1>3, <1>4, <1>6, Zenon DEF a, b

LEMMA PowerSum == \A g \in Domain : SplitsAt(g)
<1>1. SplitsAt(0)
  <2>1. ASSUME NEW d \in Domain PROVE 4^(d + 0) = 4^d * 4^0
    <3>1. 4^0 = 1 /\ d + 0 = d
      BY DEF Domain
    <3>2. 4^d * 1 = 4^d
      BY PowerNat
    <3> QED BY <3>1, <3>2, Zenon
  <2> QED BY <2>1 DEF SplitsAt
<1>2. \A g \in 0..14 : SplitsAt(g) => SplitsAt(g + 1)
  BY SplitNext
<1> QED
  BY <1>1, <1>2 DEF Domain

\* Division, as the arithmetic of one quotient.
LEMMA Quotient ==
  ASSUME NEW a \in Nat, NEW d \in Nat \ {0}, NEW r \in 0..(d - 1)
  PROVE  (a * d + r) \div d = a
<1> DEFINE x == a * d + r
           q == x \div d
<1>1. x \in Nat /\ q \in Nat /\ q * d <= x /\ x < (q + 1) * d
  OBVIOUS
<1>2. q * d < (a + 1) * d /\ a * d < (q + 1) * d
  BY <1>1
<1> HIDE DEF q
<1>3. q < a + 1
  BY <1>1, <1>2
<1>4. a < q + 1
  BY <1>1, <1>2
<1> QED BY <1>1, <1>3, <1>4 DEF q

LEMMA Quotients ==
  ASSUME NEW x \in Nat, NEW p \in Nat \ {0}, NEW k \in Nat \ {0}
  PROVE  x \div (p * k) = (x \div p) \div k
<1> DEFINE b == x \div p
           c == x % p
           e == b \div k
           f == b % k
<1>1. b \in Nat /\ c \in 0..(p - 1) /\ x = b * p + c
  OBVIOUS
<1> HIDE DEF b, c
<1>2. e \in Nat /\ f \in 0..(k - 1) /\ b = e * k + f
  BY <1>1
<1> HIDE DEF e, f
<1>3. x = e * (p * k) + (f * p + c)
  BY <1>1, <1>2
<1>4. f * p + c \in 0..(p * k - 1)
  <2>1. f * p <= (k - 1) * p
    BY <1>2
  <2> QED BY <1>1, <1>2, <2>1
<1>5. p * k \in Nat \ {0}
  OBVIOUS
<1>6. x \div (p * k) = e
  BY <1>2, <1>3, <1>4, <1>5, Quotient
<1> QED BY <1>6 DEF e, b

\* The three bits at p replaced (bits_set, for dom_perm_set).
Rewrite(x, v, p) == x - ((x \div p) % 8) * p + v * p

\* A number with three bits at p rewritten is its upper part and its lower.
LEMMA Rewritten ==
  ASSUME NEW x \in Nat, NEW v \in {0, 1}, NEW p \in Nat \ {0}
  PROVE  LET y == x - ((x \div p) % 8) * p + v * p
             Y == (x \div p) - ((x \div p) % 8) + v
         IN  y \in Nat /\ Y \in Nat /\ y = Y * p + (x % p) /\ y \div p = Y
<1> DEFINE X == x \div p
           c == x % p
           m == X % 8
           y == x - ((x \div p) % 8) * p + v * p
           Y == (x \div p) - ((x \div p) % 8) + v
<1>1. X \in Nat /\ c \in 0..(p - 1) /\ x = X * p + c
  OBVIOUS
<1>2. Y = X - m + v /\ y = x - m * p + v * p
  BY Zenon
<1> HIDE DEF X, c, y, Y
<1>3. m \in Nat /\ m <= X
  BY <1>1
<1> HIDE DEF m
<1>4. Y \in Nat
  BY <1>1, <1>2, <1>3
<1>5. y = Y * p + c
  <2> DEFINE A == X * p
             M == m * p
             V == v * p
             B == Y * p
  <2>1. B = A - M + V /\ A \in Nat /\ M \in Nat /\ V \in Nat /\ B \in Nat
    BY <1>1, <1>2, <1>3, <1>4
  <2>2. x = A + c /\ y = x - M + V
    BY <1>1, <1>2, Zenon
  <2> HIDE DEF A, M, V, B
  <2>3. y = B + c
    BY <1>1, <2>1, <2>2
  <2> QED BY <2>3 DEF B
<1>6. y \div p = Y
  BY <1>1, <1>4, <1>5, Quotient
<1>7. y \in Nat
  BY <1>1, <1>4, <1>5
<1> QED BY <1>4, <1>5, <1>6, <1>7, Zenon DEF c, y, Y

\* The field at p is the permission, the field above loses its low bit, and
\* those further above and those below stay.
OneFieldOf(y, x, v, p) ==
  /\ (y \div p) % 4 = v
  /\ (y \div (p * 4)) % 4 = ((x \div (p * 4)) % 4) - (((x \div (p * 4)) % 4) % 2)
  /\ \A k \in Nat \ {0} : y \div (p * (16 * k)) = x \div (p * (16 * k))
  /\ \A q, j \in Nat \ {0} :
       p = q * (4 * j) => (y \div q) % 4 = (x \div q) % 4

LEMMA FieldsAround ==
  ASSUME NEW x \in Nat, NEW v \in {0, 1}, NEW p \in Nat \ {0}
  PROVE  OneFieldOf(Rewrite(x, v, p), x, v, p)
<1> DEFINE y == Rewrite(x, v, p)
<1> DEFINE X == x \div p
           Y == (x \div p) - ((x \div p) % 8) + v
           c == x % p
           h == X \div 8
           m == X % 8
<1>1. X \in Nat /\ c \in 0..(p - 1) /\ x = X * p + c
  OBVIOUS
<1>2. y \in Nat /\ Y \in Nat /\ y = Y * p + c /\ y \div p = Y
  BY Rewritten, Zenon DEF Rewrite
<1>y. Y = X - m + v
  BY Zenon
<1> HIDE DEF y, X, c, Y
<1>h. h \in Nat /\ m \in 0..7 /\ X = 8 * h + m
  BY <1>1
<1> HIDE DEF h, m
<1>3. Y = 8 * h + v
  BY <1>h, <1>y
<1>4. Y % 4 = v /\ Y \div 4 = 2 * h /\ X \div 4 = 2 * h + (m \div 4) /\ m \div 4 \in {0, 1}
  BY <1>h, <1>3
<1>5. Y \div 16 = X \div 16 /\ (Y \div 4) % 4 = ((X \div 4) % 4) - (((X \div 4) % 4) % 2)
  <2>1. Y \div 16 = h \div 2 /\ X \div 16 = h \div 2
    BY <1>h, <1>3
  <2> DEFINE b == m \div 4
  <2> HIDE DEF b
  <2>2. (2 * h) % 4 = ((2 * h + b) % 4) - (((2 * h + b) % 4) % 2)
    BY <1>h, <1>4 DEF b
  <2> QED BY <1>4, <2>1, <2>2 DEF b
<1>6. y \div (p * 4) = Y \div 4 /\ x \div (p * 4) = X \div 4
  <2>1. 4 \in Nat \ {0}
    OBVIOUS
  <2>2. y \div (p * 4) = (y \div p) \div 4 /\ x \div (p * 4) = (x \div p) \div 4
    BY <1>2, <2>1, Quotients
  <2> QED BY <1>2, <2>2, Zenon DEF X
<1>7. ASSUME NEW k \in Nat \ {0}
      PROVE  y \div (p * (16 * k)) = x \div (p * (16 * k))
  <2>1. 16 * k \in Nat \ {0} /\ 16 \in Nat \ {0}
    OBVIOUS
  <2>2. y \div (p * (16 * k)) = Y \div (16 * k) /\ x \div (p * (16 * k)) = X \div (16 * k)
    <3>1. /\ y \div (p * (16 * k)) = (y \div p) \div (16 * k)
          /\ x \div (p * (16 * k)) = (x \div p) \div (16 * k)
      BY <1>2, <2>1, Quotients
    <3> QED BY <1>2, <3>1, Zenon DEF X
  <2>3. Y \div (16 * k) = (Y \div 16) \div k /\ X \div (16 * k) = (X \div 16) \div k
    BY <1>1, <1>2, <2>1, Quotients, Zenon
  <2> QED BY <1>5, <2>2, <2>3, Zenon
<1>8. ASSUME NEW q \in Nat \ {0}, NEW j \in Nat \ {0}, p = q * (4 * j)
      PROVE  (y \div q) % 4 = (x \div q) % 4
  <2> DEFINE e == c \div q
             r == c % q
             t == 4 * (j * Y) + e
             u == 4 * (j * X) + e
  <2>1. e \in Nat /\ r \in 0..(q - 1) /\ c = e * q + r
    BY <1>1
  <2> HIDE DEF e, r
  <2>2. j * Y \in Nat /\ j * X \in Nat
    BY <1>1, <1>2
  <2>3. y = t * q + r /\ x = u * q + r
    BY <1>1, <1>2, <1>8, <2>1
  <2>4. t \in Nat /\ u \in Nat /\ t % 4 = e % 4 /\ u % 4 = e % 4
    BY <2>1, <2>2
  <2> HIDE DEF t, u
  <2>5. y \div q = t /\ x \div q = u
    BY <2>1, <2>3, <2>4, Quotient, Zenon
  <2> QED BY <2>4, <2>5
<1> QED
  BY <1>2, <1>4, <1>5, <1>6, <1>7, <1>8, Zenon DEF y, OneFieldOf

\* Setting one domain in the register sets it among its fields.
LEMMA FieldsSet ==
  ASSUME NEW x \in Nat, NEW v \in Permission, NEW dom \in Below
  PROVE  Fields(Rewrite(x, v, 4^dom)) = dom_perm_set(Fields(x), dom, v)
<1> DEFINE p == 4^dom
           y == Rewrite(x, v, p)
<1>d. /\ Below \subseteq Domain /\ v \in {0, 1} /\ dom \in Domain /\ dom + 1 \in Domain
      /\ dom + 1 # dom
  BY DEF Below, Domain, Permission, DOM_no_access, DOM_client
<1>p. p \in Nat \ {0} /\ 4^(dom + 1) = p * 4
  <2>1. p \in Nat \ {0} /\ 4^(dom + 1) = 4 * p
    BY <1>d, PowerNat, PowersOfFour
  <2> HIDE DEF p
  <2> QED BY <2>1
<1> HIDE DEF p
<1>f. OneFieldOf(y, x, v, p)
  BY <1>d, <1>p, FieldsAround
<1> HIDE DEF y
<1>1. (y \div 4^dom) % 4 = v
  BY <1>f, Zenon DEF OneFieldOf, p
<1>2. (y \div 4^(dom + 1)) % 4 = ((x \div 4^(dom + 1)) % 4) - (((x \div 4^(dom + 1)) % 4) % 2)
  BY <1>f, <1>p, Zenon DEF OneFieldOf
<1>3. ASSUME NEW d \in Domain, d > dom + 1
      PROVE  (y \div 4^d) % 4 = (x \div 4^d) % 4
  <2> DEFINE g == d - (dom + 2)
             k == 4^g
  <2>1. /\ g \in Domain /\ dom + (g + 2) = d /\ g + 2 \in Domain /\ 2 + g = g + 2
        /\ 2 \in Domain
    BY <1>3, <1>d DEF Domain
  <2> HIDE DEF g
  <2>2. 4^d = 4^dom * 4^(g + 2)
    BY <1>d, <2>1, PowerSum DEF SplitsAt
  <2>3. 4^(g + 2) = 4^2 * 4^g
    BY <2>1, PowerSum DEF SplitsAt
  <2>4. 4^2 = 16
    OBVIOUS
  <2>5. k \in Nat \ {0}
    BY <2>1, PowerNat
  <2>6. 4^d = p * (16 * k)
    BY <2>2, <2>3, <2>4, Zenon DEF p, k
  <2>7. y \div (p * (16 * k)) = x \div (p * (16 * k))
    BY <1>f, <2>5, Zenon DEF OneFieldOf
  <2> QED BY <2>6, <2>7, Zenon
<1>4. ASSUME NEW d \in Domain, d < dom
      PROVE  (y \div 4^d) % 4 = (x \div 4^d) % 4
  <2> DEFINE g == dom - d - 1
             q == 4^d
             j == 4^g
  <2>1. g \in Domain /\ g \in Below /\ d + (g + 1) = dom /\ g + 1 \in Domain
    BY <1>4, <1>d DEF Domain, Below
  <2> HIDE DEF g
  <2>2. 4^dom = 4^d * 4^(g + 1)
    BY <1>d, <2>1, PowerSum DEF SplitsAt
  <2>3. 4^(g + 1) = 4 * 4^g
    BY <2>1, PowersOfFour
  <2>4. q \in Nat \ {0} /\ j \in Nat \ {0}
    BY <2>1, PowerNat
  <2>5. p = q * (4 * j)
    BY <2>2, <2>3, Zenon DEF p, q, j
  <2>6. (y \div q) % 4 = (x \div q) % 4
    BY <1>f, <2>4, <2>5, Zenon DEF OneFieldOf
  <2> QED BY <2>6
<1> DEFINE F == Fields(x)
           G == dom_perm_set(F, dom, v)
<1>5. F \in [Domain -> Int]
  <2>1. \A d \in Domain : (x \div 4^d) % 4 \in Int
    <3> TAKE d \in Domain
    <3> DEFINE q == 4^d
    <3>1. q \in Nat \ {0}
      BY PowerNat
    <3> HIDE DEF q
    <3>2. (x \div q) % 4 \in Int
      BY <3>1
    <3> QED BY <3>2 DEF q
  <2> QED BY <2>1 DEF Fields
<1>6. /\ G = [F EXCEPT ![dom] = v, ![dom + 1] = F[dom + 1] - (F[dom + 1] % 2)]
  BY <1>d, <1>5 DEF dom_perm_set
<1>7. \A d \in Domain : F[d] = (x \div 4^d) % 4 /\ Fields(y)[d] = (y \div 4^d) % 4
  BY Zenon DEF Fields
<1>8. ASSUME NEW d \in Domain PROVE Fields(y)[d] = G[d]
  <2>0. F[d] = (x \div 4^d) % 4 /\ Fields(y)[d] = (y \div 4^d) % 4
    BY <1>7
  <2> HIDE DEF F, G
  <2>1. CASE d = dom
    <3>1. G[d] = v
      BY <1>d, <1>5, <1>6, <2>1
    <3>2. Fields(y)[d] = v
      BY <1>1, <2>0, <2>1, Zenon
    <3> QED BY <3>1, <3>2
  <2>2. CASE d = dom + 1
    <3>1. G[d] = F[d] - (F[d] % 2)
      BY <1>d, <1>5, <1>6, <2>2
    <3>2. Fields(y)[d] = F[d] - (F[d] % 2)
      BY <1>2, <2>0, <2>2, Zenon
    <3> QED BY <3>1, <3>2, Zenon
  <2>3. CASE d # dom /\ d # dom + 1
    <3>1. G[d] = F[d]
      BY <1>d, <1>5, <1>6, <2>3
    <3>2. (y \div 4^d) % 4 = (x \div 4^d) % 4
      <4>1. d < dom \/ d > dom + 1
        BY <1>d, <2>3 DEF Domain
      <4> QED BY <4>1, <1>3, <1>4, Zenon
    <3> QED BY <2>0, <3>1, <3>2, Zenon
  <2> QED BY <2>1, <2>2, <2>3
<1>9. Fields(y) = [d \in Domain |-> Fields(y)[d]]
  BY Zenon DEF Fields
<1>10. G = [d \in Domain |-> G[d]]
  <2> HIDE DEF F
  <2>1. G \in [Domain -> Int \cup {v}]
    BY <1>d, <1>5, <1>6
  <2> QED BY <2>1
<1>11. Fields(y) = G
  <2> HIDE DEF G
  <2> QED BY <1>8, <1>9, <1>10, Zenon
<1> QED BY <1>11, Zenon DEF G, F, y, p

\* The domain register written three bits at a time is one permission changed:
\* what dom_perm_set does on the word, bit by bit, is what Domains says of it,
\* and the field above never loses more than its low bit.
THEOREM SetDomainFields == RSpec => FieldsAgree
<1>1. ASSUME MInv, NEW dom \in Written, NEW perm \in Permission,
             dom_perm_set_bits(dom, perm), ~halted'
      PROVE  Fields(dacr') = dom_perm_set(Fields(dacr), dom, perm)
  <2>1. (dom + 1) * 2 < 32 /\ dacr' = bits_set(dacr, dom * 2, (dom + 1) * 2, perm)
    BY <1>1 DEF dom_perm_set_bits, write_domain_access_ctrl, Panic
  <2>2. dom \in Below
    BY <2>1, MmuAssumption DEF Domain, Below
  <2>3. dacr \in Nat
    BY <1>1 DEF MInv, TypeOK
  <2>4. dacr' = dacr - ((dacr \div 2^(dom * 2)) % 8) * 2^(dom * 2) + perm * 2^(dom * 2)
    <3>1. (dom + 1) * 2 - dom * 2 + 1 = 3
      BY <2>2 DEF Below
    <3>2. bits_mask(3) + 1 = 8
      BY DEF bits_mask
    <3>3. bits_mask((dom + 1) * 2 - dom * 2 + 1) + 1 = 8
      BY <3>1, <3>2, Zenon
    <3> QED BY <2>1, <3>3 DEF bits_set, bits_clr, bits_get
  <2>5. 2^(dom * 2) = 4^dom
    BY <2>2, PowersOfFour
  <2>6. dacr' = Rewrite(dacr, perm, 4^dom)
    BY <2>4, <2>5, Zenon DEF Rewrite
  <2> QED BY <2>2, <2>3, <2>6, FieldsSet, Zenon
<1>2. MInv /\ [RNext]_<<debugs_p, vars, dvars>> =>
        [\A dom \in Written, perm \in Permission :
           dom_perm_set_bits(dom, perm) /\ ~halted' =>
             Fields(dacr') = dom_perm_set(Fields(dacr), dom, perm)]_vars
  BY <1>1, Zenon
<1> QED
  BY <1>2, MmuInvariant, PTL DEF RSpec, FieldsAgree

-----------------------------------------------------------------------------
(* The kernel that runs over the table: what it maps and marks.            *)

\* The permissions the entry of a section may have, once it is mapped.
Guard(s) ==
  IF s = User THEN {read_write} ELSE IF s = Stack THEN {read_only}
  ELSE IF s = Gpio0 THEN {no_access, AP_no_access} ELSE {no_access}

DomainOf(s) == IF s = User THEN user_dom ELSE kernel_dom

AsMapped(s, w) ==
  w # NoEntry => /\ Decoded(w).section /\ Decoded(w).AP \in Guard(s)
                 /\ Decoded(w).domain = DomainOf(s)

\* The client domains of the kernel and of the process.
TwoClients == 4^kernel_dom + 4^user_dom

PixInv ==
  /\ pt \in [Section -> Nat] /\ tlb \in [Section -> Nat]
  /\ \A s \in Section : AsMapped(s, pt[s]) /\ AsMapped(s, tlb[s])
  /\ mapped \in 0..Len(Layout) /\ \A i \in 1..mapped : pt[Layout[i].sec] # NoEntry
  /\ dacr \in {0, TwoClients} /\ (dacr # 0 => mapped = Len(Layout))
  /\ IF at = "boot" THEN c1 \in {0, 2^23} ELSE c1 % 2 = 1 /\ dacr # 0
  /\ marking \in {NoMark} \cup [va : {Gpio0 * OneMB}, left : Nat, perm : {AP_no_access}]
  /\ at # "lost"

\* The numbers of the layout, evaluated.
LEMMA Numbers ==
  /\ User = 8 /\ Stack = 127 /\ Gpio0 = 512 /\ Gpio1 = 513 /\ Gpio2 = 514
  /\ Code = 0 /\ Table = 1 /\ IntStack = 143
  /\ no_access = 1 /\ read_only = 2 /\ read_write = 3
  /\ kernel_dom = 1 /\ user_dom = 2 /\ TwoClients = 20
<1>1. User = 8
  BY DEF User, LIBOS_CODE_START, mmu_sec_num, OneMB
<1>2. TwoClients = 20
  BY DEF TwoClients, kernel_dom, user_dom
<1> QED
  BY <1>1, <1>2 DEF Stack, Gpio0, Gpio1, Gpio2, Code, Table, IntStack, no_access, read_only,
     read_write, kernel_dom, user_dom

LEMMA Sections ==
  /\ Len(Layout) = 8
  /\ \A i \in 1..8 :
       /\ Layout[i].sec \in {Code, Table, Stack, User, Gpio0, Gpio1, Gpio2, IntStack}
       /\ Layout[i].AP \in Guard(Layout[i].sec) /\ Layout[i].AP \in 0..3
       /\ Layout[i].dom = DomainOf(Layout[i].sec) /\ Layout[i].dom \in Domain
       /\ Layout[i].nG \in {0, 1}
  /\ Layout[1].sec = Code /\ Layout[2].sec = Table /\ Layout[3].sec = Stack
  /\ Layout[4].sec = User /\ Layout[7].sec = Gpio2 /\ Layout[8].sec = IntStack
<1>1. Len(Layout) = 8
  BY DEF Layout
<1>2. /\ Layout[1] = [sec |-> Code, dom |-> kernel_dom, AP |-> no_access, nG |-> 0]
      /\ Layout[2] = [sec |-> Table, dom |-> kernel_dom, AP |-> no_access, nG |-> 0]
      /\ Layout[3] = [sec |-> Stack, dom |-> kernel_dom, AP |-> read_only, nG |-> 0]
      /\ Layout[4] = [sec |-> User, dom |-> user_dom, AP |-> read_write, nG |-> 1]
      /\ Layout[5] = [sec |-> Gpio0, dom |-> kernel_dom, AP |-> no_access, nG |-> 0]
      /\ Layout[6] = [sec |-> Gpio1, dom |-> kernel_dom, AP |-> no_access, nG |-> 0]
      /\ Layout[7] = [sec |-> Gpio2, dom |-> kernel_dom, AP |-> no_access, nG |-> 0]
      /\ Layout[8] = [sec |-> IntStack, dom |-> kernel_dom, AP |-> no_access, nG |-> 0]
  BY DEF Layout, StackPerm
<1>3. \A i \in 1..8 : i \in {1, 2, 3, 4, 5, 6, 7, 8}
  OBVIOUS
<1>4. /\ \A i \in {1, 2, 3, 5, 6, 7, 8} : Layout[i].dom = kernel_dom /\ Layout[i].nG = 0
      /\ \A i \in {1, 2, 5, 6, 7, 8} : Layout[i].AP = no_access
  BY <1>2
<1>5. \A i \in 1..8 : Layout[i].sec \in {Code, Table, Stack, User, Gpio0, Gpio1, Gpio2, IntStack}
  BY <1>2, <1>3
<1>6. \A i \in 1..8 : Layout[i].AP \in Guard(Layout[i].sec)
  BY <1>2, <1>3, Numbers DEF Guard
<1>7. \A i \in 1..8 : Layout[i].AP \in 0..3 /\ Layout[i].nG \in {0, 1}
  BY <1>2, <1>3, Numbers
<1>8. \A i \in 1..8 : Layout[i].dom = DomainOf(Layout[i].sec) /\ Layout[i].dom \in Domain
  BY <1>2, <1>3, Numbers DEF DomainOf, Domain
<1> QED
  BY <1>1, <1>2, <1>5, <1>6, <1>7, <1>8

LEMMA NoSection == ~Decoded(NoEntry).section
<1>1. NoEntry % 4 # 2
  BY DEF NoEntry
<1>2. Decoded(NoEntry).section = (NoEntry % 4 = 2 /\ (NoEntry \div 2^18) % 2 = 0)
  BY Zenon DEF Decoded
<1> QED BY <1>1, <1>2

\* A permission put in a word whose bit above is clear is the one it has
\* (fld_t.AP, APX).
LEMMA PermissionSet ==
  ASSUME NEW w \in Nat, NEW perm \in 0..3, Decoded(w).AP \in 0..3
  PROVE  Decoded(Put(fld_t.AP, w, perm)).AP = perm
<1> DEFINE x == Put(fld_t.AP, w, perm)
<1>1. x = w - ((w \div 2^10) % 4) * 2^10 + perm * 2^10
  BY DEF Put, fld_t, bits_get, bits_mask, bits_set, bits_clr
<1>2. (w \div 2^15) % 2 = 0
  BY DEF Decoded
<1> HIDE DEF x
<1>3. (x \div 2^10) % 4 = perm /\ (x \div 2^15) % 2 = (w \div 2^15) % 2
  BY <1>1
<1>4. Decoded(x).AP = perm
  BY <1>2, <1>3 DEF Decoded
<1> QED BY <1>4 DEF x

\* A permission of the section's is put in its entry, and the rest stays.
LEMMA Marked ==
  ASSUME NEW s, NEW w \in Nat, Decoded(w).section, Decoded(w).AP \in 0..3,
         Decoded(w).domain = DomainOf(s), NEW perm \in 0..3, perm \in Guard(s)
  PROVE  LET x == Put(fld_t.AP, w, perm) IN x \in Nat /\ x # NoEntry /\ AsMapped(s, x)
<1> DEFINE x == Put(fld_t.AP, w, perm)
<1>1. x \in Nat /\ [Decoded(x) EXCEPT !.AP = Decoded(w).AP] = Decoded(w)
  BY PermissionOnly
<1>2. Decoded(x).AP = perm
  BY PermissionSet
<1> HIDE DEF x
<1>3. Decoded(x).section = Decoded(w).section /\ Decoded(x).domain = Decoded(w).domain
  BY <1>1 DEF Decoded
<1>4. x # NoEntry
  BY <1>3, NoSection
<1> QED BY <1>1, <1>2, <1>3, <1>4, Zenon DEF AsMapped, x

LEMMA GuardBits == \A s \in Section : Guard(s) \subseteq 0..3
BY MmuAssumption, Numbers DEF Guard

\* No field of the domain register lets every access through, and those of the
\* kernel and of the process are clients.
LEMMA Clients ==
  \A d \in Domain : (TwoClients \div 4^d) % 4 # 3
<1>1. /\ (20 \div 4^0) % 4 # 3 /\ (20 \div 4^1) % 4 # 3 /\ (20 \div 4^2) % 4 # 3
      /\ (20 \div 4^3) % 4 # 3 /\ (20 \div 4^4) % 4 # 3 /\ (20 \div 4^5) % 4 # 3
      /\ (20 \div 4^6) % 4 # 3 /\ (20 \div 4^7) % 4 # 3 /\ (20 \div 4^8) % 4 # 3
      /\ (20 \div 4^9) % 4 # 3 /\ (20 \div 4^10) % 4 # 3 /\ (20 \div 4^11) % 4 # 3
      /\ (20 \div 4^12) % 4 # 3 /\ (20 \div 4^13) % 4 # 3 /\ (20 \div 4^14) % 4 # 3
      /\ (20 \div 4^15) % 4 # 3
  OBVIOUS
<1>2. \A d \in Below \cup {15} : (20 \div 4^d) % 4 # 3
  BY <1>1, Zenon DEF Below
<1>3. Domain = Below \cup {15}
  BY DEF Domain, Below
<1> QED
  BY <1>2, <1>3, Numbers, Zenon

-----------------------------------------------------------------------------
(* Every step of the kernel and of the process keeps it.                   *)

LEMMA InitPix == PInit => PixInv
<1> SUFFICES ASSUME PInit PROVE PixInv
  OBVIOUS
<1>1. pt = Empty /\ tlb = Empty /\ c1 = 0 /\ dacr = 0 /\ marking = NoMark /\ at = "boot" /\ mapped = 0
  BY DEF PInit, Init
<1>2. /\ pt \in [Section -> Nat] /\ tlb \in [Section -> Nat]
      /\ \A s \in Section : AsMapped(s, pt[s]) /\ AsMapped(s, tlb[s])
  BY <1>1 DEF Empty, NoEntry, AsMapped
<1> QED BY <1>1, <1>2, Sections DEF PixInv

\* Where only control goes on.
LEMMA QuietPix ==
  PixInv /\ UNCHANGED <<pt, tlb, c1, dacr, marking, mapped>> /\ at # "boot" /\ at' \notin {"boot", "lost"}
    => PixInv'
BY DEF PixInv, AsMapped, Decoded

LEMMA SamePix == PixInv /\ UNCHANGED <<pt, tlb, c1, dacr, marking, mapped, at>> => PixInv'
BY DEF PixInv, AsMapped, Decoded

LEMMA MapSectionPix ==
  ASSUME PixSection \subseteq Section, PixInv, at = "boot", mapped < Len(Layout),
         ~Refuses(pt, Layout[mapped + 1].sec * OneMB, Layout[mapped + 1].sec * OneMB),
         LET m == Layout[mapped + 1]  va == m.sec * OneMB IN
           pt' = [SetEntry(pt, va, va, m.dom, m.nG) EXCEPT ![m.sec] = Put(fld_t.AP, @, m.AP)],
         mapped' = mapped + 1, UNCHANGED <<tlb, c1, dacr, marking, at>>
  PROVE  PixInv'
<1> DEFINE m == Layout[mapped + 1]
           s == m.sec
           va == s * OneMB
           w == fld_set_base_addr(Fresh(m.dom, m.nG), va)
           x == Put(fld_t.AP, w, m.AP)
<1>0. /\ pt \in [Section -> Nat] /\ tlb \in [Section -> Nat]
      /\ \A r \in Section : AsMapped(r, pt[r]) /\ AsMapped(r, tlb[r])
      /\ mapped \in 0..8 /\ \A i \in 1..mapped : pt[Layout[i].sec] # NoEntry
  BY Sections DEF PixInv
<1>1. mapped + 1 \in 1..8
  BY <1>0, Sections
<1>2. /\ s \in Section /\ s \in Nat /\ m.AP \in Guard(s) /\ m.AP \in 0..3
      /\ m.dom = DomainOf(s) /\ m.dom \in Domain /\ m.nG \in {0, 1}
  <2>1. s \in {Code, Table, Stack, User, Gpio0, Gpio1, Gpio2, IntStack}
    BY <1>1, Sections
  <2>2. s \in PixSection
    BY <2>1 DEF PixSection
  <2> QED BY <1>1, <2>2, Sections, MmuAssumption
<1>3. pt' = [SetEntry(pt, va, va, m.dom, m.nG) EXCEPT ![s] = Put(fld_t.AP, @, m.AP)]
  OBVIOUS
<1> HIDE DEF m, s
<1>4. va \in Nat /\ mmu_sec_num(va) = s
  BY <1>2 DEF mmu_sec_num, OneMB
<1>5. SetEntry(pt, va, va, m.dom, m.nG) = [pt EXCEPT ![s] = w]
  BY <1>4 DEF SetEntry
<1>6. /\ w \in Nat /\ Decoded(w).section /\ Decoded(w).domain = m.dom /\ Decoded(w).AP = AP_rw
  <2>1. w \in Nat /\ Decoded(w) = [section |-> TRUE, base |-> mmu_sec_num(va), domain |-> m.dom,
                       AP |-> AP_rw, global |-> (m.nG = 0), executable |-> TRUE]
    BY <1>2, <1>4, NewWord
  <2> QED BY <2>1
<1>7. x \in Nat /\ x # NoEntry /\ AsMapped(s, x)
  BY <1>2, <1>6, Marked DEF AP_rw
<1>8. pt' = [pt EXCEPT ![s] = x]
  BY <1>0, <1>2, <1>3, <1>5
<1> HIDE DEF x, w
<1>9. pt' \in [Section -> Nat] /\ pt'[s] = x /\ \A r \in Section \ {s} : pt'[r] = pt[r]
  BY <1>0, <1>2, <1>7, <1>8
<1>10. \A r \in Section : AsMapped(r, pt'[r]) /\ AsMapped(r, tlb'[r])
  BY <1>0, <1>7, <1>9, Zenon
<1>11. \A i \in 1..mapped' : pt'[Layout[i].sec] # NoEntry
  <2> SUFFICES ASSUME NEW i \in 1..mapped' PROVE pt'[Layout[i].sec] # NoEntry
    OBVIOUS
  <2>1. CASE i = mapped + 1
    BY <1>7, <1>9, <2>1 DEF s, m
  <2>2. CASE i # mapped + 1
    <3>1. i \in 1..mapped /\ i \in 1..8
      BY <1>0, <1>1, <2>2
    <3>2. pt[Layout[i].sec] # NoEntry
      BY <1>0, <3>1
    <3>3. Layout[i].sec \in {Code, Table, Stack, User, Gpio0, Gpio1, Gpio2, IntStack}
      BY <3>1, Sections
    <3>4. Layout[i].sec \in Section
      BY <3>3 DEF PixSection
    <3> QED BY <1>7, <1>9, <3>2, <3>4
  <2> QED BY <2>1, <2>2
<1>12. mapped' \in 0..8 /\ (dacr' # 0 => mapped' = 8)
  BY <1>0, Sections DEF PixInv
<1>13. (\A r \in Section : AsMapped(r, pt[r]) /\ AsMapped(r, tlb[r]))'
  BY <1>10 DEF AsMapped, Decoded
<1> QED
  BY <1>9, <1>11, <1>12, <1>13, Sections DEF PixInv

\* The control register has one bit set while the machine boots, and one more
\* once the MMU is on.
LEMMA BootWords ==
  /\ Get(control_reg1.XP_pt, 2^23) = 1
  /\ Put(control_reg1.XP_pt, 0, 1) = 2^23
  /\ \A w \in {0, 2^23} : /\ Get(control_reg1.MMU_enabled, w) = 0
                          /\ Put(control_reg1.MMU_enabled, w, 1) = w + 1
                          /\ Get(control_reg1.MMU_enabled, w + 1) = 1
                          /\ (w + 1) % 2 = 1
<1>1. /\ Get(control_reg1.XP_pt, 2^23) = 1 /\ Put(control_reg1.XP_pt, 0, 1) = 2^23
  BY DEF Get, Put, control_reg1, bits_get, bits_set, bits_clr, bits_mask
<1>2. ASSUME NEW w \in {0, 2^23}
      PROVE  /\ Get(control_reg1.MMU_enabled, w) = 0
             /\ Put(control_reg1.MMU_enabled, w, 1) = w + 1
             /\ Get(control_reg1.MMU_enabled, w + 1) = 1
             /\ (w + 1) % 2 = 1
  BY DEF Get, Put, control_reg1, bits_get, bits_set, bits_clr, bits_mask
<1> QED BY <1>1, <1>2

LEMMA EmptyTlb ==
  Flush => tlb' \in [Section -> Nat] /\ \A s \in Section : tlb'[s] = NoEntry
BY DEF Flush, Empty, NoEntry

LEMMA BootPix == PixSection \subseteq Section /\ PixInv /\ Boot => PixInv'
<1> SUFFICES ASSUME PixSection \subseteq Section, PixInv, Boot PROVE PixInv'
  OBVIOUS
<1>0. at = "boot" /\ c1 \in {0, 2^23}
  BY DEF Boot, PixInv
<1>1. CASE Panic /\ UNCHANGED pix
  BY <1>1, SamePix DEF Panic, pix
<1>2. CASE Get(control_reg1.XP_pt, c1) = 0 /\ mmu_init /\ UNCHANGED pix
  <2>1. c1' = 2^23 /\ Flush /\ UNCHANGED <<pt, dacr, marking, mapped, at>>
    BY <1>0, <1>2, BootWords DEF mmu_init, pix
  <2> QED BY <1>0, <2>1, EmptyTlb DEF PixInv, AsMapped, Decoded
<1>3. CASE /\ mapped < Len(Layout)
           /\ LET m == Layout[mapped + 1]  va == m.sec * OneMB IN
              /\ ~Refuses(pt, va, va)
              /\ pt' = [SetEntry(pt, va, va, m.dom, m.nG) EXCEPT ![m.sec] = Put(fld_t.AP, @, m.AP)]
              /\ mapped' = mapped + 1
              /\ UNCHANGED <<tlb, c1, dacr, marking, at>>
  BY <1>0, <1>3, MapSectionPix
<1>4. CASE /\ mapped = Len(Layout) /\ dacr' = TwoClients
           /\ UNCHANGED <<pt, tlb, c1, marking, mapped, at>>
  BY <1>0, <1>4 DEF PixInv, AsMapped, Decoded
<1>5. CASE dacr # 0 /\ mmu_enable /\ Goto("launch")
  <2>1. ~mmu_is_enabled
    BY <1>0, BootWords DEF mmu_is_enabled
  <2>2. c1' = c1 + 1 /\ c1' % 2 = 1 /\ Flush /\ UNCHANGED <<pt, dacr, marking>>
    BY <1>0, <1>5, <2>1, BootWords DEF mmu_enable, mmu_enable_set
  <2>3. at' = "launch" /\ mapped' = mapped
    BY <1>5 DEF Goto
  <2> QED BY <1>5, <2>2, <2>3, EmptyTlb DEF PixInv, AsMapped, Decoded
<1>6. \/ Panic /\ UNCHANGED pix
      \/ Get(control_reg1.XP_pt, c1) = 0 /\ mmu_init /\ UNCHANGED pix
      \/ /\ mapped < Len(Layout)
         /\ LET m == Layout[mapped + 1]  va == m.sec * OneMB IN
            /\ ~Refuses(pt, va, va)
            /\ pt' = [SetEntry(pt, va, va, m.dom, m.nG) EXCEPT ![m.sec] = Put(fld_t.AP, @, m.AP)]
            /\ mapped' = mapped + 1
            /\ UNCHANGED <<tlb, c1, dacr, marking, at>>
      \/ /\ mapped = Len(Layout) /\ dacr' = TwoClients
         /\ UNCHANGED <<pt, tlb, c1, marking, mapped, at>>
      \/ dacr # 0 /\ mmu_enable /\ Goto("launch")
  BY DEF Boot, write_domain_access_ctrl, TwoClients, pix
<1> QED
  BY <1>1, <1>2, <1>3, <1>4, <1>5, <1>6

\* The kernel may use what it goes on from: the entry the hardware has cached,
\* or the table's, is the kernel's (map_addr_space).
KernelSections == {Code, Table, Stack, Gpio2, IntStack}

LEMMA KernelMay ==
  ASSUME PixSection \subseteq Section, PixInv, at # "boot", NEW S \in SUBSET KernelSections
  PROVE  MayUse(S)
<1> SUFFICES ASSUME NEW s \in S, NEW op \in Access PROVE FaultOf(s, "privileged", op) = 0
  BY DEF MayUse
<1>1. c1 % 2 = 1 /\ dacr = TwoClients /\ mapped = 8
  BY Sections DEF PixInv
<1>2. s \in KernelSections /\ s \in Section /\ s # User /\ s # Gpio0
  BY Numbers DEF KernelSections, PixSection
<1>3. pt[s] # NoEntry
  <2>1. \E i \in 1..8 : s = Layout[i].sec
    BY <1>2, Sections DEF KernelSections
  <2> QED BY <1>1, <2>1 DEF PixInv
<1>4. Cached(s) # NoEntry /\ AsMapped(s, Cached(s))
  <2>1. AsMapped(s, pt[s]) /\ AsMapped(s, tlb[s])
    BY <1>2 DEF PixInv
  <2>2. CASE tlb[s] # NoEntry
    BY <2>1, <2>2, Zenon DEF Cached
  <2>3. CASE tlb[s] = NoEntry
    BY <1>3, <2>1, <2>3, Zenon DEF Cached
  <2> QED BY <2>2, <2>3
<1> DEFINE e == Decoded(Cached(s))
<1>5. e.section /\ e.AP \in {1, 2} /\ e.domain = kernel_dom
  BY <1>2, <1>4, Numbers DEF AsMapped, Guard, DomainOf
<1> HIDE DEF e
<1>6. (dacr \div 4^e.domain) % 4 = 1
  <2>1. (20 \div 4^1) % 4 = 1
    OBVIOUS
  <2> QED BY <1>1, <1>5, <2>1, Numbers, Zenon
<1>7. Allowed(e, "privileged", op)
  BY <1>5 DEF Allowed
<1> DEFINE p == (dacr \div 4^e.domain) % 4
<1>8. FaultOf(s, "privileged", op) =
        IF c1 % 2 = 0 THEN 0 ELSE IF ~e.section THEN translation_section
        ELSE IF p \in {0, 2} THEN domain_section
        ELSE IF p = 3 \/ Allowed(e, "privileged", op) THEN 0 ELSE permission_section
  BY Zenon DEF FaultOf, e
<1>9. p \notin {0, 2}
  BY <1>6
<1> HIDE DEF p
<1> QED BY <1>1, <1>5, <1>7, <1>8, <1>9

\* So no handler is lost on its way (Needs).
LEMMA Needed ==
  ASSUME PixSection \subseteq Section, PixInv, at # "boot",
         NEW S \in SUBSET KernelSections, NEW next, Needs(S, next)
  PROVE  next
BY KernelMay DEF Needs

LEMMA PrintSections ==
  /\ KernelPrints \subseteq KernelSections /\ AbortPrints \subseteq KernelSections
  /\ {Code, Stack} \subseteq KernelSections /\ {Code, IntStack} \subseteq KernelSections
  /\ AbortPrints \cup {Table} \subseteq KernelSections
BY DEF KernelPrints, AbortPrints, KernelSections

LEMMA LaunchPix == PixSection \subseteq Section /\ PixInv /\ Launch => PixInv'
<1> SUFFICES ASSUME PixSection \subseteq Section, PixInv, Launch PROVE PixInv'
  OBVIOUS
<1>1. at = "launch" /\ Needs({Code, Stack}, Goto("user") /\ UNCHANGED mmu)
  BY DEF Launch
<1>2. MayUse({Code, Stack})
  BY <1>1, KernelMay, PrintSections
<1>3. Goto("user") /\ UNCHANGED mmu
  BY <1>1, <1>2 DEF Needs
<1> QED BY <1>1, <1>3, QuietPix DEF Goto, mmu

LEMMA ProcessPix == PixInv /\ ProcessStep => PixInv'
<1> SUFFICES ASSUME PixInv, ProcessStep PROVE PixInv'
  OBVIOUS
<1>1. at = "user" /\ UNCHANGED <<mmu, mapped>> /\ at' \in {"user", "pabort", "swi", "dabort"}
  <2>1. CASE PrefetchAbort
    BY <2>1 DEF PrefetchAbort, Goto
  <2>2. CASE Enter
    BY <2>2 DEF Enter, Fetched
  <2>3. ASSUME NEW i, Execute(i)
        PROVE  at = "user" /\ UNCHANGED <<mmu, mapped>> /\ at' \in {"user", "pabort", "swi", "dabort"}
    BY <2>3 DEF Execute, Fetched
  <2>4. CASE ExecuteNext
    BY <2>3, <2>4 DEF ExecuteNext
  <2>5. CASE ExecuteAny
    BY <2>3, <2>5 DEF ExecuteAny
  <2>6. CASE Jump
    BY <2>6 DEF Jump, Fetched
  <2> QED BY <2>1, <2>2, <2>4, <2>5, <2>6 DEF ProcessStep
<1> QED BY <1>1, QuietPix DEF mmu

\* What the hardware caches is what the table says, or what it had.
LEMMA CachePix == PixSection \subseteq Section /\ PixInv /\ Cache => PixInv'
<1> SUFFICES ASSUME PixSection \subseteq Section, PixInv, Cache PROVE PixInv'
  OBVIOUS
<1>1. PICK s \in {User, Gpio0, Gpio2} : Kept(s)
  BY DEF Cache
<1>2. UNCHANGED <<pt, c1, dacr, marking, mapped, at>>
  BY DEF Cache, pix
<1>3. /\ s \in Section /\ pt \in [Section -> Nat] /\ tlb \in [Section -> Nat]
      /\ \A r \in Section : AsMapped(r, pt[r]) /\ AsMapped(r, tlb[r])
  BY DEF PixInv, PixSection
<1>4. tlb' \in [Section -> Nat] /\ \A r \in Section : tlb'[r] \in {tlb[r], pt[r], NoEntry}
  BY <1>1, <1>3 DEF Kept, Cached, NoEntry
<1>5. \A r \in Section : AsMapped(r, tlb'[r])
  <2>1. \A r \in Section : AsMapped(r, NoEntry)
    BY DEF AsMapped
  <2> QED BY <1>3, <1>4, <2>1, Zenon
<1> QED BY <1>2, <1>3, <1>4, <1>5 DEF PixInv, AsMapped, Decoded

LEMMA CallPix == PixSection \subseteq Section /\ PixInv /\ (do_syscall \/ data_abort_vector) => PixInv'
<1> SUFFICES ASSUME PixSection \subseteq Section, PixInv, do_syscall \/ data_abort_vector
             PROVE  PixInv'
  OBVIOUS
<1>1. at \in {"swi", "dabort"}
  BY DEF do_syscall, data_abort_vector
<1>2. MayUse({Code, Stack}) /\ MayUse(KernelPrints) /\ MayUse(AbortPrints)
  BY <1>1, KernelMay, PrintSections
<1>3. UNCHANGED <<pt, tlb, c1, dacr, marking, mapped>> /\ at' \in {"user", "off"}
  BY <1>2 DEF do_syscall, data_abort_vector, Needs, Goto, mmu, Panic
<1> QED BY <1>1, <1>3, QuietPix

\* The process is given the domain it has.
LEMMA OpenPix == PixSection \subseteq Section /\ PixInv /\ PrefetchAbortOpen => PixInv'
<1> SUFFICES ASSUME PixSection \subseteq Section, PixInv, PrefetchAbortOpen PROVE PixInv'
  OBVIOUS
<1>1. at = "pabort"
  BY DEF PrefetchAbortOpen
<1>2. MayUse({Code, IntStack}) /\ MayUse(AbortPrints)
  BY <1>1, KernelMay, PrintSections
<1>3. CASE user_init
  <2>1. Goto("user") /\ UNCHANGED mmu
    BY <1>2, <1>3 DEF PrefetchAbortOpen, Needs
  <2> QED BY <1>1, <2>1, QuietPix DEF Goto, mmu
<1>4. CASE ~user_init
  <2>1. dom_perm_set_bits(user_dom, DOM_client) /\ Goto("opened")
    BY <1>2, <1>4 DEF PrefetchAbortOpen, Needs
  <2>2. dacr = 20 /\ bits_set(20, 4, 6, 1) = 20
    BY <1>1, Numbers DEF PixInv, bits_set, bits_clr, bits_get, bits_mask
  <2>3. dacr' = dacr /\ UNCHANGED <<pt, tlb, c1, marking>>
    BY <2>1, <2>2, Numbers DEF dom_perm_set_bits, write_domain_access_ctrl, DOM_client, Panic
  <2> QED BY <1>1, <2>1, <2>3, QuietPix DEF Goto
<1> QED BY <1>3, <1>4

\* The section marked is the even one, whichever was meant (mmu_sec_bits_only).
LEMMA GpioMark ==
  ASSUME NEW s \in {Gpio0, Gpio1}
  PROVE  mmu_sec_bits_only(s * OneMB) = Gpio0 * OneMB
BY DEF Gpio0, Gpio1, OneMB, mmu_sec_bits_only

LEMMA ClosePix ==
  PixSection \subseteq Section /\ PixInv /\ (PrefetchAbortClose \/ PrefetchAbortCloseOdd) => PixInv'
<1> SUFFICES ASSUME PixSection \subseteq Section, PixInv,
                    PrefetchAbortClose \/ PrefetchAbortCloseOdd
             PROVE  PixInv'
  OBVIOUS
<1>1. PICK from \in {"opened", "marked"}, to \in {"marked", "closed"}, s \in {Gpio0, Gpio1} :
        MarkGpio(from, to, s)
  BY DEF PrefetchAbortClose, PrefetchAbortCloseOdd
<1>2. at \in {"opened", "marked"}
  BY <1>1 DEF MarkGpio
<1>3. MayUse(AbortPrints \cup {Table})
  BY <1>2, KernelMay, PrintSections
<1>4. mmu_mark_sec_ap_perm(s * OneMB, 1, AP_no_access) /\ Goto(to)
  BY <1>1, <1>3 DEF MarkGpio, Needs
<1>5. /\ marking' = [va |-> Gpio0 * OneMB, left |-> 1, perm |-> AP_no_access]
      /\ UNCHANGED <<pt, tlb, c1, dacr, mapped>> /\ at' = to
  BY <1>4, GpioMark DEF mmu_mark_sec_ap_perm, Goto
<1> QED
  BY <1>2, <1>5 DEF PixInv, AsMapped, Decoded

LEMMA MarkPix == PixSection \subseteq Section /\ PixInv /\ KernelMarks => PixInv'
<1> SUFFICES ASSUME PixSection \subseteq Section, PixInv, KernelMarks PROVE PixInv'
  OBVIOUS
<1>0. at \in {"marked", "closed"} /\ UNCHANGED <<mapped, at>> /\ Gpio0 \in Section
  BY DEF KernelMarks, pix, PixSection
<1>1. CASE MarkEntry
  <2>1. /\ marking.va = Gpio0 * OneMB /\ marking.left \in Nat /\ marking.left > 0
        /\ marking.perm = AP_no_access
        /\ marking \in [va : {Gpio0 * OneMB}, left : Nat, perm : {AP_no_access}]
    BY <1>1 DEF PixInv, MarkEntry
  <2>2. mmu_sec_num(marking.va) = Gpio0
    BY <2>1 DEF mmu_sec_num, Gpio0, OneMB
  <2>3. CASE Panic
    BY <1>0, <2>3, SamePix DEF Panic
  <2>4. CASE ~Panic
    <3> DEFINE w == pt[Gpio0]
               x == Put(fld_t.AP, w, AP_no_access)
    <3>1. /\ Get(fld_t.tag, w) # 0
          /\ pt' = [pt EXCEPT ![Gpio0] = x]
          /\ marking' = [marking EXCEPT !.left = @ - 1]
          /\ UNCHANGED <<tlb, c1, dacr>>
      BY <1>1, <2>1, <2>2, <2>4 DEF MarkEntry
    <3>2. w \in Nat /\ w # NoEntry /\ AsMapped(Gpio0, w)
      <4>1. w \in Nat /\ AsMapped(Gpio0, w)
        BY <1>0 DEF PixInv
      <4> HIDE DEF w
      <4>2. w # NoEntry
        BY <3>1, <4>1, FieldsRead DEF NoEntry
      <4> QED BY <4>1, <4>2
    <3>3. Decoded(w).section /\ Decoded(w).AP \in 0..3 /\ Decoded(w).domain = DomainOf(Gpio0)
      BY <1>0, <3>2, GuardBits, Zenon DEF AsMapped
    <3>4. AP_no_access \in 0..3 /\ AP_no_access \in Guard(Gpio0)
      BY MmuAssumption, Numbers DEF Guard
    <3>5. x \in Nat /\ x # NoEntry /\ AsMapped(Gpio0, x)
      BY <3>2, <3>3, <3>4, Marked
    <3> HIDE DEF x, w
    <3>6. pt' \in [Section -> Nat] /\ pt'[Gpio0] = x /\ \A r \in Section \ {Gpio0} : pt'[r] = pt[r]
      BY <1>0, <3>1, <3>5 DEF PixInv
    <3>7. \A r \in Section : AsMapped(r, pt'[r]) /\ AsMapped(r, tlb'[r])
      BY <3>1, <3>5, <3>6, Zenon DEF PixInv
    <3>8. \A i \in 1..mapped' : pt'[Layout[i].sec] # NoEntry
      <4> SUFFICES ASSUME NEW i \in 1..mapped PROVE pt'[Layout[i].sec] # NoEntry
        BY <1>0
      <4>1. i \in 1..8 /\ pt[Layout[i].sec] # NoEntry
        BY Sections DEF PixInv
      <4>2. Layout[i].sec \in {Code, Table, Stack, User, Gpio0, Gpio1, Gpio2, IntStack}
        BY <4>1, Sections
      <4>3. Layout[i].sec \in Section
        BY <4>2 DEF PixSection
      <4> QED BY <3>5, <3>6, <4>1, <4>3
    <3>9. marking' \in [va : {Gpio0 * OneMB}, left : Nat, perm : {AP_no_access}]
      BY <2>1, <3>1
    <3> QED
      BY <1>0, <3>1, <3>6, <3>7, <3>8, <3>9 DEF PixInv, AsMapped, Decoded
  <2> QED BY <2>3, <2>4
<1>2. CASE our_mmu_sync_pte_mods
  <2>1. marking' = NoMark /\ Flush /\ UNCHANGED <<pt, c1, dacr>>
    BY <1>2 DEF our_mmu_sync_pte_mods
  <2> QED BY <1>0, <2>1, EmptyTlb DEF PixInv, AsMapped, Decoded
<1> QED
  BY <1>1, <1>2 DEF KernelMarks

LEMMA ReturnPix == PixSection \subseteq Section /\ PixInv /\ PrefetchAbortReturn => PixInv'
<1> SUFFICES ASSUME PixSection \subseteq Section, PixInv, PrefetchAbortReturn PROVE PixInv'
  OBVIOUS
<1>1. at = "closed"
  BY DEF PrefetchAbortReturn
<1>2. MayUse(AbortPrints)
  BY <1>1, KernelMay, PrintSections
<1>3. at' = "user" /\ UNCHANGED <<mmu, mapped>>
  BY <1>2 DEF PrefetchAbortReturn, Needs
<1> QED BY <1>1, <1>3, QuietPix DEF mmu

\* Whenever the table has the sections of map_addr_space.
THEOREM PixInvariant == PixSection \subseteq Section => (PSpec => []PixInv)
<1> SUFFICES ASSUME PixSection \subseteq Section PROVE PSpec => []PixInv
  OBVIOUS
<1>1. PixInv /\ [PNext]_pvars => PixInv'
  <2> SUFFICES ASSUME PixInv, [PNext]_pvars PROVE PixInv'
    OBVIOUS
  <2>1. CASE UNCHANGED pvars
    BY <2>1, SamePix DEF pvars, mmu, pix
  <2>2. CASE KernelStep
    BY <2>2, BootPix, LaunchPix, CallPix, OpenPix, ClosePix, MarkPix, ReturnPix DEF KernelStep
  <2>3. CASE ProcessStep
    BY <2>3, ProcessPix
  <2>4. CASE Cache
    BY <2>4, CachePix
  <2> QED BY <2>1, <2>2, <2>3, <2>4 DEF PNext, Finished
<1> QED
  BY <1>1, InitPix, PTL DEF PSpec

\* Whatever the program does, it can store to its own section only, and load from
\* that and the stack, from the table or from what is cached of it
\* (map_addr_space, the marks of prefetch_abort_vector).
THEOREM ProcessConfined == PixSection \subseteq Section => (PSpec => []Confined)
<1> SUFFICES ASSUME PixSection \subseteq Section PROVE PSpec => []Confined
  OBVIOUS
<1>1. ASSUME PixInv, at = "user", NEW s \in PixSection, NEW op \in Access,
             FaultOf(s, "user", op) = 0
      PROVE  s = User \/ (s = Stack /\ op = "load")
  <2> DEFINE e == Decoded(Cached(s))
             p == (dacr \div 4^e.domain) % 4
  <2>1. c1 % 2 = 1 /\ dacr = TwoClients
    BY <1>1 DEF PixInv
  <2>2. Cached(s) \in Nat /\ AsMapped(s, Cached(s))
    <3>1. /\ s \in Section /\ AsMapped(s, pt[s]) /\ AsMapped(s, tlb[s])
          /\ pt[s] \in Nat /\ tlb[s] \in Nat
      BY <1>1 DEF PixInv
    <3>2. Cached(s) \in {pt[s], tlb[s]}
      BY Zenon DEF Cached
    <3> QED BY <3>1, <3>2, Zenon
  <2>3. e.domain \in Domain
    <3> DEFINE w == Cached(s)
    <3>1. (w \div 2^5) % 16 \in Domain
      <4> HIDE DEF w
      <4>1. w \in Nat
        BY <2>2 DEF w
      <4> QED BY <4>1 DEF Domain
    <3>2. e.domain = (w \div 2^5) % 16
      BY DEF Decoded
    <3> QED BY <3>1, <3>2, Zenon
  <2>4. p # 3
    BY <2>1, <2>3, Clients, Zenon
  <2>5. FaultOf(s, "user", op) =
          IF c1 % 2 = 0 THEN 0 ELSE IF ~e.section THEN translation_section
          ELSE IF p \in {0, 2} THEN domain_section
          ELSE IF p = 3 \/ Allowed(e, "user", op) THEN 0 ELSE permission_section
    BY Zenon DEF FaultOf
  <2>6. e.section /\ Allowed(e, "user", op)
    <3> HIDE DEF e, p
    <3> QED BY <1>1, <2>1, <2>4, <2>5 DEF translation_section, domain_section, permission_section
  <2>7. Cached(s) # NoEntry
    BY <2>6, NoSection
  <2>8. e.AP \in Guard(s)
    BY <2>2, <2>7, Zenon DEF AsMapped
  <2> HIDE DEF e
  <2> QED BY <2>6, <2>8, MmuAssumption, Numbers DEF Allowed, Guard
<1>2. PixInv => Confined
  BY <1>1 DEF Confined, Access
<1>3. PSpec => []PixInv
  BY PixInvariant
<1> QED
  BY <1>2, <1>3, PTL

\* The kernel is never refused its own code, stacks, page table or printing: no
\* handler faults (map_addr_space, do_syscall, the abort vectors).
THEOREM KernelNeverLost == PixSection \subseteq Section => (PSpec => [](at # "lost"))
<1> SUFFICES ASSUME PixSection \subseteq Section PROVE PSpec => [](at # "lost")
  OBVIOUS
<1>1. PixInv => at # "lost"
  BY DEF PixInv
<1>2. PSpec => []PixInv
  BY PixInvariant
<1> QED
  BY <1>1, <1>2, PTL
=============================================================================
