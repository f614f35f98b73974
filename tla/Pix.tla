-------------------------------- MODULE Pix ---------------------------------
(***************************************************************************)
(* pix: the kernel that boots, maps the one address space, drops to user   *)
(* mode and serves one process (pix/pix.c, interrupt-asm.S), over the      *)
(* memory management unit of module Mmu; and the process side, libos and   *)
(* the programs of labs/20-user-process, or any other program.             *)
(*                                                                         *)
(* External (libpi, assembly): the addresses of the two stacks and of the  *)
(* GPIO, printk over the GPIO, clean_reboot, panic.                        *)
(***************************************************************************)
EXTENDS Mmu, Sequences

VARIABLES
  at,         \* where control is
  mapped,     \* how many of the sections of map_addr_space are mapped
  upc,        \* the section the process executes in
  user_init,  \* the static of prefetch_abort_vector
  call,       \* the system call of the last swi: [num, arg]
  program,    \* which program the process is
  ran,        \* how many of its instructions it has executed
  code        \* the exit code printed, or NoCode

mmu == <<pt, tlb, c1, dacr, marking, status, halted>>
pix == <<at, mapped, upc, user_init, call, program, ran, code>>
pvars == <<mmu, pix>>

-----------------------------------------------------------------------------
kernel_dom == 1
user_dom == 2
no_access == 1     \* user_perm_t: bits AP
read_only == 2
read_write == 3

\* Sections by their number, the upper bits of their address.
Code == 0
Table == 1
LIBOS_CODE_START == 8 * OneMB
User == mmu_sec_num(LIBOS_CODE_START)
Stack == 127
IntStack == 143
Gpio0 == 512
Gpio1 == 513
Gpio2 == 514
Unmapped == 768
PixSection == {Code, Table, User, Stack, IntStack, Gpio0, Gpio1, Gpio2, Unmapped}

\* A slip: the stack, which holds the last instructions before the process,
\* is the kernel's alone.
StackPermKernel == no_access

\* A slip: the process may write the stack as well.
StackPermAll == read_write

\* The process may fetch the instructions it is entered by.
StackPerm == read_only

\* What map_addr_space maps, each section at its own address.
Layout ==
  << [sec |-> Code, dom |-> kernel_dom, AP |-> no_access, nG |-> 0],
     [sec |-> Table, dom |-> kernel_dom, AP |-> no_access, nG |-> 0],
     [sec |-> Stack, dom |-> kernel_dom, AP |-> StackPerm, nG |-> 0],
     [sec |-> User, dom |-> user_dom, AP |-> read_write, nG |-> 1],
     [sec |-> Gpio0, dom |-> kernel_dom, AP |-> no_access, nG |-> 0],
     [sec |-> Gpio1, dom |-> kernel_dom, AP |-> no_access, nG |-> 0],
     [sec |-> Gpio2, dom |-> kernel_dom, AP |-> no_access, nG |-> 0],
     [sec |-> IntStack, dom |-> kernel_dom, AP |-> no_access, nG |-> 0] >>

\* System calls by number; those the table has no function for are its holes.
SYS_EXIT == 2
SYS_PUTC == 3
SYS_LAST == 7
Syscall == 0..(SYS_LAST + 1)

NoCode == -1

-----------------------------------------------------------------------------
(* Programs: what notmain does, and the exit that libos adds after it.      *)

Store(s) == [do |-> "store", sec |-> s]
Load(s) == [do |-> "load", sec |-> s]

\* syscall saves its registers, the return address too, and takes them back.
LibosStack == User
syscall(num, arg) ==
  <<Store(LibosStack), [do |-> "swi", num |-> num, arg |-> arg], Load(LibosStack)>>
Putc == syscall(SYS_PUTC, 0)
Exit == syscall(SYS_EXIT, 0)

\* _start sets the stack at nine megabytes, growing down in the section of the
\* code, and _cstart clears the bss.
_cstart == <<Store(User)>>

\* A slip: nothing exits after notmain.
LibosFallsOff(notmain) == _cstart \o notmain

\* After notmain comes clean_reboot, which is sys_exit(0).
Libos(notmain) == _cstart \o notmain \o Exit

\* PUT32 runs on into GET32.
hello == Libos(Putc \o Putc)
crash == Libos(Putc \o <<Store(Unmapped)>> \o Putc)
ap_fault_read == Libos(Putc \o <<Load(Gpio0)>> \o Putc)
ap_fault_write == Libos(Putc \o <<Store(Gpio0), Load(Gpio0)>> \o Putc)
null_fault == Libos(Putc \o <<Store(Code), Load(Code)>> \o Putc)

Any == <<>>
Programs == {hello, crash, ap_fault_read, ap_fault_write, null_fault, Any}
Faulty == {crash, ap_fault_read, ap_fault_write, null_fault}

PTypeOK ==
  /\ TypeOK
  /\ at \in {"boot", "launch", "user", "swi", "pabort", "opened", "marked", "closed", "dabort", "off", "lost"}
  /\ mapped \in 0..Len(Layout) /\ upc \in PixSection /\ user_init \in BOOLEAN
  /\ call \in [num : Syscall, arg : 0..1] /\ program \in Programs
  /\ ran \in 0..12 /\ code \in {NoCode, 0, 1}

PInit ==
  /\ Init
  /\ at = "boot" /\ mapped = 0 /\ upc = Stack /\ user_init = FALSE
  /\ call = [num |-> 0, arg |-> 0] /\ program \in Programs /\ ran = 0 /\ code = NoCode

-----------------------------------------------------------------------------
Goto(place) == at' = place /\ UNCHANGED <<mapped, upc, user_init, call, program, ran, code>>

(* Boot: the program is copied to where it is linked, and mapped.           *)

Boot ==
  /\ at = "boot"
  /\ \/ mapped = 0 /\ Get(control_reg1.XP_pt, c1) = 0 /\ mmu_init /\ UNCHANGED pix
     \/ /\ Get(control_reg1.XP_pt, c1) = 1 /\ mapped < Len(Layout)
        /\ LET m == Layout[mapped + 1]  va == m.sec * OneMB IN
           IF Refuses(pt, va, va) THEN Panic /\ UNCHANGED pix
           ELSE /\ pt' = [SetEntry(pt, va, va, m.dom, m.nG) EXCEPT ![m.sec] = Put(fld_t.AP, @, m.AP)]
                /\ mapped' = mapped + 1
                /\ UNCHANGED <<tlb, c1, dacr, marking, status, halted>>
                /\ UNCHANGED <<at, upc, user_init, call, program, ran, code>>
     \/ /\ mapped = Len(Layout) /\ dacr = 0
        /\ ProcidFits(5134, 1)
        /\ write_domain_access_ctrl(4^kernel_dom + 4^user_dom)
        /\ UNCHANGED <<pt, tlb, c1, marking, status, halted>> /\ UNCHANGED pix
     \/ /\ dacr # 0 /\ mmu_enable
        /\ Goto("launch")

\* Under the MMU the kernel goes on from its code, its stack and, when it
\* prints, the GPIO; if it may not, it aborts in its own handler, for ever.
MayUse(S) == \A s \in S : \A op \in Access : FaultOf(s, "privileged", op) = 0
Needs(S, next) == IF MayUse(S) THEN next ELSE Goto("lost") /\ UNCHANGED mmu

\* The four instructions on the kernel's stack: the first is the last that is
\* privileged.
Launch ==
  /\ at = "launch"
  /\ Needs({Code, Stack}, Goto("user") /\ UNCHANGED mmu)

-----------------------------------------------------------------------------
(* The process.                                                             *)

MayFetch == FaultOf(upc, "user", "load") = 0
Launched == upc # Stack \/ ran > 0

Fetched == at = "user" /\ ~halted /\ MayFetch

\* An instruction that may not be fetched.
PrefetchAbort ==
  /\ at = "user" /\ ~halted /\ ~MayFetch
  /\ Goto("pabort") /\ UNCHANGED mmu

\* The last of the four instructions jumps to the process.
Enter ==
  /\ Fetched /\ ~Launched
  /\ upc' = User
  /\ UNCHANGED <<mmu, at, mapped, user_init, call, program, ran, code>>

\* A load or a store, or a system call.
Execute(i) ==
  /\ Fetched /\ Launched
  /\ IF i.do = "swi"
       THEN at' = "swi" /\ call' = [num |-> i.num, arg |-> i.arg]
       ELSE /\ at' = IF FaultOf(i.sec, "user", i.do) = 0 THEN "user" ELSE "dabort"
            /\ UNCHANGED call
  /\ UNCHANGED <<mmu, mapped, upc, user_init, program, code>>

ExecuteNext ==
  /\ program # Any /\ ran < Len(program)
  /\ Execute(program[ran + 1])
  /\ ran' = ran + 1

\* Any other program: it may also jump anywhere.
ExecuteAny ==
  /\ program = Any
  /\ \/ \E s \in PixSection, op \in Access : Execute([do |-> op, sec |-> s])
     \/ \E n \in Syscall, a \in 0..1 : Execute([do |-> "swi", num |-> n, arg |-> a])
  /\ ran' = 1

Jump ==
  /\ program = Any /\ Fetched /\ Launched
  /\ \E s \in PixSection : upc' = s
  /\ ran' = 1
  /\ UNCHANGED <<mmu, at, mapped, user_init, call, program, code>>

\* The hardware may cache an entry of the table at any time, and drop it.
Cache ==
  /\ at \in {"user", "swi", "pabort", "opened", "marked", "closed", "dabort"} /\ ~halted
  /\ \E s \in {User, Gpio0, Gpio2} : Kept(s) /\ tlb' # tlb
  /\ UNCHANGED <<pt, c1, dacr, marking, status, halted>> /\ UNCHANGED pix

-----------------------------------------------------------------------------
(* The handlers.                                                            *)

KernelPrints == {Code, Stack, Gpio2}
AbortPrints == {Code, IntStack, Gpio2}

\* do_syscall prints first; a hole of the table fails its assertion.
do_syscall ==
  /\ at = "swi" /\ ~halted
  /\ IF call.num >= SYS_LAST
       THEN Needs({Code, Stack}, Goto("user") /\ UNCHANGED mmu)
       ELSE Needs(KernelPrints,
              /\ UNCHANGED <<mapped, upc, user_init, call, program, ran>>
              /\ \/ call.num = SYS_EXIT /\ at' = "off" /\ code' = call.arg /\ UNCHANGED mmu
                 \/ call.num = SYS_PUTC /\ at' = "user" /\ UNCHANGED <<mmu, code>>
                 \/ call.num \notin {SYS_EXIT, SYS_PUTC} /\ at' = "off" /\ Panic /\ UNCHANGED code)

data_abort_vector ==
  /\ at = "dabort" /\ ~halted
  /\ Needs(AbortPrints, at' = "off" /\ code' = 1 /\ UNCHANGED <<mmu, mapped, upc, user_init, call, program, ran>>)

\* The first abort gives the process its own domain, which it has.
PrefetchAbortOpen ==
  /\ at = "pabort" /\ ~halted /\ marking = NoMark
  /\ IF user_init
       THEN Needs({Code, IntStack}, Goto("user") /\ UNCHANGED mmu)
       ELSE Needs(AbortPrints, /\ dom_perm_set_bits(user_dom, DOM_client)
                               /\ Goto("opened"))

\* Then two sections of the GPIO are marked; a line is printed after each.
MarkGpio(from, to, s) ==
  /\ at = from /\ marking = NoMark /\ ~halted
  /\ Needs(AbortPrints \cup {Table}, /\ mmu_mark_sec_ap_perm(s * OneMB, 1, AP_no_access)
                         /\ Goto(to))

PrefetchAbortClose == MarkGpio("opened", "marked", Gpio0)
PrefetchAbortCloseOdd == MarkGpio("marked", "closed", Gpio1)

KernelMarks ==
  /\ at \in {"marked", "closed"}
  /\ MarkEntry \/ our_mmu_sync_pte_mods
  /\ UNCHANGED pix

\* Back to the instruction that could not be fetched, whatever it is.
PrefetchAbortReturn ==
  /\ at = "closed" /\ marking = NoMark /\ ~halted
  /\ Needs(AbortPrints, at' = "user" /\ user_init' = TRUE /\ UNCHANGED <<mmu, mapped, upc, call, program, ran, code>>)

Finished == (at \in {"off", "lost"} \/ halted) /\ UNCHANGED pvars

-----------------------------------------------------------------------------
KernelStep ==
  \/ Boot \/ Launch \/ do_syscall \/ data_abort_vector
  \/ PrefetchAbortOpen \/ PrefetchAbortClose \/ PrefetchAbortCloseOdd
  \/ KernelMarks \/ PrefetchAbortReturn

ProcessStep == PrefetchAbort \/ Enter \/ ExecuteNext \/ ExecuteAny \/ Jump

PNext == KernelStep \/ ProcessStep \/ Cache \/ Finished

\* One processor, nothing to wait for: the kernel and the process go on.
PSpec == PInit /\ [][PNext]_pvars /\ WF_pvars(KernelStep) /\ WF_pvars(ProcessStep)

-----------------------------------------------------------------------------
\* Whatever the process runs, it can store to its own section only, and load
\* from that and from the stack its last kernel instructions are on, cached
\* entries included (the AP bits of map_addr_space, the marks).
Confined ==
  at = "user" /\ Launched => \A s \in PixSection :
    /\ FaultOf(s, "user", "store") = 0 => s = User
    /\ FaultOf(s, "user", "load") = 0 => s \in {User, Stack}

\* The process starts, and every system call and data abort comes back to it
\* or ends it, a call number without a function by stopping the kernel too: the kernel is refused its code, stacks, page table or GPIO in no
\* handler and after no mark, and never hangs (map_addr_space, do_syscall,
\* data_abort_vector, prefetch_abort_vector's marks).
KernelAnswers ==
  /\ [](at # "lost")
  /\ <>(at = "user" /\ upc = User)
  /\ at \in {"swi", "dabort"} ~> at \in {"user", "off"}

\* The programs of lab 20 end as their texts say: hello exits with 0, and an
\* access that should fault is the last thing its program does.
LabProgramsEnd ==
  /\ (program = hello) ~> (code = 0)
  /\ (program \in Faulty) ~> (code = 1)
=============================================================================
