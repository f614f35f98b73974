------------------------------ MODULE Memcheck ------------------------------
(***************************************************************************)
(* The memory checker of labs/19-eraser/part1-refactor: memcheck_alloc and *)
(* memcheck_free mark a block's bytes in the shadow of the heap, and every *)
(* load or store of the heap traps to a handler that stops the machine on  *)
(* a byte marked free.  How an access traps and goes on is the subject of  *)
(* module Part1; here an access or a system call is one step.              *)
(*                                                                         *)
(* kmalloc and kfree are not in the repository: a pointer that is moved    *)
(* up, and nothing ("the trivial kmalloc pointer bump", circular.h:36).    *)
(***************************************************************************)
EXTENDS Integers

CONSTANT HeapBytes   \* bytes of the tracked heap; a megabyte in the code

ASSUME MemcheckAssumption == HeapBytes \in Nat

Byte == 0..(HeapBytes - 1)

\* The marks the checker uses, of the six there are.
Mark == {"invalid", "alloced", "freed"}

VARIABLES
  at,                  \* "super": between runs of memtrace_fn, "user": in one
  load_store_handler,  \* what the client runs at each fault
  brk,                 \* kmalloc's pointer: the bytes from it on are unused
  sh,                  \* the shadow byte of every heap byte
  fault_addr,          \* last_fault.fault_addr; HeapBytes before the first
  status,              \* "running" or "report"
  \* What the program was given and gave back in this run.
  blocks,              \* results of memcheck_alloc: where and how long
  freed                \* pointers passed to memcheck_free

history == <<blocks, freed>>
heap == <<brk, sh, history>>
vars == <<at, load_store_handler, fault_addr, status, heap>>

Block == [ptr : Byte, n : 1..HeapBytes]

TypeOK ==
  /\ at \in {"super", "user"}
  /\ load_store_handler \in {"none", "checks", "traces"}
  /\ brk \in 0..HeapBytes
  /\ sh \in [Byte -> Mark]
  /\ fault_addr \in 0..HeapBytes
  /\ status \in {"running", "report"}
  /\ blocks \subseteq Block /\ freed \subseteq Byte

Init ==
  /\ at = "super" /\ load_store_handler = "none"
  /\ brk = 0 /\ sh = [a \in Byte |-> "invalid"]
  /\ fault_addr = HeapBytes /\ status = "running"
  /\ blocks = {} /\ freed = {}

\* memcheck_fn or memcheck_trace_only_fn: memtrace_init starts heap and shadow
\* anew, then memtrace_fn runs the program.
memcheck_fn(h) ==
  /\ at = "super"
  /\ at' = "user" /\ load_store_handler' = h
  /\ brk' = 0 /\ sh' = [a \in Byte |-> "invalid"]
  /\ blocks' = {} /\ freed' = {}
  /\ UNCHANGED <<fault_addr, status>>

Running == at = "user" /\ status = "running"

Return ==
  /\ Running
  /\ at' = "super"
  /\ UNCHANGED <<load_store_handler, fault_addr, status, heap>>

\* The block starts at the old pointer; the new one is as aligned as an int,
\* which the callers store in their blocks.
kmalloc(n) == brk' \in {end \in (brk + n)..HeapBytes : end % 4 = 0}

\* swi 1.
sys_memcheck_alloc(n) ==
  /\ Running /\ kmalloc(n)
  /\ sh' = [a \in Byte |-> IF a \in brk..(brk + n - 1) THEN "alloced" ELSE sh[a]]
  /\ blocks' = blocks \cup {[ptr |-> brk, n |-> n]}
  /\ UNCHANGED <<at, load_store_handler, fault_addr, status, freed>>

\* swi 2: four bytes, however long the block.
sys_memcheck_free(p) ==
  /\ Running
  /\ sh' = [a \in Byte |-> IF a \in p..(p + 3) THEN "freed" ELSE sh[a]]
  /\ freed' = freed \cup {p}
  /\ UNCHANGED <<at, load_store_handler, fault_addr, status, brk, blocks>>

\* kmalloc called by the program itself: the shadow does not hear of it.
UserKmalloc(n) ==
  /\ Running /\ kmalloc(n)
  /\ UNCHANGED <<at, load_store_handler, fault_addr, status, sh, history>>

\* A load or store at a: data_abort_vector notes it, the handler looks at the
\* shadow of its first byte, and the access goes on.
Access(a) ==
  /\ Running
  /\ fault_addr' = a
  /\ status' = IF load_store_handler = "checks" /\ sh[a] = "freed"
               THEN "report" ELSE status
  /\ UNCHANGED <<at, load_store_handler, heap>>

Rebooted == status = "report" /\ UNCHANGED vars

Next ==
  \/ \E h \in {"checks", "traces"} : memcheck_fn(h)
  \/ Return
  \/ \E n \in 1..HeapBytes : sys_memcheck_alloc(n) \/ UserKmalloc(n)
  \/ \E b \in blocks : sys_memcheck_free(b.ptr)
  \/ \E a \in Byte : Access(a)
  \/ Rebooted

Spec == Init /\ [][Next]_vars

-----------------------------------------------------------------------------
Extent(b) == b.ptr..(b.ptr + b.n - 1)
FirstWord(p) == p..(p + 3)

\* The shadow is the history of the run: a byte is marked free when it is one of
\* the first four of a block given back, allocated when it is another of a block,
\* and nothing otherwise (syscall_vector and memtrace_init write it).
ShadowIsHistory ==
  \A a \in Byte :
    /\ sh[a] = "freed" <=> \E p \in freed : a \in FirstWord(p)
    /\ sh[a] = "alloced" <=>
         (\E b \in blocks : a \in Extent(b)) /\ ~\E p \in freed : a \in FirstWord(p)

\* A report is about the first word of a block that was given back, and never
\* about a byte of a block the program still owns, small as that may be: a free
\* that marks past the end of its block reaches no other (syscall_vector).
NoFalseAlarm ==
  status = "report" =>
    /\ load_store_handler = "checks"
    /\ \E p \in freed : fault_addr \in FirstWord(p)
    /\ \A b \in blocks : fault_addr \in Extent(b) => b.ptr \in freed

\* However much is allocated and freed in between, a checked access to the first
\* word of a block given back in the same run is reported (check_ldr_str_handler).
UseAfterFreeCaught ==
  [][\A p \in freed : \A a \in FirstWord(p) \cap Byte :
       Access(a) /\ load_store_handler = "checks" => status' = "report"]_vars

=============================================================================
