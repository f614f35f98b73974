# Verification of the cs340lx tools, kernel and libraries

TLA+ models of the programs in `src/`, the TLC configurations that check them
on small instances, and TLAPS proofs of the properties that matter most, for
every value of the constants.

## 1. The system

The repository holds the labs of a course on checking tools for a bare-metal
ARM1176 (Raspberry Pi): no operating system, one processor, exceptions taken by
handlers that nothing preempts.

| part | where | state | operations | what is hard |
|---|---|---|---|---|
| **eraser**, lockset race detector | `labs/19-eraser/part2-eraser/eraser.c` | current thread, one lock per thread, lock table, a 4-byte shadow word per heap word | handler of every load and store; lock, unlock, thread switch, mark allocated, mark free | a history of accesses folded into four bytes; ids that outlive their accesses; a full lock table in mid-access |
| **memtrace**, the trap machine | `part2-eraser/memtrace.c`, `interrupt-asm.S`, `user-mode-asm.S` | domain register, page table, breakpoint 0, client's handler | init, map, shadow, run a function in user mode; data abort, prefetch abort, system call | one access is four exceptions and nine register writes; permissions that overlap by a bit |
| **tools**, the ways to start | `eraser.c` 129-168, `memcheck.c` 31-43 | `need_to_check`, `eraser_initialized` | `eraser_check_fn`, `eraser_trace_fn`, `memcheck_fn`, `memcheck_trace_only_fn` | set up once by a flag, whose argument is read once |
| **memcheck over part 1** | `part1-refactor/memcheck.c`, `memtrace.c` | a shadow byte per heap byte, `kmalloc`'s pointer, the trap machine's registers | run with checks, run with traces only; allocate and free by system call; the handlers | marks of fixed size on blocks of any size; restarts; an access goes through several exceptions after it was looked up |
| **part 0**, all in one file | `part0-tests/*.c` | the same, `shadow_check`, one breakpoint and one handler pointer for two owners | memtrace, memcheck and its initialisation, the single stepper, the last fault, a watchpoint | what one tool leaves set, the other runs under |
| **registers** | `memtrace.c` 35-48, 189-230, `libos/libc/bit-support.h` | domain access control, data fault status | get and set a domain's permission, decode a fault | ranges with both ends included |
| **debug hardware** | `part2-eraser/debug.c`, `debug.h` | breakpoint 0, watchpoint 0, their handlers | arm and disarm; tell a debug fault from another | bits set over what was left in the register |
| **mmu** | `pix/mmu.c` (and three copies in lab 19) | page table, TLB, control register | map, mark, look up, enable, disable | the table is changed under the TLB |
| **pix**, one user process | `pix/pix.c`, `interrupt-asm.S` | page table, domains, a first-abort flag | boot, system calls, aborts | the switch to user mode happens under the new table |
| **libos** and the programs of lab 20 | `libos/*.c`, `*.S`, `labs/20-user-process` | none | the system calls pix serves | what the kernel's mappings let them do |
| **mailbox** | `labs/21-user-processes/part0-mbox/mbox.c` | the request buffer | walk the firmware's tags, write, read, send | polling a device without bound, and taking the first reply |
| **circular queue** | `libos/libc/circular.h` | ring, head, tail | push, push a block, pop, pop a block, peek, peek a block | lock-free between an interrupt handler and the main program |
| **hash table** | `libos/libc/ht-hash.h` | chains, a count | insert, delete, search, expand, free | chains rebuilt by an expansion; an assertion that comes too early |
| **printing** | `libos/libc/va-printk.c`, `putk.c`, `printk.c` | one static buffer | format, put | a handler that prints in the middle of a message |
| **strings, checksums** | `libos/libc/str*.c`, `mem*.c`, `crc.c` | memory | each its loop | every length and alignment; sums taken in pieces |
| **sample tools of ATOM** | `readings/0-atom/code/examples` | counters and tables per tool | instrument an application, count while it runs, print | numbers given at one end and used at the other |

They interact by calls: a program calls a tool, the tool calls memtrace's init,
map and shadow, then `memtrace_fn`, which turns the MMU on and drops to user
mode. There every access to the tracked heap calls back, through a data abort,
the handler the tool installed, which reads and writes the shadow; a prefetch
abort after one instruction closes the heap again. The program itself calls
the detector's operations (plain functions, in user mode) or the checker's
(system calls). `part0-tests` and `part1-refactor` are earlier versions of part
2, each a machine of its own. Pix uses the same `mmu.c` to run a process that
reaches it by libos' system calls.

## 2. The modules

| module | models | state and actions |
|---|---|---|
| `Eraser` | `eraser.c` | one variable per static (`cur_thread_id`, `lockset`, `locks`), `shadow` for the shadow megabyte; one action per operation, one operator per branch of `ldr_str_handler` |
| `EraserHistory` | the same beside a record of every access | what the Eraser algorithm would know of each word; constrains nothing |
| `EraserPromise` | abstract specification | reports a word exactly at the first store that makes it shared and written, by a thread that holds no lock |
| `Domains` | `dom_perm_get`, `dom_perm_set` | the register as one number per domain; `Mmu` shows that the bits come to the same |
| `Memtrace` | part 2's `memtrace.c`, the handlers, breakpoint 0 | `at` is the control point; one action per call a handler makes, so each intermediate register value is a state |
| `TracedProgram` | abstract specification | an access is untraced, traced once, then done |
| `Tools` | the entry points | `todo` holds the calls of memtrace.h the running tool has still to make; composes with `Memtrace` |
| `Memcheck` | abstract specification of the memory checker | shadow bytes, `kmalloc`'s pointer, blocks handed out and given back |
| `Part1` | part 1's trap machine and checker | a handler is a step; the order of its calls is in the registers it passes along; implements `Memcheck` |
| `Part0` | part 0: memtrace, memcheck, single stepper, last fault | the same grain; breakpoint 0 and its handler pointer shared by two owners |
| `Cp15`, `Mmu` | the registers and the page table, word by word | table, TLB, control and domain register; the hardware's look-up is an action |
| `Debug` | breakpoint 0 and watchpoint 0, bit by bit | each function of `debug.c` over any value left in its register; the hardware decides what breaks |
| `Registers` | `Mmu` and `Debug` side by side | they share the operators of `Cp15` and nothing else |
| `Pix` | kernel, process side and programs | over `Mmu`: boot section by section, the four instructions on the stack, then one of lab 20's programs or any program; `swi`, aborts, marks |
| `Circular` | `circular.h` | `head`, `tail`, the ring, and where each side is in its operation; one action per read or write of the queue |
| `Fifo` | abstract specification | a sequence: push at its end, pop or peek at its head |
| `HashTable` | `ht-hash.h` | a chain per bucket; a call is a step, the program being sequential |
| `KeyMap` | abstract specification | a function from the keys present to their values |
| `Mailbox` | `mbox.c` and the GPU | the walk over the tags, each question's fill, write, read and check; the GPU takes, answers and replies when it likes |
| `Printk` | `va-printk.c`, `putk.c`, `printk.c` | a stack of two calls over one buffer, a character a step |
| `Strings` | the string and memory functions, `crc.c` | a turn of a loop is a step |
| `Libc` | `Circular`, `HashTable`, `Printk` and `Strings` | a program that uses one of them (`part`); they share nothing |
| `Atom` | ten sample tools | one run of an application, watched by all tools at once |
| `EraserProofs`, `MailboxProofs`, `Part0Proofs`, `AtomProofs` | | theorems about the module of that name, and their lemmas |
| `MemtraceProofs` | | theorems about `Memtrace` and `Tools` |
| `Part1Proofs` | | theorems about `Memcheck` and `Part1` |
| `RegistersProofs` | | theorems about `Mmu`, `Debug` and, over the first, `Pix` |
| `LibcProofs` | | theorems about `Circular`, `HashTable`, `Printk` and `Strings` |
| `MCEraser`, `MCRegisters`, `MCHashTable`, `MCMailbox`, `MCLibc`, `MCAtom` | | constants and symmetry for TLC |

`Eraser` takes an access as one step; that this is sound is what `Memtrace`
shows: the handler is called once per access, between the program's
instructions and with nothing else running. `Tools` composes the entry points
with the whole trap machine, its handlers reduced to whether they read the
shadow and may report. `Part1` is the other composition: the trap machine with
the checker's shadow in it, shown to be `Memcheck`. The trap machines use
breakpoint 0 and the domain register as `Debug` and `Mmu` show they behave.

Operators commented "A slip" are mistakes a maintainer could make. No
specification uses one; the properties are checked to notice each when it takes
the place of the definition after it.

### Abstractions

*Trap machines and tools*

- Words, locks, threads and pcs are members of small sets; printing is left out.
- `eraser_mark_alloc` and `_free` memset the block itself, from user mode: each
  byte stored traps. `MarkStep` takes a word's four byte stores at once, since
  after the first the handler finds the word in a phase the others leave alone.
- A mark's stores are the current thread's stores; a program that stores to a
  block `kmalloc` has just cleared is covered by ordinary accesses.
- `eraser_mark_lock` does nothing and has no action; the level given to
  `eraser_fn_level` is read by nothing, so it is `eraser_check_fn`.
- Breakpoints act in user mode only in `Memtrace`, `Part1` and `Part0`: a
  mismatch breakpoint never fires in a privileged mode, as `Debug` has it.
- The instruction after a heap access is at another address (no `ldr`
  branches to itself). The program may jump anywhere else.
- The program calls `memcheck_alloc` and `_free` only once a heap is mapped;
  before that, `kmalloc`'s heap belongs to code that is not in the repository.
  It frees pointers of the present heap, twice if it likes; one of a heap since
  started anew it does not.
- `kmalloc` and `kfree` are external: a pointer that moves up to some later
  word boundary, and nothing. Blocks have at least a byte, and fit the heap.
- The trap machines keep of the MMU whether it is on and which sections are
  mapped (`mapped`, or `pt` from section to domain): with those and the domain
  register the outcome of an access is decided, and `mmu_enable`, `mmu_disable`
  and the asserts on either are in the steps that call them. What the bits of
  the table come to is `Mmu`'s affair.
- A handler of `Part0` or `Part1` is one step: nothing interrupts it, and the
  assertions and faults in its middle are in the registers it passes along.
- Part 0's fault and step counts stop at `MaxCount`; under the single stepper
  the MMU is off and the program keeps clear of the heap.

*Registers, mmu, pix*

- The `our_mmu_` routines and `AP_no_access` are in libpi, which is not in the
  repository: the routines flush what the hardware has cached, and the constant
  is 0 (no access for anyone) in the runs.
- Addresses in `Debug` are below 2^31. Fault registers are passed to the
  decision whose fault wrote them: each handler reads them before another fault.
- The page table has only the sections in use. Lab 19's copies of `mmu.c` have
  no nG argument and are otherwise the same code.
- Pix' programs are the loads, stores and system calls of each notmain, with
  `_start`, the saved registers of `syscall` and the exit that follows; or any
  program at all. `PUT32` runs on into `GET32`, so a store loads after it.

*Libraries*

- The unsigned indices of the queue are taken modulo `Word`, a multiple of
  `CQ_N` as 2^32 is of the default 8192. With another size `cq_nelem` is wrong
  after a wrap (section 5). The proofs need no such relation: they ask only
  that `Word` exceeds `CQ_N`.
- `cq_peek_n` reads the count twice in a row; the model reads it once.
- Nothing keeps the producer away from `cq_peek_n`. `overrun` is history: it
  records that a push found room only because the look-ahead had moved `tail`
  on, so that `head` runs onto the place the consumer goes back to (section 5):
  the queue looks empty there, and the next push overwrites. Until then the queue
  keeps its promise, which the properties say; after it they say nothing.
- A hash is some number of a few bits for each key (its shift by 59 of a 32-bit
  word is undefined in C, so nothing more is said of it); `ht_used` starts at
  any of several values, as the code never sets it. Callers of a build without
  assertions do not insert a key twice, and never the value `HT_NIL_VAL`.
- `putk` reads each character twice, to test it and to put it; the model takes
  the two as one, so no handler comes between them.
- An int is eight bits wide in the printing run; a conversion makes its text in
  the step that reaches it, in buffers of its own.
- `strcpy`, `strcat`, `memcpy`: callers keep to strings that end, counts inside
  and ranges that do not overlap.
- The GPU answers each request it takes, in the buffer and then by its address;
  the base of memory it gives is 0. What it does between is its own affair.
- ATOM makes the calls that were added in the order they were added; the
  application is any program of the given blocks. `malloc`, `brk` and `sbrk`
  are looked at in runs of their own. A block is counted when it starts.

## 3. The runs

| run | bounds | shows |
|---|---|---|
| `eraser_one_word` | 1 word, ids 0-2, 3 locks, 2 slots | the shadow word is the sharing history (`PhaseIsHistory`), a report comes exactly at the first lockless shared store (`LocklessFirstStoreCaught`), the detector implements `EraserPromise` (`KeepsPromise`), a mark always ends (`MarkingEnds`) |
| `eraser_two_words` | 2 words, ids 0-2, 2 locks, 2 slots | a stored id names the lock that was held (`LocksetNamesHeldLock`), no false alarm (`ReportIsJustified`), with blocks of two words |
| `tools` | 3 pcs | the program never sees the shadow (`UserSealed`), no handler faults on what it closed (`HandlersNeverFault`), what a checking program needs stays mapped (`CheckedHeapIsThere`), each access is shown once and then completes (`TracesEveryAccess`) |
| `memcheck` | 12 heap bytes, 2 pcs | part 1's machine is the checker (`Implements`), its shadow the history (`ShadowIsHistory`), stops only at freed memory (`NoFalseAlarm`), and lets no access to it through (`FreedNeverReached`) |
| `part0` | 8 heap bytes, 2 pcs, counts to 3 | shadow closed whatever ran before (`Sealed`), every step counted once (`StepsCounted`), freed blocks shut until `memcheck_init` starts the heap anew (`FreedStaysShut`) |
| `registers` | 2 sections, 6 requests, domains 1, 2, 14, 15; 2 addresses, 2 handlers | no stale entry is used (`TlbAgrees`), a mapping is what was asked for and stays (`MappingsStable`), bits and fields agree (`FieldsAgree`); breaks come where they were asked for (`BreaksAsAsked`), faults are told apart (`FaultsToldApart`) |
| `pix` | the 7 sections pix maps and 4 others | a process reaches its own section only (`Confined`), the kernel answers every trap (`KernelAnswers`), `hello` exits and the programs made to fault end at the fault (`LabProgramsEnd`) |
| `mailbox` | lists of up to 3 tags, at most one message left over, 2 places | a reply is taken for its question exactly if nothing was left over (`AnswerIsMine`); the program ends (`Ends`) |
| `libc` | 4 slots, 2 values, 16-value unsigned; 5 keys, 2-bit hashes, 2 values, 1 to 16 buckets; 8 messages, buffer of 7; memory of 5 bytes, words of 2, 3 characters | until a push overruns a look-ahead the queue's sides never meet in a slot (`SlotsApart`) and it is a FIFO (`KeepsFifo`); the table is a map (`KeepsMap`); output fits and is whole (`FitsWhole`), an interrupted message is torn but in place (`TornInPlace`), numbers read back (`NumbersReadBack`); each function on memory returns what its name says, `strncmp` and `memchr` what their code says (`StringsMean`); the checksum is the remainder in however many pieces (`ChecksumIsRemainder`) |
| `atom` | 2 objects, 6 instructions, 2 calls, caches of two | what the ten tools count and name is the run (`ToolsAgree`), the cache is a direct-mapped one (`CacheExact`), the translation buffer is sound (`DtbSound`) |

Two runs show a promise broken (section 5), each by a counterexample:

| run | bounds | shows |
|---|---|---|
| `circular_peek` | 4 slots, 2 values | a push during `cq_peek_n` makes the assertion the peek ends with fail (`PeekHolds`), in a queue said to be lock-free for one mutator of `head` and one of `tail` |
| `hash_table_insert` | 5 keys | under assertions the insert itself stops, so its key is not found after it (`InsertedIsFound`), which the module's test asserts |

Why the bounds are enough. *Detector:* sharing needs two threads and its return
a third id (0 cannot be chosen again); phases are per word, so one word meets
them all, and a second is needed only for what words share: the lock table and
a block. Three locks overfill two slots. *Trap machines:* they tell addresses
apart only as "the one armed" and "another"; in `tools` a third lets the program
go on from the second. Twelve bytes hold three words: a short block with padding
before another, or a block longer than the word a free marks. *Registers:*
domains interact with a neighbour only, and 14 and 15 are the register's end; an
even and an odd section meet the 21-bit mask, an alias and a private mapping the
rest; a debug register starts with every bit set but the one that enables, or
with just the two that mean something else. *Pix:* every section the kernel
maps, the even neighbours the mask reaches, and one that is not mapped.
*Mailbox:* the driver asks two questions, one at a time; a left-over message of
its channel or of another is all that tells a reply apart. *Queue:* four slots
wrap both indices many times and hold a block of three beside a push. *Hash
table:* five keys expand one bucket three times, two of them for ever together.
*Libc:* the buffer is shorter than some messages and longer than others; five
bytes hold two strings, words of two and what is left over. *Atom:* four lines
and pages compete for two places, and control crosses objects.

`eraser_one_word` has no symmetry, which would not be sound for `MarkingEnds`;
its blocks are one word long, `eraser_two_words` has the longer ones. Deadlock
is checked everywhere: a stopped machine stutters explicitly.

**Fairness.** `Memtrace`: weak fairness of the kernel's and of the program's
next step. There is one processor, interrupts are off, and it never idles; the
program's own choice of instruction is not constrained. `Pix`: the same, of the
kernel and of the process. `Eraser`: weak fairness of `MarkStep`, the body of a
straight-line `memset`. `Mailbox`: weak fairness of the driver, which does
nothing else, and of the GPU, which answers what it is asked: without it the
driver's wait has no end, and the code has no time limit. Nothing else is fair:
neither side of the queue is obliged to do anything, and the other modules state
no liveness.

## 4. What is proved

Under the constants' named ASSUMEs, for every number of words, threads, locks
and slots (`EraserProofs`), any addresses (`MemtraceProofs`, `Part1Proofs`), any
heap (`Part1Proofs`, `Part0Proofs`), any ring and elements, keys and hashes,
messages and buffer, memory and strings (`LibcProofs`), any application, cache
and translation buffer (`AtomProofs`), any mailbox and list of tags
(`MailboxProofs`), any sections, requests, handlers and contents of the debug
registers at reset (`RegistersProofs`). Types are
proved where an invariant needs them, and are a conjunct of it; no run repeats
them.

- **Eraser.** `DetectorInv` joins the type invariant, `LockTableOK`,
  `PhaseIsHistory`, `LocksetNamesHeldLock`, `LocklessFirstStoreCaught` and
  `ReportIsJustified`. None is inductive alone: that a stored id names the lock
  held needs the table free of duplicates, that a report is justified needs the
  phase to be the history. `LockToIntFact` and `RefineFact` carry the branches
  that touch the table; `AccessPhase` and `AccessLockset` go branch by branch.
  `PromiseKept` is the refinement of `EraserPromise`, step by step.
- **Memtrace.** `IInv` says for each control point what the domain register,
  the breakpoint and the count of handler calls are. It is needed because the
  promises speak of user mode, and hold there only for what each kernel step
  leaves. From it: `Sealed`, `HandlersSafe`, `TracedExactlyOnce`, and
  `ProgramTraced`, that every step is one of `TracedProgram`'s.
- **Tools.** The steps of `Tools` are those of `Memtrace`, or set up, or give the
  word to a tool, so `IInv` carries over and with it `ToolsSealed`,
  `ToolsHandlersSafe` and `ToolsTraced`. `CheckedHeap` needs
  more: which sections are mapped was decided by the first use, whose four calls
  come one by one. `SetUpOnce` says that as long as the detector is all that has
  been used, and it began by checking, the calls still to make and the sections
  mapped are one of the five pairs of `SettingUp`; `RebootSays` says for what
  missing section a machine in that state could reboot.
- **Memcheck.** `Layout`: blocks are word-aligned, lie in order below `kmalloc`'s
  pointer, and every freed pointer is one of theirs. With it a free's four bytes
  meet no other block (`FirstWordAlone`), which `NoFalseAlarms` is about.
- **Part 1.** `TrapInv` adds to `UserSealed` that in supervisor mode the
  breakpoint is off, and that between the two faults of an access the byte
  looked up is still the one about to be touched (`AccessChecked`).
  `MachineImplements` maps every step of the machine to a step of `Memcheck` or
  to none; the checker's invariants are then the machine's, through the
  refinement (`MachineShadow`, `MachineNoFalseAlarm`). `FreedShut` is the
  action property that needs both halves.
- **Part 0.** `TrapInv` (types, what the first call set up, what an access
  behind the breakpoint means, what the single stepper expects) gives
  `MachineSealed` and `EveryStepCounted`; `HeapInv` (every byte of a freed first
  word is marked so, and an access let through was looked up) gives
  `FreedShut`, as far as the next `memcheck_init`, which starts heap and shadow
  anew. What a permission written does to its neighbour is
  `TrapWrite` and `ShadowWrite`, stated for each of the three trap machines.
- **Circular.** `IInv` says where each side is and that what it decided on still
  holds: a producer past its test sees a free slot, because the other side can
  only free more. A look-ahead moves `tail` on and back, which can take a slot
  away again: `Ahead` says of the place the look-ahead began at (`Oldest`) what
  holds of `tail` otherwise, until a push has overrun it.
  `IsFifo` maps the write of head to the push and that of tail to the pop. No
  theorem keeps the producer away from a peek.
- **Hash table.** `HtIInv` says that the table is one (`TableOK`): every entry
  in the bucket of its hash, no key twice, and none at all under assertions.
  Each rebuilding of a chain is shown to keep what it should (`LinkKeeps`,
  `RemoveKeeps`, and `ExpandKeeps` for a whole table); `TableIsMap` maps the
  calls to those of `KeyMap`.
- **Printing.** `PkIInv` says of each call under way which prefix of its text is
  in the buffer, and of one that was interrupted that what was overwritten is
  overwritten by the interrupter's text, at the same places (`Torn`). From it
  `EveryMessageFits` and `TornMessageInPlace`. `EveryNumberReadsBack` is about
  the conversions: each turn of the digit loop divides what is left, and the
  reversed digits, with their prefix, are read back by powers of the base.
- **Strings.** `SIInv` says, for each function, what its loop has established
  after so many turns (`At...`: no NUL yet, equal so far, copied so far); the
  last turn makes it `StringsMean`, so `StringsAsMeant`.
- **Checksum.** `SumInv` says that the register is, bit for bit in the opposite
  order, the remainder of the bytes done so far. Eight steps of the division are
  one look-up in the table (`BitStep`, `EightBits`, `ByteByTable`), whatever the
  pieces: `ChecksumsDivide`.
- **Atom.** `AtomInv` has a conjunct for each tool. A block counts in full when
  it starts and the other tools count as it goes, so in between they differ by
  what the block has still to execute (`Ahead`). A table is right only if two
  places have two numbers: numbers are ranks in the order of instrumentation
  (`PlacesOrdered`, `NumbersApart`). A log has its entries by their rank in the
  run (`Logs`). `malloc`'s depth is calls less returns, which makes what it
  counts the outermost ones, and `BreakOK` follows the break along the run.
  Hence `ToolsTellTheTruth`. `CacheInv` (every tag is the line of the last
  load in its place) and `DtbInv` (the last page used is where the map says,
  and the next miss does not evict it) give `CacheIsExact` and `DtbIsSound`.
- **Mailbox.** `IInv` says that at most one message of the driver's is under way
  when nothing was left over (`Fresh`), and that otherwise the driver is always
  exactly one reply behind (`Behind`); `AnswersAreMine` is the two together.
- **Mmu.** `MInv` joins the types, `TlbAgrees`, that a word of the table is
  empty or valid, and that nothing is cached of an absent section: the last is
  why `mmu_map_section` may do without a flush, and `TlbAgrees` is not inductive
  without it. The lemmas on words (`PermissionOnly`, `NewWord`) say what the
  shifts and masks of `bit-support.h` do to a number, field by field;
  `EntriesStable` follows from them. `SetDomainFields` is the same of the domain
  register, for a shift that is not a constant: powers of four are added and
  divided as numbers (`PowerSum`, `Quotients`), and a rewrite of three bits leaves
  the digits further up and down (`FieldsAround`).
- **Debug.** `DInv` says what the fields of the two control registers hold for
  each thing last asked, whatever the bits the code leaves alone.
  `BreakpointsAsAsked` and `FaultsApart` follow.
- **Pix.** `PixInv` says of every word, in the table or cached, that it is the
  entry of its section in `map_addr_space` or nothing, that past boot the MMU is
  on with two client domains and every section mapped, and that only the first
  section of the GPIO is ever marked. `Confined` needs all of it: with the MMU
  off, or a domain that lets everything through, the permissions say nothing. From the
  same invariant `KernelNeverLost`: no handler is refused what it goes on from.
  Both assume that the table has the kernel's sections (`PixSection`), as the
  table of `mmu_pt_alloc_at`, with 4096, has.

What loops, chains and sums compute is given by recursive functions. The
library's facts about induction take an operator, which the provers cannot
instantiate; here it goes over sets of numbers instead. `NumbersByInduction`
says that a set that has 0, and with every number the next one, has them all
(otherwise take the least it lacks); a recursive function exists and satisfies
its equation by the same argument (`FlatteningExists`, `DigitsExist`,
`RestExists`, `SumExists`, `BreakExists`).

Every invariant and every action property the passing runs check is a theorem. Only
model-checked is liveness, which is out of the provers' reach: `MarkingEnds`,
`Ends`, `LabProgramsEnd`, the fairness in `TracesEveryAccess`, and two of the
three parts of `KernelAnswers`.

## 5. Where code and documents part

Visible in the models; PROJECT.json lists the main ones with the words they
contradict.

*Detector and checker*

- `eraser.c:78` looks only at the lockset stored when a word became write-shared.
  A test says a later unlocked load is an error (`part3-test9.c:26`).
- `eraser.c:96`: marking a block allocated does not make a shared word fresh.
- `eraser.c:55`: the shared phase replaces the lockset by the latest reader's,
  where `README.md:321` of the lab refines it.
- `eraser.c:102`: a free is a store and may be reported; `eraser.h:32` says free
  memory is no longer tracked.
- `eraser.c:132`: the level is stored and never read.
- `eraser.c:145`: `eraser_trace_fn` maps no shadow but installs the handler that
  reads it, so the first heap access reboots.
- `part1-refactor/memcheck.c:26`: access to heap that was never allocated goes
  through. `memtrace.c:323`: a free marks four bytes of any block, so the rest
  of a long block can be used after it; the case of the system call then falls
  into the next and returns 10.
- Part 2's `memtrace_init` maps no heap, so under part 2's `memcheck_fn` every
  heap access reboots; a detector used after it finds its set-up gone. In part 1
  `memtrace_map` and `memtrace_shadow` are `unimplemented()`.
- Part 0: `shadow_check` is never cleared, so a later `memtrace_fn` checks too; a
  free traces `SH_ALLOCED` where it marks `SH_FREED`.
- A program that touches the shadow itself faults for ever under a handler that
  only prints: the shadow is closed again before the instruction is repeated.

*Registers, mmu, pix*

- `memtrace.c:46`: setting a domain's permission clears the low bit of the next
  domain's; the comment at 41 says it leaves them the same. `Domains` has the
  overlap and `HandlersNeverFault` shows that the handlers' order survives it.
- `memtrace.c:228`: bit 10 of the fault status is or-ed at bit 0, not 4: a
  parity error is taken for a domain fault.
- `memtrace.c:220`: the watchpoint's handler is stored and called by nothing.
  `debug.c:97` (part 0): turning breakpoint 0 off ignores the address.
- `mmu.c:107`: `is_aligned_ptr(addr, 14)` asks for three bits, not fourteen; the
  section addresses are asked the same way.
- `mmu.c:122`: `mmu_pt_alloc` asks `kmalloc` for as many bytes as the table has
  entries and clears four times as many. Nothing calls it.
- Turned on with the cache (`mmu_enable_set`), `mmu_disable` and `mem_panic`
  stop on their own assertion, under the MMU.
- `pix/mmu.h:123`: a mark clears 21 bits of the address and never moves to the
  next section, so pix' mark of 0x20100000 marks 0x20000000 a second time.
- `pix.c:97-99`: no abort comes from the first user instruction, and none makes
  the kernel's domain inaccessible. `sys_clone` and `sys_getpid` are declared
  (`libos.h:17-19`) and defined nowhere, so `clone.c` does not link; their numbers
  have no function in the kernel either, which stops at an assertion when it is
  asked for one (`pix.c:45`). A process that goes astray aborts
  for ever.

*Libraries*

- `circular.h:123`: a push during `cq_peek_n` can bring `head` round to where the
  peek goes back to, or past it, so that what was there is lost, and makes the
  assertion at `:124` fail (`circular_peek`); `:138` asserts what the other side
  can make false too. `:136`: `cq_push_n` counts the slot that must stay free
  and panics. `:89`: `overflow` is never counted. `:62`: the count is wrong after
  a wrap unless the size divides 2^32.
- `ht-hash.h:200` asserts that a key is found before it is linked, so with
  assertions nothing is inserted (`hash_table_insert`); `:115` never sets `ht_used`.
- `va-printk.c:100` puts 0x before every hexadecimal number; the self-test at
  264-275 compares `%Nx` with `snprintf`, which puts none. `NumbersReadBack`
  takes either. `:202` returns what was written, the NUL included; its head
  promises what would have been, without.
- `strncmp` is `memcmp` and goes on past a NUL; `memchr` compares an int.
  `rpi_reset` ignores its seed.
- `mbox.c`: the address that comes back is dropped, so a message left over at
  boot puts the driver one reply behind for good; a tag of no words is its own
  successor, and the walk never ends.

## 6. Not modelled

- **clone.c** of lab 20: it does not link (section 5). Its calls are among those
  any process may make.
- **sys-lock**: six lines around an atomic exchange that is not in the
  repository, used by no program.
- **hash.c, rpi-rand.c**: mixers of 32-bit words without a promise to check.
- **Floating-point printing**: `%f` panics in the builds without floating point,
  and so it does in the model; the other builds' `__emit_float` is left out.
- **Printing of page tables** (`mmu-helpers.c`), `cq_print`, the checks the tests
  make of the last fault's record, `memtrace_map`'s checks of its addresses,
  system call 10: no state.
- **bin-to-array.c** of lab 20: reads a file, prints C.
- **Lecture snippets** under `readings/`: not parts of a program. The files of
  `0-atom/code/tmp/examples` are those of `0-atom/code/examples`, byte for byte.

What would come next: `Eraser` as the handler of `Memtrace`, the two shown to
implement `EraserPromise` together; types of `Pix` for any longer program.
