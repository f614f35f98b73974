-------------------------------- MODULE Atom ---------------------------------
(***************************************************************************)
(* The sample tools of readings/0-atom/code/examples.  Of every tool one   *)
(* file (X.inst.c) goes over the objects of an application before it runs  *)
(* and adds calls to it; the other (X.anal.c) holds the routines called.   *)
(* Here one run of an application is watched by all the tools at once;     *)
(* they share no state.                                                    *)
(*                                                                         *)
(* External: ATOM, which makes the calls that were added in the order they *)
(* were, and the application, which is any program of these blocks.        *)
(***************************************************************************)
EXTENDS Integers, Sequences, FiniteSets, FiniteSetsExt

CONSTANTS
  Objects,     \* the application: a sequence of objects, each a sequence of
               \* procedures, each one of blocks, each one of instructions
  Addr,        \* the data addresses it uses
  Request,     \* the sizes it asks malloc for
  Break, Growth,  \* what it calls brk and sbrk with
  StartBrk,
  CACHE_SIZE, CACHE_BLOCK, PAGESIZE, DTBSIZE, MAPSIZE, TABLESIZE, MAXSIZE,
  MaxInsts, MaxCalls  \* bounds: instructions executed, or heap calls; procedures entered

VARIABLES
  phase,       \* "before", "run" or "done"
  here,        \* the instruction about to execute; its first is 1, 0 before that
  run,         \* what has happened so far: block and procedure starts, instructions
  dyninst, iprof, prof, inline, branch, cache, dtb, trace, ptrace, malloc,
  printed      \* what the tools have written at the end

tools == <<dyninst, iprof, prof, inline, branch, cache, dtb, trace, ptrace, malloc>>
vars == <<phase, here, run, tools, printed>>

-----------------------------------------------------------------------------
(* Instrumentation: the loops over objects, procedures, blocks and          *)
(* instructions, and the numbers the tools give to what they find.          *)

Procs == UNION {{<<o, p>> : p \in DOMAIN Objects[o]} : o \in DOMAIN Objects}
Proc(x) == Objects[x[1]][x[2]]
Block(x) == Proc(x)[x[3]]
Inst(x) == Block(x)[x[4]]
IsLast(x) == x[4] = Len(Block(x))
ProcOf(x) == <<x[1], x[2]>>

Blocks == UNION {{<<x[1], x[2], b>> : b \in DOMAIN Proc(x)} : x \in Procs}
Insts == UNION {{<<x[1], x[2], x[3], i>> : i \in DOMAIN Block(x)} : x \in Blocks}

\* Nothing is empty, and a conditional branch ends its block; a place of the cache
\* is a whole line, and there are two entries in the buffer at least.
ASSUME AtomAssumption ==
  /\ Objects \in Seq(Seq(Seq(Seq(STRING))))
  /\ <<1, 1>> \in Procs /\ \A x \in Procs : Proc(x) # <<>>
  /\ \A x \in Blocks : Block(x) # <<>>
  /\ \A x \in Insts : Inst(x) = "condbr" => IsLast(x)
  /\ Addr \subseteq Nat /\ Request \subseteq Nat /\ Break \subseteq Int /\ Growth \subseteq Int
  /\ StartBrk \in Int
  /\ CACHE_SIZE \in Nat \ {0} /\ CACHE_BLOCK \in Nat \ {0} /\ CACHE_SIZE % CACHE_BLOCK = 0
  /\ PAGESIZE \in Nat \ {0} /\ DTBSIZE \in Nat \ {0, 1} /\ MAPSIZE \in Nat \ {0}
  /\ TABLESIZE \in Nat \ {0} /\ MAXSIZE \in Nat

\* JSR and BSR whose target is known.
CallSites == {x \in Insts : Inst(x) = "jsr"}
Branches == {x \in Insts : IsLast(x) /\ Inst(x) = "condbr"}

\* The counter of a tool's loops, one up at each place it has a call added to.
Before(x, y) == \E k \in DOMAIN x : x[k] < y[k] /\ \A j \in 1..(k - 1) : x[j] = y[j]
NumberIn(places, x) == Cardinality({y \in places : Before(y, x)})
InstPC(x) == 4 * NumberIn(Insts, x)

\* A slip: every object's procedures are numbered from 0.
ProcNumber_anew(x) == x[2] - 1

ProcNumber(x) == NumberIn(Procs, x)

CountOf(s, kind) == Cardinality({i \in DOMAIN s : s[i] = kind})
Counts(x) == [insts |-> Len(Block(x)), loads |-> CountOf(Block(x), "load"),
              stores |-> CountOf(Block(x), "store")]

-----------------------------------------------------------------------------
(* Before the application runs. *)

Zero(number) == [n \in 0..(number - 1) |-> 0]

NoCounts == [insts |-> 0, blocks |-> 0, procs |-> 0, loads |-> 0, stores |-> 0]
NoProcs == [instrTotal |-> 0, instrPerProc |-> <<>>, callsPerProc |-> <<>>]

Init ==
  /\ phase = "before" /\ here = <<1, 1, 1, 0>> /\ run = <<>> /\ printed = <<>>
  /\ dyninst = NoCounts /\ iprof = NoProcs
  /\ prof = [instrTotal |-> 0, instrPerProc |-> <<>>]
  /\ inline = <<>>
  /\ branch = [branchHistory |-> Zero(TABLESIZE), predicts |-> <<>>, references |-> <<>>]
  /\ cache = [tags |-> Zero(CACHE_SIZE \div CACHE_BLOCK), references |-> 0, misses |-> 0]
  /\ dtb = [dtb |-> Zero(DTBSIZE), pageMap |-> Zero(MAPSIZE), nextMapping |-> 0,
            hits |-> 0, misses |-> 0]
  /\ trace = <<>> /\ ptrace = <<>>
  /\ malloc = [calls |-> Zero(MAXSIZE + 1), memory |-> Zero(MAXSIZE + 1), depth |-> 0,
               CurBrk |-> 0, MaxBrk |-> 0]

OpenIprof(number) ==
  [iprof EXCEPT !.instrPerProc = Zero(number), !.callsPerProc = Zero(number)]
OpenProf(number) == [prof EXCEPT !.instrPerProc = Zero(number)]
OpenInline(number) == Zero(number)
OpenTrace == <<>>
OpenBranch(number) == [branch EXCEPT !.predicts = Zero(number), !.references = Zero(number)]
Initialize(startbrk) == [malloc EXCEPT !.CurBrk = startbrk, !.MaxBrk = startbrk]

\* The calls added before the program, with what instrumentation has counted.
ProgramBefore ==
  /\ phase = "before" /\ phase' = "run"
  /\ iprof' = OpenIprof(Cardinality(Procs))
  /\ prof' = OpenProf(Cardinality(Procs))
  /\ inline' = OpenInline(Cardinality(CallSites))
  /\ branch' = OpenBranch(Cardinality(Branches))
  /\ trace' = OpenTrace
  /\ malloc' = Initialize(StartBrk)
  /\ UNCHANGED <<here, run, dyninst, cache, dtb, ptrace, printed>>

-----------------------------------------------------------------------------
(* The routines called while it runs. *)

ProcedureCount(tool, number, instructions) ==
  [tool EXCEPT !.instrTotal = @ + instructions, !.instrPerProc[number] = @ + instructions]

ProcedureCalls(number) == [iprof EXCEPT !.callsPerProc[number] = @ + 1]
CallSiteCount(index) == [inline EXCEPT ![index] = @ + 1]

ProcTrace(name) == Append(ptrace, name)
InstReference(pc) == Append(trace, [pc |-> pc])
DataReference(address) == Append(trace, [address |-> address])

AddProcedure == [dyninst EXCEPT !.procs = @ + 1]
AddBlock(c) ==
  [dyninst EXCEPT !.insts = @ + c.insts, !.loads = @ + c.loads, !.stores = @ + c.stores,
                  !.blocks = @ + 1]

\* A slip: the line missed is not brought in.
CacheReference_unfilled(address) ==
  LET index == (address % CACHE_SIZE) \div CACHE_BLOCK
      tag == address \div CACHE_BLOCK
  IN  [cache EXCEPT !.misses = IF cache.tags[index] # tag THEN @ + 1 ELSE @,
                    !.references = @ + 1]

CacheReference(address) ==
  LET index == (address % CACHE_SIZE) \div CACHE_BLOCK
      tag == address \div CACHE_BLOCK
  IN  [cache EXCEPT !.misses = IF cache.tags[index] # tag THEN @ + 1 ELSE @,
                    !.tags[index] = tag, !.references = @ + 1]

NEXTDTB(index) == (index + 1) % DTBSIZE

\* A slip: a hit in the entry to be replaced next does not save it.
DtbHit_unsaved(i, page) ==
  [dtb EXCEPT !.hits = @ + 1, !.pageMap[page % MAPSIZE] = i]

DtbHit(i, page) ==
  [dtb EXCEPT !.hits = @ + 1, !.pageMap[page % MAPSIZE] = i,
              !.nextMapping = IF @ = i THEN NEXTDTB(i) ELSE @]

DtbMiss(page) ==
  [dtb EXCEPT !.misses = @ + 1, !.dtb[dtb.nextMapping] = page,
              !.pageMap[page % MAPSIZE] = dtb.nextMapping, !.nextMapping = NEXTDTB(@)]

\* The entry the map tells, or else the first that holds the page.
DtbReference(address) ==
  LET page == address \div PAGESIZE
      told == dtb.pageMap[page % MAPSIZE]
      holds == {i \in DOMAIN dtb.dtb : dtb.dtb[i] = page}
  IN  IF told \in holds THEN DtbHit(told, page)
      ELSE IF holds # {} THEN DtbHit(Min(holds), page)
      ELSE DtbMiss(page)

takenTable == <<1, 2, 3, 3>>

notTakenTable == <<0, 0, 1, 2>>

CondBranch(number, pc, taken) ==
  LET index == (pc \div 4) % TABLESIZE
      history == branch.branchHistory[index]
      right == IF taken THEN history >= 2 ELSE history <= 1
  IN  [branch EXCEPT !.predicts[number] = IF right THEN @ + 1 ELSE @,
                     !.references[number] = @ + 1,
                     !.branchHistory[index] =
                        IF taken THEN takenTable[history + 1] ELSE notTakenTable[history + 1]]

\* Only the call from outside malloc is recorded.
BeforeMalloc(size) ==
  LET entry == IF size < MAXSIZE THEN size ELSE MAXSIZE
  IN  IF malloc.depth # 0 THEN [malloc EXCEPT !.depth = @ + 1]
      ELSE [malloc EXCEPT !.depth = @ + 1, !.calls[entry] = @ + 1, !.memory[entry] = @ + size]

AfterMalloc == [malloc EXCEPT !.depth = @ - 1]

BeforeBrk(newbrk) ==
  [malloc EXCEPT !.CurBrk = newbrk, !.MaxBrk = IF newbrk > @ THEN newbrk ELSE @]
BeforeSbrk(size) == BeforeBrk(malloc.CurBrk + size)

-----------------------------------------------------------------------------
(* The application runs. *)

Times(kinds) == {j \in DOMAIN run : run[j].do \in kinds}
Done(kind) == Cardinality(Times({kind}))
Running == phase = "run" /\ Len(run) - Done("proc") - Done("block") < MaxInsts
Happens(event) == run' = Append(run, event) /\ UNCHANGED <<phase, printed>>

\* From the end of a block on to another; control enters a procedure at its
\* first block, or comes back to any block of one.
Goto ==
  /\ Running /\ here[4] > Len(Block(here))
  /\ \E x \in Blocks : here' = <<x[1], x[2], x[3], 0>>
  /\ UNCHANGED <<phase, run, tools, printed>>

EnterProc ==
  /\ Running /\ (here[4] > Len(Block(here)) \/ run = <<>>) /\ Done("proc") < MaxCalls
  /\ \E x \in Procs :
       /\ here' = <<x[1], x[2], 1, 0>>
       /\ Happens([do |-> "proc", at |-> here'])
       /\ dyninst' = AddProcedure
       /\ iprof' = ProcedureCalls(ProcNumber(x))
       /\ ptrace' = ProcTrace(x)
  /\ UNCHANGED <<prof, inline, branch, cache, dtb, trace, malloc>>

StartBlock ==
  /\ Running /\ here[4] = 0 /\ Done("proc") > 0
  /\ here' = [here EXCEPT ![4] = 1]
  /\ Happens([do |-> "block", at |-> here'])
  /\ dyninst' = AddBlock(Counts(here))
  /\ iprof' = ProcedureCount(iprof, ProcNumber(ProcOf(here)), Len(Block(here)))
  /\ prof' = ProcedureCount(prof, ProcNumber(ProcOf(here)), Len(Block(here)))
  /\ trace' = InstReference(InstPC(here'))
  /\ UNCHANGED <<inline, branch, cache, dtb, ptrace, malloc>>

Executes(kind) == Running /\ here[4] \in DOMAIN Block(here) /\ Inst(here) = kind
Onward == here' = [here EXCEPT ![4] = @ + 1]

LoadStore(kind) ==
  /\ Executes(kind) /\ Onward
  /\ \E a \in Addr :
       /\ Happens([do |-> kind, at |-> here, addr |-> a])
       /\ cache' = IF kind = "load" THEN CacheReference(a) ELSE cache
       /\ dtb' = DtbReference(a)
       /\ trace' = DataReference(a)
  /\ UNCHANGED <<dyninst, iprof, prof, inline, branch, ptrace, malloc>>

Jsr ==
  /\ Executes("jsr") /\ Onward
  /\ Happens([do |-> "jsr", at |-> here])
  /\ inline' = CallSiteCount(NumberIn(CallSites, here))
  /\ UNCHANGED <<dyninst, iprof, prof, branch, cache, dtb, trace, ptrace, malloc>>

CondBr ==
  /\ Executes("condbr") /\ Onward
  /\ \E taken \in BOOLEAN :
       /\ Happens([do |-> "condbr", at |-> here, taken |-> taken])
       /\ branch' = CondBranch(NumberIn(Branches, here), InstPC(here), taken)
  /\ UNCHANGED <<dyninst, iprof, prof, inline, cache, dtb, trace, ptrace, malloc>>

\* malloc, brk and sbrk are looked at in runs of their own: no other tool sees
\* these calls.  malloc may call itself, and returns from the last call first.
HeapCall ==
  /\ Running /\ Times({"malloc", "return", "brk", "sbrk"}) = DOMAIN run
  /\ \/ \E n \in Request : Happens([do |-> "malloc", n |-> n]) /\ malloc' = BeforeMalloc(n)
     \/ Done("malloc") > Done("return") /\ Happens([do |-> "return"]) /\ malloc' = AfterMalloc
     \/ \E n \in Break : Happens([do |-> "brk", n |-> n]) /\ malloc' = BeforeBrk(n)
     \/ \E n \in Growth : Happens([do |-> "sbrk", n |-> n]) /\ malloc' = BeforeSbrk(n)
  /\ UNCHANGED <<here, dyninst, iprof, prof, inline, branch, cache, dtb, trace, ptrace>>

\* What is printed: the rows of what has run, and the totals.
Sum(f) ==
  LET n == Cardinality(DOMAIN f)
      upto[k \in 0..n] == IF k = 0 THEN 0 ELSE upto[k - 1] + f[k - 1]
  IN  upto[n]
Rows(counts) == {n \in DOMAIN counts : counts[n] > 0}
SumRows(counts, f) == Sum([n \in DOMAIN counts |-> IF counts[n] > 0 THEN f[n] ELSE 0])

ProfRows == [rows |-> Rows(prof.instrPerProc), total |-> prof.instrTotal]
IprofRows ==
  [calls |-> [n \in Rows(iprof.instrPerProc) |-> iprof.callsPerProc[n]],
   total |-> iprof.instrTotal]
CallSitePrint == Rows(inline)
BranchRows ==
  [rows |-> Rows(branch.references),
   references |-> SumRows(branch.references, branch.references),
   predicts |-> SumRows(branch.references, branch.predicts)]
MallocRows ==
  [rows |-> Rows(malloc.calls),
   calls |-> SumRows(malloc.calls, malloc.calls),
   allocated |-> SumRows(malloc.calls, malloc.memory),
   max |-> malloc.MaxBrk - StartBrk]
CacheResults == [references |-> cache.references, misses |-> cache.misses]
DtbResults == [hits |-> dtb.hits, misses |-> dtb.misses, references |-> dtb.hits + dtb.misses]
PrintCounts == dyninst

\* The calls added after the program, which may exit anywhere.
ProgramAfter ==
  /\ phase = "run" /\ phase' = "done"
  /\ printed' = [iprof |-> IprofRows, prof |-> ProfRows, inline |-> CallSitePrint,
                 branch |-> BranchRows, malloc |-> MallocRows, cache |-> CacheResults,
                 dtb |-> DtbResults, dyninst |-> PrintCounts]
  /\ UNCHANGED <<here, run, tools>>

Exited == phase = "done" /\ UNCHANGED vars

Next ==
  \/ ProgramBefore \/ Goto \/ EnterProc \/ StartBlock
  \/ LoadStore("load") \/ LoadStore("store") \/ Jsr \/ CondBr
  \/ HeapCall \/ ProgramAfter \/ Exited

Spec == Init /\ [][Next]_vars

-----------------------------------------------------------------------------
TimesAt(kind, x) == {j \in Times({kind}) : run[j].at = x}
DoneAt(kind, x) == Cardinality(TimesAt(kind, x))

\* What the block under way has still to execute.
Ahead(kind) ==
  Cardinality({i \in DOMAIN Block(here) : here[4] \in 1..i /\ Block(here)[i] = kind})

\* The instructions of the blocks of procedure x that have started, and all of them.
StartedIn(x) ==
  UNION {{j} \X DOMAIN Block(run[j].at) : j \in {j \in Times({"block"}) : ProcOf(run[j].at) = x}}
Started == UNION {{j} \X DOMAIN Block(run[j].at) : j \in Times({"block"})}

\* What is counted once a block (dyninst, iprof, prof) and what is counted at
\* each instruction (cache, dtb, inline, branch, trace) are of the same run, the
\* one that happened, in whatever object: a block counts in full when it starts.
CodeCounted ==
  /\ dyninst.procs = Done("proc") /\ dyninst.blocks = Done("block")
  /\ cache.references = Done("load") /\ dyninst.loads = cache.references + Ahead("load")
  /\ dtb.hits + dtb.misses = Done("load") + Done("store")
  /\ dyninst.stores = Done("store") + Ahead("store")
  /\ {dyninst.insts, iprof.instrTotal, prof.instrTotal} = {Cardinality(Started)}
  /\ phase # "before" =>
       /\ \A x \in Procs :
            /\ iprof.callsPerProc[ProcNumber(x)] = DoneAt("proc", <<x[1], x[2], 1, 0>>)
            /\ iprof.instrPerProc[ProcNumber(x)] = Cardinality(StartedIn(x))
       /\ prof.instrPerProc = iprof.instrPerProc
       /\ \A x \in CallSites : inline[NumberIn(CallSites, x)] = DoneAt("jsr", x)
       /\ \A x \in Branches : branch.references[NumberIn(Branches, x)] = DoneAt("condbr", x)
       /\ \A n \in DOMAIN branch.references : branch.predicts[n] <= branch.references[n]

\* What trace writes of an event.
TraceEntry(e) == IF e.do = "block" THEN [pc |-> InstPC(e.at)] ELSE [address |-> e.addr]

\* trace.out, and the names ptrace prints, are the run in its order.
Traced ==
  LET seen == Times({"block", "load", "store"})
      calls == Times({"proc"})
  IN  /\ Len(trace) = Cardinality(seen) /\ Len(ptrace) = Cardinality(calls)
      /\ \A j \in seen : trace[Cardinality({i \in seen : i <= j})] = TraceEntry(run[j])
      /\ \A j \in calls : ptrace[Cardinality({i \in calls : i <= j})] = ProcOf(run[j].at)

\* The break after the first j events, and the mallocs from outside malloc.
BreakAfter(j) ==
  LET break[i \in 0..j] ==
        IF i = 0 THEN StartBrk
        ELSE CASE run[i].do = "brk"  -> run[i].n
               [] run[i].do = "sbrk" -> break[i - 1] + run[i].n
               [] OTHER              -> break[i - 1]
  IN  break[j]
Outermost ==
  {j \in Times({"malloc"}) : Cardinality({i \in Times({"malloc"}) : i < j})
                             = Cardinality({i \in Times({"return"}) : i < j})}

\* Every request from outside malloc is in the histogram, those malloc makes of
\* itself in none, and the highest break is kept, however it was moved.
HeapCounted ==
  /\ \A n \in 0..(MAXSIZE - 1) :
       /\ malloc.calls[n] = Cardinality({j \in Outermost : run[j].n = n})
       /\ malloc.memory[n] = n * malloc.calls[n]
  /\ Sum(malloc.calls) = Cardinality(Outermost)
  /\ phase # "before" =>
       /\ malloc.CurBrk = BreakAfter(Len(run))
       /\ malloc.MaxBrk = Max({BreakAfter(j) : j \in 0..Len(run)})

\* The tables name what ran, by numbers that are the same at both ends, and
\* their totals are those of the whole run, rows left out or not.
TablesName ==
  phase = "done" =>
    LET at(kind) == {run[j].at : j \in Times({kind})}
    IN  /\ {x \in Procs : ProcNumber(x) \in printed.prof.rows} = {ProcOf(x) : x \in at("block")}
        /\ DOMAIN printed.iprof.calls = printed.prof.rows
        /\ {printed.prof.total, printed.iprof.total} = {printed.dyninst.insts}
        /\ {x \in CallSites : NumberIn(CallSites, x) \in printed.inline} = at("jsr")
        /\ {x \in Branches : NumberIn(Branches, x) \in printed.branch.rows} = at("condbr")
        /\ printed.branch.references = Done("condbr")
        /\ printed.branch.predicts = Sum(branch.predicts)
        /\ printed.dtb.references = Done("load") + Done("store")
        /\ printed.cache.misses <= printed.cache.references
        /\ printed.malloc.calls = Cardinality(Outermost)
        /\ printed.malloc.allocated = Cardinality(UNION {{j} \X (1..run[j].n) : j \in Outermost})
        /\ printed.malloc.max >= 0

\* The tools agree with each other and with what the program did (the probes of
\* the inst.c files, numbered over all objects, and the counters of the anal.c).
ToolsAgree == CodeCounted /\ Traced /\ HeapCounted /\ TablesName

\* The misses counted are those of a direct-mapped cache that holds line 0 at the
\* start in its place: a load misses unless the load before it in its place was of
\* the same line, and nobody but a load of line 0 finds anything the first time.
Line(j) == run[j].addr \div CACHE_BLOCK
Place(j) == Line(j) % (CACHE_SIZE \div CACHE_BLOCK)
Misses(j) ==
  LET before == {i \in Times({"load"}) : i < j /\ Place(i) = Place(j)}
  IN  IF before = {} THEN Line(j) # 0 ELSE Line(Max(before)) # Line(j)
CacheExact == cache.misses = Cardinality({j \in Times({"load"}) : Misses(j)})

\* The translation buffer holds no page twice (but the 0 it starts with), finds
\* the page used last where its map says, and never replaces that one next.
DtbSound ==
  /\ \A i, j \in DOMAIN dtb.dtb : dtb.dtb[i] = dtb.dtb[j] => i = j \/ dtb.dtb[i] = 0
  /\ LET used == Times({"load", "store"})
         page == run[Max(used)].addr \div PAGESIZE
         entry == dtb.pageMap[page % MAPSIZE]
     IN  used # {} => dtb.dtb[entry] = page /\ entry # dtb.nextMapping
=============================================================================
