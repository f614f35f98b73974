------------------------------ MODULE AtomProofs ------------------------------
(***************************************************************************)
(* Proofs about the sample tools, for any application: any objects,        *)
(* procedures and blocks, any data, and tables of any size.                *)
(***************************************************************************)
EXTENDS Atom, SequenceTheorems, FiniteSetTheorems, TLAPS

-----------------------------------------------------------------------------
(* Induction, of sets, and finite sets. *)

LEMMA LeastNumber ==
  ASSUME NEW S \in SUBSET Nat, S # {}
  PROVE  \E m \in S : \A k \in S : m <= k
<1>1. PICK m \in S : \A k \in S : <<k, m>> \notin OpToRel(<, Nat)
  BY WFMin, NatLessThanWellFounded
<1>2. \A k \in S : ~ (k < m)
  BY <1>1 DEF OpToRel
<1> QED
  BY <1>2

LEMMA NumbersByInduction ==
  ASSUME NEW T, 0 \in T, \A n \in Nat : n \in T => n + 1 \in T
  PROVE  \A n \in Nat : n \in T
<1> SUFFICES ASSUME NEW z \in Nat, z \notin T PROVE FALSE
  OBVIOUS
<1>1. PICK m \in Nat \ T : \A k \in Nat \ T : m <= k
  BY LeastNumber, Nat \ T # {}
<1>2. m # 0
  OBVIOUS
<1>3. m - 1 \in Nat /\ m - 1 \in T
  BY <1>1, <1>2
<1> QED
  BY <1>3, (m - 1) + 1 = m

LEMMA ImageFinite ==
  ASSUME NEW I, IsFiniteSet(I), NEW f
  PROVE  IsFiniteSet({f[i] : i \in I})
<1> DEFINE g == [i \in I |-> f[i]]
<1>1. g \in Surjection(I, {f[i] : i \in I})
  BY DEF Surjection
<1> HIDE DEF g
<1> QED
  BY <1>1, FS_Surjection

LEMMA UnionFinite ==
  ASSUME NEW I, IsFiniteSet(I), NEW f, \A i \in I : IsFiniteSet(f[i])
  PROVE  IsFiniteSet(UNION {f[i] : i \in I})
BY ImageFinite, FS_UNION

\* A set with a new element.
LEMMA OneMore ==
  ASSUME NEW S, IsFiniteSet(S), NEW x, x \notin S, NEW T, T = S \cup {x}
  PROVE  IsFiniteSet(T) /\ Cardinality(T) = Cardinality(S) + 1 /\ Cardinality(S) \in Nat
BY FS_AddElement, FS_CardinalityType

-----------------------------------------------------------------------------
(* The application: its procedures, blocks and instructions. *)

LEMMA ProcsAre ==
  /\ IsFiniteSet(Procs)
  /\ \A x \in Procs : /\ x[1] \in Nat /\ x[2] \in Nat /\ x = <<x[1], x[2]>>
                      /\ Proc(x) \in Seq(Seq(STRING)) /\ 1 \in DOMAIN Proc(x)
<1> DEFINE f == [o \in DOMAIN Objects |-> {<<o, p>> : p \in DOMAIN Objects[o]}]
<1>1. Objects \in Seq(Seq(Seq(Seq(STRING))))
  BY AtomAssumption
<1>2. DOMAIN Objects = 1..Len(Objects) /\ Len(Objects) \in Nat
      /\ \A o \in DOMAIN Objects : Objects[o] \in Seq(Seq(Seq(STRING)))
  BY <1>1
<1>3. ASSUME NEW o \in DOMAIN Objects PROVE IsFiniteSet(f[o])
  <2>1. IsFiniteSet(DOMAIN Objects[o])
    BY <1>2, FS_Interval, DOMAIN Objects[o] = 1..Len(Objects[o]), Len(Objects[o]) \in Nat
  <2>2. IsFiniteSet({[p \in DOMAIN Objects[o] |-> <<o, p>>][i] : i \in DOMAIN Objects[o]})
    BY <2>1, ImageFinite
  <2>3. f[o] = {[p \in DOMAIN Objects[o] |-> <<o, p>>][i] : i \in DOMAIN Objects[o]}
    OBVIOUS
  <2> QED BY <2>2, <2>3
<1>4. Procs = UNION {f[o] : o \in DOMAIN Objects}
  BY DEF Procs
<1>5. IsFiniteSet(DOMAIN Objects)
  BY <1>2, FS_Interval
<1> HIDE DEF f
<1>6. IsFiniteSet(Procs)
  BY <1>3, <1>4, <1>5, UnionFinite
<1>7. ASSUME NEW x \in Procs
      PROVE  /\ x[1] \in Nat /\ x[2] \in Nat /\ x = <<x[1], x[2]>>
             /\ Proc(x) \in Seq(Seq(STRING)) /\ 1 \in DOMAIN Proc(x)
  <2>a. PICK o \in DOMAIN Objects : \E p \in DOMAIN Objects[o] : x = <<o, p>>
    BY DEF Procs
  <2>1. PICK p \in DOMAIN Objects[o] : x = <<o, p>>
    BY <2>a
  <2>2. o \in Nat /\ p \in Nat /\ x[1] = o /\ x[2] = p
    BY <1>2, <2>1
  <2>3. Proc(x) \in Seq(Seq(STRING))
    BY <1>2, <2>1, <2>2 DEF Proc
  <2>4. Proc(x) # <<>>
    BY AtomAssumption
  <2>5. 1 \in DOMAIN Proc(x)
    BY <2>3, <2>4
  <2> QED BY <2>1, <2>2, <2>3, <2>5
<1> QED
  BY <1>6, <1>7

LEMMA BlocksAre ==
  /\ IsFiniteSet(Blocks)
  /\ \A x \in Blocks : /\ x[1] \in Nat /\ x[2] \in Nat /\ x[3] \in Nat /\ x = <<x[1], x[2], x[3]>>
                       /\ <<x[1], x[2]>> \in Procs
                       /\ Block(x) \in Seq(STRING) /\ 1 \in DOMAIN Block(x)
                       /\ x[3] \in DOMAIN Proc(<<x[1], x[2]>>)
<1> DEFINE f == [x \in Procs |-> {<<x[1], x[2], b>> : b \in DOMAIN Proc(x)}]
<1>1. ASSUME NEW x \in Procs PROVE IsFiniteSet(f[x])
  <2>1. IsFiniteSet(DOMAIN Proc(x))
    BY ProcsAre, FS_Interval, DOMAIN Proc(x) = 1..Len(Proc(x)), Len(Proc(x)) \in Nat
  <2>2. PICK a, b : a = x[1] /\ b = x[2]
    OBVIOUS
  <2>3. IsFiniteSet({[k \in DOMAIN Proc(x) |-> <<a, b, k>>][i] : i \in DOMAIN Proc(x)})
    BY <2>1, ImageFinite
  <2>4. f[x] = {[k \in DOMAIN Proc(x) |-> <<a, b, k>>][i] : i \in DOMAIN Proc(x)}
    BY <2>2
  <2> QED BY <2>3, <2>4
<1>2. Blocks = UNION {f[x] : x \in Procs}
  BY DEF Blocks
<1> HIDE DEF f
<1>3. IsFiniteSet(Blocks)
  <2>1. IsFiniteSet(Procs)
    BY ProcsAre
  <2> QED BY <1>1, <1>2, <2>1, UnionFinite
<1>4. ASSUME NEW x \in Blocks
      PROVE  /\ x[1] \in Nat /\ x[2] \in Nat /\ x[3] \in Nat /\ x = <<x[1], x[2], x[3]>>
             /\ <<x[1], x[2]>> \in Procs
             /\ Block(x) \in Seq(STRING) /\ 1 \in DOMAIN Block(x)
             /\ x[3] \in DOMAIN Proc(<<x[1], x[2]>>)
  <2>a. PICK y \in Procs : \E b \in DOMAIN Proc(y) : x = <<y[1], y[2], b>>
    BY DEF Blocks
  <2>1. PICK b \in DOMAIN Proc(y) : x = <<y[1], y[2], b>>
    BY <2>a
  <2>2. /\ y[1] \in Nat /\ y[2] \in Nat /\ y = <<y[1], y[2]>> /\ Proc(y) \in Seq(Seq(STRING))
    BY ProcsAre
  <2>3. b \in Nat /\ Proc(y)[b] \in Seq(STRING)
    BY <2>2
  <2>4. x[1] = y[1] /\ x[2] = y[2] /\ x[3] = b
    BY <2>1
  <2>5. Block(x) = Proc(y)[b] /\ Proc(<<x[1], x[2]>>) = Proc(y)
    BY <2>4 DEF Block, Proc
  <2>6. Block(x) # <<>>
    BY AtomAssumption
  <2>7. Block(x) \in Seq(STRING) /\ 1 \in DOMAIN Block(x)
    BY <2>3, <2>5, <2>6
  <2> QED BY <2>1, <2>2, <2>3, <2>4, <2>5, <2>7
<1> QED
  BY <1>3, <1>4

LEMMA InstsAre ==
  /\ IsFiniteSet(Insts)
  /\ \A x \in Insts : /\ x[1] \in Nat /\ x[2] \in Nat /\ x[3] \in Nat /\ x[4] \in Nat
                      /\ x = <<x[1], x[2], x[3], x[4]>>
                      /\ <<x[1], x[2], x[3]>> \in Blocks
                      /\ x[4] \in DOMAIN Block(x)
<1> DEFINE f == [x \in Blocks |-> {<<x[1], x[2], x[3], i>> : i \in DOMAIN Block(x)}]
<1>1. ASSUME NEW x \in Blocks PROVE IsFiniteSet(f[x])
  <2>1. IsFiniteSet(DOMAIN Block(x))
    BY BlocksAre, FS_Interval, DOMAIN Block(x) = 1..Len(Block(x)), Len(Block(x)) \in Nat
  <2>2. PICK a, b, c : a = x[1] /\ b = x[2] /\ c = x[3]
    OBVIOUS
  <2>3. IsFiniteSet({[k \in DOMAIN Block(x) |-> <<a, b, c, k>>][i] : i \in DOMAIN Block(x)})
    BY <2>1, ImageFinite
  <2>4. f[x] = {[k \in DOMAIN Block(x) |-> <<a, b, c, k>>][i] : i \in DOMAIN Block(x)}
    BY <2>2
  <2> QED BY <2>3, <2>4
<1>2. Insts = UNION {f[x] : x \in Blocks}
  BY DEF Insts
<1> HIDE DEF f
<1>3. IsFiniteSet(Insts)
  <2>1. IsFiniteSet(Blocks)
    BY BlocksAre
  <2> QED BY <1>1, <1>2, <2>1, UnionFinite
<1>4. ASSUME NEW x \in Insts
      PROVE  /\ x[1] \in Nat /\ x[2] \in Nat /\ x[3] \in Nat /\ x[4] \in Nat
             /\ x = <<x[1], x[2], x[3], x[4]>>
             /\ <<x[1], x[2], x[3]>> \in Blocks
             /\ x[4] \in DOMAIN Block(x)
  <2>a. PICK y \in Blocks : \E i \in DOMAIN Block(y) : x = <<y[1], y[2], y[3], i>>
    BY DEF Insts
  <2>1. PICK i \in DOMAIN Block(y) : x = <<y[1], y[2], y[3], i>>
    BY <2>a
  <2>2. /\ y[1] \in Nat /\ y[2] \in Nat /\ y[3] \in Nat /\ y = <<y[1], y[2], y[3]>>
        /\ Block(y) \in Seq(STRING)
    BY BlocksAre
  <2>3. i \in Nat
    BY <2>2
  <2>4. x[1] = y[1] /\ x[2] = y[2] /\ x[3] = y[3] /\ x[4] = i
    BY <2>1
  <2>5. Block(x) = Block(y)
    BY <2>4 DEF Block, Proc
  <2> QED BY <2>1, <2>2, <2>3, <2>4, <2>5
<1> QED
  BY <1>3, <1>4

LEMMA SitesAre ==
  /\ IsFiniteSet(CallSites) /\ IsFiniteSet(Branches)
  /\ CallSites \subseteq Insts /\ Branches \subseteq Insts
BY InstsAre, FS_Subset DEF CallSites, Branches

-----------------------------------------------------------------------------
(* Numbers: a tool's counter, at the places it has a call added to. *)

LEMMA BeforeTwo ==
  ASSUME NEW x, NEW y, x = <<x[1], x[2]>>
  PROVE  Before(x, y) <=> x[1] < y[1] \/ (x[1] = y[1] /\ x[2] < y[2])
<1>1. DOMAIN x = {1, 2}
  OBVIOUS
<1>2. 1..(1 - 1) = {} /\ 1..(2 - 1) = {1}
  OBVIOUS
<1> QED
  BY <1>1, <1>2 DEF Before

LEMMA BeforeFour ==
  ASSUME NEW x, NEW y, x = <<x[1], x[2], x[3], x[4]>>
  PROVE  Before(x, y) <=>
           \/ x[1] < y[1]
           \/ x[1] = y[1] /\ x[2] < y[2]
           \/ x[1] = y[1] /\ x[2] = y[2] /\ x[3] < y[3]
           \/ x[1] = y[1] /\ x[2] = y[2] /\ x[3] = y[3] /\ x[4] < y[4]
<1>1. DOMAIN x = {1, 2, 3, 4}
  OBVIOUS
<1>2. 1..(1 - 1) = {} /\ 1..(2 - 1) = {1} /\ 1..(3 - 1) = {1, 2} /\ 1..(4 - 1) = {1, 2, 3}
  OBVIOUS
<1> QED
  BY <1>1, <1>2 DEF Before

\* An order of which the counter goes up along.
Ordered(S) ==
  /\ IsFiniteSet(S)
  /\ \A x \in S : ~Before(x, x)
  /\ \A x, y \in S : x # y => Before(x, y) \/ Before(y, x)
  /\ \A x, y, z \in S : Before(x, y) /\ Before(y, z) => Before(x, z)

LEMMA PlacesOrdered == Ordered(Procs) /\ Ordered(CallSites) /\ Ordered(Branches) /\ Ordered(Insts)
<1>1. Ordered(Procs)
  <2>1. \A x, y \in Procs : Before(x, y) <=> x[1] < y[1] \/ (x[1] = y[1] /\ x[2] < y[2])
    BY ProcsAre, BeforeTwo
  <2>2. \A x \in Procs : x[1] \in Nat /\ x[2] \in Nat
    BY ProcsAre
  <2>3. \A x, y \in Procs : x[1] = y[1] /\ x[2] = y[2] => x = y
    BY ProcsAre
  <2>4. \A x \in Procs : ~Before(x, x)
    BY <2>1, <2>2
  <2>5. \A x, y \in Procs : x # y => Before(x, y) \/ Before(y, x)
    BY <2>1, <2>2, <2>3
  <2>6. \A x, y, z \in Procs : Before(x, y) /\ Before(y, z) => Before(x, z)
    BY <2>1, <2>2
  <2> QED BY <2>4, <2>5, <2>6, ProcsAre DEF Ordered
<1>2. Ordered(Insts)
  <2>1. \A x, y \in Insts : Before(x, y) <=>
           \/ x[1] < y[1]
           \/ x[1] = y[1] /\ x[2] < y[2]
           \/ x[1] = y[1] /\ x[2] = y[2] /\ x[3] < y[3]
           \/ x[1] = y[1] /\ x[2] = y[2] /\ x[3] = y[3] /\ x[4] < y[4]
    BY InstsAre, BeforeFour
  <2>2. \A x \in Insts : x[1] \in Nat /\ x[2] \in Nat /\ x[3] \in Nat /\ x[4] \in Nat
    BY InstsAre
  <2>3. \A x, y \in Insts : x[1] = y[1] /\ x[2] = y[2] /\ x[3] = y[3] /\ x[4] = y[4] => x = y
    BY InstsAre
  <2>4. \A x \in Insts : ~Before(x, x)
    BY <2>1, <2>2
  <2>5. \A x, y \in Insts : x # y => Before(x, y) \/ Before(y, x)
    BY <2>1, <2>2, <2>3
  <2>6. \A x, y, z \in Insts : Before(x, y) /\ Before(y, z) => Before(x, z)
    BY <2>1, <2>2
  <2> QED BY <2>4, <2>5, <2>6, InstsAre DEF Ordered
<1>3. \A S \in SUBSET Insts : IsFiniteSet(S) => Ordered(S)
  BY <1>2 DEF Ordered
<1> QED
  BY <1>1, <1>2, <1>3, SitesAre

LEMMA NumbersApart ==
  ASSUME NEW S, Ordered(S)
  PROVE  /\ \A x \in S : NumberIn(S, x) \in 0..(Cardinality(S) - 1)
         /\ \A x, y \in S : NumberIn(S, x) = NumberIn(S, y) => x = y
         /\ Cardinality(S) \in Nat
<1> DEFINE below(x) == {z \in S : Before(z, x)}
<1>1. IsFiniteSet(S) /\ Cardinality(S) \in Nat
  BY FS_CardinalityType DEF Ordered
<1>2. \A x : IsFiniteSet(below(x)) /\ Cardinality(below(x)) \in Nat
  BY <1>1, FS_Subset, FS_CardinalityType
<1>3. ASSUME NEW x \in S PROVE NumberIn(S, x) \in 0..(Cardinality(S) - 1)
  <2>1. x \notin below(x) /\ below(x) \cup {x} \subseteq S
    BY DEF Ordered
  <2>2. Cardinality(below(x) \cup {x}) = Cardinality(below(x)) + 1
    BY <1>2, <2>1, FS_AddElement
  <2>3. Cardinality(below(x) \cup {x}) <= Cardinality(S)
    BY <1>1, <2>1, FS_Subset
  <2>4. NumberIn(S, x) = Cardinality(below(x))
    BY DEF NumberIn
  <2> HIDE DEF below
  <2> QED BY <1>1, <1>2, <2>2, <2>3, <2>4
<1>4. ASSUME NEW x \in S, NEW y \in S, Before(x, y) PROVE NumberIn(S, x) # NumberIn(S, y)
  <2>1. x \notin below(x) /\ below(x) \cup {x} \subseteq below(y)
    BY <1>4 DEF Ordered
  <2>2. Cardinality(below(x) \cup {x}) = Cardinality(below(x)) + 1
    BY <1>2, <2>1, FS_AddElement
  <2>3. Cardinality(below(x) \cup {x}) <= Cardinality(below(y))
    BY <1>2, <2>1, FS_Subset
  <2>4. NumberIn(S, x) = Cardinality(below(x)) /\ NumberIn(S, y) = Cardinality(below(y))
    BY DEF NumberIn
  <2> HIDE DEF below
  <2> QED BY <1>2, <2>2, <2>3, <2>4
<1> HIDE DEF below
<1> QED
  BY <1>1, <1>3, <1>4 DEF Ordered


-----------------------------------------------------------------------------
(* Where the program is, and what a step adds to the run. *)

Events ==
  [do : {"proc"}, at : {<<x[1], x[2], 1, 0>> : x \in Procs}]
  \cup [do : {"block"}, at : Insts]
  \cup [do : {"load", "store"}, at : Insts, addr : Addr]
  \cup [do : {"jsr"}, at : CallSites]
  \cup [do : {"condbr"}, at : Branches, taken : BOOLEAN]
  \cup [do : {"malloc"}, n : Request] \cup [do : {"return"}]
  \cup [do : {"brk"}, n : Break] \cup [do : {"sbrk"}, n : Growth]

HereOK ==
  /\ here = <<here[1], here[2], here[3], here[4]>>
  /\ <<here[1], here[2], here[3]>> \in Blocks
  /\ here[4] \in 0..(Len(Block(here)) + 1)

RunOK ==
  /\ run \in Seq(Events)
  /\ phase = "before" => run = <<>>
  /\ run = <<>> => here[4] = 0

TypeOK == phase \in {"before", "run", "done"} /\ HereOK /\ RunOK

LEMMA EventHas ==
  ASSUME NEW e \in Events
  PROVE  /\ e.do = "proc" => \E x \in Procs : e.at = <<x[1], x[2], 1, 0>>
         /\ e.do \in {"block", "load", "store"} => e.at \in Insts
         /\ e.do \in {"load", "store"} => e.addr \in Nat
         /\ e.do = "jsr" => e.at \in CallSites
         /\ e.do = "condbr" => e.at \in Branches
         /\ e.do = "malloc" => e.n \in Nat
         /\ e.do \in {"brk", "sbrk"} => e.n \in Int
<1>1. Addr \subseteq Nat /\ Request \subseteq Nat /\ Break \subseteq Int /\ Growth \subseteq Int
  BY AtomAssumption
<1> QED
  BY <1>1 DEF Events

\* A block's instructions, from whichever place in it.
LEMMA PlaceInBlock ==
  ASSUME NEW x \in Blocks, NEW i
  PROVE  /\ Block(<<x[1], x[2], x[3], i>>) = Block(x)
         /\ i \in DOMAIN Block(x) => <<x[1], x[2], x[3], i>> \in Insts
BY DEF Block, Proc, Insts

\* What is known of the instruction about to execute.
LEMMA HereIs ==
  ASSUME HereOK
  PROVE  /\ Block(here) \in Seq(STRING) /\ 1 \in DOMAIN Block(here) /\ here[4] \in Nat
         /\ DOMAIN Block(here) = 1..Len(Block(here)) /\ Len(Block(here)) \in Nat \ {0}
         /\ ProcOf(here) \in Procs
         /\ here[4] \in DOMAIN Block(here) => here \in Insts
         /\ [here EXCEPT ![4] = 1] \in Insts
<1> DEFINE x == <<here[1], here[2], here[3]>>
<1>1. x \in Blocks /\ x[1] = here[1] /\ x[2] = here[2] /\ x[3] = here[3]
  BY DEF HereOK
<1>2. Block(x) = Block(here)
  BY <1>1 DEF Block, Proc
<1>3. /\ Block(here) \in Seq(STRING) /\ 1 \in DOMAIN Block(here)
      /\ <<x[1], x[2]>> \in Procs
  BY <1>1, <1>2, BlocksAre
<1>4. here = <<x[1], x[2], x[3], here[4]>> /\ [here EXCEPT ![4] = 1] = <<x[1], x[2], x[3], 1>>
  BY <1>1 DEF HereOK
<1>5. /\ here[4] \in DOMAIN Block(here) => here \in Insts
      /\ [here EXCEPT ![4] = 1] \in Insts
  <2> HIDE DEF x
  <2>1. \A i : i \in DOMAIN Block(x) => <<x[1], x[2], x[3], i>> \in Insts
    BY <1>1, PlaceInBlock
  <2>2. here[4] \in DOMAIN Block(here) => <<x[1], x[2], x[3], here[4]>> \in Insts
    BY <1>2, <2>1
  <2>3. <<x[1], x[2], x[3], 1>> \in Insts
    BY <1>2, <1>3, <2>1
  <2> QED BY <1>4, <2>2, <2>3
<1>6. ProcOf(here) \in Procs
  BY <1>1, <1>3 DEF ProcOf
<1>7. DOMAIN Block(here) = 1..Len(Block(here)) /\ Len(Block(here)) \in Nat \ {0}
  BY <1>3
<1>8. here[4] \in Nat
  BY <1>7 DEF HereOK
<1> QED
  BY <1>3, <1>5, <1>6, <1>7, <1>8

\* The run with one event more.
Grown(e) == e \in Events /\ run' = Append(run, e)

LEMMA GrownRun ==
  ASSUME run \in Seq(Events), NEW e, Grown(e)
  PROVE  /\ run' \in Seq(Events) /\ Len(run) \in Nat
         /\ DOMAIN run = 1..Len(run) /\ DOMAIN run' = 1..(Len(run) + 1)
         /\ Len(run') = Len(run) + 1 /\ Len(run) + 1 \notin DOMAIN run
         /\ \A j \in DOMAIN run : run'[j] = run[j]
         /\ run'[Len(run) + 1] = e
BY DEF Grown

LEMMA GrownTimes ==
  ASSUME run \in Seq(Events), NEW e, Grown(e)
  PROVE  \A kinds : Times(kinds)' = IF e.do \in kinds THEN Times(kinds) \cup {Len(run) + 1}
                                    ELSE Times(kinds)
<1> TAKE kinds
<1>1. Times(kinds)' = {j \in DOMAIN run' : run'[j].do \in kinds}
  BY DEF Times
<1>2. Times(kinds) = {j \in DOMAIN run : run[j].do \in kinds}
  BY DEF Times
<1>3. DOMAIN run' = DOMAIN run \cup {Len(run) + 1}
  BY GrownRun, \A n \in Nat : 1..(n + 1) = (1..n) \cup {n + 1}
<1> QED
  BY <1>1, <1>2, <1>3, GrownRun

LEMMA TimesAre ==
  ASSUME run \in Seq(Events), NEW kinds
  PROVE  /\ Times(kinds) \subseteq 1..Len(run) /\ Times(kinds) \subseteq DOMAIN run
         /\ Len(run) \in Nat /\ Len(run) + 1 \notin Times(kinds)
         /\ IsFiniteSet(Times(kinds)) /\ Cardinality(Times(kinds)) \in Nat
<1>1. DOMAIN run = 1..Len(run) /\ Len(run) \in Nat
  OBVIOUS
<1>2. Times(kinds) \subseteq 1..Len(run)
  BY <1>1 DEF Times
<1>3. IsFiniteSet(1..Len(run))
  BY <1>1, FS_Interval
<1>4. IsFiniteSet(Times(kinds)) /\ Cardinality(Times(kinds)) \in Nat
  BY <1>2, <1>3, FS_Subset, FS_CardinalityType
<1> QED
  BY <1>1, <1>2, <1>4

LEMMA GrownDone ==
  ASSUME run \in Seq(Events), NEW e, Grown(e), NEW kind
  PROVE  /\ Done(kind)' = IF e.do = kind THEN Done(kind) + 1 ELSE Done(kind)
         /\ Done(kind) \in Nat
<1>1. Times({kind})' = IF e.do \in {kind} THEN Times({kind}) \cup {Len(run) + 1} ELSE Times({kind})
  BY GrownTimes
<1>2. /\ Len(run) + 1 \notin Times({kind})
      /\ IsFiniteSet(Times({kind})) /\ Cardinality(Times({kind})) \in Nat
  BY TimesAre
<1>3. Cardinality(Times({kind}) \cup {Len(run) + 1}) = Cardinality(Times({kind})) + 1
  BY <1>2, OneMore
<1> QED
  BY <1>1, <1>2, <1>3 DEF Done


\* What each action adds to the run.
LEMMA EnterProcAdds ==
  ASSUME TypeOK, EnterProc
  PROVE  \E x \in Procs :
           /\ Grown([do |-> "proc", at |-> <<x[1], x[2], 1, 0>>])
           /\ here' = <<x[1], x[2], 1, 0>>
           /\ dyninst' = AddProcedure /\ iprof' = ProcedureCalls(ProcNumber(x))
           /\ ptrace' = ProcTrace(x)
BY DEF EnterProc, Happens, Grown, Events

LEMMA StartBlockAdds ==
  ASSUME TypeOK, StartBlock
  PROVE  /\ here' \in Insts /\ here' = [here EXCEPT ![4] = 1]
         /\ Grown([do |-> "block", at |-> here'])
<1>1. here' = [here EXCEPT ![4] = 1] /\ run' = Append(run, [do |-> "block", at |-> here'])
  BY DEF StartBlock, Happens
<1>2. here' \in Insts
  BY <1>1, HereIs DEF TypeOK
<1> QED
  BY <1>1, <1>2 DEF Grown, Events

LEMMA LoadStoreAdds ==
  ASSUME TypeOK, NEW kind \in {"load", "store"}, LoadStore(kind)
  PROVE  \E a \in Addr :
           /\ Grown([do |-> kind, at |-> here, addr |-> a]) /\ here \in Insts
           /\ cache' = IF kind = "load" THEN CacheReference(a) ELSE cache
           /\ dtb' = DtbReference(a)
           /\ trace' = DataReference(a)
<1>1. here \in Insts
  BY HereIs DEF TypeOK, LoadStore, Executes
<1>2. PICK a \in Addr :
        /\ run' = Append(run, [do |-> kind, at |-> here, addr |-> a])
        /\ cache' = IF kind = "load" THEN CacheReference(a) ELSE cache
        /\ dtb' = DtbReference(a)
        /\ trace' = DataReference(a)
  BY DEF LoadStore, Happens
<1>3. [do |-> kind, at |-> here, addr |-> a] \in Events
  BY <1>1 DEF Events
<1> QED
  BY <1>1, <1>2, <1>3 DEF Grown

LEMMA JsrAdds ==
  ASSUME TypeOK, Jsr
  PROVE  Grown([do |-> "jsr", at |-> here]) /\ here \in CallSites
<1>1. here \in Insts /\ Inst(here) = "jsr"
  BY HereIs DEF TypeOK, Jsr, Executes
<1>2. here \in CallSites
  BY <1>1 DEF CallSites
<1>3. run' = Append(run, [do |-> "jsr", at |-> here])
  BY DEF Jsr, Happens
<1> QED
  BY <1>2, <1>3 DEF Grown, Events

LEMMA CondBrAdds ==
  ASSUME TypeOK, CondBr
  PROVE  \E taken \in BOOLEAN :
           /\ Grown([do |-> "condbr", at |-> here, taken |-> taken]) /\ here \in Branches
           /\ branch' = CondBranch(NumberIn(Branches, here), InstPC(here), taken)
<1>1. here \in Insts /\ Inst(here) = "condbr"
  BY HereIs DEF TypeOK, CondBr, Executes
<1>2. here \in Branches
  BY <1>1, AtomAssumption DEF Branches
<1>3. PICK taken \in BOOLEAN :
        /\ run' = Append(run, [do |-> "condbr", at |-> here, taken |-> taken])
        /\ branch' = CondBranch(NumberIn(Branches, here), InstPC(here), taken)
  BY DEF CondBr, Happens
<1>4. [do |-> "condbr", at |-> here, taken |-> taken] \in Events
  BY <1>2 DEF Events
<1> QED
  BY <1>2, <1>3, <1>4 DEF Grown

LEMMA HeapCallAdds ==
  ASSUME TypeOK, HeapCall
  PROVE  \/ \E n \in Request : Grown([do |-> "malloc", n |-> n]) /\ malloc' = BeforeMalloc(n)
         \/ Done("malloc") > Done("return") /\ Grown([do |-> "return"]) /\ malloc' = AfterMalloc
         \/ \E n \in Break : Grown([do |-> "brk", n |-> n]) /\ malloc' = BeforeBrk(n)
         \/ \E n \in Growth : Grown([do |-> "sbrk", n |-> n]) /\ malloc' = BeforeSbrk(n)
BY DEF HeapCall, Happens, Grown, Events

\* What kind each is of.
LEMMA KindsAdded ==
  ASSUME TypeOK
  PROVE  /\ EnterProc => \E e : Grown(e) /\ e.do = "proc"
         /\ StartBlock => \E e : Grown(e) /\ e.do = "block"
         /\ Jsr => \E e : Grown(e) /\ e.do = "jsr"
         /\ CondBr => \E e : Grown(e) /\ e.do = "condbr"
         /\ HeapCall => \E e : Grown(e) /\ e.do \in {"malloc", "return", "brk", "sbrk"}
         /\ \A kind \in {"load", "store"} :
              LoadStore(kind) => \E e : Grown(e) /\ e.do = kind
<1>1. ASSUME EnterProc PROVE \E e : Grown(e) /\ e.do = "proc"
  <2>1. PICK x \in Procs : Grown([do |-> "proc", at |-> <<x[1], x[2], 1, 0>>])
    BY <1>1, EnterProcAdds
  <2> QED BY <2>1, [do |-> "proc", at |-> <<x[1], x[2], 1, 0>>].do = "proc"
<1>2. ASSUME StartBlock PROVE \E e : Grown(e) /\ e.do = "block"
  BY <1>2, StartBlockAdds
<1>3. ASSUME Jsr PROVE \E e : Grown(e) /\ e.do = "jsr"
  BY <1>3, JsrAdds
<1>4. ASSUME CondBr PROVE \E e : Grown(e) /\ e.do = "condbr"
  <2>1. PICK taken \in BOOLEAN : Grown([do |-> "condbr", at |-> here, taken |-> taken])
    BY <1>4, CondBrAdds
  <2> QED BY <2>1, [do |-> "condbr", at |-> here, taken |-> taken].do = "condbr"
<1>5. ASSUME HeapCall PROVE \E e : Grown(e) /\ e.do \in {"malloc", "return", "brk", "sbrk"}
  <2>1. CASE \E n \in Request : Grown([do |-> "malloc", n |-> n])
    <3>1. PICK n \in Request : Grown([do |-> "malloc", n |-> n])
      BY <2>1
    <3> QED BY <3>1, [do |-> "malloc", n |-> n].do = "malloc"
  <2>2. CASE Grown([do |-> "return"])
    BY <2>2, [do |-> "return"].do = "return"
  <2>3. CASE \E n \in Break : Grown([do |-> "brk", n |-> n])
    <3>1. PICK n \in Break : Grown([do |-> "brk", n |-> n])
      BY <2>3
    <3> QED BY <3>1, [do |-> "brk", n |-> n].do = "brk"
  <2>4. CASE \E n \in Growth : Grown([do |-> "sbrk", n |-> n])
    <3>1. PICK n \in Growth : Grown([do |-> "sbrk", n |-> n])
      BY <2>4
    <3> QED BY <3>1, [do |-> "sbrk", n |-> n].do = "sbrk"
  <2> QED BY <1>5, <2>1, <2>2, <2>3, <2>4, HeapCallAdds
<1>6. ASSUME NEW kind \in {"load", "store"}, LoadStore(kind) PROVE \E e : Grown(e) /\ e.do = kind
  <2>1. PICK a \in Addr : Grown([do |-> kind, at |-> here, addr |-> a])
    BY <1>6, LoadStoreAdds
  <2> QED BY <2>1, [do |-> kind, at |-> here, addr |-> a].do = kind
<1> QED
  BY <1>1, <1>2, <1>3, <1>4, <1>5, <1>6

LEMMA EnterHere ==
  ASSUME NEW x \in Procs, here' = <<x[1], x[2], 1, 0>>
  PROVE  HereOK' /\ Len(Block(here')) \in Nat /\ here'[4] = 0
<1>1. <<x[1], x[2], 1>> \in Blocks
  BY ProcsAre DEF Blocks
<1>2. Block(<<x[1], x[2], 1>>) \in Seq(STRING)
  BY <1>1, BlocksAre
<1>3. Block(here') = Block(<<x[1], x[2], 1>>)
  BY DEF Block, Proc
<1>4. Len(Block(here')) \in Nat /\ 0 \in 0..(Len(Block(here')) + 1)
  BY <1>2, <1>3
<1> QED
  BY <1>1, <1>4 DEF HereOK

LEMMA GotoHere ==
  ASSUME NEW x \in Blocks, here' = <<x[1], x[2], x[3], 0>>
  PROVE  HereOK' /\ here'[4] = 0
<1>1. <<x[1], x[2], x[3]>> \in Blocks
  BY BlocksAre
<1>2. Block(x) \in Seq(STRING)
  BY BlocksAre
<1>3. Block(here') = Block(x)
  BY DEF Block, Proc
<1>4. 0 \in 0..(Len(Block(here')) + 1)
  BY <1>2, <1>3
<1> QED
  BY <1>1, <1>4 DEF HereOK

LEMMA OnHere ==
  ASSUME HereOK, here[4] \in 0..Len(Block(here)), here' = [here EXCEPT ![4] = here[4] + 1]
  PROVE  HereOK' /\ Block(here') = Block(here) /\ here'[4] = here[4] + 1 /\ ProcOf(here') = ProcOf(here)
<1>1. here' = <<here[1], here[2], here[3], here[4] + 1>>
  BY DEF HereOK
<1>2. Block(here') = Block(here) /\ ProcOf(here') = ProcOf(here)
  BY <1>1 DEF Block, Proc, ProcOf
<1>3. Len(Block(here)) \in Nat
  BY HereIs
<1> QED
  BY <1>1, <1>2, <1>3 DEF HereOK


LEMMA InitType == Init => TypeOK
<1> SUFFICES ASSUME Init PROVE TypeOK
  OBVIOUS
<1>1. PICK x \in Procs : x = <<1, 1>>
  BY AtomAssumption
<1>2. <<1, 1, 1>> \in Blocks
  BY <1>1, ProcsAre DEF Blocks
<1>3. Block(<<1, 1, 1>>) \in Seq(STRING)
  BY <1>2, BlocksAre
<1>4. Block(here) = Block(<<1, 1, 1>>)
  BY DEF Init, Block, Proc
<1>5. 0 \in 0..(Len(Block(here)) + 1)
  BY <1>3, <1>4
<1>6. HereOK
  BY <1>2, <1>5 DEF HereOK, Init
<1> QED
  BY <1>6 DEF TypeOK, RunOK, Init

LEMMA GrownRunOK ==
  ASSUME TypeOK, NEW e, Grown(e), phase = "run", phase' = phase
  PROVE  RunOK' /\ phase' \in {"before", "run", "done"}
<1>1. run' \in Seq(Events) /\ Len(run') = Len(run) + 1 /\ Len(run) \in Nat
  BY GrownRun DEF TypeOK, RunOK
<1> QED
  BY <1>1 DEF RunOK

LEMMA TypeStep == TypeOK /\ [Next]_vars => TypeOK'
<1> SUFFICES ASSUME TypeOK, [Next]_vars PROVE TypeOK'
  OBVIOUS
<1>1. CASE UNCHANGED vars
  BY <1>1 DEF vars, TypeOK, HereOK, RunOK
<1>2. CASE ProgramBefore
  BY <1>2 DEF ProgramBefore, TypeOK, HereOK, RunOK
<1>3. CASE Goto
  <2>1. PICK x \in Blocks : here' = <<x[1], x[2], x[3], 0>>
    BY <1>3 DEF Goto
  <2>2. HereOK' /\ here'[4] = 0
    BY <2>1, GotoHere
  <2> QED BY <1>3, <2>2 DEF Goto, TypeOK, RunOK
<1>4. CASE EnterProc
  <2>1. PICK x \in Procs : Grown([do |-> "proc", at |-> <<x[1], x[2], 1, 0>>]) /\ here' = <<x[1], x[2], 1, 0>>
    BY <1>4, EnterProcAdds
  <2>2. HereOK'
    BY <2>1, EnterHere
  <2>3. phase = "run" /\ phase' = phase
    BY <1>4 DEF EnterProc, Running, Happens
  <2> QED BY <2>1, <2>2, <2>3, GrownRunOK DEF TypeOK
<1>5. CASE StartBlock
  <2>1. Grown([do |-> "block", at |-> here']) /\ here' = [here EXCEPT ![4] = 1]
    BY <1>5, StartBlockAdds
  <2>2. phase = "run" /\ phase' = phase /\ here[4] = 0
    BY <1>5 DEF StartBlock, Running, Happens
  <2>3. HereOK'
    BY <2>1, <2>2, OnHere, HereIs DEF TypeOK
  <2> QED BY <2>1, <2>2, <2>3, GrownRunOK DEF TypeOK
<1>6. ASSUME NEW kind, Executes(kind), Onward PROVE HereOK' /\ phase = "run"
  <2>1. here[4] \in 0..Len(Block(here)) /\ here' = [here EXCEPT ![4] = here[4] + 1]
    BY <1>6, HereIs DEF TypeOK, Executes, Onward
  <2> QED BY <1>6, <2>1, OnHere DEF TypeOK, Executes, Running
<1>7. ASSUME NEW kind \in {"load", "store"}, LoadStore(kind) PROVE TypeOK'
  <2>1. PICK a \in Addr : Grown([do |-> kind, at |-> here, addr |-> a])
    BY <1>7, LoadStoreAdds
  <2>2. phase' = phase /\ HereOK' /\ phase = "run"
    BY <1>6, <1>7 DEF LoadStore, Happens
  <2> QED BY <2>1, <2>2, GrownRunOK DEF TypeOK
<1>8. CASE Jsr
  <2>1. Grown([do |-> "jsr", at |-> here])
    BY <1>8, JsrAdds
  <2>2. phase' = phase /\ HereOK' /\ phase = "run"
    BY <1>6, <1>8 DEF Jsr, Happens
  <2> QED BY <2>1, <2>2, GrownRunOK DEF TypeOK
<1>9. CASE CondBr
  <2>1. PICK taken \in BOOLEAN : Grown([do |-> "condbr", at |-> here, taken |-> taken])
    BY <1>9, CondBrAdds
  <2>2. phase' = phase /\ HereOK' /\ phase = "run"
    BY <1>6, <1>9 DEF CondBr, Happens
  <2> QED BY <2>1, <2>2, GrownRunOK DEF TypeOK
<1>10. CASE HeapCall
  <2>1. \E e : Grown(e)
    BY <1>10, HeapCallAdds
  <2>2. UNCHANGED <<here, phase>> /\ phase = "run"
    BY <1>10 DEF HeapCall, Running, Happens
  <2>3. HereOK'
    BY <2>2 DEF TypeOK, HereOK
  <2> QED BY <2>1, <2>2, <2>3, GrownRunOK DEF TypeOK
<1>11. CASE ProgramAfter
  BY <1>11 DEF ProgramAfter, TypeOK, HereOK, RunOK
<1> QED
  BY <1>1, <1>2, <1>3, <1>4, <1>5, <1>7, <1>8, <1>9, <1>10, <1>11 DEF Next, Exited

\* The program is always at an instruction of a block of the application, before
\* its first one or past its last, and what has happened is a sequence of calls,
\* blocks and instructions of it (AddCall and what ATOM makes of it).
THEOREM PlacesAreReal == Spec => []TypeOK
BY InitType, TypeStep, PTL DEF Spec


-----------------------------------------------------------------------------
(* The cache tool. *)

LEMMA MaxIs ==
  ASSUME NEW S \in SUBSET Int, NEW m \in S, \A y \in S : y <= m
  PROVE  Max(S) = m
<1>1. \A z \in S : (\A y \in S : z >= y) <=> z = m
  OBVIOUS
<1> QED
  BY <1>1 DEF Max

LEMMA LastIs ==
  ASSUME NEW n \in Nat, NEW S \in SUBSET (1..n), S # {}
  PROVE  Max(S) \in S /\ \A y \in S : y <= Max(S)
<1> DEFINE T == {n - y : y \in S}
<1>0. \A y \in S : y \in Nat /\ n - y \in Nat
  OBVIOUS
<1>1. T \in SUBSET Nat /\ T # {}
  BY <1>0
<1> HIDE DEF T
<1>2. PICK t \in T : \A k \in T : t <= k
  BY <1>1, LeastNumber
<1>3. PICK m \in S : t = n - m
  BY <1>2 DEF T
<1>4. \A y \in S : n - y \in T
  BY DEF T
<1>5. \A y \in S : y <= m
  <2> TAKE y \in S
  <2>1. n - m <= n - y
    BY <1>2, <1>3, <1>4
  <2> QED BY <2>1
<1>6. Max(S) = m
  BY <1>5, MaxIs
<1> QED
  BY <1>5, <1>6

LEMMA Quotient ==
  ASSUME NEW a \in Nat, NEW d \in Nat \ {0}, NEW r \in 0..(d - 1)
  PROVE  (a * d + r) \div d = a /\ (a * d + r) % d = r
<1> DEFINE x == a * d + r
           q == x \div d
           s == x % d
<1>2. x = a * d + r /\ x \in Nat
  OBVIOUS
<1> HIDE DEF x
<1>1. q \in Nat /\ s \in 0..(d - 1) /\ x = q * d + s
  BY <1>2
<1> HIDE DEF q, s
<1>3. q * d < (a + 1) * d /\ a * d < (q + 1) * d
  BY <1>1, <1>2
<1>4. q < a + 1 /\ a < q + 1
  BY <1>1, <1>3
<1>5. q = a
  BY <1>1, <1>4
<1>6. s = r
  BY <1>1, <1>2, <1>5
<1> QED BY <1>5, <1>6 DEF q, s, x

CacheLines == CACHE_SIZE \div CACHE_BLOCK

\* The place of an address in the cache is that of its line.
LEMMA PlaceOfLine ==
  ASSUME NEW a \in Nat
  PROVE  /\ CacheLines \in Nat \ {0} /\ a \div CACHE_BLOCK \in Nat
         /\ (a % CACHE_SIZE) \div CACHE_BLOCK = (a \div CACHE_BLOCK) % CacheLines
         /\ (a % CACHE_SIZE) \div CACHE_BLOCK \in 0..(CacheLines - 1)
<1> DEFINE N == CacheLines
           q == a \div CACHE_BLOCK
           r == a % CACHE_BLOCK
           p == q \div N
           s == q % N
<1>1. CACHE_SIZE \in Nat \ {0} /\ CACHE_BLOCK \in Nat \ {0} /\ CACHE_SIZE % CACHE_BLOCK = 0
  BY AtomAssumption
<1>2. N \in Nat /\ CACHE_SIZE = N * CACHE_BLOCK
  BY <1>1 DEF CacheLines
<1>3. N # 0
  BY <1>1, <1>2
<1>4. q \in Nat /\ r \in 0..(CACHE_BLOCK - 1) /\ a = q * CACHE_BLOCK + r
  BY <1>1
<1> HIDE DEF N, q, r
<1>5. p \in Nat /\ s \in 0..(N - 1) /\ q = p * N + s
  BY <1>2, <1>3, <1>4
<1> HIDE DEF p, s
<1>6. a = p * (N * CACHE_BLOCK) + (s * CACHE_BLOCK + r)
  BY <1>1, <1>2, <1>4, <1>5
<1>7. s * CACHE_BLOCK + r \in 0..(N * CACHE_BLOCK - 1)
  <2>1. s * CACHE_BLOCK <= (N - 1) * CACHE_BLOCK
    BY <1>1, <1>2, <1>5
  <2>2. s * CACHE_BLOCK \in Nat /\ (N - 1) * CACHE_BLOCK = N * CACHE_BLOCK - CACHE_BLOCK
    BY <1>1, <1>2, <1>3, <1>5
  <2> QED BY <1>1, <1>2, <1>4, <2>1, <2>2
<1>8. a % (N * CACHE_BLOCK) = s * CACHE_BLOCK + r
  <2> DEFINE M == N * CACHE_BLOCK
             u == s * CACHE_BLOCK + r
  <2>1. M \in Nat \ {0} /\ u \in 0..(M - 1) /\ a = p * M + u
    BY <1>1, <1>2, <1>3, <1>6, <1>7
  <2> HIDE DEF M, u
  <2>2. a % M = u
    BY <1>5, <2>1, Quotient
  <2> QED BY <2>2 DEF M, u
<1>9. (s * CACHE_BLOCK + r) \div CACHE_BLOCK = s
  BY <1>1, <1>4, <1>5, Quotient
<1>10. (a % CACHE_SIZE) \div CACHE_BLOCK = s /\ s \in 0..(N - 1)
  BY <1>2, <1>5, <1>8, <1>9
<1> QED
  BY <1>2, <1>3, <1>4, <1>10 DEF s, q, N


\* The loads of lines of place k, so far.
LoadsOf(k) == {i \in Times({"load"}) : Place(i) = k}

CacheOK ==
  /\ cache \in [tags : [0..(CacheLines - 1) -> Nat], references : Nat, misses : Nat]
  /\ cache.references = Done("load")

\* Every tag is the line of the last load in its place.
TagsHold ==
  \A k \in 0..(CacheLines - 1) :
    cache.tags[k] = IF LoadsOf(k) = {} THEN 0 ELSE Line(Max(LoadsOf(k)))

CacheInv == CacheOK /\ TagsHold /\ CacheExact

\* What the loads before are, to a run with one event more.
LEMMA GrownLines ==
  ASSUME RunOK, NEW e, Grown(e), NEW m, m = Len(run) + 1
  PROVE  /\ \A j \in Times({"load"}) :
              /\ j \in DOMAIN run /\ j \in Nat /\ j < Len(run) + 1
              /\ Line(j)' = Line(j) /\ Place(j)' = Place(j) /\ Line(j) \in Nat
              /\ Misses(j)' = Misses(j)
         /\ \A k : LoadsOf(k)' = IF e.do = "load" /\ Place(m)' = k
                                 THEN LoadsOf(k) \cup {m} ELSE LoadsOf(k)
<1>1. run \in Seq(Events)
  BY DEF RunOK
<1>2. /\ Len(run) \in Nat /\ \A j \in Times({"load"}) : j \in DOMAIN run /\ j \in Nat /\ j < Len(run) + 1
  BY <1>1, TimesAre
<1>3. \A j \in DOMAIN run : run'[j] = run[j]
  BY <1>1, GrownRun
<1>4. ASSUME NEW j \in Times({"load"})
      PROVE  Line(j)' = Line(j) /\ Place(j)' = Place(j) /\ Line(j) \in Nat
  <2>1. run'[j] = run[j]
    BY <1>2, <1>3
  <2>2. Line(j)' = Line(j)
    BY <2>1 DEF Line
  <2>3. Place(j)' = Place(j)
    BY <2>2 DEF Place
  <2>4. run[j] \in Events /\ run[j].do = "load"
    BY <1>1, <1>2 DEF Times
  <2>5. run[j].addr \in Nat
    BY <2>4, EventHas
  <2>6. Line(j) \in Nat
    BY <2>5, PlaceOfLine DEF Line
  <2> QED BY <2>2, <2>3, <2>6
<1>5. Times({"load"})' = IF e.do = "load" THEN Times({"load"}) \cup {Len(run) + 1} ELSE Times({"load"})
  BY <1>1, GrownTimes
<1>6. ASSUME NEW j \in Times({"load"}) PROVE Misses(j)' = Misses(j)
  <2> DEFINE before == {i \in Times({"load"}) : i < j /\ Place(i) = Place(j)}
             after == {i \in Times({"load"})' : i < j /\ Place(i)' = Place(j)'}
  <2>1. Misses(j) = IF before = {} THEN Line(j) # 0
                    ELSE run[Max(before)].addr \div CACHE_BLOCK # Line(j)
    BY DEF Misses, Line
  <2>2. Misses(j)' = IF after = {} THEN Line(j)' # 0
                     ELSE run'[Max(after)].addr \div CACHE_BLOCK # Line(j)'
    BY DEF Misses, Line
  <2>3. after = before
    BY <1>2, <1>4, <1>5
  <2>4. before \in SUBSET (1..Len(run)) /\ before \subseteq Times({"load"})
    BY <1>1, TimesAre
  <2> HIDE DEF before, after
  <2>5. before # {} => Max(before) \in Times({"load"})
    BY <1>2, <2>4, LastIs
  <2>6. before # {} => run'[Max(before)] = run[Max(before)]
    BY <1>2, <1>3, <2>5
  <2> QED BY <1>4, <2>1, <2>2, <2>3, <2>6
<1>7. ASSUME NEW k
      PROVE  LoadsOf(k)' = IF e.do = "load" /\ Place(m)' = k
                           THEN LoadsOf(k) \cup {m} ELSE LoadsOf(k)
  <2>1. LoadsOf(k)' = {i \in Times({"load"})' : Place(i)' = k}
    BY DEF LoadsOf
  <2>2. LoadsOf(k) = {i \in Times({"load"}) : Place(i) = k}
    BY DEF LoadsOf
  <2> QED BY <1>4, <1>5, <2>1, <2>2
<1> QED
  BY <1>2, <1>4, <1>6, <1>7


LEMMA CacheKept ==
  ASSUME CacheInv, UNCHANGED <<run, cache>>
  PROVE  CacheInv'
<1>1. \A kinds : Times(kinds)' = Times(kinds)
  BY DEF Times
<1>2. \A j : Line(j)' = Line(j) /\ Place(j)' = Place(j)
  BY DEF Line, Place
<1>3. \A k : LoadsOf(k)' = LoadsOf(k)
  BY <1>1, <1>2 DEF LoadsOf
<1>4. \A j : Misses(j)' = Misses(j)
  <2> TAKE j
  <2> DEFINE before == {i \in Times({"load"}) : i < j /\ Place(i) = Place(j)}
             after == {i \in Times({"load"})' : i < j /\ Place(i)' = Place(j)'}
  <2>1. Misses(j) = IF before = {} THEN Line(j) # 0
                    ELSE run[Max(before)].addr \div CACHE_BLOCK # Line(j)
    BY DEF Misses, Line
  <2>2. Misses(j)' = IF after = {} THEN Line(j)' # 0
                     ELSE run'[Max(after)].addr \div CACHE_BLOCK # Line(j)'
    BY DEF Misses, Line
  <2>3. after = before
    BY <1>1, <1>2
  <2> HIDE DEF before, after
  <2> QED BY <1>2, <2>1, <2>2, <2>3
<1>5. TagsHold'
  BY <1>3 DEF CacheInv, TagsHold, Line
<1>6. CacheOK' /\ CacheExact'
  BY <1>1, <1>4 DEF CacheInv, CacheOK, CacheExact, Done
<1> QED
  BY <1>5, <1>6 DEF CacheInv

LEMMA CacheOther ==
  ASSUME RunOK, CacheInv, NEW e, Grown(e), e.do # "load", cache' = cache
  PROVE  CacheInv'
<1> DEFINE m == Len(run) + 1
<1>1. /\ \A j \in Times({"load"}) : Line(j)' = Line(j) /\ Misses(j)' = Misses(j)
      /\ \A k : LoadsOf(k)' = LoadsOf(k)
  BY GrownLines
<1>2. Times({"load"})' = Times({"load"})
  BY GrownTimes DEF RunOK
<1>3. Done("load")' = Done("load")
  BY GrownDone DEF RunOK
<1>4. CacheOK'
  BY <1>3 DEF CacheInv, CacheOK
<1>5. CacheExact'
  BY <1>1, <1>2 DEF CacheInv, CacheExact
<1>6. ASSUME NEW k \in 0..(CacheLines - 1)
      PROVE  cache'.tags[k] = IF LoadsOf(k)' = {} THEN 0
                              ELSE run'[Max(LoadsOf(k)')].addr \div CACHE_BLOCK
  <2>1. LoadsOf(k) \in SUBSET (1..Len(run)) /\ LoadsOf(k) \subseteq Times({"load"})
        /\ Len(run) \in Nat /\ Times({"load"}) \subseteq DOMAIN run
    BY TimesAre DEF LoadsOf, RunOK
  <2>2. LoadsOf(k) # {} => Max(LoadsOf(k)) \in DOMAIN run
    BY <2>1, LastIs
  <2>3. LoadsOf(k) # {} => run'[Max(LoadsOf(k))] = run[Max(LoadsOf(k))]
    BY <2>2, GrownRun DEF RunOK
  <2>4. cache.tags[k] = IF LoadsOf(k) = {} THEN 0 ELSE run[Max(LoadsOf(k))].addr \div CACHE_BLOCK
    BY DEF CacheInv, TagsHold, Line
  <2> QED BY <1>1, <2>3, <2>4
<1>7. TagsHold'
  BY <1>6 DEF TagsHold, Line
<1> QED
  BY <1>4, <1>5, <1>7 DEF CacheInv

LEMMA CacheLoad ==
  ASSUME RunOK, CacheInv, NEW e, Grown(e), e.do = "load", cache' = CacheReference(e.addr)
  PROVE  CacheInv'
<1>0. PICK m : m = Len(run) + 1
  OBVIOUS
<1>1. /\ m \in Nat \ {0} /\ run'[m] = e /\ m \notin Times({"load"}) /\ Len(run) \in Nat
      /\ IsFiniteSet(Times({"load"})) /\ Times({"load"}) \subseteq 1..Len(run)
      /\ \A j \in DOMAIN run : run'[j] = run[j]
      /\ Times({"load"}) \subseteq DOMAIN run
  BY <1>0, GrownRun, TimesAre DEF RunOK
<1>2. Times({"load"})' = Times({"load"}) \cup {m}
  BY <1>0, GrownTimes DEF RunOK
<1>3. Done("load")' = Done("load") + 1
  BY GrownDone DEF RunOK
<1>4. e.addr \in Nat
  BY EventHas DEF Grown
<1> DEFINE index == (e.addr % CACHE_SIZE) \div CACHE_BLOCK
           tag == e.addr \div CACHE_BLOCK
<1>5. index = tag % CacheLines /\ index \in 0..(CacheLines - 1) /\ tag \in Nat
  BY <1>4, PlaceOfLine
<1>6. cache' = [cache EXCEPT !.misses = IF cache.tags[index] # tag THEN cache.misses + 1 ELSE cache.misses,
                    !.tags[index] = tag, !.references = cache.references + 1]
  BY DEF CacheReference
<1>7. Line(m)' = tag /\ Place(m)' = index
  BY <1>1, <1>5 DEF Line, Place, CacheLines
<1> HIDE DEF index, tag
<1>8. /\ cache'.tags = [cache.tags EXCEPT ![index] = tag]
      /\ cache'.misses = IF cache.tags[index] # tag THEN cache.misses + 1 ELSE cache.misses
      /\ cache'.references = cache.references + 1
      /\ cache' \in [tags : [0..(CacheLines - 1) -> Nat], references : Nat, misses : Nat]
  <2> DEFINE t == [cache.tags EXCEPT ![index] = tag]
             x == IF cache.tags[index] # tag THEN cache.misses + 1 ELSE cache.misses
             y == cache.references + 1
  <2>1. cache \in [tags : [0..(CacheLines - 1) -> Nat], references : Nat, misses : Nat]
    BY DEF CacheInv, CacheOK
  <2>2. t \in [0..(CacheLines - 1) -> Nat] /\ x \in Nat /\ y \in Nat
    BY <1>5, <2>1
  <2>3. cache' = [cache EXCEPT !.misses = x, !.tags = t, !.references = y]
    BY <1>6, <2>1
  <2> HIDE DEF t, x, y
  <2>4. cache' = [tags |-> t, references |-> y, misses |-> x]
    BY <2>1, <2>3
  <2> QED BY <2>2, <2>4 DEF t, x, y
<1>9. CacheOK'
  BY <1>3, <1>8 DEF CacheInv, CacheOK
<1>10. /\ \A j \in Times({"load"}) : Line(j)' = Line(j) /\ Misses(j)' = Misses(j) /\ Place(j)' = Place(j)
                                     /\ j \in Nat /\ j < m
       /\ \A k : LoadsOf(k)' = IF k = index THEN LoadsOf(k) \cup {m} ELSE LoadsOf(k)
  BY <1>0, <1>7, GrownLines
<1>11. \A k : /\ LoadsOf(k) \in SUBSET (1..Len(run)) /\ LoadsOf(k) \subseteq Times({"load"})
              /\ LoadsOf(k) # {} => Max(LoadsOf(k)) \in DOMAIN run
  <2> TAKE k
  <2>1. LoadsOf(k) \in SUBSET (1..Len(run)) /\ LoadsOf(k) \subseteq Times({"load"})
    BY <1>1 DEF LoadsOf
  <2>2. LoadsOf(k) # {} => Max(LoadsOf(k)) \in DOMAIN run
    BY <1>1, <2>1, LastIs
  <2> QED BY <2>1, <2>2
<1>12. ASSUME NEW k \in 0..(CacheLines - 1)
       PROVE  cache'.tags[k] = IF LoadsOf(k)' = {} THEN 0
                               ELSE run'[Max(LoadsOf(k)')].addr \div CACHE_BLOCK
  <2>1. CASE k = index
    <3>1. LoadsOf(k)' = LoadsOf(k) \cup {m} /\ cache'.tags[k] = tag
      BY <1>5, <1>8, <1>10, <2>1 DEF CacheInv, CacheOK
    <3>2. \A y \in LoadsOf(k) \cup {m} : y \in Int /\ y <= m
      BY <1>0, <1>1, <1>11
    <3>3. Max(LoadsOf(k) \cup {m}) = m
      BY <1>1, <3>2, MaxIs
    <3> QED BY <1>1, <3>1, <3>3 DEF tag
  <2>2. CASE k # index
    <3>1. LoadsOf(k)' = LoadsOf(k) /\ cache'.tags[k] = cache.tags[k]
      BY <1>5, <1>8, <1>10, <2>2 DEF CacheInv, CacheOK
    <3>2. cache.tags[k] = IF LoadsOf(k) = {} THEN 0 ELSE run[Max(LoadsOf(k))].addr \div CACHE_BLOCK
      BY DEF CacheInv, TagsHold, Line
    <3> QED BY <1>1, <1>11, <3>1, <3>2
  <2> QED BY <2>1, <2>2
<1>13. TagsHold'
  BY <1>12 DEF TagsHold, Line
<1>14. Misses(m)' <=> cache.tags[index] # tag
  <2> DEFINE before == {i \in Times({"load"})' : i < m /\ Place(i)' = Place(m)'}
  <2>1. Misses(m)' = IF before = {} THEN Line(m)' # 0
                     ELSE run'[Max(before)].addr \div CACHE_BLOCK # Line(m)'
    BY DEF Misses, Line
  <2>2. before = LoadsOf(index)
    BY <1>0, <1>1, <1>2, <1>7, <1>10 DEF LoadsOf
  <2> HIDE DEF before
  <2>3. cache.tags[index] = IF before = {} THEN 0 ELSE run[Max(before)].addr \div CACHE_BLOCK
    BY <1>5, <2>2 DEF CacheInv, TagsHold, Line
  <2>4. before # {} => run'[Max(before)] = run[Max(before)]
    BY <1>1, <1>11, <2>2
  <2> QED BY <1>7, <2>1, <2>3, <2>4
<1>15. CacheExact'
  <2> DEFINE M == {j \in Times({"load"}) : Misses(j)}
             N == {j \in Times({"load"})' : Misses(j)'}
  <2>1. N = IF cache.tags[index] # tag THEN M \cup {m} ELSE M
    BY <1>2, <1>10, <1>14
  <2>2. IsFiniteSet(M) /\ m \notin M
    BY <1>1, FS_Subset
  <2>3. cache.misses = Cardinality(M)
    BY DEF CacheInv, CacheExact
  <2> HIDE DEF M, N
  <2>4. Cardinality(M \cup {m}) = Cardinality(M) + 1
    BY <2>2, OneMore
  <2>5. Cardinality(N) = cache'.misses
    BY <1>8, <2>1, <2>3, <2>4
  <2> QED BY <2>5 DEF CacheExact, N
<1> QED
  BY <1>9, <1>13, <1>15 DEF CacheInv

LEMMA CacheStep == TypeOK /\ CacheInv /\ [Next]_vars => CacheInv'
<1> SUFFICES ASSUME TypeOK, CacheInv, [Next]_vars PROVE CacheInv'
  OBVIOUS
<1>0. RunOK
  BY DEF TypeOK
<1>1. CASE UNCHANGED <<run, cache>>
  BY <1>1, CacheKept
<1>2. CASE EnterProc \/ StartBlock \/ Jsr \/ CondBr \/ HeapCall
  <2>1. \E e : Grown(e) /\ e.do # "load"
    BY <1>2, KindsAdded
  <2>2. cache' = cache
    BY <1>2 DEF EnterProc, StartBlock, Jsr, CondBr, HeapCall
  <2> QED BY <1>0, <2>1, <2>2, CacheOther
<1>3. CASE LoadStore("load")
  <2>1. \E e : Grown(e) /\ e.do = "load" /\ cache' = CacheReference(e.addr)
    <3>1. PICK a \in Addr : Grown([do |-> "load", at |-> here, addr |-> a]) /\ cache' = CacheReference(a)
      BY <1>3, LoadStoreAdds
    <3>2. [do |-> "load", at |-> here, addr |-> a].addr = a
      OBVIOUS
    <3> QED BY <3>1, <3>2
  <2> QED BY <1>0, <2>1, CacheLoad
<1>4. CASE LoadStore("store")
  <2>1. \E e : Grown(e) /\ e.do # "load" /\ cache' = cache
    BY <1>4, LoadStoreAdds
  <2> QED BY <1>0, <2>1, CacheOther
<1>5. ProgramBefore \/ Goto \/ ProgramAfter \/ UNCHANGED vars => UNCHANGED <<run, cache>>
  BY DEF ProgramBefore, Goto, ProgramAfter, vars, tools
<1> QED
  BY <1>1, <1>2, <1>3, <1>4, <1>5 DEF Next, Exited

LEMMA EmptyRun ==
  ASSUME run = <<>>
  PROVE  \A kinds : Times(kinds) = {}
BY DEF Times

LEMMA InitCache == Init => CacheInv
<1> SUFFICES ASSUME Init PROVE CacheInv
  OBVIOUS
<1>1. run = <<>> /\ \A kinds : Times(kinds) = {}
  BY EmptyRun DEF Init
<1>2. Done("load") = 0 /\ \A k : LoadsOf(k) = {}
  BY <1>1, FS_EmptySet DEF Done, LoadsOf
<1>3. cache = [tags |-> [n \in 0..(CacheLines - 1) |-> 0], references |-> 0, misses |-> 0]
  BY DEF Init, Zero, CacheLines
<1>4. CacheOK
  BY <1>2, <1>3 DEF CacheOK
<1>5. TagsHold
  BY <1>2, <1>3 DEF TagsHold
<1>6. CacheExact
  BY <1>1, <1>3, FS_EmptySet DEF CacheExact
<1> QED
  BY <1>4, <1>5, <1>6 DEF CacheInv

\* The misses the cache tool prints are those of a direct-mapped cache that starts
\* with line 0 in every place, for any program (Reference in cache.anal.c).
THEOREM CacheIsExact == Spec => []CacheExact
<1>1. TypeOK /\ CacheInv /\ [Next]_vars => TypeOK' /\ CacheInv'
  BY TypeStep, CacheStep
<1>2. CacheInv => CacheExact
  BY DEF CacheInv
<1> QED
  BY <1>1, <1>2, InitType, InitCache, PTL DEF Spec


-----------------------------------------------------------------------------
(* The translation buffer. *)

DtbOK ==
  /\ dtb \in [dtb : [0..(DTBSIZE - 1) -> Nat], pageMap : [0..(MAPSIZE - 1) -> 0..(DTBSIZE - 1)],
              nextMapping : 0..(DTBSIZE - 1), hits : Nat, misses : Nat]
  /\ dtb.hits + dtb.misses = Done("load") + Done("store")

PagesApart(d) == \A i, j \in DOMAIN d.dtb : d.dtb[i] = d.dtb[j] => i = j \/ d.dtb[i] = 0

\* The page is found where the map says, and stays there for one miss more.
PageFound(d, page) ==
  d.dtb[d.pageMap[page % MAPSIZE]] = page /\ d.pageMap[page % MAPSIZE] # d.nextMapping

LastUsed(r, used) == r[Max(used)].addr \div PAGESIZE

DtbInv ==
  /\ DtbOK /\ PagesApart(dtb)
  /\ Times({"load", "store"}) # {} => PageFound(dtb, LastUsed(run, Times({"load", "store"})))

LEMMA NextEntry ==
  ASSUME NEW i \in 0..(DTBSIZE - 1)
  PROVE  NEXTDTB(i) \in 0..(DTBSIZE - 1) /\ NEXTDTB(i) # i
<1>1. DTBSIZE \in Nat /\ DTBSIZE >= 2
  BY AtomAssumption
<1>2. CASE i + 1 < DTBSIZE
  BY <1>1, <1>2 DEF NEXTDTB
<1>3. CASE i + 1 = DTBSIZE
  <2>1. DTBSIZE % DTBSIZE = 0
    BY <1>1
  <2> QED BY <1>1, <1>3, <2>1 DEF NEXTDTB
<1> QED
  BY <1>1, <1>2, <1>3

LEMMA DtbOne ==
  ASSUME DtbOK, PagesApart(dtb), NEW a \in Nat, NEW d, d = DtbReference(a)
  PROVE  /\ d \in [dtb : [0..(DTBSIZE - 1) -> Nat], pageMap : [0..(MAPSIZE - 1) -> 0..(DTBSIZE - 1)],
                   nextMapping : 0..(DTBSIZE - 1), hits : Nat, misses : Nat]
         /\ d.hits + d.misses = dtb.hits + dtb.misses + 1
         /\ PagesApart(d) /\ PageFound(d, a \div PAGESIZE)
<1>1. /\ PAGESIZE \in Nat \ {0} /\ MAPSIZE \in Nat \ {0} /\ DTBSIZE \in Nat /\ DTBSIZE >= 2
  BY AtomAssumption
<1>2. PICK page : page = a \div PAGESIZE
  OBVIOUS
<1>3. page \in Nat /\ page % MAPSIZE \in 0..(MAPSIZE - 1)
  BY <1>1, <1>2
<1>4. PICK k : k = page % MAPSIZE
  OBVIOUS
<1>5. /\ dtb.dtb \in [0..(DTBSIZE - 1) -> Nat] /\ dtb.pageMap \in [0..(MAPSIZE - 1) -> 0..(DTBSIZE - 1)]
      /\ dtb.nextMapping \in 0..(DTBSIZE - 1) /\ dtb.hits \in Nat /\ dtb.misses \in Nat
      /\ dtb = [dtb |-> dtb.dtb, pageMap |-> dtb.pageMap, nextMapping |-> dtb.nextMapping,
                hits |-> dtb.hits, misses |-> dtb.misses]
  BY DEF DtbOK
<1> DEFINE holds == {i \in DOMAIN dtb.dtb : dtb.dtb[i] = page}
<1>6. ASSUME NEW i \in holds, d = DtbHit(i, page)
      PROVE  /\ d \in [dtb : [0..(DTBSIZE - 1) -> Nat], pageMap : [0..(MAPSIZE - 1) -> 0..(DTBSIZE - 1)],
                       nextMapping : 0..(DTBSIZE - 1), hits : Nat, misses : Nat]
             /\ d.hits + d.misses = dtb.hits + dtb.misses + 1
             /\ PagesApart(d) /\ PageFound(d, page)
  <2>1. i \in 0..(DTBSIZE - 1) /\ dtb.dtb[i] = page
    BY <1>5
  <2> DEFINE f == [dtb.pageMap EXCEPT ![k] = i]
             n == IF dtb.nextMapping = i THEN NEXTDTB(i) ELSE dtb.nextMapping
             h == dtb.hits + 1
  <2>2. d = [dtb EXCEPT !.hits = h, !.pageMap = f, !.nextMapping = n]
    BY <1>4, <1>5, <1>6 DEF DtbHit
  <2>3. f \in [0..(MAPSIZE - 1) -> 0..(DTBSIZE - 1)] /\ f[k] = i
    BY <1>3, <1>4, <1>5, <2>1
  <2>4. n \in 0..(DTBSIZE - 1) /\ n # i
    BY <1>5, <2>1, NextEntry
  <2>5. h \in Nat /\ h + dtb.misses = dtb.hits + dtb.misses + 1
    BY <1>5
  <2> HIDE DEF f, n, h
  <2>6. d = [dtb |-> dtb.dtb, pageMap |-> f, nextMapping |-> n, hits |-> h, misses |-> dtb.misses]
    BY <1>5, <2>2
  <2> HIDE <1>6
  <2>7. PagesApart(d)
    BY <2>6 DEF PagesApart
  <2>8. PageFound(d, page)
    BY <1>4, <2>1, <2>3, <2>4, <2>6 DEF PageFound
  <2> QED BY <1>5, <2>3, <2>4, <2>5, <2>6, <2>7, <2>8
<1>7. ASSUME holds = {}, d = DtbMiss(page)
      PROVE  /\ d \in [dtb : [0..(DTBSIZE - 1) -> Nat], pageMap : [0..(MAPSIZE - 1) -> 0..(DTBSIZE - 1)],
                       nextMapping : 0..(DTBSIZE - 1), hits : Nat, misses : Nat]
             /\ d.hits + d.misses = dtb.hits + dtb.misses + 1
             /\ PagesApart(d) /\ PageFound(d, page)
  <2> DEFINE i == dtb.nextMapping
             e == [dtb.dtb EXCEPT ![i] = page]
             f == [dtb.pageMap EXCEPT ![k] = i]
             n == NEXTDTB(i)
             h == dtb.misses + 1
  <2>1. d = [dtb EXCEPT !.misses = h, !.dtb = e, !.pageMap = f, !.nextMapping = n]
    BY <1>4, <1>5, <1>7 DEF DtbMiss
  <2>2. i \in 0..(DTBSIZE - 1)
    BY <1>5
  <2>3. f \in [0..(MAPSIZE - 1) -> 0..(DTBSIZE - 1)] /\ f[k] = i
    BY <1>3, <1>4, <1>5
  <2>4. e \in [0..(DTBSIZE - 1) -> Nat] /\ e[i] = page
    BY <1>3, <1>5
  <2>5. n \in 0..(DTBSIZE - 1) /\ n # i
    BY <2>2, NextEntry
  <2>6. h \in Nat /\ dtb.hits + h = dtb.hits + dtb.misses + 1
    BY <1>5
  <2>7. \A j, l \in 0..(DTBSIZE - 1) : e[j] = e[l] => j = l \/ e[j] = 0
    BY <1>5, <1>7 DEF PagesApart
  <2> HIDE DEF e, f, n, h
  <2>8. d = [dtb |-> e, pageMap |-> f, nextMapping |-> n, hits |-> dtb.hits, misses |-> h]
    BY <1>5, <2>1
  <2>9. PagesApart(d)
    BY <2>4, <2>7, <2>8 DEF PagesApart
  <2>10. PageFound(d, page)
    BY <1>4, <2>3, <2>4, <2>5, <2>8 DEF PageFound
  <2> QED BY <1>5, <2>3, <2>4, <2>5, <2>6, <2>8, <2>9, <2>10
<1>8. CASE dtb.pageMap[k] \in holds
  BY <1>2, <1>4, <1>6, <1>8 DEF DtbReference
<1>9. CASE dtb.pageMap[k] \notin holds /\ holds # {}
  <2>1. Min(holds) \in holds
    <3>0. DOMAIN dtb.dtb = 0..(DTBSIZE - 1) /\ 0..(DTBSIZE - 1) \subseteq Nat
      BY <1>1, <1>5
    <3>1. holds \in SUBSET Nat
      BY <3>0
    <3>2. \E m \in holds : \A y \in holds : m <= y
      BY <1>9, <3>1, LeastNumber
    <3> HIDE DEF holds
    <3> QED BY <3>2 DEF Min
  <2> QED BY <1>2, <1>4, <1>6, <1>9, <2>1 DEF DtbReference
<1>10. CASE holds = {}
  BY <1>2, <1>4, <1>7, <1>10 DEF DtbReference
<1> QED
  BY <1>2, <1>8, <1>9, <1>10


LEMMA DtbData ==
  ASSUME RunOK, DtbInv, NEW e, Grown(e), e.do \in {"load", "store"}, dtb' = DtbReference(e.addr)
  PROVE  DtbInv'
<1>1. e.addr \in Nat
  BY EventHas DEF Grown
<1>2. /\ dtb' \in [dtb : [0..(DTBSIZE - 1) -> Nat], pageMap : [0..(MAPSIZE - 1) -> 0..(DTBSIZE - 1)],
                   nextMapping : 0..(DTBSIZE - 1), hits : Nat, misses : Nat]
      /\ dtb'.hits + dtb'.misses = dtb.hits + dtb.misses + 1
      /\ PagesApart(dtb') /\ PageFound(dtb', e.addr \div PAGESIZE)
  BY <1>1, DtbOne DEF DtbInv
<1>3. /\ Done("load")' = IF e.do = "load" THEN Done("load") + 1 ELSE Done("load")
      /\ Done("store")' = IF e.do = "store" THEN Done("store") + 1 ELSE Done("store")
      /\ Done("load") \in Nat /\ Done("store") \in Nat
  BY GrownDone DEF RunOK
<1>4. DtbOK'
  BY <1>2, <1>3 DEF DtbInv, DtbOK
<1>5. PICK m : m = Len(run) + 1
  OBVIOUS
<1>6. /\ m \in Nat /\ run'[m] = e
      /\ Times({"load", "store"})' = Times({"load", "store"}) \cup {m}
      /\ \A j \in Times({"load", "store"}) : j \in Int /\ j <= m
  BY <1>5, GrownRun, GrownTimes, TimesAre DEF RunOK
<1>7. Max(Times({"load", "store"}) \cup {m}) = m
  <2>1. \A j \in Times({"load", "store"}) \cup {m} : j \in Int /\ j <= m
    BY <1>6
  <2> QED BY <2>1, MaxIs
<1>8. LastUsed(run', Times({"load", "store"})') = e.addr \div PAGESIZE
  BY <1>6, <1>7 DEF LastUsed
<1> QED
  BY <1>2, <1>4, <1>8 DEF DtbInv

LEMMA DtbOther ==
  ASSUME RunOK, DtbInv, NEW e, Grown(e), e.do \notin {"load", "store"}, dtb' = dtb
  PROVE  DtbInv'
<1>1. Done("load")' = Done("load") /\ Done("store")' = Done("store")
  BY GrownDone DEF RunOK
<1>2. DtbOK'
  BY <1>1 DEF DtbInv, DtbOK
<1>3. Times({"load", "store"})' = Times({"load", "store"})
  BY GrownTimes DEF RunOK
<1>4. Times({"load", "store"}) # {} => Max(Times({"load", "store"})) \in DOMAIN run
  <2>1. /\ Times({"load", "store"}) \in SUBSET (1..Len(run)) /\ Len(run) \in Nat
        /\ Times({"load", "store"}) \subseteq DOMAIN run
    BY TimesAre DEF RunOK
  <2> QED BY <2>1, LastIs
<1>5. Times({"load", "store"}) # {} =>
        LastUsed(run', Times({"load", "store"})) = LastUsed(run, Times({"load", "store"}))
  BY <1>4, GrownRun DEF LastUsed, RunOK
<1> QED
  BY <1>2, <1>3, <1>5 DEF DtbInv

LEMMA DtbStep == TypeOK /\ DtbInv /\ [Next]_vars => DtbInv'
<1> SUFFICES ASSUME TypeOK, DtbInv, [Next]_vars PROVE DtbInv'
  OBVIOUS
<1>0. RunOK
  BY DEF TypeOK
<1>1. CASE UNCHANGED <<run, dtb>>
  BY <1>1 DEF DtbInv, DtbOK, Done, Times
<1>2. CASE EnterProc \/ StartBlock \/ Jsr \/ CondBr \/ HeapCall
  <2>1. \E e : Grown(e) /\ e.do \notin {"load", "store"}
    BY <1>2, KindsAdded
  <2>2. dtb' = dtb
    BY <1>2 DEF EnterProc, StartBlock, Jsr, CondBr, HeapCall
  <2> QED BY <1>0, <2>1, <2>2, DtbOther
<1>3. ASSUME NEW kind \in {"load", "store"}, LoadStore(kind) PROVE DtbInv'
  <2>1. PICK a \in Addr : Grown([do |-> kind, at |-> here, addr |-> a]) /\ dtb' = DtbReference(a)
    BY <1>3, LoadStoreAdds
  <2>2. [do |-> kind, at |-> here, addr |-> a].addr = a /\ [do |-> kind, at |-> here, addr |-> a].do = kind
    OBVIOUS
  <2> QED BY <1>0, <2>1, <2>2, DtbData
<1>4. ProgramBefore \/ Goto \/ ProgramAfter \/ UNCHANGED vars => UNCHANGED <<run, dtb>>
  BY DEF ProgramBefore, Goto, ProgramAfter, vars, tools
<1> QED
  BY <1>1, <1>2, <1>3, <1>4 DEF Next, Exited

LEMMA InitDtb == Init => DtbInv
<1> SUFFICES ASSUME Init PROVE DtbInv
  OBVIOUS
<1>1. run = <<>> /\ \A kinds : Times(kinds) = {}
  BY EmptyRun DEF Init
<1>2. Done("load") = 0 /\ Done("store") = 0
  BY <1>1, FS_EmptySet DEF Done
<1>3. 0 \in 0..(DTBSIZE - 1) /\ DTBSIZE \in Nat
  BY AtomAssumption
<1>4. dtb = [dtb |-> [n \in 0..(DTBSIZE - 1) |-> 0], pageMap |-> [n \in 0..(MAPSIZE - 1) |-> 0],
             nextMapping |-> 0, hits |-> 0, misses |-> 0]
  BY DEF Init, Zero
<1>5. DtbOK
  BY <1>2, <1>3, <1>4 DEF DtbOK
<1>6. PagesApart(dtb)
  BY <1>4 DEF PagesApart
<1> QED
  BY <1>1, <1>5, <1>6 DEF DtbInv

LEMMA DtbInvariant == Spec => [](TypeOK /\ DtbInv)
<1>1. TypeOK /\ DtbInv /\ [Next]_vars => TypeOK' /\ DtbInv'
  BY TypeStep, DtbStep
<1> QED
  BY <1>1, InitType, InitDtb, PTL DEF Spec

\* The buffer holds no page twice, its map finds the page used last, and a miss
\* does not replace that one (Reference in dtb.anal.c, NextMapping kept off it).
THEOREM DtbIsSound == Spec => []DtbSound
<1>1. DtbInv => DtbSound
  BY DEF DtbInv, DtbSound, PagesApart, PageFound, LastUsed
<1> QED
  BY <1>1, DtbInvariant, PTL


-----------------------------------------------------------------------------
(* What a block counts for at its start, and what it has still to execute. *)

LEMMA DisjointUnion ==
  ASSUME NEW S, IsFiniteSet(S), NEW T, IsFiniteSet(T), S \cap T = {}
  PROVE  IsFiniteSet(S \cup T) /\ Cardinality(S \cup T) = Cardinality(S) + Cardinality(T)
<1>1. /\ IsFiniteSet(S \cup T) /\ Cardinality(S) \in Nat /\ Cardinality(T) \in Nat
      /\ Cardinality(S \cup T) = Cardinality(S) + Cardinality(T) - Cardinality(S \cap T)
  BY FS_Union, FS_CardinalityType
<1>2. Cardinality(S \cap T) = 0
  BY FS_EmptySet
<1> QED
  BY <1>1, <1>2

\* The instructions of the blocks started at the times T of a run r.
StartedAt(r, T) == UNION {{j} \X DOMAIN Block(r[j].at) : j \in T}

LEMMA OneStarted ==
  ASSUME NEW j, NEW b \in Seq(STRING)
  PROVE  IsFiniteSet({j} \X DOMAIN b) /\ Cardinality({j} \X DOMAIN b) = Len(b)
<1>1. DOMAIN b = 1..Len(b) /\ Len(b) \in Nat
  OBVIOUS
<1>2. IsFiniteSet(DOMAIN b) /\ Cardinality(DOMAIN b) = Len(b)
  BY <1>1, FS_Interval
<1>3. IsFiniteSet({j}) /\ Cardinality({j}) = 1
  BY FS_Singleton
<1>4. IsFiniteSet({j} \X DOMAIN b) /\ Cardinality({j} \X DOMAIN b) = 1 * Len(b)
  BY <1>2, <1>3, FS_Product
<1>5. \A l \in Nat : 1 * l = l
  OBVIOUS
<1> QED
  BY <1>1, <1>4, <1>5, Zenon

LEMMA StartedFinite ==
  ASSUME NEW r, NEW T, IsFiniteSet(T), \A j \in T : Block(r[j].at) \in Seq(STRING)
  PROVE  IsFiniteSet(StartedAt(r, T)) /\ Cardinality(StartedAt(r, T)) \in Nat
<1> DEFINE f == [j \in T |-> {j} \X DOMAIN Block(r[j].at)]
<1>1. ASSUME NEW j \in T PROVE IsFiniteSet(f[j])
  <2>1. IsFiniteSet({j} \X DOMAIN Block(r[j].at))
    BY OneStarted
  <2> QED BY <2>1
<1>2. StartedAt(r, T) = UNION {f[j] : j \in T}
  BY DEF StartedAt
<1> HIDE DEF f
<1>3. IsFiniteSet(UNION {f[j] : j \in T})
  BY <1>1, UnionFinite
<1> QED
  BY <1>2, <1>3, FS_CardinalityType

LEMMA StartedSame ==
  ASSUME NEW r, NEW s, NEW T, \A j \in T : s[j] = r[j]
  PROVE  StartedAt(s, T) = StartedAt(r, T)
BY DEF StartedAt

LEMMA StartedMore ==
  ASSUME NEW r, NEW T, IsFiniteSet(T), NEW m, m \notin T,
         \A j \in T \cup {m} : Block(r[j].at) \in Seq(STRING)
  PROVE  Cardinality(StartedAt(r, T \cup {m})) = Cardinality(StartedAt(r, T)) + Len(Block(r[m].at))
<1> DEFINE new == {m} \X DOMAIN Block(r[m].at)
<1>1. StartedAt(r, T \cup {m}) = StartedAt(r, T) \cup new
  BY DEF StartedAt
<1>2. IsFiniteSet(new) /\ Cardinality(new) = Len(Block(r[m].at))
  BY OneStarted
<1>3. IsFiniteSet(StartedAt(r, T))
  BY StartedFinite
<1>4. StartedAt(r, T) \cap new = {}
  BY DEF StartedAt
<1> HIDE DEF new
<1> QED
  BY <1>1, <1>2, <1>3, <1>4, DisjointUnion

LEMMA StartedSome ==
  ASSUME NEW r, NEW T, IsFiniteSet(T),
         \A j \in T : Block(r[j].at) \in Seq(STRING) /\ 1 \in DOMAIN Block(r[j].at)
  PROVE  Cardinality(StartedAt(r, T)) > 0 <=> T # {}
<1>1. \A j \in T : <<j, 1>> \in StartedAt(r, T)
  <2> TAKE j \in T
  <2>1. <<j, 1>> \in {j} \X DOMAIN Block(r[j].at)
    OBVIOUS
  <2> QED BY <2>1 DEF StartedAt
<1>2. T = {} => StartedAt(r, T) = {}
  BY DEF StartedAt
<1>3. IsFiniteSet(StartedAt(r, T)) /\ Cardinality(StartedAt(r, T)) \in Nat
  BY StartedFinite
<1>4. Cardinality(StartedAt(r, T)) = 0 <=> StartedAt(r, T) = {}
  BY <1>3, FS_EmptySet
<1>5. T # {} => StartedAt(r, T) # {}
  BY <1>1
<1> HIDE <1>1
<1> QED
  BY <1>2, <1>3, <1>4, <1>5

\* The instructions of a kind from the i-th of a block on.
From(b, i, kind) == {n \in DOMAIN b : i \in 1..n /\ b[n] = kind}

LEMMA FromFinite ==
  ASSUME NEW b \in Seq(STRING), NEW i, NEW kind
  PROVE  IsFiniteSet(From(b, i, kind)) /\ Cardinality(From(b, i, kind)) \in Nat
         /\ IsFiniteSet({n \in DOMAIN b : b[n] = kind})
         /\ CountOf(b, kind) \in Nat
<1>1. DOMAIN b = 1..Len(b) /\ Len(b) \in Nat
  OBVIOUS
<1>2. IsFiniteSet(DOMAIN b)
  BY <1>1, FS_Interval
<1>3. IsFiniteSet(From(b, i, kind)) /\ IsFiniteSet({n \in DOMAIN b : b[n] = kind})
  BY <1>2, FS_Subset DEF From
<1> QED
  BY <1>3, FS_CardinalityType DEF CountOf

LEMMA NoneAhead ==
  ASSUME NEW b \in Seq(STRING), NEW i \in Nat, i = 0 \/ i > Len(b), NEW kind
  PROVE  Cardinality(From(b, i, kind)) = 0
<1>1. From(b, i, kind) = {}
  BY DEF From
<1> QED
  BY <1>1, FS_EmptySet

LEMMA AllAhead ==
  ASSUME NEW b \in Seq(STRING), NEW kind
  PROVE  Cardinality(From(b, 1, kind)) = CountOf(b, kind)
<1>1. From(b, 1, kind) = {n \in DOMAIN b : b[n] = kind}
  BY DEF From
<1> QED
  BY <1>1 DEF CountOf

LEMMA OneExecuted ==
  ASSUME NEW b \in Seq(STRING), NEW i \in DOMAIN b, NEW kind
  PROVE  Cardinality(From(b, i, kind)) =
           IF b[i] = kind THEN Cardinality(From(b, i + 1, kind)) + 1
           ELSE Cardinality(From(b, i + 1, kind))
<1>1. i \in Nat \ {0}
  OBVIOUS
<1>2. i \notin From(b, i + 1, kind)
  BY <1>1 DEF From
<1>3. b[i] = kind => From(b, i, kind) = From(b, i + 1, kind) \cup {i}
  BY <1>1 DEF From
<1>4. b[i] # kind => From(b, i, kind) = From(b, i + 1, kind)
  BY <1>1 DEF From
<1> QED
  BY <1>2, <1>3, <1>4, FromFinite, OneMore


-----------------------------------------------------------------------------
(* dyninst. *)

DyninstOK ==
  /\ dyninst \in [insts : Nat, blocks : Nat, procs : Nat, loads : Nat, stores : Nat]
  /\ dyninst.procs = Done("proc") /\ dyninst.blocks = Done("block")
  /\ dyninst.insts = Cardinality(StartedAt(run, Times({"block"})))
  /\ dyninst.loads = Done("load") + Ahead("load")
  /\ dyninst.stores = Done("store") + Ahead("store")

LEMMA AheadIs ==
  /\ \A kind : Ahead(kind) = Cardinality(From(Block(here), here[4], kind))
  /\ \A kind : Ahead(kind)' = Cardinality(From(Block(here'), here'[4], kind))
BY DEF Ahead, From

LEMMA AheadEnds ==
  ASSUME HereOK, here[4] > Len(Block(here)) \/ here[4] = 0
  PROVE  Ahead("load") = 0 /\ Ahead("store") = 0
BY HereIs, NoneAhead, AheadIs

LEMMA AheadEndsNext ==
  ASSUME HereOK', here'[4] = 0
  PROVE  Ahead("load")' = 0 /\ Ahead("store")' = 0
<1>1. Block(here') \in Seq(STRING)
  <2>1. <<here'[1], here'[2], here'[3]>> \in Blocks
    BY DEF HereOK
  <2>2. Block(<<here'[1], here'[2], here'[3]>>) \in Seq(STRING)
    BY <2>1, BlocksAre
  <2> QED BY <2>2 DEF Block, Proc
<1> QED
  BY <1>1, NoneAhead, AheadIs

LEMMA BlockTimes ==
  ASSUME RunOK
  PROVE  \A j \in Times({"block"}) : /\ j \in DOMAIN run /\ run[j] \in Events /\ run[j].at \in Insts
                                     /\ Block(run[j].at) \in Seq(STRING)
                                     /\ 1 \in DOMAIN Block(run[j].at)
                                     /\ ProcOf(run[j].at) \in Procs
<1> TAKE j \in Times({"block"})
<1>1. j \in DOMAIN run /\ run[j].do = "block"
  BY DEF Times
<1>2. run[j] \in Events
  BY <1>1 DEF RunOK
<1>3. PICK x : x = run[j].at
  OBVIOUS
<1>4. x \in Insts
  BY <1>1, <1>2, <1>3, EventHas
<1>5. <<x[1], x[2], x[3]>> \in Blocks
  BY <1>4, InstsAre
<1>6. Block(x) = Block(<<x[1], x[2], x[3]>>)
  BY DEF Block, Proc
<1>7. Block(x) \in Seq(STRING) /\ 1 \in DOMAIN Block(x) /\ <<x[1], x[2]>> \in Procs
  BY <1>5, <1>6, BlocksAre
<1> QED
  BY <1>1, <1>2, <1>3, <1>4, <1>7 DEF ProcOf

\* Another event changes nothing of what has started.
LEMMA StartedOther ==
  ASSUME RunOK, NEW e, Grown(e), e.do # "block"
  PROVE  /\ Times({"block"})' = Times({"block"})
         /\ StartedAt(run', Times({"block"})) = StartedAt(run, Times({"block"}))
<1>1. Times({"block"})' = Times({"block"})
  BY GrownTimes DEF RunOK
<1>2. \A j \in Times({"block"}) : run'[j] = run[j]
  BY GrownRun DEF RunOK, Times
<1> QED
  BY <1>1, <1>2, StartedSame

\* A block started at x, among the blocks of T.
LEMMA StartedBlock ==
  ASSUME RunOK, NEW x \in Insts, Grown([do |-> "block", at |-> x]),
         NEW T \in SUBSET Times({"block"}), NEW m, m = Len(run) + 1
  PROVE  /\ m \notin Times({"block"}) /\ Times({"block"})' = Times({"block"}) \cup {m}
         /\ run'[m].at = x
         /\ \A j \in Times({"block"}) : run'[j] = run[j]
         /\ Cardinality(StartedAt(run', T)) = Cardinality(StartedAt(run, T))
         /\ Cardinality(StartedAt(run', T \cup {m})) = Cardinality(StartedAt(run, T)) + Len(Block(x))
         /\ Cardinality(StartedAt(run, T)) \in Nat /\ Len(Block(x)) \in Nat
<1>0. PICK e : e = [do |-> "block", at |-> x]
  OBVIOUS
<1>1. e.do = "block" /\ e.at = x /\ Grown(e)
  BY <1>0
<1>2. /\ m \notin Times({"block"}) /\ Times({"block"})' = Times({"block"}) \cup {m}
      /\ IsFiniteSet(Times({"block"}))
      /\ run'[m] = e
      /\ \A j \in Times({"block"}) : run'[j] = run[j]
  BY <1>1, GrownTimes, GrownRun, TimesAre DEF RunOK
<1>3. IsFiniteSet(T) /\ m \notin T
  BY <1>2, FS_Subset
<1>4. \A j \in T : Block(run[j].at) \in Seq(STRING) /\ run'[j] = run[j]
  BY <1>2, BlockTimes
<1>5. Block(x) \in Seq(STRING) /\ Len(Block(x)) \in Nat
  <2>1. <<x[1], x[2], x[3]>> \in Blocks
    BY InstsAre
  <2>2. Block(<<x[1], x[2], x[3]>>) \in Seq(STRING)
    BY <2>1, BlocksAre
  <2> QED BY <2>2 DEF Block, Proc
<1>6. StartedAt(run', T) = StartedAt(run, T)
  BY <1>4, StartedSame
<1>7. run'[m].at = x
  BY <1>1, <1>2
<1>8. \A j \in T \cup {m} : Block(run'[j].at) \in Seq(STRING)
  BY <1>4, <1>5, <1>7
<1>9. Cardinality(StartedAt(run', T \cup {m})) = Cardinality(StartedAt(run', T)) + Len(Block(run'[m].at))
  BY <1>3, <1>8, StartedMore
<1>10. Cardinality(StartedAt(run, T)) \in Nat
  BY <1>3, <1>4, StartedFinite
<1> QED
  BY <1>2, <1>5, <1>6, <1>7, <1>9, <1>10


LEMMA DyninstType ==
  ASSUME DyninstOK
  PROVE  /\ dyninst = [insts |-> dyninst.insts, blocks |-> dyninst.blocks, procs |-> dyninst.procs,
                       loads |-> dyninst.loads, stores |-> dyninst.stores]
         /\ dyninst.insts \in Nat /\ dyninst.blocks \in Nat /\ dyninst.procs \in Nat
         /\ dyninst.loads \in Nat /\ dyninst.stores \in Nat
BY DEF DyninstOK

LEMMA DyninstStep == TypeOK /\ DyninstOK /\ [Next]_vars => DyninstOK'
<1> SUFFICES ASSUME TypeOK, DyninstOK, [Next]_vars PROVE DyninstOK'
  OBVIOUS
<1>0. RunOK /\ HereOK /\ run \in Seq(Events)
  BY DEF TypeOK, RunOK
<1>t. TypeOK'
  BY TypeStep
<1>b. Block(here) \in Seq(STRING) /\ DOMAIN Block(here) = 1..Len(Block(here)) /\ here[4] \in Nat
  BY <1>0, HereIs
<1>1. CASE UNCHANGED <<run, dyninst, here>>
  BY <1>1 DEF DyninstOK, Done, Times, Ahead, StartedAt
<1>2. CASE Goto
  <2>1. UNCHANGED <<run, dyninst>> /\ here[4] > Len(Block(here)) /\ here'[4] = 0
    BY <1>2 DEF Goto, tools
  <2>2. /\ Ahead("load") = 0 /\ Ahead("store") = 0 /\ Ahead("load")' = 0 /\ Ahead("store")' = 0
    BY <1>0, <1>t, <2>1, AheadEnds, AheadEndsNext DEF TypeOK
  <2> QED BY <2>1, <2>2 DEF DyninstOK, Done, Times, StartedAt
<1>3. CASE EnterProc
  <2>1. PICK x \in Procs : /\ Grown([do |-> "proc", at |-> <<x[1], x[2], 1, 0>>])
                           /\ here' = <<x[1], x[2], 1, 0>> /\ dyninst' = AddProcedure
    BY <1>3, EnterProcAdds
  <2>2. PICK e : e = [do |-> "proc", at |-> <<x[1], x[2], 1, 0>>]
    OBVIOUS
  <2>3. e.do = "proc" /\ Grown(e)
    BY <2>1, <2>2
  <2>4. here[4] > Len(Block(here)) \/ here[4] = 0
    BY <1>3, <1>0 DEF EnterProc, RunOK
  <2>5. /\ Ahead("load") = 0 /\ Ahead("store") = 0 /\ Ahead("load")' = 0 /\ Ahead("store")' = 0
    BY <1>0, <1>t, <2>1, <2>4, AheadEnds, AheadEndsNext DEF TypeOK
  <2>6. /\ Done("proc")' = Done("proc") + 1 /\ Done("block")' = Done("block")
        /\ Done("load")' = Done("load") /\ Done("store")' = Done("store") /\ Done("proc") \in Nat
    BY <1>0, <2>3, GrownDone
  <2>7. StartedAt(run', Times({"block"})') = StartedAt(run, Times({"block"}))
    BY <1>0, <2>3, StartedOther
  <2>8. dyninst' = [insts |-> dyninst.insts, blocks |-> dyninst.blocks, procs |-> dyninst.procs + 1,
                    loads |-> dyninst.loads, stores |-> dyninst.stores]
    BY <2>1, DyninstType DEF AddProcedure
  <2> QED BY <2>5, <2>6, <2>7, <2>8 DEF DyninstOK
<1>4. CASE StartBlock
  <2>1. /\ here' \in Insts /\ here' = [here EXCEPT ![4] = 1] /\ here[4] = 0
        /\ Grown([do |-> "block", at |-> here']) /\ dyninst' = AddBlock(Counts(here))
    BY <1>4, StartBlockAdds DEF StartBlock
  <2>2. PICK e : e = [do |-> "block", at |-> here']
    OBVIOUS
  <2>3. e.do = "block" /\ Grown(e)
    BY <2>1, <2>2
  <2>4. Block(here') = Block(here) /\ here'[4] = 1
    BY <1>0, <1>b, <2>1, OnHere
  <2>5. /\ Ahead("load") = 0 /\ Ahead("store") = 0
        /\ Ahead("load")' = CountOf(Block(here), "load") /\ Ahead("store")' = CountOf(Block(here), "store")
        /\ CountOf(Block(here), "load") \in Nat /\ CountOf(Block(here), "store") \in Nat
    BY <1>0, <1>b, <2>1, <2>4, AheadEnds, AheadIs, AllAhead, FromFinite
  <2>6. /\ Done("proc")' = Done("proc") /\ Done("block")' = Done("block") + 1
        /\ Done("load")' = Done("load") /\ Done("store")' = Done("store") /\ Done("block") \in Nat
        /\ Done("load") \in Nat /\ Done("store") \in Nat
    BY <1>0, <2>3, GrownDone
  <2>7. PICK x, m : x = here' /\ m = Len(run) + 1
    OBVIOUS
  <2>8. Cardinality(StartedAt(run', Times({"block"})'))
          = Cardinality(StartedAt(run, Times({"block"}))) + Len(Block(here))
    <3>1. Times({"block"})' = Times({"block"}) \cup {m}
          /\ Cardinality(StartedAt(run', Times({"block"}) \cup {m}))
               = Cardinality(StartedAt(run, Times({"block"}))) + Len(Block(x))
      BY <1>0, <2>1, <2>7, StartedBlock
    <3> QED BY <2>4, <2>7, <3>1
  <2>9. dyninst' = [insts |-> dyninst.insts + Len(Block(here)), blocks |-> dyninst.blocks + 1,
                    procs |-> dyninst.procs,
                    loads |-> dyninst.loads + CountOf(Block(here), "load"),
                    stores |-> dyninst.stores + CountOf(Block(here), "store")]
    BY <2>1, DyninstType DEF AddBlock, Counts
  <2>10. Len(Block(here)) \in Nat
    BY <1>b
  <2> QED BY <2>5, <2>6, <2>8, <2>9, <2>10 DEF DyninstOK
<1>5. ASSUME NEW kind \in {"load", "store", "jsr", "condbr"}, NEW e, Grown(e), e.do = kind,
             Executes(kind), Onward, dyninst' = dyninst
      PROVE  DyninstOK'
  <2>1. here[4] \in DOMAIN Block(here) /\ Block(here)[here[4]] = kind
    BY <1>5 DEF Executes, Inst
  <2>2. here' = [here EXCEPT ![4] = here[4] + 1]
    BY <1>5 DEF Onward
  <2>3. here[4] \in 0..Len(Block(here))
    BY <1>b, <2>1
  <2>4. Block(here') = Block(here) /\ here'[4] = here[4] + 1
    BY <1>0, <2>2, <2>3, OnHere
  <2>5. ASSUME NEW k
        PROVE  /\ Ahead(k) = IF k = kind THEN Ahead(k)' + 1 ELSE Ahead(k)'
               /\ Ahead(k) \in Nat /\ Ahead(k)' \in Nat
    <3>1. /\ Ahead(k) = Cardinality(From(Block(here), here[4], k))
          /\ Ahead(k)' = Cardinality(From(Block(here), here[4] + 1, k))
      BY <2>4, AheadIs
    <3>2. Cardinality(From(Block(here), here[4], k)) =
            IF kind = k THEN Cardinality(From(Block(here), here[4] + 1, k)) + 1
            ELSE Cardinality(From(Block(here), here[4] + 1, k))
      BY <1>b, <2>1, OneExecuted
    <3>3. /\ Cardinality(From(Block(here), here[4], k)) \in Nat
          /\ Cardinality(From(Block(here), here[4] + 1, k)) \in Nat
      BY <1>b, FromFinite
    <3> QED BY <3>1, <3>2, <3>3
  <2>6. \A k : Done(k)' = IF k = kind THEN Done(k) + 1 ELSE Done(k)
    BY <1>0, <1>5, GrownDone
  <2>7. Done("load") \in Nat /\ Done("store") \in Nat
    BY <1>0, <1>5, GrownDone
  <2>8. StartedAt(run', Times({"block"})') = StartedAt(run, Times({"block"}))
    BY <1>0, <1>5, StartedOther
  <2>9. /\ Done("load")' + Ahead("load")' = Done("load") + Ahead("load")
        /\ Done("store")' + Ahead("store")' = Done("store") + Ahead("store")
    BY <2>5, <2>6, <2>7
  <2>10. Done("proc")' = Done("proc") /\ Done("block")' = Done("block")
    BY <2>6
  <2> QED BY <1>5, <2>8, <2>9, <2>10 DEF DyninstOK
<1>6. ASSUME NEW kind \in {"load", "store"}, LoadStore(kind) PROVE DyninstOK'
  <2>1. \E e : Grown(e) /\ e.do = kind
    BY <1>6, KindsAdded
  <2>2. Executes(kind) /\ Onward /\ dyninst' = dyninst
    BY <1>6 DEF LoadStore
  <2> QED BY <1>5, <2>1, <2>2
<1>7. CASE Jsr
  <2>1. \E e : Grown(e) /\ e.do = "jsr"
    BY <1>7, KindsAdded
  <2>2. Executes("jsr") /\ Onward /\ dyninst' = dyninst
    BY <1>7 DEF Jsr
  <2> QED BY <1>5, <2>1, <2>2
<1>8. CASE CondBr
  <2>1. \E e : Grown(e) /\ e.do = "condbr"
    BY <1>8, KindsAdded
  <2>2. Executes("condbr") /\ Onward /\ dyninst' = dyninst
    BY <1>8 DEF CondBr
  <2> QED BY <1>5, <2>1, <2>2
<1>9. CASE HeapCall
  <2>1. PICK e : Grown(e) /\ e.do \in {"malloc", "return", "brk", "sbrk"}
    BY <1>9, KindsAdded
  <2>2. UNCHANGED <<here, dyninst>>
    BY <1>9 DEF HeapCall
  <2>3. Done("proc")' = Done("proc") /\ Done("block")' = Done("block")
        /\ Done("load")' = Done("load") /\ Done("store")' = Done("store")
    BY <1>0, <2>1, GrownDone
  <2>4. StartedAt(run', Times({"block"})') = StartedAt(run, Times({"block"}))
    BY <1>0, <2>1, StartedOther
  <2>5. Ahead("load")' = Ahead("load") /\ Ahead("store")' = Ahead("store")
    BY <2>2 DEF Ahead
  <2> QED BY <2>2, <2>3, <2>4, <2>5 DEF DyninstOK
<1>10. ProgramBefore \/ ProgramAfter \/ UNCHANGED vars => UNCHANGED <<run, dyninst, here>>
  BY DEF ProgramBefore, ProgramAfter, vars, tools
<1> QED
  BY <1>1, <1>2, <1>3, <1>4, <1>6, <1>7, <1>8, <1>9, <1>10 DEF Next, Exited

LEMMA InitDyninst == Init => DyninstOK
<1> SUFFICES ASSUME Init PROVE DyninstOK
  OBVIOUS
<1>1. \A kinds : Times(kinds) = {}
  BY EmptyRun DEF Init
<1>2. \A kind : Done(kind) = 0
  BY <1>1, FS_EmptySet DEF Done
<1>3. Cardinality(StartedAt(run, Times({"block"}))) = 0
  <2>1. StartedAt(run, Times({"block"})) = {}
    BY <1>1 DEF StartedAt
  <2> QED BY <2>1, FS_EmptySet
<1>4. Ahead("load") = 0 /\ Ahead("store") = 0
  BY InitType, AheadEnds DEF TypeOK, Init
<1>5. dyninst = [insts |-> 0, blocks |-> 0, procs |-> 0, loads |-> 0, stores |-> 0]
  BY DEF Init, NoCounts
<1> QED
  BY <1>2, <1>3, <1>4, <1>5 DEF DyninstOK


-----------------------------------------------------------------------------
(* iprof and prof: a row for each procedure. *)

BlocksIn(x) == {j \in Times({"block"}) : ProcOf(run[j].at) = x}

ProcRow == 0..(Cardinality(Procs) - 1)

ProcsCounted ==
  /\ iprof.instrPerProc \in [ProcRow -> Nat] /\ iprof.callsPerProc \in [ProcRow -> Nat]
  /\ prof.instrPerProc = iprof.instrPerProc
  /\ \A x \in Procs :
       /\ iprof.callsPerProc[ProcNumber(x)] = DoneAt("proc", <<x[1], x[2], 1, 0>>)
       /\ iprof.instrPerProc[ProcNumber(x)] = Cardinality(StartedAt(run, BlocksIn(x)))

ProcsOK ==
  /\ iprof = [instrTotal |-> dyninst.insts, instrPerProc |-> iprof.instrPerProc,
              callsPerProc |-> iprof.callsPerProc]
  /\ prof = [instrTotal |-> dyninst.insts, instrPerProc |-> prof.instrPerProc]
  /\ phase # "before" => ProcsCounted

LEMMA ProcNumbers ==
  /\ \A x \in Procs : ProcNumber(x) \in ProcRow
  /\ \A x, y \in Procs : ProcNumber(x) = ProcNumber(y) => x = y
BY PlacesOrdered, NumbersApart DEF ProcNumber, ProcRow

LEMMA GrownDoneAt ==
  ASSUME RunOK, NEW e, Grown(e), NEW kind, NEW x
  PROVE  /\ DoneAt(kind, x)' = IF e.do = kind /\ e.at = x THEN DoneAt(kind, x) + 1 ELSE DoneAt(kind, x)
         /\ DoneAt(kind, x) \in Nat
<1>0. PICK m : m = Len(run) + 1
  OBVIOUS
<1>1. /\ Times({kind})' = IF e.do = kind THEN Times({kind}) \cup {m} ELSE Times({kind})
      /\ IsFiniteSet(Times({kind})) /\ m \notin Times({kind})
      /\ run'[m] = e
      /\ \A j \in Times({kind}) : run'[j] = run[j]
  BY <1>0, GrownTimes, GrownRun, TimesAre DEF RunOK
<1>2. TimesAt(kind, x)' = IF e.do = kind /\ e.at = x THEN TimesAt(kind, x) \cup {m} ELSE TimesAt(kind, x)
  <2>1. TimesAt(kind, x)' = {j \in Times({kind})' : run'[j].at = x}
    BY DEF TimesAt
  <2>2. TimesAt(kind, x) = {j \in Times({kind}) : run[j].at = x}
    BY DEF TimesAt
  <2> QED BY <1>1, <2>1, <2>2
<1>3. IsFiniteSet(TimesAt(kind, x)) /\ m \notin TimesAt(kind, x)
  BY <1>1, FS_Subset DEF TimesAt
<1>4. Cardinality(TimesAt(kind, x) \cup {m}) = Cardinality(TimesAt(kind, x)) + 1
      /\ Cardinality(TimesAt(kind, x)) \in Nat
  BY <1>3, OneMore
<1> QED
  BY <1>2, <1>4 DEF DoneAt

LEMMA BlocksInOther ==
  ASSUME RunOK, NEW e, Grown(e), e.do # "block"
  PROVE  \A x : BlocksIn(x)' = BlocksIn(x) /\ StartedAt(run', BlocksIn(x)) = StartedAt(run, BlocksIn(x))
<1>1. Times({"block"})' = Times({"block"}) /\ \A j \in Times({"block"}) : run'[j] = run[j]
  BY GrownTimes, GrownRun DEF RunOK, Times
<1>2. \A x : BlocksIn(x)' = BlocksIn(x)
  BY <1>1 DEF BlocksIn
<1>3. \A x : StartedAt(run', BlocksIn(x)) = StartedAt(run, BlocksIn(x))
  <2> TAKE x
  <2>1. \A j \in BlocksIn(x) : run'[j] = run[j]
    BY <1>1 DEF BlocksIn
  <2> QED BY <2>1, StartedSame
<1> QED
  BY <1>2, <1>3

LEMMA ProcsKept ==
  ASSUME RunOK, ProcsOK, NEW e, Grown(e), e.do \notin {"block", "proc"},
         UNCHANGED <<iprof, prof, phase, dyninst>>
  PROVE  ProcsOK'
<1>1. \A x : BlocksIn(x)' = BlocksIn(x) /\ StartedAt(run', BlocksIn(x)) = StartedAt(run, BlocksIn(x))
  BY BlocksInOther
<1>2. \A x : DoneAt("proc", x)' = DoneAt("proc", x)
  BY GrownDoneAt
<1>3. ProcsCounted => ProcsCounted'
  BY <1>1, <1>2 DEF ProcsCounted, ProcNumber, NumberIn
<1> QED
  BY <1>3 DEF ProcsOK

LEMMA ProcsEnter ==
  ASSUME TypeOK, ProcsOK, EnterProc, dyninst'.insts = dyninst.insts
  PROVE  ProcsOK'
<1>1. PICK y \in Procs : /\ Grown([do |-> "proc", at |-> <<y[1], y[2], 1, 0>>])
                         /\ iprof' = ProcedureCalls(ProcNumber(y))
  BY EnterProcAdds
<1>2. PICK e : e = [do |-> "proc", at |-> <<y[1], y[2], 1, 0>>]
  OBVIOUS
<1>3. e.do = "proc" /\ e.at = <<y[1], y[2], 1, 0>> /\ Grown(e) /\ RunOK
  BY <1>1, <1>2 DEF TypeOK
<1>4. prof' = prof /\ phase' = phase /\ phase = "run"
  BY DEF EnterProc, Running, Happens
<1>5. ProcsCounted
  BY <1>4 DEF ProcsOK
<1> DEFINE c == [iprof.callsPerProc EXCEPT ![ProcNumber(y)] = iprof.callsPerProc[ProcNumber(y)] + 1]
<1>6. iprof' = [iprof EXCEPT !.callsPerProc = c]
  BY <1>1 DEF ProcedureCalls
<1>7. \A x \in Procs : c[ProcNumber(x)] = IF x = y THEN iprof.callsPerProc[ProcNumber(x)] + 1
                                          ELSE iprof.callsPerProc[ProcNumber(x)]
  BY <1>5, ProcNumbers DEF ProcsCounted
<1>8. c \in [ProcRow -> Nat]
  BY <1>5, ProcNumbers DEF ProcsCounted
<1> HIDE DEF c
<1>9. iprof' = [instrTotal |-> dyninst.insts, instrPerProc |-> iprof.instrPerProc, callsPerProc |-> c]
  BY <1>6 DEF ProcsOK
<1>10. \A x \in Procs : DoneAt("proc", <<x[1], x[2], 1, 0>>)' =
                          IF x = y THEN DoneAt("proc", <<x[1], x[2], 1, 0>>) + 1
                          ELSE DoneAt("proc", <<x[1], x[2], 1, 0>>)
  <2> TAKE x \in Procs
  <2>1. PICK z : z = <<x[1], x[2], 1, 0>>
    OBVIOUS
  <2>2. z = e.at <=> x = y
    <3>1. x = <<x[1], x[2]>> /\ y = <<y[1], y[2]>>
      BY ProcsAre
    <3>2. z = e.at => x[1] = y[1] /\ x[2] = y[2]
      BY <1>3, <2>1
    <3>3. x = y => z = e.at
      BY <1>3, <2>1
    <3> QED BY <3>1, <3>2, <3>3
  <2>3. DoneAt("proc", z)' = IF x = y THEN DoneAt("proc", z) + 1 ELSE DoneAt("proc", z)
    BY <1>3, <2>2, GrownDoneAt
  <2> QED BY <2>1, <2>3
<1>11. \A x : BlocksIn(x)' = BlocksIn(x) /\ StartedAt(run', BlocksIn(x)) = StartedAt(run, BlocksIn(x))
  BY <1>3, BlocksInOther
<1>12. \A x \in Procs :
         /\ iprof'.callsPerProc[ProcNumber(x)] = DoneAt("proc", <<x[1], x[2], 1, 0>>)'
         /\ iprof'.instrPerProc[ProcNumber(x)] = Cardinality(StartedAt(run', BlocksIn(x)'))
  BY <1>5, <1>7, <1>9, <1>10, <1>11 DEF ProcsCounted
<1>13. ProcsCounted'
  BY <1>4, <1>5, <1>8, <1>9, <1>12 DEF ProcsCounted, ProcNumber, NumberIn
<1> QED
  BY <1>4, <1>9, <1>13 DEF ProcsOK


LEMMA ProcsStart ==
  ASSUME TypeOK, ProcsOK, DyninstOK, StartBlock, dyninst'.insts = dyninst.insts + Len(Block(here))
  PROVE  ProcsOK'
<1>0. RunOK /\ HereOK
  BY DEF TypeOK
<1>1. here' \in Insts /\ here' = [here EXCEPT ![4] = 1] /\ Grown([do |-> "block", at |-> here'])
  BY StartBlockAdds
<1>2. PICK e, m, y, w : /\ e = [do |-> "block", at |-> here'] /\ m = Len(run) + 1
                        /\ y = ProcOf(here) /\ w = here'
  OBVIOUS
<1>3. e.do = "block" /\ e.at = w /\ Grown(e) /\ w \in Insts
  BY <1>1, <1>2
<1>4. phase' = phase /\ phase = "run"
  BY DEF StartBlock, Running, Happens
<1>5. ProcsCounted
  BY <1>4 DEF ProcsOK
<1>6. Block(w) = Block(here) /\ ProcOf(w) = y /\ y \in Procs
  <2>1. here[4] = 0
    BY DEF StartBlock
  <2> QED BY <1>0, <1>1, <1>2, <2>1, OnHere, HereIs
<1>7. Len(Block(here)) \in Nat
  BY <1>0, HereIs
<1> DEFINE n == Len(Block(here))
           c == [iprof.instrPerProc EXCEPT ![ProcNumber(y)] = iprof.instrPerProc[ProcNumber(y)] + n]
           t == dyninst.insts + n
<1>8. /\ iprof' = ProcedureCount(iprof, ProcNumber(y), n)
      /\ prof' = ProcedureCount(prof, ProcNumber(y), n)
  BY <1>2 DEF StartBlock
<1>9. iprof' = [iprof EXCEPT !.instrTotal = t, !.instrPerProc = c]
      /\ prof' = [prof EXCEPT !.instrTotal = t, !.instrPerProc = c]
  <2>1. iprof.instrTotal = dyninst.insts /\ prof.instrTotal = dyninst.insts
        /\ prof.instrPerProc = iprof.instrPerProc
    BY <1>5 DEF ProcsOK, ProcsCounted
  <2> QED BY <1>8, <2>1 DEF ProcedureCount
<1>10. \A x \in Procs : c[ProcNumber(x)] = IF x = y THEN iprof.instrPerProc[ProcNumber(x)] + n
                                           ELSE iprof.instrPerProc[ProcNumber(x)]
  BY <1>5, <1>6, ProcNumbers DEF ProcsCounted
<1>11. c \in [ProcRow -> Nat]
  BY <1>5, <1>6, <1>7, ProcNumbers DEF ProcsCounted
<1> HIDE DEF c, t
<1>12. /\ iprof' = [instrTotal |-> t, instrPerProc |-> c, callsPerProc |-> iprof.callsPerProc]
       /\ prof' = [instrTotal |-> t, instrPerProc |-> c]
  BY <1>9 DEF ProcsOK
<1>13. \A x : DoneAt("proc", x)' = DoneAt("proc", x)
  BY <1>0, <1>3, GrownDoneAt
<1>14. ASSUME NEW x \in Procs
       PROVE  Cardinality(StartedAt(run', BlocksIn(x)')) =
                IF x = y THEN Cardinality(StartedAt(run, BlocksIn(x))) + n
                ELSE Cardinality(StartedAt(run, BlocksIn(x)))
  <2>1. BlocksIn(x) \in SUBSET Times({"block"})
    BY DEF BlocksIn
  <2>2. Grown([do |-> "block", at |-> w])
    BY <1>1, <1>2
  <2>3. /\ Times({"block"})' = Times({"block"}) \cup {m}
        /\ run'[m].at = w
        /\ \A j \in Times({"block"}) : run'[j] = run[j]
        /\ Cardinality(StartedAt(run', BlocksIn(x))) = Cardinality(StartedAt(run, BlocksIn(x)))
        /\ Cardinality(StartedAt(run', BlocksIn(x) \cup {m}))
             = Cardinality(StartedAt(run, BlocksIn(x))) + Len(Block(w))
    BY <1>0, <1>2, <1>3, <2>1, <2>2, StartedBlock
  <2>4. BlocksIn(x)' = {j \in Times({"block"})' : ProcOf(run'[j].at) = x}
    BY DEF BlocksIn
  <2>5. BlocksIn(x)' = IF x = y THEN BlocksIn(x) \cup {m} ELSE BlocksIn(x)
    BY <1>6, <2>3, <2>4 DEF BlocksIn
  <2> QED BY <1>6, <2>3, <2>5
<1>15. ProcsCounted'
  <2>1. \A x \in Procs : iprof'.callsPerProc[ProcNumber(x)] = DoneAt("proc", <<x[1], x[2], 1, 0>>)'
    <3> TAKE x \in Procs
    <3>1. PICK z : z = <<x[1], x[2], 1, 0>>
      OBVIOUS
    <3>2. iprof'.callsPerProc[ProcNumber(x)] = DoneAt("proc", z)'
      BY <1>5, <1>12, <1>13, <3>1 DEF ProcsCounted
    <3> QED BY <3>1, <3>2
  <2>2. \A x \in Procs : iprof'.instrPerProc[ProcNumber(x)] = Cardinality(StartedAt(run', BlocksIn(x)'))
    BY <1>5, <1>10, <1>12, <1>14 DEF ProcsCounted
  <2> QED BY <1>5, <1>11, <1>12, <2>1, <2>2 DEF ProcsCounted, ProcNumber, NumberIn
<1>16. t = dyninst'.insts
  BY DEF t
<1> QED
  BY <1>4, <1>12, <1>15, <1>16 DEF ProcsOK

LEMMA ProcsOpen ==
  ASSUME TypeOK, ProcsOK, ProgramBefore
  PROVE  ProcsOK'
<1>1. run = <<>> /\ run' = run /\ dyninst' = dyninst
  BY DEF ProgramBefore, TypeOK, RunOK
<1>2. \A kinds : Times(kinds)' = {}
  BY <1>1 DEF Times
<1>3. /\ \A x : DoneAt("proc", x)' = 0
      /\ \A x : Cardinality(StartedAt(run', BlocksIn(x)')) = 0
  <2>1. \A x : TimesAt("proc", x)' = {}
    BY <1>2 DEF TimesAt
  <2>2. \A x : BlocksIn(x)' = {}
    BY <1>2 DEF BlocksIn
  <2>3. StartedAt(run', {}) = {}
    BY DEF StartedAt
  <2> QED BY <2>1, <2>2, <2>3, FS_EmptySet DEF DoneAt
<1>4. /\ iprof' = OpenIprof(Cardinality(Procs)) /\ prof' = OpenProf(Cardinality(Procs))
  BY DEF ProgramBefore
<1>5. /\ iprof' = [instrTotal |-> dyninst.insts, instrPerProc |-> [n \in ProcRow |-> 0],
                   callsPerProc |-> [n \in ProcRow |-> 0]]
      /\ prof' = [instrTotal |-> dyninst.insts, instrPerProc |-> [n \in ProcRow |-> 0]]
  <2> DEFINE z == [n \in ProcRow |-> 0]
  <2>1. iprof' = [iprof EXCEPT !.instrPerProc = z, !.callsPerProc = z] /\ prof' = [prof EXCEPT !.instrPerProc = z]
    BY <1>4 DEF OpenIprof, OpenProf, Zero, ProcRow
  <2> HIDE DEF z
  <2>2. PICK a, b, c, d : /\ iprof = [instrTotal |-> a, instrPerProc |-> b, callsPerProc |-> c]
                          /\ prof = [instrTotal |-> a, instrPerProc |-> d] /\ a = dyninst.insts
    BY DEF ProcsOK
  <2>3. iprof' = [instrTotal |-> a, instrPerProc |-> z, callsPerProc |-> z]
    BY <2>1, <2>2
  <2>4. prof' = [instrTotal |-> a, instrPerProc |-> z]
    BY <2>1, <2>2
  <2> QED BY <2>2, <2>3, <2>4 DEF z
<1>6. \A x \in Procs : DoneAt("proc", <<x[1], x[2], 1, 0>>)' = 0
  <2> TAKE x \in Procs
  <2>1. PICK z : z = <<x[1], x[2], 1, 0>>
    OBVIOUS
  <2> QED BY <1>3, <2>1
<1>7. ProcsCounted'
  BY <1>3, <1>5, <1>6, ProcNumbers DEF ProcsCounted, ProcNumber, NumberIn
<1> QED
  BY <1>1, <1>5, <1>7 DEF ProcsOK


LEMMA ProcsStep == TypeOK /\ ProcsOK /\ DyninstOK /\ [Next]_vars => ProcsOK'
<1> SUFFICES ASSUME TypeOK, ProcsOK, DyninstOK, [Next]_vars PROVE ProcsOK'
  OBVIOUS
<1>0. RunOK
  BY DEF TypeOK
<1>1. CASE UNCHANGED <<run, iprof, prof, dyninst>> /\ (phase # "before" \/ phase' = "before")
  <2>1. /\ \A x : DoneAt("proc", x)' = DoneAt("proc", x)
        /\ \A x : StartedAt(run', BlocksIn(x)') = StartedAt(run, BlocksIn(x))
    BY <1>1 DEF DoneAt, TimesAt, Times, StartedAt, BlocksIn
  <2>2. ProcsCounted => ProcsCounted'
    <3> SUFFICES ASSUME ProcsCounted PROVE ProcsCounted'
      OBVIOUS
    <3>1. \A x \in Procs : iprof'.callsPerProc[ProcNumber(x)] = DoneAt("proc", <<x[1], x[2], 1, 0>>)'
      <4> TAKE x \in Procs
      <4>1. PICK z : z = <<x[1], x[2], 1, 0>>
        OBVIOUS
      <4>2. iprof'.callsPerProc[ProcNumber(x)] = DoneAt("proc", z)'
        BY <1>1, <2>1, <4>1 DEF ProcsCounted
      <4> QED BY <4>1, <4>2
    <3>2. \A x \in Procs : iprof'.instrPerProc[ProcNumber(x)] = Cardinality(StartedAt(run', BlocksIn(x)'))
      BY <1>1, <2>1 DEF ProcsCounted
    <3> QED BY <1>1, <3>1, <3>2 DEF ProcsCounted, ProcNumber, NumberIn
  <2> QED BY <1>1, <2>2 DEF ProcsOK
<1>2. CASE EnterProc
  <2>1. dyninst' = AddProcedure
    BY <1>2 DEF EnterProc
  <2>2. dyninst'.insts = dyninst.insts
    BY <2>1, DyninstType DEF AddProcedure
  <2> QED BY <1>2, <2>2, ProcsEnter
<1>3. CASE StartBlock
  <2>1. dyninst' = AddBlock(Counts(here))
    BY <1>3 DEF StartBlock
  <2>2. dyninst'.insts = dyninst.insts + Len(Block(here))
    BY <2>1, DyninstType DEF AddBlock, Counts
  <2> QED BY <1>3, <2>2, ProcsStart
<1>4. CASE Jsr \/ CondBr \/ HeapCall
  <2>1. \E e : Grown(e) /\ e.do \notin {"block", "proc"}
    BY <1>4, KindsAdded
  <2>2. UNCHANGED <<iprof, prof, phase, dyninst>>
    BY <1>4 DEF Jsr, CondBr, HeapCall, Happens
  <2> QED BY <1>0, <2>1, <2>2, ProcsKept
<1>5. ASSUME NEW kind \in {"load", "store"}, LoadStore(kind) PROVE ProcsOK'
  <2>1. \E e : Grown(e) /\ e.do \notin {"block", "proc"}
    BY <1>5, KindsAdded
  <2>2. UNCHANGED <<iprof, prof, phase, dyninst>>
    BY <1>5 DEF LoadStore, Happens
  <2> QED BY <1>0, <2>1, <2>2, ProcsKept
<1>6. CASE ProgramBefore
  BY <1>6, ProcsOpen
<1>7. Goto \/ ProgramAfter \/ UNCHANGED vars =>
        UNCHANGED <<run, iprof, prof, dyninst>> /\ (phase # "before" \/ phase' = "before")
  BY DEF Goto, ProgramAfter, Running, vars, tools
<1> QED
  BY <1>1, <1>2, <1>3, <1>4, <1>5, <1>6, <1>7 DEF Next, Exited

LEMMA InitProcs == Init => ProcsOK
BY DEF Init, ProcsOK, NoProcs, NoCounts


-----------------------------------------------------------------------------
(* Sum: the recursive function in it, and one number more or less. *)

IsSum(u, f, n) == u = [k \in 0..n |-> IF k = 0 THEN 0 ELSE u[k - 1] + f[k - 1]]

LEMMA SumExists ==
  ASSUME NEW f
  PROVE  \A n \in Nat : \E u : IsSum(u, f, n)
<1> DEFINE T == {n \in Nat : \E u : IsSum(u, f, n)}
<1>1. 0 \in T
  <2> DEFINE v == [k \in 0..0 |-> 0]
  <2>1. v = [k \in 0..0 |-> IF k = 0 THEN 0 ELSE v[k - 1] + f[k - 1]]
    OBVIOUS
  <2> QED BY <2>1 DEF IsSum
<1>2. ASSUME NEW n \in Nat, n \in T PROVE n + 1 \in T
  <2>1. PICK u : IsSum(u, f, n)
    BY <1>2
  <2>2. \A k \in 0..n : u[k] = IF k = 0 THEN 0 ELSE u[k - 1] + f[k - 1]
    BY <2>1 DEF IsSum
  <2> DEFINE v == [k \in 0..(n + 1) |-> IF k <= n THEN u[k] ELSE u[k - 1] + f[k - 1]]
  <2>3. ASSUME NEW k \in 0..(n + 1) PROVE v[k] = IF k = 0 THEN 0 ELSE v[k - 1] + f[k - 1]
    <3>1. k # 0 => k - 1 \in 0..(n + 1) /\ v[k - 1] = u[k - 1]
      OBVIOUS
    <3>2. v[k] = IF k <= n THEN u[k] ELSE u[k - 1] + f[k - 1]
      OBVIOUS
    <3>3. k <= n => u[k] = IF k = 0 THEN 0 ELSE u[k - 1] + f[k - 1]
      BY <2>2
    <3>4. ~ (k <= n) => k # 0
      OBVIOUS
    <3> HIDE DEF v
    <3> QED BY <3>1, <3>2, <3>3, <3>4
  <2>4. IsSum(v, f, n + 1)
    BY <2>3 DEF IsSum
  <2> QED BY <2>4
<1> HIDE DEF T
<1>3. \A n \in Nat : n \in T
  BY <1>1, <1>2, NumbersByInduction
<1> QED
  BY <1>3 DEF T

LEMMA SumIs ==
  ASSUME NEW n \in Nat, NEW f, DOMAIN f = 0..(n - 1)
  PROVE  \E u : IsSum(u, f, n) /\ Sum(f) = u[n]
<1> DEFINE u == CHOOSE u : IsSum(u, f, n)
<1>1. IsSum(u, f, n)
  BY SumExists
<1>2. Cardinality(DOMAIN f) = n
  <2>1. IsFiniteSet(0..(n - 1)) /\ Cardinality(0..(n - 1)) = IF 0 > n - 1 THEN 0 ELSE (n - 1) - 0 + 1
    BY FS_Interval
  <2> QED BY <2>1
<1>3. Sum(f) = u[n]
  BY <1>2 DEF Sum, IsSum
<1> QED
  BY <1>1, <1>3

\* What holds of 0 and of every next number up to n.
LEMMA UpTo ==
  ASSUME NEW n \in Nat, NEW P, 0 \in P, \A k \in 0..(n - 1) : k \in P => k + 1 \in P
  PROVE  n \in P
<1> DEFINE T == {k \in Nat : k <= n => k \in P}
<1>1. 0 \in T
  OBVIOUS
<1>2. \A k \in Nat : k \in T => k + 1 \in T
  OBVIOUS
<1>3. \A k \in Nat : k \in T
  <2> HIDE DEF T
  <2> QED BY <1>1, <1>2, NumbersByInduction
<1> QED
  BY <1>3

LEMMA SumNat ==
  ASSUME NEW n \in Nat, NEW f \in [0..(n - 1) -> Nat]
  PROVE  Sum(f) \in Nat
<1>1. PICK u : IsSum(u, f, n) /\ Sum(f) = u[n]
  BY SumIs, DOMAIN f = 0..(n - 1)
<1> DEFINE P == {k \in 0..n : u[k] \in Nat}
<1>2. u[0] = 0 /\ \A k \in 0..(n - 1) : u[k + 1] = u[k] + f[k]
  <2>1. \A k \in 0..n : u[k] = IF k = 0 THEN 0 ELSE u[k - 1] + f[k - 1]
    BY <1>1 DEF IsSum
  <2>2. \A k \in 0..(n - 1) : k + 1 \in 0..n /\ k + 1 # 0 /\ (k + 1) - 1 = k
    OBVIOUS
  <2> QED BY <2>1, <2>2
<1>3. 0 \in P
  BY <1>2
<1>4. \A k \in 0..(n - 1) : k \in P => k + 1 \in P
  BY <1>2
<1>5. n \in P
  <2> HIDE DEF P
  <2> QED BY <1>3, <1>4, UpTo
<1> QED
  BY <1>1, <1>5

\* One of the numbers grown by c.
LEMMA SumGrows ==
  ASSUME NEW n \in Nat, NEW f \in [0..(n - 1) -> Nat], NEW i \in 0..(n - 1), NEW c \in Nat,
         NEW g \in [0..(n - 1) -> Nat],
         \A k \in 0..(n - 1) : g[k] = IF k = i THEN f[k] + c ELSE f[k]
  PROVE  Sum(g) = Sum(f) + c
<1>1. PICK u : IsSum(u, f, n) /\ Sum(f) = u[n]
  BY SumIs, DOMAIN f = 0..(n - 1)
<1>2. PICK v : IsSum(v, g, n) /\ Sum(g) = v[n]
  BY SumIs, DOMAIN g = 0..(n - 1)
<1>0. \A k \in 0..(n - 1) : k + 1 \in 0..n /\ k + 1 # 0 /\ (k + 1) - 1 = k
  OBVIOUS
<1>3. u[0] = 0 /\ \A k \in 0..(n - 1) : u[k + 1] = u[k] + f[k]
  <2>1. \A k \in 0..n : u[k] = IF k = 0 THEN 0 ELSE u[k - 1] + f[k - 1]
    BY <1>1 DEF IsSum
  <2> QED BY <1>0, <2>1
<1>4. v[0] = 0 /\ \A k \in 0..(n - 1) : v[k + 1] = v[k] + g[k]
  <2>1. \A k \in 0..n : v[k] = IF k = 0 THEN 0 ELSE v[k - 1] + g[k - 1]
    BY <1>2 DEF IsSum
  <2> QED BY <1>0, <2>1
<1>5. \A k \in 0..(n - 1) : g[k] = IF k = i THEN f[k] + c ELSE f[k]
  OBVIOUS
<1> DEFINE P == {k \in 0..n : u[k] \in Nat /\ v[k] = IF k > i THEN u[k] + c ELSE u[k]}
<1>6. 0 \in P
  BY <1>3, <1>4
<1>7. \A k \in 0..(n - 1) : k \in P => k + 1 \in P
  <2> SUFFICES ASSUME NEW k \in 0..(n - 1), k \in P PROVE k + 1 \in P
    OBVIOUS
  <2>1. f[k] \in Nat /\ u[k] \in Nat
    OBVIOUS
  <2>2. u[k + 1] = u[k] + f[k] /\ v[k + 1] = v[k] + g[k]
    BY <1>3, <1>4
  <2>3. CASE k < i
    BY <1>5, <2>1, <2>2, <2>3
  <2>4. CASE k = i
    <3>1. g[k] = f[k] + c /\ v[k] = u[k] /\ k + 1 > i
      BY <1>5, <2>4
    <3>2. v[k + 1] = u[k + 1] + c /\ u[k + 1] \in Nat
      BY <2>1, <2>2, <3>1
    <3> QED BY <3>1, <3>2
  <2>5. CASE k > i
    BY <1>5, <2>1, <2>2, <2>5
  <2> QED BY <2>3, <2>4, <2>5
<1>8. n \in P
  <2> HIDE DEF P
  <2> QED BY <1>6, <1>7, UpTo
<1> QED
  BY <1>1, <1>2, <1>8

LEMMA SumZero ==
  ASSUME NEW n \in Nat
  PROVE  Sum([k \in 0..(n - 1) |-> 0]) = 0
<1> DEFINE f == [k \in 0..(n - 1) |-> 0]
<1>0. DOMAIN f = 0..(n - 1)
  OBVIOUS
<1>1. PICK u : IsSum(u, f, n) /\ Sum(f) = u[n]
  BY <1>0, SumIs
<1> DEFINE P == {k \in 0..n : u[k] = 0}
<1>2. \A k \in 0..n : u[k] = IF k = 0 THEN 0 ELSE u[k - 1] + f[k - 1]
  BY <1>1 DEF IsSum
<1>3. 0 \in P
  BY <1>2
<1>4. \A k \in 0..(n - 1) : k \in P => k + 1 \in P
  BY <1>2
<1>5. n \in P
  <2> HIDE DEF P
  <2> QED BY <1>3, <1>4, UpTo
<1> QED
  BY <1>1, <1>5


-----------------------------------------------------------------------------
(* inline and branch: a row for each call site, and for each branch. *)

SiteRow == 0..(Cardinality(CallSites) - 1)
BranchRow == 0..(Cardinality(Branches) - 1)
SiteNumber(x) == NumberIn(CallSites, x)
BranchNumber(x) == NumberIn(Branches, x)

LEMMA RowNumbers ==
  /\ \A x \in CallSites : SiteNumber(x) \in SiteRow
  /\ \A x, y \in CallSites : SiteNumber(x) = SiteNumber(y) => x = y
  /\ \A x \in Branches : BranchNumber(x) \in BranchRow
  /\ \A x, y \in Branches : BranchNumber(x) = BranchNumber(y) => x = y
  /\ Cardinality(CallSites) \in Nat /\ Cardinality(Branches) \in Nat
BY PlacesOrdered, NumbersApart DEF SiteNumber, BranchNumber, SiteRow, BranchRow

SitesCounted ==
  /\ inline \in [SiteRow -> Nat]
  /\ \A x \in CallSites : inline[SiteNumber(x)] = DoneAt("jsr", x)
SitesOK == phase # "before" => SitesCounted

BranchesCounted ==
  /\ branch.references \in [BranchRow -> Nat] /\ branch.predicts \in [BranchRow -> Nat]
  /\ \A x \in Branches : branch.references[BranchNumber(x)] = DoneAt("condbr", x)
  /\ \A n \in BranchRow : branch.predicts[n] <= branch.references[n]
  /\ Sum(branch.references) = Done("condbr")
BranchesOK ==
  /\ branch = [branchHistory |-> branch.branchHistory, predicts |-> branch.predicts,
               references |-> branch.references]
  /\ branch.branchHistory \in [0..(TABLESIZE - 1) -> 0..3]
  /\ phase # "before" => BranchesCounted

LEMMA RowsKept ==
  ASSUME RunOK, NEW e, Grown(e), UNCHANGED <<phase, inline, branch>>
  PROVE  /\ SitesOK /\ e.do # "jsr" => SitesOK'
         /\ BranchesOK /\ e.do # "condbr" => BranchesOK'
<1>1. e.do # "jsr" => \A x : DoneAt("jsr", x)' = DoneAt("jsr", x)
  BY GrownDoneAt
<1>2. e.do # "condbr" => /\ \A x : DoneAt("condbr", x)' = DoneAt("condbr", x)
                         /\ Done("condbr")' = Done("condbr")
  BY GrownDoneAt, GrownDone DEF RunOK
<1>3. SitesOK /\ e.do # "jsr" => SitesOK'
  BY <1>1 DEF SitesOK, SitesCounted
<1>4. BranchesOK /\ e.do # "condbr" => BranchesOK'
  BY <1>2 DEF BranchesOK, BranchesCounted
<1> QED
  BY <1>3, <1>4

LEMMA RowsSame ==
  ASSUME UNCHANGED <<run, inline, branch>>, phase # "before" \/ phase' = "before"
  PROVE  /\ SitesOK => SitesOK'
         /\ BranchesOK => BranchesOK'
<1>1. /\ \A x : DoneAt("jsr", x)' = DoneAt("jsr", x)
      /\ \A x : DoneAt("condbr", x)' = DoneAt("condbr", x)
      /\ Done("condbr")' = Done("condbr")
  BY DEF DoneAt, TimesAt, Times, Done
<1> QED
  BY <1>1 DEF SitesOK, SitesCounted, BranchesOK, BranchesCounted

LEMMA RowsOpen ==
  ASSUME TypeOK, BranchesOK, ProgramBefore
  PROVE  SitesOK' /\ BranchesOK'
<1>1. run' = <<>>
  BY DEF ProgramBefore, TypeOK, RunOK
<1>2. \A kinds : Times(kinds)' = {}
  BY <1>1 DEF Times
<1>3. /\ \A x : DoneAt("jsr", x)' = 0
      /\ \A x : DoneAt("condbr", x)' = 0
      /\ Done("condbr")' = 0
  <2>1. \A kind, x : TimesAt(kind, x)' = {}
    BY <1>2 DEF TimesAt
  <2> QED BY <1>2, <2>1, FS_EmptySet DEF DoneAt, Done
<1>4. inline' = [n \in SiteRow |-> 0]
  BY DEF ProgramBefore, OpenInline, Zero, SiteRow
<1>5. SitesOK'
  BY <1>3, <1>4, RowNumbers DEF SitesOK, SitesCounted
<1> DEFINE z == [n \in BranchRow |-> 0]
<1>6. branch' = [branch EXCEPT !.predicts = z, !.references = z]
  BY DEF ProgramBefore, OpenBranch, Zero, BranchRow
<1>7. z \in [BranchRow -> Nat] /\ (\A n \in BranchRow : z[n] = 0) /\ Sum(z) = 0
  <2>1. Sum(z) = 0
    BY RowNumbers, SumZero DEF BranchRow
  <2> QED BY <2>1
<1> HIDE DEF z
<1>8. PICK a, b, c : /\ branch = [branchHistory |-> a, predicts |-> b, references |-> c]
                      /\ a \in [0..(TABLESIZE - 1) -> 0..3]
  BY DEF BranchesOK
<1>9. branch' = [branchHistory |-> a, predicts |-> z, references |-> z]
  BY <1>6, <1>8
<1>10. BranchesCounted'
  BY <1>3, <1>7, <1>9, RowNumbers DEF BranchesCounted
<1>11. BranchesOK'
  BY <1>8, <1>9, <1>10 DEF BranchesOK
<1> QED
  BY <1>5, <1>11

LEMMA SiteCalled ==
  ASSUME TypeOK, SitesOK, Jsr
  PROVE  SitesOK'
<1>1. Grown([do |-> "jsr", at |-> here]) /\ here \in CallSites /\ RunOK
  BY JsrAdds DEF TypeOK
<1>2. PICK e, y : e = [do |-> "jsr", at |-> here] /\ y = here
  OBVIOUS
<1>3. e.do = "jsr" /\ e.at = y /\ Grown(e) /\ y \in CallSites
  BY <1>1, <1>2
<1>4. inline' = [inline EXCEPT ![SiteNumber(y)] = inline[SiteNumber(y)] + 1]
  BY <1>2 DEF Jsr, CallSiteCount, SiteNumber
<1>5. SitesCounted
  BY DEF Jsr, Executes, Running, SitesOK
<1>6. inline' \in [SiteRow -> Nat]
  BY <1>3, <1>4, <1>5, RowNumbers DEF SitesCounted
<1>7. \A x \in CallSites : inline'[SiteNumber(x)] = IF x = y THEN inline[SiteNumber(x)] + 1
                                                    ELSE inline[SiteNumber(x)]
  BY <1>3, <1>4, <1>5, RowNumbers DEF SitesCounted
<1>8. \A x : DoneAt("jsr", x)' = IF x = y THEN DoneAt("jsr", x) + 1 ELSE DoneAt("jsr", x)
  BY <1>1, <1>3, GrownDoneAt
<1>9. \A x \in CallSites : inline'[SiteNumber(x)] = DoneAt("jsr", x)'
  BY <1>5, <1>7, <1>8 DEF SitesCounted
<1> QED
  BY <1>6, <1>9 DEF SitesOK, SitesCounted

LEMMA BranchTaken ==
  ASSUME TypeOK, BranchesOK, CondBr
  PROVE  BranchesOK'
<1>1. PICK taken \in BOOLEAN :
        /\ Grown([do |-> "condbr", at |-> here, taken |-> taken]) /\ here \in Branches
        /\ branch' = CondBranch(NumberIn(Branches, here), InstPC(here), taken)
  BY CondBrAdds
<1>2. PICK e, y : e = [do |-> "condbr", at |-> here, taken |-> taken] /\ y = here
  OBVIOUS
<1>3. e.do = "condbr" /\ e.at = y /\ Grown(e) /\ y \in Branches /\ RunOK
  BY <1>1, <1>2 DEF TypeOK
<1>4. BranchesCounted
  BY DEF CondBr, Executes, Running, BranchesOK
<1> DEFINE i == BranchNumber(y)
           r == [branch.references EXCEPT ![i] = branch.references[i] + 1]
<1>5. PICK h \in [0..(TABLESIZE - 1) -> 0..3], c \in {branch.predicts[i], branch.predicts[i] + 1} :
        branch' = [branch EXCEPT !.predicts = [branch.predicts EXCEPT ![i] = c],
                                 !.references = r, !.branchHistory = h]
  <2>1. branch' = CondBranch(i, InstPC(y), taken)
    BY <1>1, <1>2 DEF BranchNumber
  <2> DEFINE index == (InstPC(y) \div 4) % TABLESIZE
             history == branch.branchHistory[index]
             now == IF taken THEN takenTable[history + 1] ELSE notTakenTable[history + 1]
             b == [branch.branchHistory EXCEPT ![index] = now]
             c == IF (IF taken THEN history >= 2 ELSE history <= 1) THEN branch.predicts[i] + 1
                  ELSE branch.predicts[i]
  <2>2. branch' = [branch EXCEPT !.predicts = [branch.predicts EXCEPT ![i] = c],
                                 !.references = r, !.branchHistory = b]
    BY <2>1, <1>4 DEF CondBranch, BranchesOK
  <2>3. index \in 0..(TABLESIZE - 1)
    <3>1. NumberIn(Insts, y) \in Nat
      BY <1>3, PlacesOrdered, NumbersApart, SitesAre
    <3>2. PICK q : q = InstPC(y) \div 4
      OBVIOUS
    <3>3. q \in Nat
      BY <3>1, <3>2 DEF InstPC
    <3>4. TABLESIZE \in Nat \ {0}
      BY AtomAssumption
    <3>5. q % TABLESIZE \in 0..(TABLESIZE - 1)
      BY <3>3, <3>4
    <3> QED BY <3>2, <3>5
  <2>4. history \in 0..3
    BY <2>3 DEF BranchesOK
  <2> HIDE DEF history, index
  <2>5. now \in 0..3
    BY <2>4 DEF takenTable, notTakenTable
  <2>6. b \in [0..(TABLESIZE - 1) -> 0..3]
    BY <2>3, <2>5 DEF BranchesOK
  <2>7. c \in {branch.predicts[i], branch.predicts[i] + 1}
    OBVIOUS
  <2> HIDE DEF now, b, c, r, i
  <2> QED BY <2>2, <2>6, <2>7
<1>6. i \in BranchRow
  BY <1>3, RowNumbers
<1>7. /\ branch.references \in [BranchRow -> Nat] /\ branch.predicts \in [BranchRow -> Nat]
      /\ \A n \in BranchRow : branch.predicts[n] <= branch.references[n]
  BY <1>4 DEF BranchesCounted
<1> DEFINE p == [branch.predicts EXCEPT ![i] = c]
<1>8. /\ r \in [BranchRow -> Nat] /\ p \in [BranchRow -> Nat]
      /\ \A n \in BranchRow : p[n] <= r[n]
  <2>1. r \in [BranchRow -> Nat] /\ p \in [BranchRow -> Nat]
    BY <1>6, <1>7
  <2>2. ASSUME NEW n \in BranchRow PROVE p[n] <= r[n]
    <3>1. CASE n = i
      BY <1>6, <1>7, <3>1
    <3>2. CASE n # i
      BY <1>6, <1>7, <3>2
    <3> QED BY <3>1, <3>2
  <2> QED BY <2>1, <2>2
<1>9. Sum(r) = Sum(branch.references) + 1
  <2>1. PICK n : n = Cardinality(Branches) /\ n \in Nat
    BY RowNumbers
  <2>2. i \in 0..(n - 1) /\ branch.references \in [0..(n - 1) -> Nat]
    BY <1>6, <1>7, <2>1 DEF BranchRow
  <2> HIDE DEF i
  <2>3. PICK f, g : f = branch.references /\ g = [f EXCEPT ![i] = f[i] + 1]
    OBVIOUS
  <2>4. f \in [0..(n - 1) -> Nat] /\ n \in Nat /\ i \in 0..(n - 1)
    BY <2>1, <2>2, <2>3
  <2>5. /\ g \in [0..(n - 1) -> Nat]
        /\ \A k \in 0..(n - 1) : g[k] = IF k = i THEN f[k] + 1 ELSE f[k]
    BY <2>3, <2>4
  <2>6. Sum(g) = Sum(f) + 1
    BY <2>4, <2>5, SumGrows
  <2> QED BY <2>3, <2>6
<1>10. \A x \in Branches : r[BranchNumber(x)] = IF x = y THEN branch.references[BranchNumber(x)] + 1
                                                ELSE branch.references[BranchNumber(x)]
  BY <1>3, <1>7, RowNumbers
<1>11. \A x : DoneAt("condbr", x)' = IF x = y THEN DoneAt("condbr", x) + 1 ELSE DoneAt("condbr", x)
  BY <1>3, GrownDoneAt
<1>12. Done("condbr")' = Done("condbr") + 1
  BY <1>3, GrownDone DEF RunOK
<1>13. PICK a, b, d : branch = [branchHistory |-> a, predicts |-> b, references |-> d]
  BY DEF BranchesOK
<1> HIDE DEF r, p
<1>14. branch' = [branchHistory |-> h, predicts |-> p, references |-> r]
  BY <1>5, <1>13 DEF p
<1>15. BranchesCounted'
  BY <1>4, <1>8, <1>9, <1>10, <1>11, <1>12, <1>14 DEF BranchesCounted
<1> QED
  BY <1>5, <1>14, <1>15 DEF BranchesOK

LEMMA RowsStep == TypeOK /\ SitesOK /\ BranchesOK /\ [Next]_vars => SitesOK' /\ BranchesOK'
<1> SUFFICES ASSUME TypeOK, SitesOK, BranchesOK, [Next]_vars PROVE SitesOK' /\ BranchesOK'
  OBVIOUS
<1>0. RunOK
  BY DEF TypeOK
<1>1. CASE EnterProc \/ StartBlock \/ HeapCall
  <2>1. \E e : Grown(e) /\ e.do # "jsr" /\ e.do # "condbr"
    BY <1>1, KindsAdded
  <2>2. UNCHANGED <<phase, inline, branch>>
    BY <1>1 DEF EnterProc, StartBlock, HeapCall, Happens
  <2> QED BY <1>0, <2>1, <2>2, RowsKept
<1>2. ASSUME NEW kind \in {"load", "store"}, LoadStore(kind) PROVE SitesOK' /\ BranchesOK'
  <2>1. \E e : Grown(e) /\ e.do # "jsr" /\ e.do # "condbr"
    BY <1>2, KindsAdded
  <2>2. UNCHANGED <<phase, inline, branch>>
    BY <1>2 DEF LoadStore, Happens
  <2> QED BY <1>0, <2>1, <2>2, RowsKept
<1>3. CASE Jsr
  <2>1. \E e : Grown(e) /\ e.do = "jsr"
    BY <1>3, KindsAdded
  <2>2. UNCHANGED <<phase, branch>>
    BY <1>3 DEF Jsr, Happens
  <2>3. SitesOK'
    BY <1>3, SiteCalled
  <2>4. PICK e : Grown(e) /\ e.do = "jsr"
    BY <2>1
  <2>5. /\ \A x : DoneAt("condbr", x)' = DoneAt("condbr", x)
        /\ Done("condbr")' = Done("condbr")
    BY <1>0, <2>4, GrownDoneAt, GrownDone DEF RunOK
  <2>6. BranchesOK'
    BY <2>2, <2>5 DEF BranchesOK, BranchesCounted
  <2> QED BY <2>3, <2>6
<1>4. CASE CondBr
  <2>1. PICK e : Grown(e) /\ e.do = "condbr"
    BY <1>4, KindsAdded
  <2>2. UNCHANGED <<phase, inline>>
    BY <1>4 DEF CondBr, Happens
  <2>3. \A x : DoneAt("jsr", x)' = DoneAt("jsr", x)
    BY <1>0, <2>1, GrownDoneAt
  <2>4. SitesOK'
    BY <2>2, <2>3 DEF SitesOK, SitesCounted
  <2> QED BY <1>4, <2>4, BranchTaken
<1>5. CASE ProgramBefore
  BY <1>5, RowsOpen
<1>6. Goto \/ ProgramAfter \/ UNCHANGED vars =>
        UNCHANGED <<run, inline, branch>> /\ (phase # "before" \/ phase' = "before")
  BY DEF Goto, ProgramAfter, Running, vars, tools
<1>7. CASE Goto \/ ProgramAfter \/ UNCHANGED vars
  BY <1>6, <1>7, RowsSame
<1> QED
  BY <1>1, <1>2, <1>3, <1>4, <1>5, <1>7 DEF Next, Exited

LEMMA InitRows == Init => SitesOK /\ BranchesOK
<1>1. TABLESIZE \in Nat \ {0}
  BY AtomAssumption
<1> QED
  BY <1>1 DEF Init, SitesOK, BranchesOK, Zero


-----------------------------------------------------------------------------
(* trace and ptrace: a line for each event of theirs, in the order of the run. *)

Rank(S, j) == Cardinality({i \in S : i <= j})

\* A file whose lines are f at the times of S.
Logs(file, S, f) ==
  /\ Len(file) = Cardinality(S)
  /\ \A j \in S : file[Rank(S, j)] = f[j]

LEMMA RankIn ==
  ASSUME NEW n \in Nat, NEW S \in SUBSET (1..n)
  PROVE  /\ IsFiniteSet(S) /\ Cardinality(S) \in Nat /\ n + 1 \notin S
         /\ \A j \in S : Rank(S, j) \in 1..Cardinality(S)
<1>1. IsFiniteSet(S) /\ Cardinality(S) \in Nat
  <2>1. IsFiniteSet(1..n)
    BY FS_Interval
  <2> QED BY <2>1, FS_Subset, FS_CardinalityType
<1>2. ASSUME NEW j \in S PROVE Rank(S, j) \in 1..Cardinality(S)
  <2>1. {i \in S : i <= j} \subseteq S /\ j \in {i \in S : i <= j}
    OBVIOUS
  <2>2. IsFiniteSet({i \in S : i <= j}) /\ Rank(S, j) <= Cardinality(S) /\ Rank(S, j) \in Nat
    BY <1>1, <2>1, FS_Subset, FS_CardinalityType DEF Rank
  <2>3. Rank(S, j) # 0
    BY <2>1, <2>2, FS_EmptySet DEF Rank
  <2> QED BY <1>1, <2>2, <2>3
<1>3. n + 1 \notin S
  BY n + 1 \notin 1..n
<1> QED
  BY <1>1, <1>2, <1>3

LEMMA RankNext ==
  ASSUME NEW n \in Nat, NEW S \in SUBSET (1..n), NEW m, m = n + 1
  PROVE  /\ Cardinality(S \cup {m}) = Cardinality(S) + 1
         /\ \A j \in S : Rank(S \cup {m}, j) = Rank(S, j)
         /\ Rank(S \cup {m}, m) = Cardinality(S) + 1
<1>1. IsFiniteSet(S) /\ m \notin S
  BY RankIn
<1>2. Cardinality(S \cup {m}) = Cardinality(S) + 1
  BY <1>1, OneMore
<1>3. ASSUME NEW j \in S PROVE Rank(S \cup {m}, j) = Rank(S, j)
  <2>1. {i \in S \cup {m} : i <= j} = {i \in S : i <= j}
    OBVIOUS
  <2> QED BY <2>1 DEF Rank
<1>4. Rank(S \cup {m}, m) = Cardinality(S) + 1
  <2>1. \A i \in S \cup {m} : i <= m
    OBVIOUS
  <2>2. {i \in S \cup {m} : i <= m} = S \cup {m}
    BY <2>1
  <2> QED BY <1>2, <2>2 DEF Rank
<1> QED
  BY <1>2, <1>3, <1>4

LEMMA LogGrows ==
  ASSUME NEW n \in Nat, NEW S \in SUBSET (1..n), NEW m, m = n + 1, NEW X, NEW file \in Seq(X),
         NEW f, Logs(file, S, f), NEW v \in X, NEW g, \A j \in S : g[j] = f[j], g[m] = v
  PROVE  Append(file, v) \in Seq(X) /\ Logs(Append(file, v), S \cup {m}, g)
<1>1. /\ Append(file, v) \in Seq(X) /\ Len(Append(file, v)) = Len(file) + 1 /\ Len(file) \in Nat
      /\ \A k \in 1..Len(file) : Append(file, v)[k] = file[k]
      /\ Append(file, v)[Len(file) + 1] = v
  OBVIOUS
<1>2. Len(file) = Cardinality(S) /\ \A j \in S : file[Rank(S, j)] = f[j]
  BY DEF Logs
<1>3. /\ Cardinality(S \cup {m}) = Cardinality(S) + 1
      /\ \A j \in S : Rank(S, j) \in 1..Cardinality(S) /\ Rank(S \cup {m}, j) = Rank(S, j)
      /\ Rank(S \cup {m}, m) = Cardinality(S) + 1
  <2>1. \A j \in S : Rank(S, j) \in 1..Cardinality(S)
    BY RankIn
  <2>2. ASSUME NEW j \in S PROVE Rank(S \cup {m}, j) = Rank(S, j)
    <3>1. {i \in S \cup {m} : i <= j} = {i \in S : i <= j}
      OBVIOUS
    <3> QED BY <3>1 DEF Rank
  <2>3. Cardinality(S \cup {m}) = Cardinality(S) + 1 /\ Rank(S \cup {m}, m) = Cardinality(S) + 1
    BY RankNext
  <2> QED BY <2>1, <2>2, <2>3
<1>4. \A j \in S : Append(file, v)[Rank(S \cup {m}, j)] = g[j]
  BY <1>1, <1>2, <1>3
<1>5. Append(file, v)[Rank(S \cup {m}, m)] = g[m]
  BY <1>1, <1>2, <1>3
<1> HIDE <1>1
<1>6. Len(Append(file, v)) = Cardinality(S \cup {m}) /\ Append(file, v) \in Seq(X)
  BY <1>1, <1>2, <1>3
<1> QED
  BY <1>4, <1>5, <1>6 DEF Logs

Seen == {"block", "load", "store"}
SeenLine(r) == [j \in DOMAIN r |-> TraceEntry(r[j])]
CallLine(r) == [j \in DOMAIN r |-> ProcOf(r[j].at)]

TraceOK ==
  /\ trace \in Seq([pc : Nat] \cup [address : Nat]) /\ Logs(trace, Times(Seen), SeenLine(run))
  /\ ptrace \in Seq(Procs) /\ Logs(ptrace, Times({"proc"}), CallLine(run))

LEMMA LinesGrow ==
  ASSUME RunOK, NEW e, Grown(e), NEW m, m = Len(run) + 1
  PROVE  /\ Len(run) \in Nat /\ m \in DOMAIN run'
         /\ \A kinds : Times(kinds) \in SUBSET (1..Len(run))
         /\ \A kinds : \A j \in Times(kinds) : /\ SeenLine(run')[j] = SeenLine(run)[j]
                                               /\ CallLine(run')[j] = CallLine(run)[j]
         /\ SeenLine(run')[m] = TraceEntry(e) /\ CallLine(run')[m] = ProcOf(e.at)
         /\ \A kinds : Times(kinds)' = IF e.do \in kinds THEN Times(kinds) \cup {m} ELSE Times(kinds)
<1>1. /\ Len(run) \in Nat /\ m \in DOMAIN run' /\ run'[m] = e
      /\ \A j \in DOMAIN run : run'[j] = run[j] /\ j \in DOMAIN run'
  BY GrownRun DEF RunOK
<1>2. \A kinds : Times(kinds) \in SUBSET (1..Len(run)) /\ Times(kinds) \subseteq DOMAIN run
  BY TimesAre DEF RunOK
<1>3. \A kinds : Times(kinds)' = IF e.do \in kinds THEN Times(kinds) \cup {m} ELSE Times(kinds)
  BY GrownTimes DEF RunOK
<1>4. \A j \in DOMAIN run : SeenLine(run')[j] = SeenLine(run)[j] /\ CallLine(run')[j] = CallLine(run)[j]
  BY <1>1 DEF SeenLine, CallLine
<1>5. SeenLine(run')[m] = TraceEntry(e) /\ CallLine(run')[m] = ProcOf(e.at)
  BY <1>1 DEF SeenLine, CallLine
<1> QED
  BY <1>1, <1>2, <1>3, <1>4, <1>5

\* An event of neither file, of trace.out, of the names.
LEMMA LogsKept ==
  ASSUME RunOK, NEW e, Grown(e), NEW kinds, e.do \notin kinds, NEW file
  PROVE  /\ Logs(file, Times(kinds), SeenLine(run)) => Logs(file, Times(kinds)', SeenLine(run'))
         /\ Logs(file, Times(kinds), CallLine(run)) => Logs(file, Times(kinds)', CallLine(run'))
<1>1. PICK m : m = Len(run) + 1
  OBVIOUS
<1>2. /\ \A j \in Times(kinds) : /\ SeenLine(run')[j] = SeenLine(run)[j]
                                 /\ CallLine(run')[j] = CallLine(run)[j]
      /\ Times(kinds)' = Times(kinds)
  BY <1>1, LinesGrow
<1> QED
  BY <1>2 DEF Logs

LEMMA TraceGrows ==
  ASSUME RunOK, TraceOK, NEW e, Grown(e), e.do \in Seen, NEW v \in [pc : Nat] \cup [address : Nat],
         v = TraceEntry(e), trace' = Append(trace, v), ptrace' = ptrace
  PROVE  TraceOK'
<1>1. PICK m, n : n = Len(run) /\ m = n + 1
  OBVIOUS
<1>2. /\ n \in Nat /\ Times(Seen) \in SUBSET (1..n)
      /\ \A j \in Times(Seen) : SeenLine(run')[j] = SeenLine(run)[j]
      /\ SeenLine(run')[m] = v /\ Times(Seen)' = Times(Seen) \cup {m}
  BY <1>1, LinesGrow
<1>3. PICK S, f, g : S = Times(Seen) /\ f = SeenLine(run) /\ g = SeenLine(run')
  OBVIOUS
<1>4. trace \in Seq([pc : Nat] \cup [address : Nat]) /\ Logs(trace, S, f)
  BY <1>3 DEF TraceOK
<1>5. /\ Append(trace, v) \in Seq([pc : Nat] \cup [address : Nat])
      /\ Logs(Append(trace, v), S \cup {m}, g)
  <2>1. PICK X, file : X = [pc : Nat] \cup [address : Nat] /\ file = trace
    OBVIOUS
  <2>2. n \in Nat /\ S \in SUBSET (1..n) /\ m = n + 1 /\ (\A j \in S : g[j] = f[j]) /\ g[m] = v
    BY <1>1, <1>2, <1>3
  <2>3. file \in Seq(X) /\ Logs(file, S, f) /\ v \in X
    BY <1>4, <2>1
  <2>4. Append(file, v) \in Seq(X) /\ Logs(Append(file, v), S \cup {m}, g)
    BY <2>2, <2>3, LogGrows
  <2> QED BY <2>1, <2>4
<1>6. e.do \notin {"proc"}
  BY DEF Seen
<1>7. ptrace \in Seq(Procs) /\ Logs(ptrace, Times({"proc"})', CallLine(run'))
  BY <1>6, LogsKept DEF TraceOK
<1> QED
  BY <1>2, <1>3, <1>5, <1>7 DEF TraceOK

LEMMA NamesGrow ==
  ASSUME RunOK, TraceOK, NEW e, Grown(e), e.do = "proc", NEW v \in Procs,
         v = ProcOf(e.at), ptrace' = Append(ptrace, v), trace' = trace
  PROVE  TraceOK'
<1>1. PICK m, n : n = Len(run) /\ m = n + 1
  OBVIOUS
<1>2. /\ n \in Nat /\ Times({"proc"}) \in SUBSET (1..n)
      /\ \A j \in Times({"proc"}) : CallLine(run')[j] = CallLine(run)[j]
      /\ CallLine(run')[m] = v /\ Times({"proc"})' = Times({"proc"}) \cup {m}
  BY <1>1, LinesGrow
<1>3. PICK S, f, g : S = Times({"proc"}) /\ f = CallLine(run) /\ g = CallLine(run')
  OBVIOUS
<1>4. ptrace \in Seq(Procs) /\ Logs(ptrace, S, f)
  BY <1>3 DEF TraceOK
<1>5. Append(ptrace, v) \in Seq(Procs) /\ Logs(Append(ptrace, v), S \cup {m}, g)
  BY <1>1, <1>2, <1>3, <1>4, LogGrows
<1>6. e.do \notin Seen
  BY DEF Seen
<1>7. trace \in Seq([pc : Nat] \cup [address : Nat]) /\ Logs(trace, Times(Seen)', SeenLine(run'))
  BY <1>6, LogsKept DEF TraceOK
<1> QED
  BY <1>2, <1>3, <1>5, <1>7 DEF TraceOK

LEMMA TraceStep == TypeOK /\ TraceOK /\ [Next]_vars => TraceOK'
<1> SUFFICES ASSUME TypeOK, TraceOK, [Next]_vars PROVE TraceOK'
  OBVIOUS
<1>0. RunOK /\ HereOK
  BY DEF TypeOK
<1>1. CASE UNCHANGED <<run, trace, ptrace>>
  BY <1>1 DEF TraceOK, Times
<1>2. CASE Jsr \/ CondBr \/ HeapCall
  <2>1. PICK e : Grown(e) /\ e.do \notin Seen /\ e.do \notin {"proc"}
    BY <1>2, KindsAdded DEF Seen
  <2>2. UNCHANGED <<trace, ptrace>>
    BY <1>2 DEF Jsr, CondBr, HeapCall
  <2>3. Logs(trace, Times(Seen)', SeenLine(run')) /\ Logs(ptrace, Times({"proc"})', CallLine(run'))
    BY <1>0, <2>1, LogsKept DEF TraceOK
  <2> QED BY <2>2, <2>3 DEF TraceOK
<1>3. CASE EnterProc
  <2>1. PICK x \in Procs : Grown([do |-> "proc", at |-> <<x[1], x[2], 1, 0>>]) /\ ptrace' = ProcTrace(x)
    BY <1>3, EnterProcAdds
  <2>2. PICK e : e = [do |-> "proc", at |-> <<x[1], x[2], 1, 0>>]
    OBVIOUS
  <2>3. e.do = "proc" /\ e.at = <<x[1], x[2], 1, 0>> /\ Grown(e)
    BY <2>1, <2>2
  <2>4. ProcOf(e.at) = x
    BY <2>3, ProcsAre DEF ProcOf
  <2>5. ptrace' = Append(ptrace, x) /\ trace' = trace
    BY <1>3, <2>1 DEF ProcTrace, EnterProc
  <2> QED BY <1>0, <2>3, <2>4, <2>5, NamesGrow
<1>4. CASE StartBlock
  <2>1. here' \in Insts /\ Grown([do |-> "block", at |-> here'])
    BY <1>4, StartBlockAdds
  <2>2. PICK e, w : e = [do |-> "block", at |-> w] /\ w = here'
    OBVIOUS
  <2>3. e.do = "block" /\ e.at = w /\ Grown(e) /\ w \in Insts
    BY <2>1, <2>2
  <2>4. InstPC(w) \in Nat
    <3>1. NumberIn(Insts, w) \in 0..(Cardinality(Insts) - 1) /\ Cardinality(Insts) \in Nat
      BY <2>3, PlacesOrdered, NumbersApart
    <3> QED BY <3>1 DEF InstPC
  <2>5. TraceEntry(e) = [pc |-> InstPC(w)] /\ [pc |-> InstPC(w)] \in [pc : Nat] \cup [address : Nat]
    BY <2>3, <2>4 DEF TraceEntry
  <2>6. trace' = Append(trace, [pc |-> InstPC(w)]) /\ ptrace' = ptrace
    BY <1>4, <2>2 DEF StartBlock, InstReference
  <2>7. e.do \in Seen
    BY <2>3 DEF Seen
  <2> QED BY <1>0, <2>3, <2>5, <2>6, <2>7, TraceGrows
<1>5. ASSUME NEW kind \in {"load", "store"}, LoadStore(kind) PROVE TraceOK'
  <2>1. PICK a \in Addr : Grown([do |-> kind, at |-> here, addr |-> a]) /\ trace' = DataReference(a)
    BY <1>5, LoadStoreAdds
  <2>2. PICK e : e = [do |-> kind, at |-> here, addr |-> a]
    OBVIOUS
  <2>3. e.do = kind /\ e.addr = a /\ Grown(e)
    BY <2>1, <2>2
  <2>4. a \in Nat
    BY AtomAssumption
  <2>5. TraceEntry(e) = [address |-> a] /\ [address |-> a] \in [pc : Nat] \cup [address : Nat]
    BY <2>3, <2>4 DEF TraceEntry
  <2>6. trace' = Append(trace, [address |-> a]) /\ ptrace' = ptrace
    BY <1>5, <2>1 DEF LoadStore, DataReference
  <2>7. e.do \in Seen
    BY <2>3 DEF Seen
  <2> QED BY <1>0, <2>3, <2>5, <2>6, <2>7, TraceGrows
<1>6. CASE ProgramBefore
  <2>1. run = <<>> /\ run' = run /\ trace' = <<>> /\ ptrace' = ptrace
    BY <1>6 DEF ProgramBefore, OpenTrace, TypeOK, RunOK
  <2>2. Times(Seen) = {} /\ Times(Seen)' = {} /\ Times({"proc"})' = Times({"proc"})
    BY <2>1 DEF Times
  <2>3. Logs(<<>>, {}, SeenLine(run'))
    BY FS_EmptySet DEF Logs
  <2> QED BY <2>1, <2>2, <2>3 DEF TraceOK
<1>7. Goto \/ ProgramAfter \/ UNCHANGED vars => UNCHANGED <<run, trace, ptrace>>
  BY DEF Goto, ProgramAfter, vars, tools
<1> QED
  BY <1>1, <1>2, <1>3, <1>4, <1>5, <1>6, <1>7 DEF Next, Exited

LEMMA InitTrace == Init => TraceOK
<1> SUFFICES ASSUME Init PROVE TraceOK
  OBVIOUS
<1>1. trace = <<>> /\ ptrace = <<>> /\ Times(Seen) = {} /\ Times({"proc"}) = {}
  BY EmptyRun DEF Init
<1>2. \A f : Logs(<<>>, {}, f)
  BY FS_EmptySet DEF Logs
<1>3. Logs(trace, Times(Seen), SeenLine(run)) /\ Logs(ptrace, Times({"proc"}), CallLine(run))
  BY <1>1, <1>2
<1>4. trace \in Seq([pc : Nat] \cup [address : Nat]) /\ ptrace \in Seq(Procs)
  BY <1>1
<1> QED
  BY <1>3, <1>4 DEF TraceOK

LEMMA TraceIs == TypeOK /\ TraceOK => Traced
<1> SUFFICES ASSUME TypeOK, TraceOK PROVE Traced
  OBVIOUS
<1>1. \A kinds : Times(kinds) \subseteq DOMAIN run
  BY TimesAre DEF TypeOK, RunOK
<1>2. \A j \in Times({"block", "load", "store"}) :
        trace[Cardinality({i \in Times({"block", "load", "store"}) : i <= j})] = TraceEntry(run[j])
  BY <1>1 DEF TraceOK, Logs, Rank, Seen, SeenLine
<1>3. \A j \in Times({"proc"}) :
        ptrace[Cardinality({i \in Times({"proc"}) : i <= j})] = ProcOf(run[j].at)
  BY <1>1 DEF TraceOK, Logs, Rank, CallLine
<1> QED
  BY <1>2, <1>3 DEF Traced, TraceOK, Logs, Seen


-----------------------------------------------------------------------------
(* malloc: the calls from outside it, and where the break has been. *)

\* What was asked for at the times T of a run r.
AskedAt(r, T) == UNION {{j} \X (1..r[j].n) : j \in T}

LEMMA AskedFinite ==
  ASSUME NEW r, NEW T, IsFiniteSet(T), \A j \in T : r[j].n \in Nat
  PROVE  IsFiniteSet(AskedAt(r, T))
<1> DEFINE f == [j \in T |-> {j} \X (1..r[j].n)]
<1>1. ASSUME NEW j \in T PROVE IsFiniteSet(f[j])
  <2>0. PICK n : n = r[j].n /\ n \in Nat
    OBVIOUS
  <2>a. IsFiniteSet(1..n)
    BY <2>0, FS_Interval
  <2>1. IsFiniteSet({j}) /\ IsFiniteSet(1..n)
    BY <2>a, FS_Singleton
  <2>2. IsFiniteSet({j} \X (1..n))
    BY <2>1, FS_Product
  <2> QED BY <2>0, <2>2
<1>2. AskedAt(r, T) = UNION {f[j] : j \in T}
  BY DEF AskedAt
<1> HIDE DEF f
<1> QED
  BY <1>1, <1>2, UnionFinite

LEMMA AskedMore ==
  ASSUME NEW r, NEW T, IsFiniteSet(T), NEW m, m \notin T, \A j \in T : r[j].n \in Nat,
         NEW n \in Nat, r[m].n = n
  PROVE  Cardinality(AskedAt(r, T \cup {m})) = Cardinality(AskedAt(r, T)) + n
<1> DEFINE new == {m} \X (1..n)
<1>1. AskedAt(r, T \cup {m}) = AskedAt(r, T) \cup new
  BY DEF AskedAt
<1>2. IsFiniteSet(new) /\ Cardinality(new) = n
  <2>1. IsFiniteSet({m}) /\ Cardinality({m}) = 1
    BY FS_Singleton
  <2>2. IsFiniteSet(1..n) /\ Cardinality(1..n) = n
    BY FS_Interval
  <2>3. IsFiniteSet(new) /\ Cardinality(new) = 1 * n
    <3>1. PICK X, Y : X = {m} /\ Y = 1..n
      OBVIOUS
    <3>2. IsFiniteSet(X \X Y) /\ Cardinality(X \X Y) = Cardinality(X) * Cardinality(Y)
      BY <2>1, <2>2, <3>1, FS_Product
    <3> QED BY <2>1, <2>2, <3>1, <3>2
  <2>4. 1 * n = n
    OBVIOUS
  <2> QED BY <2>3, <2>4, Zenon
<1>3. IsFiniteSet(AskedAt(r, T))
  BY AskedFinite
<1>4. AskedAt(r, T) \cap new = {}
  BY DEF AskedAt
<1> HIDE DEF new
<1> QED
  BY <1>1, <1>2, <1>3, <1>4, DisjointUnion

LEMMA AskedSame ==
  ASSUME NEW r, NEW s, NEW T, \A j \in T : s[j] = r[j]
  PROVE  AskedAt(s, T) = AskedAt(r, T)
BY DEF AskedAt

\* How many of a kind there were before j.
Earlier(kind, j) == Cardinality({i \in Times({kind}) : i < j})

LEMMA EarlierSame ==
  ASSUME RunOK, NEW e, Grown(e), NEW m, m = Len(run) + 1, NEW kind
  PROVE  /\ \A j \in DOMAIN run \cup {m} : Earlier(kind, j)' = Earlier(kind, j)
         /\ Earlier(kind, m) = Done(kind)
<1>1. /\ Times({kind})' = IF e.do = kind THEN Times({kind}) \cup {m} ELSE Times({kind})
      /\ DOMAIN run = 1..Len(run) /\ Len(run) \in Nat /\ Times({kind}) \subseteq DOMAIN run
  BY GrownTimes, GrownRun, TimesAre DEF RunOK
<1>2. ASSUME NEW j \in DOMAIN run \cup {m} PROVE Earlier(kind, j)' = Earlier(kind, j)
  <2>1. ~ (m < j)
    BY <1>1
  <2>2. {i \in Times({kind})' : i < j} = {i \in Times({kind}) : i < j}
    BY <1>1, <2>1
  <2> QED BY <2>2 DEF Earlier
<1>3. {i \in Times({kind}) : i < m} = Times({kind})
  <2>1. \A i \in Times({kind}) : i < m
    BY <1>1
  <2> QED BY <2>1
<1> QED
  BY <1>2, <1>3 DEF Earlier, Done

LEMMA OutermostNext ==
  ASSUME RunOK, NEW e, Grown(e), NEW m, m = Len(run) + 1
  PROVE  /\ Outermost' = IF e.do = "malloc" /\ Done("malloc") = Done("return")
                         THEN Outermost \cup {m} ELSE Outermost
         /\ IsFiniteSet(Outermost) /\ m \notin Outermost /\ run'[m] = e
         /\ \A j \in Outermost : run'[j] = run[j] /\ run[j].n \in Nat
<1>1. /\ Times({"malloc"})' = IF e.do = "malloc" THEN Times({"malloc"}) \cup {m} ELSE Times({"malloc"})
      /\ IsFiniteSet(Times({"malloc"})) /\ m \notin Times({"malloc"})
      /\ Times({"malloc"}) \subseteq DOMAIN run
      /\ run'[m] = e
      /\ \A j \in DOMAIN run : run'[j] = run[j]
  BY GrownTimes, GrownRun, TimesAre DEF RunOK
<1>2. Outermost = {j \in Times({"malloc"}) : Earlier("malloc", j) = Earlier("return", j)}
  BY DEF Outermost, Earlier
<1>3. Outermost' = {j \in Times({"malloc"})' : Earlier("malloc", j)' = Earlier("return", j)'}
  BY DEF Outermost, Earlier
<1>4. \A j \in Times({"malloc"}) \cup {m} : /\ Earlier("malloc", j)' = Earlier("malloc", j)
                                            /\ Earlier("return", j)' = Earlier("return", j)
  BY <1>1, EarlierSame
<1>5. Earlier("malloc", m) = Done("malloc") /\ Earlier("return", m) = Done("return")
  BY EarlierSame
<1>6. Outermost' = IF e.do = "malloc" /\ Done("malloc") = Done("return")
                   THEN Outermost \cup {m} ELSE Outermost
  BY <1>1, <1>2, <1>3, <1>4, <1>5
<1>7. IsFiniteSet(Outermost) /\ m \notin Outermost
  BY <1>1, <1>2, FS_Subset
<1>8. \A j \in Outermost : run'[j] = run[j] /\ run[j].n \in Nat
  <2> SUFFICES ASSUME NEW j \in Outermost PROVE run'[j] = run[j] /\ run[j].n \in Nat
    OBVIOUS
  <2>1. j \in DOMAIN run /\ run[j].do = "malloc" /\ run[j] \in Events
    BY <1>2 DEF Times, RunOK
  <2> QED BY <1>1, <2>1, EventHas
<1> QED
  BY <1>1, <1>6, <1>7, <1>8

AsksOf(n) == {j \in Outermost : run[j].n = n}

Tallied(c, w) ==
  /\ c \in [0..MAXSIZE -> Nat] /\ w \in [0..MAXSIZE -> Nat]
  /\ \A n \in 0..(MAXSIZE - 1) : c[n] = Cardinality(AsksOf(n)) /\ w[n] = n * c[n]
  /\ \A n \in 0..MAXSIZE : c[n] = 0 => w[n] = 0
  /\ Sum(c) = Cardinality(Outermost) /\ Sum(w) = Cardinality(AskedAt(run, Outermost))

AllocOK ==
  /\ malloc = [calls |-> malloc.calls, memory |-> malloc.memory, depth |-> malloc.depth,
               CurBrk |-> malloc.CurBrk, MaxBrk |-> malloc.MaxBrk]
  /\ Tallied(malloc.calls, malloc.memory)
  /\ Done("return") <= Done("malloc") /\ malloc.depth = Done("malloc") - Done("return")

\* An event that is no call from outside malloc.
LEMMA TalliesKept ==
  ASSUME RunOK, NEW e, Grown(e), Outermost' = Outermost, NEW c, NEW w, Tallied(c, w)
  PROVE  Tallied(c, w)'
<1>0. PICK m : m = Len(run) + 1
  OBVIOUS
<1>1. \A j \in Outermost : run'[j] = run[j]
  BY <1>0, OutermostNext
<1>2. \A n : AsksOf(n)' = AsksOf(n)
  BY <1>1 DEF AsksOf
<1>3. AskedAt(run', Outermost) = AskedAt(run, Outermost)
  BY <1>1, AskedSame
<1> QED
  BY <1>2, <1>3 DEF Tallied

LEMMA NextMultiple ==
  ASSUME NEW n \in Nat, NEW a \in Nat
  PROVE  n * (a + 1) = n * a + n
OBVIOUS

\* One that is.
LEMMA TalliesGrow ==
  ASSUME RunOK, NEW e, Grown(e), e.do = "malloc", Done("malloc") = Done("return"),
         NEW c, NEW w, Tallied(c, w), NEW size \in Nat, e.n = size, NEW entry,
         entry = IF size < MAXSIZE THEN size ELSE MAXSIZE
  PROVE  Tallied([c EXCEPT ![entry] = c[entry] + 1], [w EXCEPT ![entry] = w[entry] + size])'
<1> DEFINE d == [c EXCEPT ![entry] = c[entry] + 1]
           x == [w EXCEPT ![entry] = w[entry] + size]
<1>0. PICK m : m = Len(run) + 1
  OBVIOUS
<1>1. /\ Outermost' = Outermost \cup {m} /\ IsFiniteSet(Outermost) /\ m \notin Outermost
      /\ run'[m] = e
      /\ \A j \in Outermost : run'[j] = run[j] /\ run[j].n \in Nat
  BY <1>0, OutermostNext
<1>2. MAXSIZE \in Nat /\ entry \in 0..MAXSIZE
  BY AtomAssumption
<1>3. c \in [0..MAXSIZE -> Nat] /\ w \in [0..MAXSIZE -> Nat]
  BY DEF Tallied
<1>4. d \in [0..MAXSIZE -> Nat] /\ x \in [0..MAXSIZE -> Nat]
  <2>1. c[entry] + 1 \in Nat /\ w[entry] + size \in Nat
    BY <1>2, <1>3
  <2> QED BY <1>3, <2>1
<1>5. Sum(d) = Sum(c) + 1 /\ Sum(x) = Sum(w) + size
  <2>1. PICK n : n = MAXSIZE + 1 /\ n \in Nat /\ n - 1 = MAXSIZE
    BY <1>2
  <2>2. c \in [0..(n - 1) -> Nat] /\ w \in [0..(n - 1) -> Nat] /\ entry \in 0..(n - 1)
    BY <1>2, <1>3, <2>1
  <2>a. PICK i, j : i = entry /\ j = n - 1
    OBVIOUS
  <2>b. c \in [0..(n - 1) -> Nat] /\ w \in [0..(n - 1) -> Nat] /\ i \in 0..(n - 1)
    BY <2>2, <2>a
  <2>c. n \in Nat /\ 1 \in Nat /\ size \in Nat
    BY <2>1
  <2>3. Sum([c EXCEPT ![i] = c[i] + 1]) = Sum(c) + 1
    <3>1. PICK g : g = [c EXCEPT ![i] = c[i] + 1]
      OBVIOUS
    <3>2. /\ g \in [0..(n - 1) -> Nat]
          /\ \A k \in 0..(n - 1) : g[k] = IF k = i THEN c[k] + 1 ELSE c[k]
      BY <2>b, <3>1
    <3>3. Sum(g) = Sum(c) + 1
      BY <2>c, <2>b, <3>2, SumGrows
    <3> QED BY <3>1, <3>3
  <2>4. Sum([w EXCEPT ![i] = w[i] + size]) = Sum(w) + size
    <3>1. PICK g : g = [w EXCEPT ![i] = w[i] + size]
      OBVIOUS
    <3>2. /\ g \in [0..(n - 1) -> Nat]
          /\ \A k \in 0..(n - 1) : g[k] = IF k = i THEN w[k] + size ELSE w[k]
      BY <2>b, <3>1
    <3>3. Sum(g) = Sum(w) + size
      BY <2>c, <2>b, <3>2, SumGrows
    <3> QED BY <3>1, <3>3
  <2> QED BY <2>a, <2>3, <2>4
<1>6. Cardinality(Outermost') = Cardinality(Outermost) + 1
  BY <1>1, OneMore
<1>7. Cardinality(AskedAt(run', Outermost')) = Cardinality(AskedAt(run, Outermost)) + size
  <2>1. PICK r, T : r = run' /\ T = Outermost
    OBVIOUS
  <2>2. Cardinality(AskedAt(r, T \cup {m})) = Cardinality(AskedAt(r, T)) + size
    BY <1>1, <2>1, AskedMore
  <2>3. AskedAt(run', Outermost) = AskedAt(run, Outermost)
    BY <1>1, AskedSame
  <2> QED BY <1>1, <2>1, <2>2, <2>3
<1>8. \A n : AsksOf(n)' = IF n = size THEN AsksOf(n) \cup {m} ELSE AsksOf(n)
  BY <1>1 DEF AsksOf
<1>9. ASSUME NEW n \in 0..(MAXSIZE - 1) PROVE d[n] = Cardinality(AsksOf(n)') /\ x[n] = n * d[n]
  <2>1. n \in 0..MAXSIZE /\ n \in Nat /\ (n = entry <=> n = size)
    BY <1>2
  <2>2. c[n] = Cardinality(AsksOf(n)) /\ w[n] = n * c[n] /\ c[n] \in Nat
    BY <2>1 DEF Tallied
  <2>3. CASE n # size
    <3>1. d[n] = c[n] /\ x[n] = w[n]
      BY <1>3, <2>1, <2>3
    <3> QED BY <1>8, <2>2, <2>3, <3>1
  <2>4. CASE n = size
    <3>1. d[n] = c[n] + 1 /\ x[n] = w[n] + n
      BY <1>3, <2>1, <2>4
    <3>2. IsFiniteSet(AsksOf(n)) /\ m \notin AsksOf(n)
      BY <1>1, FS_Subset DEF AsksOf
    <3>3. Cardinality(AsksOf(n)') = Cardinality(AsksOf(n)) + 1
      BY <1>8, <2>4, <3>2, OneMore
    <3>4. n * (c[n] + 1) = n * c[n] + n
      BY <2>1, <2>2, NextMultiple
    <3> HIDE DEF d, x
    <3>5. x[n] = n * d[n]
      BY <2>2, <3>1, <3>4
    <3> QED BY <2>2, <3>1, <3>3, <3>5
  <2> QED BY <2>3, <2>4
<1>10. \A n \in 0..MAXSIZE : d[n] = 0 => x[n] = 0
  <2> SUFFICES ASSUME NEW n \in 0..MAXSIZE, d[n] = 0 PROVE x[n] = 0
    OBVIOUS
  <2>1. n # entry
    BY <1>3
  <2>2. d[n] = c[n] /\ x[n] = w[n]
    BY <1>3, <2>1
  <2> QED BY <2>2 DEF Tallied
<1> HIDE DEF d, x
<1>11. Tallied(d, x)'
  BY <1>4, <1>5, <1>6, <1>7, <1>9, <1>10 DEF Tallied
<1> QED
  BY <1>11 DEF d, x


\* One event more, with what it does to the depth and, whatever that is, to the break.
LEMMA AllocNext ==
  ASSUME RunOK, AllocOK, NEW e, Grown(e), e.do = "malloc" => Done("malloc") # Done("return"),
         e.do = "return" => Done("malloc") > Done("return"),
         NEW d, d = IF e.do = "malloc" THEN malloc.depth + 1
                    ELSE IF e.do = "return" THEN malloc.depth - 1 ELSE malloc.depth,
         NEW b, NEW x,
         malloc' = [calls |-> malloc.calls, memory |-> malloc.memory, depth |-> d,
                    CurBrk |-> b, MaxBrk |-> x]
  PROVE  AllocOK'
<1>0. PICK m : m = Len(run) + 1
  OBVIOUS
<1>1. Outermost' = Outermost
  BY <1>0, OutermostNext
<1>2. PICK c, w : c = malloc.calls /\ w = malloc.memory
  OBVIOUS
<1>3. Tallied(c, w)
  BY <1>2 DEF AllocOK
<1>4. Tallied(c, w)'
  BY <1>1, <1>3, TalliesKept
<1>5. /\ Done("malloc")' = IF e.do = "malloc" THEN Done("malloc") + 1 ELSE Done("malloc")
      /\ Done("return")' = IF e.do = "return" THEN Done("return") + 1 ELSE Done("return")
      /\ Done("malloc") \in Nat /\ Done("return") \in Nat
  BY GrownDone DEF RunOK
<1>6. Done("return") <= Done("malloc") /\ malloc.depth = Done("malloc") - Done("return")
  BY DEF AllocOK
<1>7. Done("return")' <= Done("malloc")' /\ d = Done("malloc")' - Done("return")'
  BY <1>5, <1>6
<1>8. /\ malloc' = [calls |-> c, memory |-> w, depth |-> d, CurBrk |-> b, MaxBrk |-> x]
      /\ malloc'.calls = c /\ malloc'.memory = w /\ malloc'.depth = d
      /\ malloc'.CurBrk = b /\ malloc'.MaxBrk = x
  BY <1>2
<1>9. Tallied(malloc.calls, malloc.memory)'
  BY <1>4, <1>8 DEF Tallied
<1> QED
  BY <1>7, <1>8, <1>9 DEF AllocOK

LEMMA AllocMalloc ==
  ASSUME RunOK, AllocOK, NEW size \in Request, Grown([do |-> "malloc", n |-> size]),
         malloc' = BeforeMalloc(size)
  PROVE  AllocOK'
<1>1. PICK e : e = [do |-> "malloc", n |-> size]
  OBVIOUS
<1>2. e.do = "malloc" /\ e.n = size /\ Grown(e) /\ size \in Nat
  BY <1>1, AtomAssumption
<1>3. PICK c, w, d, b, x :
        malloc = [calls |-> c, memory |-> w, depth |-> d, CurBrk |-> b, MaxBrk |-> x]
  BY DEF AllocOK
<1>4. /\ malloc.calls = c /\ malloc.memory = w /\ malloc.depth = d
      /\ malloc.CurBrk = b /\ malloc.MaxBrk = x
  BY <1>3
<1>5. /\ Done("malloc")' = Done("malloc") + 1 /\ Done("return")' = Done("return")
      /\ Done("malloc") \in Nat /\ Done("return") \in Nat
  BY <1>2, GrownDone DEF RunOK
<1>6. d = Done("malloc") - Done("return") /\ Done("return") <= Done("malloc")
  BY <1>4 DEF AllocOK
<1>7. CASE d # 0
  <2>1. malloc' = [calls |-> c, memory |-> w, depth |-> d + 1, CurBrk |-> b, MaxBrk |-> x]
    BY <1>3, <1>7 DEF BeforeMalloc
  <2>2. e.do # "return" /\ Done("malloc") # Done("return")
    BY <1>2, <1>5, <1>6, <1>7
  <2>3. PICK f : f = IF e.do = "malloc" THEN malloc.depth + 1
                     ELSE IF e.do = "return" THEN malloc.depth - 1 ELSE malloc.depth
    OBVIOUS
  <2>4. malloc' = [calls |-> malloc.calls, memory |-> malloc.memory, depth |-> f,
                   CurBrk |-> b, MaxBrk |-> x]
    BY <1>2, <1>4, <2>1, <2>3
  <2> QED BY <1>2, <2>2, <2>3, <2>4, AllocNext
<1>8. CASE d = 0
  <2>1. PICK entry : entry = IF size < MAXSIZE THEN size ELSE MAXSIZE
    OBVIOUS
  <2>2. PICK y, z : y = [c EXCEPT ![entry] = c[entry] + 1] /\ z = [w EXCEPT ![entry] = w[entry] + size]
    OBVIOUS
  <2>3. malloc' = [calls |-> y, memory |-> z, depth |-> d + 1, CurBrk |-> b, MaxBrk |-> x]
    BY <1>3, <1>8, <2>1, <2>2 DEF BeforeMalloc
  <2>4. Tallied(c, w) /\ Done("malloc") = Done("return")
    BY <1>4, <1>5, <1>6, <1>8 DEF AllocOK
  <2>5. Tallied([c EXCEPT ![entry] = c[entry] + 1], [w EXCEPT ![entry] = w[entry] + size])'
    BY <1>2, <2>1, <2>4, TalliesGrow
  <2>6. Tallied(malloc.calls, malloc.memory)'
    BY <2>2, <2>3, <2>5 DEF Tallied
  <2>7. malloc'.depth = d + 1 /\ malloc' = [calls |-> malloc'.calls, memory |-> malloc'.memory,
          depth |-> malloc'.depth, CurBrk |-> malloc'.CurBrk, MaxBrk |-> malloc'.MaxBrk]
    BY <2>3
  <2> QED BY <1>5, <1>6, <2>6, <2>7 DEF AllocOK
<1> QED
  BY <1>7, <1>8

\* A return, and the break moved.
LEMMA AllocHeap ==
  ASSUME RunOK, AllocOK, NEW e, Grown(e), e.do \in {"return", "brk", "sbrk"},
         \/ e.do = "return" /\ malloc' = AfterMalloc /\ Done("malloc") > Done("return")
         \/ e.do # "return" /\ \E n : malloc' = BeforeBrk(n)
  PROVE  AllocOK'
<1>1. PICK c, w, d, b, x :
        malloc = [calls |-> c, memory |-> w, depth |-> d, CurBrk |-> b, MaxBrk |-> x]
  BY DEF AllocOK
<1>2. /\ malloc.calls = c /\ malloc.memory = w /\ malloc.depth = d
      /\ malloc.CurBrk = b /\ malloc.MaxBrk = x
  BY <1>1
<1>3. PICK f : f = IF e.do = "malloc" THEN malloc.depth + 1
                   ELSE IF e.do = "return" THEN malloc.depth - 1 ELSE malloc.depth
  OBVIOUS
<1>4. CASE e.do = "return"
  <2>1. malloc' = [calls |-> c, memory |-> w, depth |-> d - 1, CurBrk |-> b, MaxBrk |-> x]
    BY <1>1, <1>4 DEF AfterMalloc
  <2>2. malloc' = [calls |-> malloc.calls, memory |-> malloc.memory, depth |-> f,
                   CurBrk |-> b, MaxBrk |-> x]
    BY <1>2, <1>3, <1>4, <2>1
  <2>3. e.do # "malloc" /\ Done("malloc") > Done("return")
    BY <1>4
  <2> QED BY <1>3, <2>2, <2>3, AllocNext
<1>5. CASE e.do # "return"
  <2>1. PICK n : malloc' = BeforeBrk(n)
    BY <1>5
  <2>2. PICK y : y = IF n > x THEN n ELSE x
    OBVIOUS
  <2>3. malloc' = [calls |-> c, memory |-> w, depth |-> d, CurBrk |-> n, MaxBrk |-> y]
    BY <1>1, <2>1, <2>2 DEF BeforeBrk
  <2>4. e.do # "malloc" /\ f = d
    BY <1>2, <1>3, <1>5
  <2>5. malloc' = [calls |-> malloc.calls, memory |-> malloc.memory, depth |-> f,
                   CurBrk |-> n, MaxBrk |-> y]
    BY <1>2, <2>3, <2>4
  <2> QED BY <1>3, <1>5, <2>4, <2>5, AllocNext
<1> QED
  BY <1>4, <1>5

LEMMA AllocStep == TypeOK /\ AllocOK /\ [Next]_vars => AllocOK'
<1> SUFFICES ASSUME TypeOK, AllocOK, [Next]_vars PROVE AllocOK'
  OBVIOUS
<1>0. RunOK
  BY DEF TypeOK
<1>1. CASE UNCHANGED <<run, malloc>>
  <2>1. Outermost' = Outermost /\ Done("malloc")' = Done("malloc") /\ Done("return")' = Done("return")
    BY <1>1 DEF Outermost, Times, Done
  <2>2. \A n : AsksOf(n)' = AsksOf(n)
    BY <1>1, <2>1 DEF AsksOf
  <2>3. Tallied(malloc.calls, malloc.memory)'
    BY <1>1, <2>1, <2>2 DEF AllocOK, Tallied
  <2> QED BY <1>1, <2>1, <2>3 DEF AllocOK
<1>2. CASE ProgramBefore
  <2>1. PICK c, w, d, b, x :
          malloc = [calls |-> c, memory |-> w, depth |-> d, CurBrk |-> b, MaxBrk |-> x]
    BY DEF AllocOK
  <2>2. malloc' = [calls |-> c, memory |-> w, depth |-> d, CurBrk |-> StartBrk, MaxBrk |-> StartBrk]
    BY <1>2, <2>1 DEF ProgramBefore, Initialize
  <2>3. /\ malloc.calls = c /\ malloc.memory = w /\ malloc.depth = d
        /\ malloc'.calls = c /\ malloc'.memory = w /\ malloc'.depth = d
        /\ malloc' = [calls |-> malloc'.calls, memory |-> malloc'.memory, depth |-> malloc'.depth,
                      CurBrk |-> malloc'.CurBrk, MaxBrk |-> malloc'.MaxBrk]
    BY <2>1, <2>2
  <2>4. run' = run
    BY <1>2 DEF ProgramBefore
  <2>5. Outermost' = Outermost /\ Done("malloc")' = Done("malloc") /\ Done("return")' = Done("return")
    BY <2>4 DEF Outermost, Times, Done
  <2>6. \A n : AsksOf(n)' = AsksOf(n)
    BY <2>4, <2>5 DEF AsksOf
  <2>7. Tallied(malloc.calls, malloc.memory)'
    BY <2>3, <2>4, <2>5, <2>6 DEF AllocOK, Tallied
  <2> QED BY <2>3, <2>5, <2>7 DEF AllocOK
<1>3. ASSUME NEW e, Grown(e), e.do \notin {"malloc", "return"}, malloc' = malloc PROVE AllocOK'
  <2>1. PICK b, x : b = malloc.CurBrk /\ x = malloc.MaxBrk
    OBVIOUS
  <2>2. PICK f : f = IF e.do = "malloc" THEN malloc.depth + 1
                     ELSE IF e.do = "return" THEN malloc.depth - 1 ELSE malloc.depth
    OBVIOUS
  <2>3. f = malloc.depth
    BY <1>3, <2>2
  <2>4. malloc' = [calls |-> malloc.calls, memory |-> malloc.memory, depth |-> f,
                   CurBrk |-> b, MaxBrk |-> x]
    BY <1>3, <2>1, <2>3 DEF AllocOK
  <2>5. e.do # "malloc" /\ e.do # "return"
    BY <1>3
  <2> QED BY <1>0, <1>3, <2>2, <2>4, <2>5, AllocNext
<1>4. CASE EnterProc \/ StartBlock \/ Jsr \/ CondBr
  <2>1. \E e : Grown(e) /\ e.do \notin {"malloc", "return"}
    BY <1>4, KindsAdded
  <2>2. malloc' = malloc
    BY <1>4 DEF EnterProc, StartBlock, Jsr, CondBr
  <2> QED BY <1>3, <2>1, <2>2
<1>5. ASSUME NEW kind \in {"load", "store"}, LoadStore(kind) PROVE AllocOK'
  <2>1. \E e : Grown(e) /\ e.do \notin {"malloc", "return"}
    BY <1>5, KindsAdded
  <2>2. malloc' = malloc
    BY <1>5 DEF LoadStore
  <2> QED BY <1>3, <2>1, <2>2
<1>6. CASE HeapCall
  <2>1. CASE \E n \in Request : Grown([do |-> "malloc", n |-> n]) /\ malloc' = BeforeMalloc(n)
    BY <1>0, <2>1, AllocMalloc
  <2>2. CASE Done("malloc") > Done("return") /\ Grown([do |-> "return"]) /\ malloc' = AfterMalloc
    <3>1. PICK e : e = [do |-> "return"]
      OBVIOUS
    <3>2. e.do = "return" /\ Grown(e)
      BY <2>2, <3>1
    <3> QED BY <1>0, <2>2, <3>2, AllocHeap
  <2>3. CASE \E n \in Break : Grown([do |-> "brk", n |-> n]) /\ malloc' = BeforeBrk(n)
    <3>1. PICK n \in Break : Grown([do |-> "brk", n |-> n]) /\ malloc' = BeforeBrk(n)
      BY <2>3
    <3>2. PICK e : e = [do |-> "brk", n |-> n]
      OBVIOUS
    <3>3. e.do = "brk" /\ Grown(e)
      BY <3>1, <3>2
    <3> QED BY <1>0, <3>1, <3>3, AllocHeap
  <2>4. CASE \E n \in Growth : Grown([do |-> "sbrk", n |-> n]) /\ malloc' = BeforeSbrk(n)
    <3>1. PICK n \in Growth : Grown([do |-> "sbrk", n |-> n]) /\ malloc' = BeforeSbrk(n)
      BY <2>4
    <3>2. PICK e : e = [do |-> "sbrk", n |-> n]
      OBVIOUS
    <3>3. e.do = "sbrk" /\ Grown(e)
      BY <3>1, <3>2
    <3>4. \E b : malloc' = BeforeBrk(b)
      BY <3>1 DEF BeforeSbrk
    <3> QED BY <1>0, <3>3, <3>4, AllocHeap
  <2> QED BY <1>6, <2>1, <2>2, <2>3, <2>4, HeapCallAdds
<1>7. Goto \/ ProgramAfter \/ UNCHANGED vars => UNCHANGED <<run, malloc>>
  BY DEF Goto, ProgramAfter, vars, tools
<1> QED
  BY <1>1, <1>2, <1>4, <1>5, <1>6, <1>7 DEF Next, Exited

LEMMA InitAlloc == Init => AllocOK
<1> SUFFICES ASSUME Init PROVE AllocOK
  OBVIOUS
<1>1. \A kinds : Times(kinds) = {}
  BY EmptyRun DEF Init
<1>2. \A kind : Done(kind) = 0
  BY <1>1, FS_EmptySet DEF Done
<1>3. Outermost = {}
  BY <1>1 DEF Outermost
<1>4. PICK c : c = [n \in 0..MAXSIZE |-> 0]
  OBVIOUS
<1>5. malloc = [calls |-> c, memory |-> c, depth |-> 0, CurBrk |-> 0, MaxBrk |-> 0]
  BY <1>4, AtomAssumption, (MAXSIZE + 1) - 1 = MAXSIZE DEF Init, Zero
<1>6. Sum(c) = 0
  <2>1. PICK n : n = MAXSIZE + 1
    OBVIOUS
  <2>2. n \in Nat /\ n - 1 = MAXSIZE
    BY <2>1, AtomAssumption
  <2>3. Sum([k \in 0..(n - 1) |-> 0]) = 0
    BY <2>2, SumZero
  <2> QED BY <1>4, <2>2, <2>3
<1>7. c \in [0..MAXSIZE -> Nat] /\ \A n \in 0..MAXSIZE : c[n] = 0
  BY <1>4
<1>8. \A n : Cardinality(AsksOf(n)) = 0
  <2>1. \A n : AsksOf(n) = {}
    BY <1>3 DEF AsksOf
  <2> QED BY <2>1, FS_EmptySet
<1>9. Cardinality(Outermost) = 0 /\ Cardinality(AskedAt(run, Outermost)) = 0
  <2>1. AskedAt(run, {}) = {}
    BY DEF AskedAt
  <2> QED BY <1>3, <2>1, FS_EmptySet
<1>10. \A n \in 0..(MAXSIZE - 1) : n \in 0..MAXSIZE /\ n * 0 = 0
  BY AtomAssumption
<1>11. Tallied(c, c)
  BY <1>6, <1>7, <1>8, <1>9, <1>10 DEF Tallied
<1> QED
  BY <1>2, <1>5, <1>11 DEF AllocOK


\* The break after the first n events of a run r.
BreakOf(r, n) ==
  LET break[i \in 0..n] ==
        IF i = 0 THEN StartBrk
        ELSE CASE r[i].do = "brk"  -> r[i].n
               [] r[i].do = "sbrk" -> break[i - 1] + r[i].n
               [] OTHER            -> break[i - 1]
  IN  break[n]

\* What an event makes of it.
Moved(e, was) ==
  IF e.do = "brk" THEN e.n ELSE IF e.do = "sbrk" THEN was + e.n ELSE was

IsBreak(b, r, n) ==
  b = [i \in 0..n |-> IF i = 0 THEN StartBrk
                      ELSE CASE r[i].do = "brk"  -> r[i].n
                             [] r[i].do = "sbrk" -> b[i - 1] + r[i].n
                             [] OTHER            -> b[i - 1]]

LEMMA BreakSteps ==
  ASSUME NEW b, NEW r, NEW n \in Nat
  PROVE  IsBreak(b, r, n) <=> /\ b = [i \in 0..n |-> b[i]]
                              /\ b[0] = StartBrk
                              /\ \A k \in 0..(n - 1) : b[k + 1] = Moved(r[k + 1], b[k])
<1> DEFINE v(i) == IF i = 0 THEN StartBrk
                   ELSE CASE r[i].do = "brk"  -> r[i].n
                          [] r[i].do = "sbrk" -> b[i - 1] + r[i].n
                          [] OTHER            -> b[i - 1]
<1>1. \A i : v(i) = IF i = 0 THEN StartBrk ELSE Moved(r[i], b[i - 1])
  BY DEF Moved
<1>2. IsBreak(b, r, n) <=> b = [i \in 0..n |-> v(i)]
  BY DEF IsBreak
<1> HIDE DEF v
<1>3. \A k \in 0..(n - 1) : k + 1 \in 0..n /\ k + 1 # 0 /\ (k + 1) - 1 = k
  OBVIOUS
<1>4. \A i \in 0..n : i = 0 \/ (i - 1 \in 0..(n - 1) /\ (i - 1) + 1 = i)
  OBVIOUS
<1>5. ASSUME b = [i \in 0..n |-> v(i)]
      PROVE  /\ b = [i \in 0..n |-> b[i]] /\ b[0] = StartBrk
             /\ \A k \in 0..(n - 1) : b[k + 1] = Moved(r[k + 1], b[k])
  <2>1. \A i \in 0..n : b[i] = v(i)
    BY <1>5
  <2>2. b = [i \in 0..n |-> b[i]]
    BY <1>5
  <2>3. b[0] = StartBrk
    BY <1>1, <2>1
  <2>4. \A k \in 0..(n - 1) : b[k + 1] = Moved(r[k + 1], b[k])
    BY <1>1, <1>3, <2>1
  <2> QED BY <2>2, <2>3, <2>4
<1>6. ASSUME b = [i \in 0..n |-> b[i]], b[0] = StartBrk,
             \A k \in 0..(n - 1) : b[k + 1] = Moved(r[k + 1], b[k])
      PROVE  b = [i \in 0..n |-> v(i)]
  <2>1. \A i \in 0..n : b[i] = v(i)
    BY <1>1, <1>4, <1>6
  <2> QED BY <1>6, <2>1
<1> QED
  BY <1>2, <1>5, <1>6

LEMMA BreakExists ==
  ASSUME NEW r
  PROVE  \A n \in Nat : \E b : IsBreak(b, r, n)
<1> DEFINE T == {n \in Nat : \E b : IsBreak(b, r, n)}
<1>1. 0 \in T
  <2>1. PICK v : v = [k \in 0..0 |-> StartBrk]
    OBVIOUS
  <2>2. v = [k \in 0..0 |-> v[k]] /\ v[0] = StartBrk /\ 0..(0 - 1) = {}
    BY <2>1
  <2>3. IsBreak(v, r, 0)
    BY <2>2, BreakSteps
  <2> QED BY <2>3
<1>2. ASSUME NEW n \in Nat, n \in T PROVE n + 1 \in T
  <2>1. PICK u : IsBreak(u, r, n)
    BY <1>2
  <2>2. u[0] = StartBrk /\ \A k \in 0..(n - 1) : u[k + 1] = Moved(r[k + 1], u[k])
    BY <2>1, BreakSteps
  <2>3. PICK v : v = [k \in 0..(n + 1) |-> IF k = n + 1 THEN Moved(r[k], u[n]) ELSE u[k]]
    OBVIOUS
  <2>4. v = [k \in 0..(n + 1) |-> v[k]] /\ v[0] = StartBrk
    BY <2>2, <2>3
  <2>5. ASSUME NEW k \in 0..n PROVE v[k + 1] = Moved(r[k + 1], v[k])
    <3>1. v[k] = u[k] /\ k \in 0..(n + 1) /\ k + 1 \in 0..(n + 1)
      BY <2>3
    <3>2. CASE k = n
      BY <2>3, <3>1, <3>2
    <3>3. CASE k # n
      <4>1. k \in 0..(n - 1) /\ v[k + 1] = u[k + 1]
        BY <2>3, <3>1, <3>3
      <4> QED BY <2>2, <3>1, <4>1
    <3> QED BY <3>2, <3>3
  <2>6. (n + 1) - 1 = n /\ n + 1 \in Nat
    OBVIOUS
  <2>7. IsBreak(v, r, n + 1)
    BY <2>4, <2>5, <2>6, BreakSteps
  <2> QED BY <2>6, <2>7
<1> HIDE DEF T
<1>3. \A n \in Nat : n \in T
  BY <1>1, <1>2, NumbersByInduction
<1> QED
  BY <1>3 DEF T

LEMMA BreakIs ==
  ASSUME NEW r, NEW n \in Nat
  PROVE  \E b : IsBreak(b, r, n) /\ BreakOf(r, n) = b[n]
<1> DEFINE b == CHOOSE b : IsBreak(b, r, n)
<1>1. IsBreak(b, r, n)
  BY BreakExists
<1>2. BreakOf(r, n) = b[n]
  BY DEF BreakOf, IsBreak
<1> QED
  BY <1>1, <1>2

\* The break of two runs that begin with the same n events.
LEMMA BreakAgrees ==
  ASSUME NEW r, NEW s, NEW n \in Nat, NEW l \in Nat, n <= l, \A k \in 1..n : r[k] = s[k],
         NEW b, IsBreak(b, r, n), NEW c, IsBreak(c, s, l)
  PROVE  b[n] = c[n]
<1> DEFINE P == {k \in 0..n : b[k] = c[k]}
<1>1. /\ b[0] = StartBrk /\ \A k \in 0..(n - 1) : b[k + 1] = Moved(r[k + 1], b[k])
      /\ c[0] = StartBrk /\ \A k \in 0..(l - 1) : c[k + 1] = Moved(s[k + 1], c[k])
  BY BreakSteps
<1>2. \A k \in 0..(n - 1) : k \in 0..(l - 1) /\ r[k + 1] = s[k + 1] /\ k + 1 \in 0..n
  OBVIOUS
<1>3. 0 \in P
  BY <1>1
<1>4. \A k \in 0..(n - 1) : k \in P => k + 1 \in P
  BY <1>1, <1>2
<1>5. n \in P
  <2> HIDE DEF P
  <2> QED BY <1>3, <1>4, UpTo
<1> QED
  BY <1>5

LEMMA BreakSame ==
  ASSUME NEW r, NEW s, NEW n \in Nat, \A k \in 1..n : r[k] = s[k]
  PROVE  BreakOf(r, n) = BreakOf(s, n)
<1>1. PICK b : IsBreak(b, r, n) /\ BreakOf(r, n) = b[n]
  BY BreakIs
<1>2. PICK c : IsBreak(c, s, n) /\ BreakOf(s, n) = c[n]
  BY BreakIs
<1>3. n <= n
  OBVIOUS
<1> QED
  BY <1>1, <1>2, <1>3, BreakAgrees

LEMMA BreakStarts ==
  ASSUME NEW r
  PROVE  BreakOf(r, 0) = StartBrk
<1>1. PICK b : IsBreak(b, r, 0) /\ BreakOf(r, 0) = b[0]
  BY BreakIs
<1> QED
  BY <1>1, BreakSteps

\* One run, at two of its ends.
LEMMA BreakPrefix ==
  ASSUME NEW r, NEW n \in Nat, NEW l \in Nat, n <= l,
         NEW b, IsBreak(b, r, n), NEW c, IsBreak(c, r, l)
  PROVE  b[n] = c[n]
<1>1. PICK s : s = r
  OBVIOUS
<1>2. IsBreak(c, s, l) /\ \A k \in 1..n : r[k] = s[k]
  BY <1>1
<1> QED
  BY <1>2, BreakAgrees

LEMMA BreakNext ==
  ASSUME NEW r, NEW n \in Nat, NEW m, m = n + 1
  PROVE  BreakOf(r, m) = Moved(r[m], BreakOf(r, n))
<1>0. m \in Nat /\ n <= m /\ n \in 0..(m - 1)
  OBVIOUS
<1>1. PICK b : IsBreak(b, r, n) /\ BreakOf(r, n) = b[n]
  BY BreakIs
<1>2. PICK c : IsBreak(c, r, m) /\ BreakOf(r, m) = c[m]
  BY <1>0, BreakIs
<1>3. b[n] = c[n]
  BY <1>0, <1>1, <1>2, BreakPrefix
<1>4. c[n + 1] = Moved(r[n + 1], c[n])
  BY <1>0, <1>2, BreakSteps
<1> QED
  BY <1>1, <1>2, <1>3, <1>4


BreakOK ==
  phase # "before" =>
    /\ malloc.CurBrk = BreakOf(run, Len(run))
    /\ \A j \in 0..Len(run) : BreakOf(run, j) \in Int /\ BreakOf(run, j) <= malloc.MaxBrk
    /\ \E j \in 0..Len(run) : malloc.MaxBrk = BreakOf(run, j)

LEMMA BreakMoves ==
  ASSUME RunOK, BreakOK, phase # "before", NEW e, Grown(e), NEW b, b = Moved(e, malloc.CurBrk),
         b \in Int, malloc'.CurBrk = b,
         malloc'.MaxBrk = IF b > malloc.MaxBrk THEN b ELSE malloc.MaxBrk
  PROVE  BreakOK'
<1>1. PICK n, m : n = Len(run) /\ m = n + 1
  OBVIOUS
<1>2. /\ n \in Nat /\ Len(run') = m /\ run'[m] = e
      /\ \A j \in 1..n : run'[j] = run[j]
  BY <1>1, GrownRun DEF RunOK
<1>3. PICK r : r = run'
  OBVIOUS
<1>4. \A j \in 0..n : BreakOf(r, j) = BreakOf(run, j)
  <2> TAKE j \in 0..n
  <2>1. j \in Nat /\ \A k \in 1..j : r[k] = run[k]
    BY <1>2, <1>3
  <2> QED BY <2>1, BreakSame
<1>5. /\ malloc.CurBrk = BreakOf(run, n)
      /\ \A j \in 0..n : BreakOf(run, j) \in Int /\ BreakOf(run, j) <= malloc.MaxBrk
      /\ \E j \in 0..n : malloc.MaxBrk = BreakOf(run, j)
  BY <1>1 DEF BreakOK
<1>6. BreakOf(r, m) = Moved(r[m], BreakOf(r, n))
  BY <1>1, <1>2, BreakNext
<1>7. BreakOf(r, m) = b
  BY <1>2, <1>3, <1>4, <1>5, <1>6
<1>8. malloc.MaxBrk \in Int
  BY <1>5
<1>9. PICK x : x = malloc'.MaxBrk
  OBVIOUS
<1>10. \A j \in 0..m : j \in 0..n \/ j = m
  BY <1>1, <1>2
<1>11. \A j \in 0..m : BreakOf(r, j) \in Int /\ BreakOf(r, j) <= x
  <2> TAKE j \in 0..m
  <2>1. CASE j \in 0..n
    BY <1>4, <1>5, <1>8, <1>9, <2>1
  <2>2. CASE j = m
    BY <1>7, <1>8, <1>9, <2>2
  <2> QED BY <1>10, <2>1, <2>2
<1>12. \E j \in 0..m : x = BreakOf(r, j)
  <2>1. CASE b > malloc.MaxBrk
    <3>1. x = BreakOf(r, m) /\ m \in 0..m
      BY <1>1, <1>2, <1>7, <1>9, <2>1
    <3> QED BY <3>1
  <2>2. CASE ~ (b > malloc.MaxBrk)
    <3>1. PICK j \in 0..n : malloc.MaxBrk = BreakOf(run, j)
      BY <1>5
    <3>2. x = BreakOf(r, j) /\ j \in 0..m
      BY <1>1, <1>2, <1>4, <1>9, <2>2, <3>1
    <3> QED BY <3>2
  <2> QED BY <2>1, <2>2
<1>13. BreakOf(r, m) = malloc'.CurBrk
  BY <1>7
<1> QED
  BY <1>2, <1>3, <1>9, <1>11, <1>12, <1>13 DEF BreakOK

LEMMA BreakKept ==
  ASSUME RunOK, BreakOK, phase # "before", NEW e, Grown(e), e.do \notin {"brk", "sbrk"},
         malloc'.CurBrk = malloc.CurBrk, malloc'.MaxBrk = malloc.MaxBrk
  PROVE  BreakOK'
<1>1. PICK b, x : b = malloc.CurBrk /\ x = malloc.MaxBrk
  OBVIOUS
<1>2. Len(run) \in Nat
  BY GrownRun DEF RunOK
<1>3. Len(run) \in 0..Len(run)
  BY <1>2
<1>4. b \in Int /\ b <= x
  BY <1>1, <1>3 DEF BreakOK
<1>5. x \in Int
  BY <1>1 DEF BreakOK
<1>6. b = Moved(e, malloc.CurBrk)
  BY <1>1 DEF Moved
<1>7. malloc'.CurBrk = b /\ malloc'.MaxBrk = IF b > malloc.MaxBrk THEN b ELSE malloc.MaxBrk
  BY <1>1, <1>4, <1>5
<1> QED
  BY <1>4, <1>6, <1>7, BreakMoves

LEMMA BreakStep == TypeOK /\ AllocOK /\ BreakOK /\ [Next]_vars => BreakOK'
<1> SUFFICES ASSUME TypeOK, AllocOK, BreakOK, [Next]_vars PROVE BreakOK'
  OBVIOUS
<1>0. RunOK
  BY DEF TypeOK
<1>1. CASE UNCHANGED <<run, malloc>> /\ (phase # "before" \/ phase' = "before")
  BY <1>1 DEF BreakOK
<1>r. PICK c, w, d, b, x :
        malloc = [calls |-> c, memory |-> w, depth |-> d, CurBrk |-> b, MaxBrk |-> x]
  BY DEF AllocOK
<1>2. CASE ProgramBefore
  <2>1. run' = <<>>
    BY <1>2 DEF ProgramBefore, TypeOK, RunOK
  <2>2. malloc' = [calls |-> c, memory |-> w, depth |-> d, CurBrk |-> StartBrk, MaxBrk |-> StartBrk]
    BY <1>2, <1>r DEF ProgramBefore, Initialize
  <2>3. malloc'.CurBrk = StartBrk /\ malloc'.MaxBrk = StartBrk
    BY <2>2
  <2>4. BreakOf(<<>>, 0) = StartBrk
    BY BreakStarts
  <2>5. StartBrk \in Int /\ StartBrk <= StartBrk
    BY AtomAssumption
  <2>6. Len(run') = 0 /\ 0..0 = {0}
    BY <2>1
  <2> QED BY <2>1, <2>3, <2>4, <2>5, <2>6 DEF BreakOK
<1>3. CASE EnterProc \/ StartBlock \/ Jsr \/ CondBr
  <2>1. PICK e : Grown(e) /\ e.do \notin {"brk", "sbrk"}
    BY <1>3, KindsAdded
  <2>2. malloc' = malloc /\ phase # "before"
    BY <1>3 DEF EnterProc, StartBlock, Jsr, CondBr, Running, Executes
  <2> QED BY <1>0, <2>1, <2>2, BreakKept
<1>4. ASSUME NEW kind \in {"load", "store"}, LoadStore(kind) PROVE BreakOK'
  <2>1. PICK e : Grown(e) /\ e.do \notin {"brk", "sbrk"}
    BY <1>4, KindsAdded
  <2>2. malloc' = malloc /\ phase # "before"
    BY <1>4 DEF LoadStore, Running, Executes
  <2> QED BY <1>0, <2>1, <2>2, BreakKept
<1>5. ASSUME NEW e, Grown(e), phase # "before", NEW n, n = Moved(e, malloc.CurBrk), n \in Int,
             malloc' = BeforeBrk(n)
      PROVE  BreakOK'
  <2>1. PICK y : y = IF n > x THEN n ELSE x
    OBVIOUS
  <2>2. malloc' = [calls |-> c, memory |-> w, depth |-> d, CurBrk |-> n, MaxBrk |-> y]
    BY <1>r, <1>5, <2>1 DEF BeforeBrk
  <2>3. malloc'.CurBrk = n /\ malloc'.MaxBrk = IF n > malloc.MaxBrk THEN n ELSE malloc.MaxBrk
    BY <1>r, <2>1, <2>2
  <2> QED BY <1>0, <1>5, <2>3, BreakMoves
<1>6. CASE HeapCall
  <2>0. phase # "before"
    BY <1>6 DEF HeapCall, Running
  <2>1. CASE \E n \in Request : Grown([do |-> "malloc", n |-> n]) /\ malloc' = BeforeMalloc(n)
    <3>1. PICK n \in Request : Grown([do |-> "malloc", n |-> n]) /\ malloc' = BeforeMalloc(n)
      BY <2>1
    <3>2. PICK e : e = [do |-> "malloc", n |-> n]
      OBVIOUS
    <3>3. e.do \notin {"brk", "sbrk"} /\ Grown(e)
      BY <3>1, <3>2
    <3>4. malloc'.CurBrk = malloc.CurBrk /\ malloc'.MaxBrk = malloc.MaxBrk
      BY <1>r, <3>1 DEF BeforeMalloc
    <3> QED BY <1>0, <2>0, <3>3, <3>4, BreakKept
  <2>2. CASE Grown([do |-> "return"]) /\ malloc' = AfterMalloc
    <3>1. PICK e : e = [do |-> "return"]
      OBVIOUS
    <3>2. e.do \notin {"brk", "sbrk"} /\ Grown(e)
      BY <2>2, <3>1
    <3>3. malloc'.CurBrk = malloc.CurBrk /\ malloc'.MaxBrk = malloc.MaxBrk
      BY <1>r, <2>2 DEF AfterMalloc
    <3> QED BY <1>0, <2>0, <3>2, <3>3, BreakKept
  <2>3. CASE \E n \in Break : Grown([do |-> "brk", n |-> n]) /\ malloc' = BeforeBrk(n)
    <3>1. PICK n \in Break : Grown([do |-> "brk", n |-> n]) /\ malloc' = BeforeBrk(n)
      BY <2>3
    <3>2. PICK e : e = [do |-> "brk", n |-> n]
      OBVIOUS
    <3>3. e.do = "brk" /\ e.n = n /\ Grown(e) /\ n \in Int
      BY <3>1, <3>2, AtomAssumption
    <3>4. n = Moved(e, malloc.CurBrk)
      BY <3>3 DEF Moved
    <3> QED BY <1>5, <2>0, <3>1, <3>3, <3>4
  <2>4. CASE \E n \in Growth : Grown([do |-> "sbrk", n |-> n]) /\ malloc' = BeforeSbrk(n)
    <3>1. PICK n \in Growth : Grown([do |-> "sbrk", n |-> n]) /\ malloc' = BeforeSbrk(n)
      BY <2>4
    <3>2. PICK e : e = [do |-> "sbrk", n |-> n]
      OBVIOUS
    <3>3. e.do = "sbrk" /\ e.n = n /\ Grown(e) /\ n \in Int
      BY <3>1, <3>2, AtomAssumption
    <3>4. PICK l : l = malloc.CurBrk + n
      OBVIOUS
    <3>5. l = Moved(e, malloc.CurBrk)
      BY <3>3, <3>4 DEF Moved
    <3>6. malloc' = BeforeBrk(l)
      BY <3>1, <3>4 DEF BeforeSbrk
    <3>7. malloc.CurBrk \in Int
      <4>1. Len(run) \in Nat
        BY <1>0, <3>3, GrownRun DEF RunOK
      <4>2. Len(run) \in 0..Len(run)
        BY <4>1
      <4> QED BY <2>0, <4>2 DEF BreakOK
    <3>8. l \in Int
      BY <3>3, <3>4, <3>7
    <3> QED BY <1>5, <2>0, <3>3, <3>5, <3>6, <3>8
  <2> QED BY <1>6, <2>1, <2>2, <2>3, <2>4, HeapCallAdds
<1>7. Goto \/ ProgramAfter \/ UNCHANGED vars =>
        UNCHANGED <<run, malloc>> /\ (phase # "before" \/ phase' = "before")
  BY DEF Goto, ProgramAfter, Running, vars, tools
<1> QED
  BY <1>1, <1>2, <1>3, <1>4, <1>6, <1>7 DEF Next, Exited

LEMMA InitBreak == Init => BreakOK
BY DEF Init, BreakOK

LEMMA HeapIs == TypeOK /\ AllocOK /\ BreakOK => HeapCounted
<1> SUFFICES ASSUME TypeOK, AllocOK, BreakOK PROVE HeapCounted
  OBVIOUS
<1>1. \A j : BreakAfter(j) = BreakOf(run, j)
  BY DEF BreakAfter, BreakOf
<1>2. \A n \in 0..(MAXSIZE - 1) :
        /\ malloc.calls[n] = Cardinality({j \in Outermost : run[j].n = n})
        /\ malloc.memory[n] = n * malloc.calls[n]
  BY DEF AllocOK, Tallied, AsksOf
<1>3. Sum(malloc.calls) = Cardinality(Outermost)
  BY DEF AllocOK, Tallied
<1>4. ASSUME phase # "before"
      PROVE  /\ malloc.CurBrk = BreakAfter(Len(run))
             /\ malloc.MaxBrk = Max({BreakAfter(j) : j \in 0..Len(run)})
  <2>1. PICK S : S = {BreakAfter(j) : j \in 0..Len(run)}
    OBVIOUS
  <2>2. S \in SUBSET Int /\ malloc.MaxBrk \in S /\ \A y \in S : y <= malloc.MaxBrk
    BY <1>1, <1>4, <2>1 DEF BreakOK
  <2>3. Max(S) = malloc.MaxBrk
    BY <2>2, MaxIs
  <2> QED BY <1>1, <1>4, <2>1, <2>3 DEF BreakOK
<1> QED
  BY <1>2, <1>3, <1>4 DEF HeapCounted



-----------------------------------------------------------------------------
(* What is printed, and what all the tools together say. *)

Report ==
  [iprof |-> IprofRows, prof |-> ProfRows, inline |-> CallSitePrint, branch |-> BranchRows,
   malloc |-> MallocRows, cache |-> CacheResults, dtb |-> DtbResults, dyninst |-> PrintCounts]

PrintedOK == phase = "done" => printed = Report

LEMMA PrintedStep == PrintedOK /\ [Next]_vars => PrintedOK'
<1> SUFFICES ASSUME PrintedOK, [Next]_vars PROVE PrintedOK'
  OBVIOUS
<1>1. ASSUME UNCHANGED tools PROVE Report' = Report
  <2>1. UNCHANGED <<dyninst, iprof, prof, inline, branch, cache, dtb, malloc>>
    BY <1>1 DEF tools
  <2>2. IprofRows' = IprofRows /\ ProfRows' = ProfRows /\ CallSitePrint' = CallSitePrint
    BY <2>1 DEF IprofRows, ProfRows, CallSitePrint
  <2>3. BranchRows' = BranchRows /\ MallocRows' = MallocRows
    BY <2>1 DEF BranchRows, MallocRows
  <2>4. CacheResults' = CacheResults /\ DtbResults' = DtbResults /\ PrintCounts' = PrintCounts
    BY <2>1 DEF CacheResults, DtbResults, PrintCounts
  <2> QED BY <2>2, <2>3, <2>4 DEF Report
<1>2. CASE ProgramAfter
  <2>1. printed' = Report /\ UNCHANGED tools
    BY <1>2 DEF ProgramAfter, Report
  <2> QED BY <1>1, <2>1 DEF PrintedOK
<1>3. CASE UNCHANGED vars
  BY <1>1, <1>3 DEF vars, PrintedOK
<1>4. ProgramBefore \/ Goto \/ EnterProc \/ StartBlock \/ Jsr \/ CondBr \/ HeapCall => phase' = "run"
  BY DEF ProgramBefore, Goto, EnterProc, StartBlock, Jsr, CondBr, HeapCall, Executes, Running, Happens
<1>5. \A kind : LoadStore(kind) => phase' = "run"
  BY DEF LoadStore, Executes, Running, Happens
<1> QED
  BY <1>2, <1>3, <1>4, <1>5 DEF Next, Exited, PrintedOK

AtomInv ==
  /\ TypeOK /\ CacheInv /\ DtbInv /\ DyninstOK /\ ProcsOK /\ SitesOK /\ BranchesOK
  /\ TraceOK /\ AllocOK /\ BreakOK /\ PrintedOK

LEMMA InitAtom == Init => AtomInv
<1>1. Init => PrintedOK
  BY DEF Init, PrintedOK
<1> QED
  BY <1>1, InitType, InitCache, InitDtb, InitDyninst, InitProcs, InitRows, InitTrace, InitAlloc,
     InitBreak DEF AtomInv

LEMMA AtomStep == AtomInv /\ [Next]_vars => AtomInv'
<1> SUFFICES ASSUME AtomInv, [Next]_vars PROVE AtomInv'
  OBVIOUS
<1>1. /\ TypeOK /\ CacheInv /\ DtbInv /\ DyninstOK /\ ProcsOK /\ SitesOK /\ BranchesOK
      /\ TraceOK /\ AllocOK /\ BreakOK /\ PrintedOK
  BY DEF AtomInv
<1>2. TypeOK' /\ CacheInv' /\ DtbInv'
  BY <1>1, TypeStep, CacheStep, DtbStep
<1>3. DyninstOK' /\ ProcsOK'
  BY <1>1, DyninstStep, ProcsStep
<1>4. SitesOK' /\ BranchesOK'
  BY <1>1, RowsStep
<1>5. TraceOK' /\ AllocOK' /\ BreakOK' /\ PrintedOK'
  BY <1>1, TraceStep, AllocStep, BreakStep, PrintedStep
<1> QED
  BY <1>2, <1>3, <1>4, <1>5 DEF AtomInv

LEMMA CodeIs == AtomInv => CodeCounted
<1> SUFFICES ASSUME AtomInv PROVE CodeCounted
  OBVIOUS
<1>1. /\ dyninst.procs = Done("proc") /\ dyninst.blocks = Done("block")
      /\ cache.references = Done("load") /\ dyninst.loads = cache.references + Ahead("load")
      /\ dtb.hits + dtb.misses = Done("load") + Done("store")
      /\ dyninst.stores = Done("store") + Ahead("store")
  BY DEF AtomInv, CacheInv, CacheOK, DtbInv, DtbOK, DyninstOK
<1>2. {dyninst.insts, iprof.instrTotal, prof.instrTotal} = {Cardinality(Started)}
  <2>1. Started = StartedAt(run, Times({"block"}))
    BY DEF Started, StartedAt
  <2>2. iprof.instrTotal = dyninst.insts /\ prof.instrTotal = dyninst.insts
    BY DEF AtomInv, ProcsOK
  <2>3. dyninst.insts = Cardinality(Started)
    BY <2>1 DEF AtomInv, DyninstOK
  <2> QED BY <2>2, <2>3
<1>3. ASSUME phase # "before"
      PROVE  /\ \A x \in Procs :
                  /\ iprof.callsPerProc[ProcNumber(x)] = DoneAt("proc", <<x[1], x[2], 1, 0>>)
                  /\ iprof.instrPerProc[ProcNumber(x)] = Cardinality(StartedIn(x))
             /\ prof.instrPerProc = iprof.instrPerProc
             /\ \A x \in CallSites : inline[NumberIn(CallSites, x)] = DoneAt("jsr", x)
             /\ \A x \in Branches :
                  branch.references[NumberIn(Branches, x)] = DoneAt("condbr", x)
             /\ \A n \in DOMAIN branch.references : branch.predicts[n] <= branch.references[n]
  <2>1. ProcsCounted /\ SitesCounted /\ BranchesCounted
    BY <1>3 DEF AtomInv, ProcsOK, SitesOK, BranchesOK
  <2>2. \A x : StartedIn(x) = StartedAt(run, BlocksIn(x))
    BY DEF StartedIn, StartedAt, BlocksIn
  <2>3. /\ \A x \in Procs :
             /\ iprof.callsPerProc[ProcNumber(x)] = DoneAt("proc", <<x[1], x[2], 1, 0>>)
             /\ iprof.instrPerProc[ProcNumber(x)] = Cardinality(StartedIn(x))
        /\ prof.instrPerProc = iprof.instrPerProc
    BY <2>1, <2>2 DEF ProcsCounted
  <2>4. \A x \in CallSites : inline[NumberIn(CallSites, x)] = DoneAt("jsr", x)
    BY <2>1 DEF SitesCounted, SiteNumber
  <2>5. /\ \A x \in Branches : branch.references[NumberIn(Branches, x)] = DoneAt("condbr", x)
        /\ \A n \in DOMAIN branch.references : branch.predicts[n] <= branch.references[n]
    BY <2>1 DEF BranchesCounted, BranchNumber
  <2> QED BY <2>3, <2>4, <2>5
<1> QED
  BY <1>1, <1>2, <1>3 DEF CodeCounted

\* A row is printed exactly of what has happened.
LEMMA DoneSome ==
  ASSUME RunOK, NEW kind, NEW x
  PROVE  DoneAt(kind, x) > 0 <=> x \in {run[j].at : j \in Times({kind})}
<1>1. IsFiniteSet(Times({kind}))
  BY TimesAre DEF RunOK
<1>2. IsFiniteSet(TimesAt(kind, x)) /\ DoneAt(kind, x) \in Nat
  BY <1>1, FS_Subset, FS_CardinalityType DEF TimesAt, DoneAt
<1>3. DoneAt(kind, x) = 0 <=> TimesAt(kind, x) = {}
  BY <1>2, FS_EmptySet DEF DoneAt
<1>4. TimesAt(kind, x) # {} <=> x \in {run[j].at : j \in Times({kind})}
  BY DEF TimesAt
<1>5. DoneAt(kind, x) > 0 <=> DoneAt(kind, x) # 0
  BY <1>2
<1> QED
  BY <1>3, <1>4, <1>5, Zenon

LEMMA WholeSum ==
  ASSUME NEW I, NEW counts \in [I -> Nat], NEW f \in [I -> Nat], \A n \in I : counts[n] = 0 => f[n] = 0
  PROVE  SumRows(counts, f) = Sum(f)
<1>1. DOMAIN counts = I /\ f = [n \in I |-> f[n]]
  OBVIOUS
<1>2. \A n \in I : (IF counts[n] > 0 THEN f[n] ELSE 0) = f[n]
  OBVIOUS
<1>3. [n \in DOMAIN counts |-> IF counts[n] > 0 THEN f[n] ELSE 0] = f
  BY <1>1, <1>2
<1> QED
  BY <1>3 DEF SumRows

LEMMA RowsName ==
  ASSUME TypeOK, ProcsCounted, SitesCounted, BranchesCounted
  PROVE  /\ {x \in Procs : ProcNumber(x) \in Rows(prof.instrPerProc)}
              = {ProcOf(x) : x \in {run[j].at : j \in Times({"block"})}}
         /\ {x \in CallSites : SiteNumber(x) \in Rows(inline)} = {run[j].at : j \in Times({"jsr"})}
         /\ {x \in Branches : BranchNumber(x) \in Rows(branch.references)}
              = {run[j].at : j \in Times({"condbr"})}
<1>0. RunOK
  BY DEF TypeOK
<1>1. {x \in Procs : ProcNumber(x) \in Rows(prof.instrPerProc)}
        = {ProcOf(x) : x \in {run[j].at : j \in Times({"block"})}}
  <2>1. ASSUME NEW x \in Procs
        PROVE  ProcNumber(x) \in Rows(prof.instrPerProc) <=> BlocksIn(x) # {}
    <3>1. /\ ProcNumber(x) \in DOMAIN prof.instrPerProc
          /\ prof.instrPerProc[ProcNumber(x)] = Cardinality(StartedAt(run, BlocksIn(x)))
      BY ProcNumbers DEF ProcsCounted
    <3>2. IsFiniteSet(BlocksIn(x))
      <4>1. IsFiniteSet(Times({"block"}))
        BY <1>0, TimesAre DEF RunOK
      <4> QED BY <4>1, FS_Subset DEF BlocksIn
    <3>3. \A j \in BlocksIn(x) : Block(run[j].at) \in Seq(STRING) /\ 1 \in DOMAIN Block(run[j].at)
      BY <1>0, BlockTimes DEF BlocksIn
    <3>4. Cardinality(StartedAt(run, BlocksIn(x))) > 0 <=> BlocksIn(x) # {}
      BY <3>2, <3>3, StartedSome
    <3> QED BY <3>1, <3>4 DEF Rows
  <2>2. \A j \in Times({"block"}) : ProcOf(run[j].at) \in Procs
    BY <1>0, BlockTimes
  <2>3. \A x : BlocksIn(x) # {} <=> \E j \in Times({"block"}) : ProcOf(run[j].at) = x
    BY DEF BlocksIn
  <2> QED BY <2>1, <2>2, <2>3
<1>2. \A j \in DOMAIN run : run[j] \in Events
  BY <1>0 DEF RunOK
<1>3. {x \in CallSites : SiteNumber(x) \in Rows(inline)} = {run[j].at : j \in Times({"jsr"})}
  <2>1. ASSUME NEW x \in CallSites PROVE SiteNumber(x) \in Rows(inline) <=> DoneAt("jsr", x) > 0
    BY RowNumbers DEF SitesCounted, Rows
  <2>2. \A j \in Times({"jsr"}) : run[j].at \in CallSites
    BY <1>2, EventHas DEF Times
  <2> QED BY <1>0, <2>1, <2>2, DoneSome
<1>4. {x \in Branches : BranchNumber(x) \in Rows(branch.references)}
        = {run[j].at : j \in Times({"condbr"})}
  <2>1. ASSUME NEW x \in Branches
        PROVE  BranchNumber(x) \in Rows(branch.references) <=> DoneAt("condbr", x) > 0
    BY RowNumbers DEF BranchesCounted, Rows
  <2>2. \A j \in Times({"condbr"}) : run[j].at \in Branches
    BY <1>2, EventHas DEF Times
  <2> QED BY <1>0, <2>1, <2>2, DoneSome
<1> QED
  BY <1>1, <1>3, <1>4

LEMMA TablesAre == AtomInv => TablesName
<1> SUFFICES ASSUME AtomInv, phase = "done" PROVE TablesName
  BY DEF TablesName
<1>1. printed = Report
  BY DEF AtomInv, PrintedOK
<1>2. /\ printed.iprof = IprofRows /\ printed.prof = ProfRows /\ printed.inline = CallSitePrint
      /\ printed.branch = BranchRows /\ printed.malloc = MallocRows
      /\ printed.cache = CacheResults /\ printed.dtb = DtbResults /\ printed.dyninst = PrintCounts
  BY <1>1 DEF Report
<1>3. ProcsCounted /\ SitesCounted /\ BranchesCounted /\ TypeOK
  BY DEF AtomInv, ProcsOK, SitesOK, BranchesOK
<1>4. /\ {x \in Procs : ProcNumber(x) \in printed.prof.rows}
           = {ProcOf(x) : x \in {run[j].at : j \in Times({"block"})}}
      /\ {x \in CallSites : NumberIn(CallSites, x) \in printed.inline}
           = {run[j].at : j \in Times({"jsr"})}
      /\ {x \in Branches : NumberIn(Branches, x) \in printed.branch.rows}
           = {run[j].at : j \in Times({"condbr"})}
  <2>1. /\ printed.prof.rows = Rows(prof.instrPerProc) /\ printed.inline = Rows(inline)
        /\ printed.branch.rows = Rows(branch.references)
    BY <1>2 DEF ProfRows, CallSitePrint, BranchRows
  <2> QED BY <1>3, <2>1, RowsName DEF SiteNumber, BranchNumber
<1>5. /\ DOMAIN printed.iprof.calls = printed.prof.rows
      /\ {printed.prof.total, printed.iprof.total} = {printed.dyninst.insts}
  <2>1. printed.iprof.calls = [n \in Rows(iprof.instrPerProc) |-> iprof.callsPerProc[n]]
    BY <1>2 DEF IprofRows
  <2>2. /\ printed.prof.rows = Rows(prof.instrPerProc)
        /\ printed.prof.total = prof.instrTotal /\ printed.iprof.total = iprof.instrTotal
        /\ printed.dyninst.insts = dyninst.insts
    BY <1>2 DEF IprofRows, ProfRows, PrintCounts
  <2>3. prof.instrPerProc = iprof.instrPerProc
    BY <1>3 DEF ProcsCounted
  <2>4. prof.instrTotal = dyninst.insts /\ iprof.instrTotal = dyninst.insts
    BY DEF AtomInv, ProcsOK
  <2> QED BY <2>1, <2>2, <2>3, <2>4
<1>6. /\ printed.branch.references = Done("condbr")
      /\ printed.branch.predicts = Sum(branch.predicts)
  <2>1. /\ printed.branch.references = SumRows(branch.references, branch.references)
        /\ printed.branch.predicts = SumRows(branch.references, branch.predicts)
    BY <1>2 DEF BranchRows
  <2>2. PICK f, g : f = branch.references /\ g = branch.predicts
    OBVIOUS
  <2>3. f \in [BranchRow -> Nat] /\ g \in [BranchRow -> Nat] /\ \A n \in BranchRow : g[n] <= f[n]
    BY <1>3, <2>2 DEF BranchesCounted
  <2>4. \A n \in BranchRow : (f[n] = 0 => g[n] = 0) /\ (f[n] = 0 => f[n] = 0)
    BY <2>3
  <2>5. SumRows(f, f) = Sum(f) /\ SumRows(f, g) = Sum(g)
    BY <2>3, <2>4, WholeSum
  <2>6. Sum(f) = Done("condbr")
    BY <1>3, <2>2 DEF BranchesCounted
  <2> QED BY <2>1, <2>2, <2>5, <2>6
<1>7. printed.dtb.references = Done("load") + Done("store")
  BY <1>2 DEF DtbResults, AtomInv, DtbInv, DtbOK
<1>8. printed.cache.misses <= printed.cache.references
  <2>1. IsFiniteSet(Times({"load"}))
    BY <1>3, TimesAre DEF TypeOK, RunOK
  <2>2. Cardinality({j \in Times({"load"}) : Misses(j)}) <= Cardinality(Times({"load"}))
    BY <2>1, FS_Subset
  <2>3. printed.cache.misses = cache.misses /\ printed.cache.references = cache.references
    BY <1>2 DEF CacheResults
  <2>4. cache.misses = Cardinality({j \in Times({"load"}) : Misses(j)})
    BY DEF AtomInv, CacheInv, CacheExact
  <2>5. cache.references = Cardinality(Times({"load"}))
    BY DEF AtomInv, CacheInv, CacheOK, Done
  <2> QED BY <2>2, <2>3, <2>4, <2>5
<1>9. /\ printed.malloc.calls = Cardinality(Outermost)
      /\ printed.malloc.allocated = Cardinality(UNION {{j} \X (1..run[j].n) : j \in Outermost})
  <2>1. /\ printed.malloc.calls = SumRows(malloc.calls, malloc.calls)
        /\ printed.malloc.allocated = SumRows(malloc.calls, malloc.memory)
    BY <1>2 DEF MallocRows
  <2>2. PICK f, g : f = malloc.calls /\ g = malloc.memory
    OBVIOUS
  <2>3. Tallied(f, g)
    BY <2>2 DEF AtomInv, AllocOK
  <2>4. /\ f \in [0..MAXSIZE -> Nat] /\ g \in [0..MAXSIZE -> Nat]
        /\ \A n \in 0..MAXSIZE : (f[n] = 0 => g[n] = 0) /\ (f[n] = 0 => f[n] = 0)
    BY <2>3 DEF Tallied
  <2>5. SumRows(f, f) = Sum(f) /\ SumRows(f, g) = Sum(g)
    BY <2>4, WholeSum
  <2> QED BY <2>1, <2>2, <2>3, <2>5 DEF Tallied, AskedAt
<1>10. printed.malloc.max >= 0
  <2>1. Len(run) \in Nat
    BY <1>3 DEF TypeOK, RunOK
  <2>2. 0 \in 0..Len(run)
    BY <2>1
  <2>3. BreakOf(run, 0) = StartBrk /\ StartBrk \in Int
    BY BreakStarts, AtomAssumption
  <2>4. BreakOK
    BY DEF AtomInv
  <2>5. StartBrk <= malloc.MaxBrk /\ malloc.MaxBrk \in Int
    BY <2>2, <2>3, <2>4 DEF BreakOK
  <2>6. printed.malloc.max = malloc.MaxBrk - StartBrk
    BY <1>2 DEF MallocRows
  <2> QED BY <2>3, <2>5, <2>6
<1> QED
  BY <1>4, <1>5, <1>6, <1>7, <1>8, <1>9, <1>10 DEF TablesName

\* Every tool tells the truth of any program, run however long, and they all tell
\* the same: dyninst, iprof and prof, which count a block at its start, what cache,
\* dtb, branch and inline count at each instruction; trace and ptrace the events in
\* their order; malloc the calls from outside it, whatever they ask for and however
\* deep malloc calls itself, and the highest break; and the tables printed at the
\* end name what ran, with totals that lose no row (the X.anal.c files).
THEOREM ToolsTellTheTruth == Spec => []ToolsAgree
<1>1. AtomInv => ToolsAgree
  <2>1. AtomInv => CodeCounted /\ TablesName
    BY CodeIs, TablesAre
  <2>2. AtomInv => Traced
    BY TraceIs DEF AtomInv
  <2>3. AtomInv => HeapCounted
    BY HeapIs DEF AtomInv
  <2> QED BY <2>1, <2>2, <2>3 DEF ToolsAgree
<1> QED
  BY <1>1, InitAtom, AtomStep, PTL DEF Spec
=============================================================================
