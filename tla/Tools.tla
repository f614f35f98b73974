------------------------------- MODULE Tools -------------------------------
(***************************************************************************)
(* The tools of labs/19-eraser/part2-eraser over the trap machine of       *)
(* module Memtrace: the race detector's two ways to run a function         *)
(* (eraser.c) and the memory checker's (memcheck.c).  A program calls them *)
(* in any order, any number of times; each makes its calls of memtrace.h   *)
(* in supervisor mode, the last of which runs the function in user mode.   *)
(* It may also make calls of memtrace.h of its own.                        *)
(***************************************************************************)
EXTENDS Memtrace, Sequences

VARIABLES
  need_to_check, eraser_initialized,   \* statics of eraser.c
  todo,        \* the calls of memtrace.h the running tool has still to make
  \* What the program has done so far: the tools it has called, and whether its
  \* first call of the detector was eraser_check_fn.
  tools, firstCheck

eraser == <<need_to_check, eraser_initialized, firstCheck>>
toolVars == <<eraser, todo, tools>>
tvars == <<vars, toolVars>>

\* memtrace_init with either handler, then the calls by name.
MemtraceCall == Handler \cup {"map", "shadow", "fn"}

TInit ==
  /\ Init
  /\ need_to_check = FALSE /\ eraser_initialized = FALSE
  /\ todo = <<>>
  /\ tools = {} /\ firstCheck = FALSE

\* Between two calls of a tool.
Free == at = "super" /\ status = "running" /\ todo = <<>>

\* A slip: need_to_check is looked at before this call has set it.
eraser_init_early ==
  <<"checks", "map">> \o (IF need_to_check THEN <<"shadow">> ELSE <<>>)

eraser_init ==
  <<"checks", "map">> \o (IF need_to_check' THEN <<"shadow">> ELSE <<>>)

\* eraser_check_fn or eraser_trace_fn; only the first of them sets up.
EraserFn(check) ==
  /\ Free
  /\ need_to_check' = check /\ eraser_initialized' = TRUE
  /\ todo' = IF eraser_initialized THEN <<"fn">> ELSE eraser_init \o <<"fn">>
  /\ tools' = tools \cup {"eraser"}
  /\ firstCheck' = IF eraser_initialized THEN firstCheck ELSE check
  /\ UNCHANGED vars

\* memcheck_fn and memcheck_trace_only_fn set up anew and map no heap.
MemcheckFn(h) ==
  /\ Free
  /\ todo' = <<h, "fn">>
  /\ tools' = tools \cup {"memcheck"}
  /\ UNCHANGED <<vars, eraser>>

MakeCall ==
  /\ todo # <<>> /\ todo' = Tail(todo)
  /\ \/ Head(todo) \in Handler /\ memtrace_init(Head(todo))
     \/ Head(todo) = "map" /\ memtrace_map
     \/ Head(todo) = "shadow" /\ memtrace_shadow
     \/ Head(todo) = "fn" /\ memtrace_fn
  /\ UNCHANGED <<eraser, tools>>

\* A call of memtrace.h by the program itself; the others expect memtrace_init.
Direct ==
  /\ Free
  /\ \E c \in MemtraceCall : (c \in Handler \/ "base" \in mapped) /\ todo' = <<c>>
  /\ tools' = tools \cup {"memtrace"}
  /\ UNCHANGED <<vars, eraser>>

TNext ==
  \/ \E check \in BOOLEAN : EraserFn(check)
  \/ \E h \in Handler : MemcheckFn(h)
  \/ Direct \/ MakeCall
  \/ (UserStep \/ KernelStep \/ Stopped) /\ UNCHANGED toolVars

\* One processor, no preemption: it goes on executing.
TFairness ==
  WF_tvars(KernelStep /\ UNCHANGED toolVars) /\ WF_tvars(UserStep /\ UNCHANGED toolVars)

TSpec == TInit /\ [][TNext]_tvars /\ TFairness

-----------------------------------------------------------------------------
\* Such a program, started with eraser_check_fn, is never stopped by a heap access
\* that found its heap or its shadow missing, whatever it calls afterwards.
CheckedHeapIsThere ==
  status = "reboot" /\ tools = {"eraser"} /\ firstCheck => instr \in {"shadow", "wild"}

=============================================================================
