--------------------------- MODULE TracedProgram ---------------------------
(***************************************************************************)
(* What memtrace promises a client that tracks the loads and stores of the *)
(* heap: every one is shown to the client's handler exactly once, before   *)
(* it happens, and then it happens, unless the machine has stopped.        *)
(***************************************************************************)

VARIABLE access   \* the heap access under way

TypeOK == access \in {"none", "untraced", "traced", "stopped"}

Init == access = "none"

\* The program comes to an instruction that touches the heap.
Begin == access = "none" /\ access' = "untraced"

\* The client's handler is called.
Trace == access = "untraced" /\ access' = "traced"

\* The access completes; the next instruction may be another one.
Retire == access = "traced" /\ access' \in {"none", "untraced"}

\* A handler reports, panics or reboots.
Stop == access # "stopped" /\ access' = "stopped"

Next == Begin \/ Trace \/ Retire \/ Stop

\* An access under way moves on.
Serve == access \in {"untraced", "traced"} /\ (Trace \/ Retire \/ Stop)

Steps == Init /\ [][Next]_access

Spec == Steps /\ WF_access(Serve)
=============================================================================
