-------------------------------- MODULE Debug --------------------------------
(***************************************************************************)
(* The debug hardware of labs/19-eraser/part2-eraser, register by register *)
(* and bit by bit: breakpoint 0 and watchpoint 0 as debug.c sets them over *)
(* whatever their control registers held, and how debug.h and memtrace.c   *)
(* make out from the fault registers what a fault was.                     *)
(* Memtrace, Part0 and Part1 use breakpoint 0 as what is promised here.    *)
(*                                                                         *)
(* The kernel is not interrupted in a function of debug.c, and no          *)
(* breakpoint is set on one.                                               *)
(***************************************************************************)
EXTENDS Cp15

CONSTANTS
  Address,    \* word addresses in use, of instructions and of data
  Client,     \* the clients' handlers
  AtReset,    \* what a control register may hold at reset, bit 0 clear
  None        \* no handler, no address, no fault

ASSUME DebugAssumption ==
  /\ Address \subseteq Nat /\ AtReset \subseteq Nat /\ \A r \in AtReset : r % 2 = 0
  /\ None \notin Address \cup Client

VARIABLES
  dscr, bvr0, bcr0, wvr0, wcr0,         \* the registers of coprocessor 14
  breakpt_handler0, watchpt_handler0,   \* debug.c
  asked,      \* what breakpoint 0 was last asked for: its kind, address, handler
  watched,    \* the address watchpoint 0 was last asked for, or None
  fault,      \* what the last exception was
  taken       \* and what the code took it for

cp14 == <<dscr, bvr0, bcr0, wvr0, wcr0>>
handlers == <<breakpt_handler0, watchpt_handler0>>
wishes == <<asked, watched>>
exception == <<fault, taken>>
dvars == <<cp14, handlers, wishes, exception>>

Off == [kind |-> "off"]

DInit ==
  /\ dscr \in AtReset /\ bcr0 \in AtReset /\ wcr0 \in AtReset /\ bvr0 = 0 /\ wvr0 = 0
  /\ breakpt_handler0 = None /\ watchpt_handler0 = None
  /\ asked = Off /\ watched = None /\ fault = None /\ taken = None

-----------------------------------------------------------------------------
(* debug.c *)

\* Monitor debug mode: selected (bit 14) and enabled (bit 15).
debug_init ==
  /\ dscr' = bit_clr(bit_set(dscr, 15), 14)
  /\ UNCHANGED <<bvr0, bcr0, wvr0, wcr0, handlers, wishes, exception>>

\* Bits 14 and 15, the world it watches, are left as they are.
watchpoint_bits(wcr) ==
  LET unlinked == bit_clr(bit_clr(wcr, 0), 20)
      bytes == bits_set(unlinked, 5, 8, 15)
      both == bits_set(bytes, 3, 4, 3)
  IN  bit_set(bits_set(both, 1, 2, 3), 0)

debug_watchpt0_on(addr, handler) ==
  /\ wvr0' = addr /\ wcr0' = watchpoint_bits(wcr0)
  /\ watchpt_handler0' = handler /\ watched' = addr
  /\ UNCHANGED <<dscr, bvr0, bcr0, breakpt_handler0, asked, exception>>

\* A slip: bit 22, of a mismatch before, stays.
match_bits_kept(bcr) ==
  LET world == bits_clr(bit_clr(bit_clr(bcr, 0), 20), 14, 15)
  IN  bit_set(bits_set(bits_set(world, 5, 8, 15), 1, 2, 3), 0)

match_bits(bcr) ==
  LET meaning == bits_clr(bit_clr(bcr, 0), 21, 22)
      world == bits_clr(bit_clr(meaning, 20), 14, 15)
  IN  bit_set(bits_set(bits_set(world, 5, 8, 15), 1, 2, 3), 0)

mismatch_bits(bcr) ==
  LET meaning == bits_set(bit_clr(bcr, 0), 21, 22, 2)
      world == bits_clr(bit_clr(meaning, 20), 14, 15)
  IN  bit_set(bits_set(bits_set(world, 5, 8, 15), 1, 2, 3), 0)

Breakpoint(kind, addr, handler) ==
  /\ bvr0' = addr /\ breakpt_handler0' = handler
  /\ asked' = [kind |-> kind, addr |-> addr, handler |-> handler]
  /\ UNCHANGED <<dscr, wvr0, wcr0, watchpt_handler0, watched, exception>>

debug_match_breakpt0_on(addr, handler) ==
  bcr0' = match_bits(bcr0) /\ Breakpoint("match", addr, handler)

debug_mismatch_breakpt0_on(addr, handler) ==
  bcr0' = mismatch_bits(bcr0) /\ Breakpoint("mismatch", addr, handler)

\* Whatever address it is set on.
debug_breakpt0_off(addr) ==
  /\ bcr0' = bit_clr(bcr0, 0) /\ asked' = Off
  /\ UNCHANGED <<dscr, bvr0, wvr0, wcr0, handlers, watched, exception>>

-----------------------------------------------------------------------------
(* What the processor makes of the registers.                               *)

Monitors == bits_get(dscr, 14, 15) = 2
Privilege(r, mode) == bit_is_on(r, IF mode = "user" THEN 2 ELSE 1)
Enabled(r, mode) ==
  /\ Monitors /\ bit_is_on(r, 0) /\ Privilege(r, mode)
  /\ ~bit_is_on(r, 20) /\ bits_get(r, 5, 8) = 15 /\ ~bit_is_on(r, 14)

\* There are no mismatches in privileged modes.
Breaks(pc, mode) ==
  /\ Enabled(bcr0, mode)
  /\ \/ bits_get(bcr0, 21, 22) = 0 /\ pc = bvr0
     \/ bits_get(bcr0, 21, 22) = 2 /\ pc # bvr0 /\ mode = "user"

Watches(addr, mode, op) ==
  /\ Enabled(wcr0, mode) /\ addr = wvr0
  /\ bit_is_on(wcr0, IF op = "load" THEN 3 ELSE 4)

\* A debug event leaves what it was in bits 2 to 5.
Entry(source) == dscr' = bits_set(dscr, 2, 5, source)

-----------------------------------------------------------------------------
(* debug.h *)

debug_event == 2
was_debugfault_r(r) == ~bit_is_on(r, 10) /\ bits_get(r, 0, 3) = debug_event
was_debug_datafault(dfsr) == was_debugfault_r(dfsr) /\ bits_get(dscr', 2, 5) = 2
datafault_from_ld(dfsr) == ~bit_is_on(dfsr, 11)

\* Any other fault of an instruction panics here.
was_debug_instfault(ifsr) == was_debugfault_r(ifsr) /\ bits_get(dscr', 2, 5) = 1

\* The registers of a fault are written by it and read by its handler, no later.
prefetch_abort_vector(ifsr) ==
  /\ taken' = IF was_debug_instfault(ifsr) /\ breakpt_handler0 # None
                THEN [as |-> "breakpoint", handler |-> breakpt_handler0] ELSE [as |-> "panic"]
  /\ UNCHANGED <<bvr0, bcr0, wvr0, wcr0, handlers, wishes>>

BreakpointHit(pc, mode) ==
  /\ Breaks(pc, mode) /\ Entry(1)
  /\ fault' = [is |-> "breakpoint", handler |-> asked.handler]
  /\ prefetch_abort_vector(debug_event)

\* An instruction that is a breakpoint, or a fetch that faults.
OtherFetch ==
  \/ /\ Monitors /\ Entry(3)
     /\ fault' = [is |-> "bkpt"] /\ prefetch_abort_vector(debug_event)
  \/ /\ UNCHANGED dscr
     /\ fault' = [is |-> "fetch"] /\ prefetch_abort_vector(translation_section)

\* A watchpoint is not expected: it panics.
data_abort(dfsr) ==
  /\ taken' = IF was_debug_datafault(dfsr) THEN [as |-> "watchpoint"]
              ELSE [as |-> "fault", reason |-> fault_reason(dfsr), load |-> datafault_from_ld(dfsr)]
  /\ UNCHANGED <<bvr0, bcr0, wvr0, wcr0, handlers, wishes>>

WriteBit(op) == IF op = "store" THEN 2^11 ELSE 0

WatchpointHit(addr, mode, op) ==
  /\ Watches(addr, mode, op) /\ Entry(2)
  /\ fault' = [is |-> "watchpoint"] /\ data_abort(debug_event + WriteBit(op))

OtherAccess(op, st, dom) ==
  /\ UNCHANGED dscr
  /\ fault' = [is |-> "fault", status |-> st, load |-> op = "load"]
  /\ data_abort(Dfsr(st, dom) + WriteBit(op))

-----------------------------------------------------------------------------
SetWatchpoint == \E a \in Address, h \in Client : debug_watchpt0_on(a, h)
SetMatch == \E a \in Address, h \in Client : debug_match_breakpt0_on(a, h)
SetMismatch == \E a \in Address, h \in Client : debug_mismatch_breakpt0_on(a, h)
SetOff == \E a \in Address : debug_breakpt0_off(a)
AnyBreakpointHit == \E a \in Address, mode \in Mode : BreakpointHit(a, mode)
AnyWatchpointHit == \E a \in Address, mode \in Mode, op \in Access : WatchpointHit(a, mode, op)
AnyOtherAccess == \E op \in Access, st \in reason_t \ {0, debug_event} : OtherAccess(op, st, 15)

DNext ==
  \/ debug_init \/ SetWatchpoint \/ SetMatch \/ SetMismatch \/ SetOff
  \/ AnyBreakpointHit \/ OtherFetch \/ AnyWatchpointHit \/ AnyOtherAccess

DSpec == DInit /\ [][DNext]_dvars

-----------------------------------------------------------------------------
\* Once debug mode is on, breakpoint 0 breaks on what it was last asked for and
\* on nothing else, whatever its register held at reset or was left with by a
\* match, a mismatch or an off before; and the handler in store is the one asked
\* for with it.  Watchpoint 0 watches what it was asked for, in every mode, for
\* loads and stores, if its bit 14 was clear at reset (debug.c).
BreaksAsAsked ==
  Monitors =>
    /\ \A pc \in Address, mode \in Mode :
         Breaks(pc, mode) <=>
           \/ asked.kind = "match" /\ pc = asked.addr
           \/ asked.kind = "mismatch" /\ pc # asked.addr /\ mode = "user"
    /\ asked # Off => breakpt_handler0 = asked.handler
    /\ ~bit_is_on(wcr0, 14) =>
         \A a \in Address, mode \in Mode, op \in Access :
           Watches(a, mode, op) <=> a = watched

\* A fault is taken for what it was, whatever faults came before it: a breakpoint
\* goes to the handler it was asked with, a watchpoint is one, and any other
\* data fault is neither, and loads or stores as it did, for its reason if bit
\* 10 of its status is clear (was_debug_datafault, data_abort_vector).
FaultsToldApart ==
  fault # None =>
    /\ fault.is = "breakpoint" => taken = [as |-> "breakpoint", handler |-> fault.handler]
    /\ fault.is \in {"bkpt", "fetch"} => taken.as = "panic"
    /\ fault.is = "watchpoint" => taken.as = "watchpoint"
    /\ fault.is = "fault" => /\ taken.as = "fault" /\ taken.load = fault.load
                             /\ fault.status < 16 => taken.reason = fault.status
=============================================================================
