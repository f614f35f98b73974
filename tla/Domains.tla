------------------------------ MODULE Domains ------------------------------
(***************************************************************************)
(* The domains of labs/19-eraser and the two functions that read and write *)
(* their permissions, on a register seen as one number per domain.         *)
(* bits_get and bits_set take both ends of their range, and are called     *)
(* with dom*2 and (dom+1)*2: three bits, the third of them the low bit of  *)
(* the next domain.  Cp15 has the same functions bit by bit.               *)
(***************************************************************************)
EXTENDS Integers

dom_id == 1
track_id == 2
shadow_id == 3
Domain == 0..15

DOM_no_access == 0
DOM_client == 1
Permission == {DOM_no_access, DOM_client}

dom_perm_get(x, dom) == x[dom] + 4 * (x[dom + 1] % 2)

dom_perm_set(x, dom, perm) ==
  [x EXCEPT ![dom] = perm, ![dom + 1] = @ - (@ % 2)]

memtrace_trap_enabled(x) == dom_perm_get(x, track_id) = DOM_no_access
=============================================================================
