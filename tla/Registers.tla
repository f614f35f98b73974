------------------------------ MODULE Registers ------------------------------
(***************************************************************************)
(* The two pieces of hardware the labs drive through coprocessors, the MMU *)
(* and the debug unit.  Between them they share the bits of Cp15 and the   *)
(* fault status register, and nothing else.                                *)
(***************************************************************************)
EXTENDS Mmu, Debug

VARIABLE debugs_p   \* the debug unit is in use

RInit ==
  \/ debugs_p = FALSE /\ Init
     /\ dscr = 0 /\ bcr0 = 0 /\ wcr0 = 0 /\ bvr0 = 0 /\ wvr0 = 0
     /\ breakpt_handler0 = None /\ watchpt_handler0 = None
     /\ asked = Off /\ watched = None /\ fault = None /\ taken = None
  \/ debugs_p = TRUE /\ Init /\ DInit

RNext ==
  \/ ~debugs_p /\ Next /\ UNCHANGED <<debugs_p, dvars>>
  \/ debugs_p /\ DNext /\ UNCHANGED <<debugs_p, vars>>

RSpec == RInit /\ [][RNext]_<<debugs_p, vars, dvars>>
=============================================================================
