-------------------------------- MODULE Libc --------------------------------
(***************************************************************************)
(* libos/libc as a program uses it: its circular queue, its hash table,    *)
(* its messages, or its strings and sums.  The four share nothing.         *)
(***************************************************************************)
EXTENDS Circular, HashTable, Printk, Strings

VARIABLE part   \* of the library, the one the program uses

lvars == <<part, vars, ht_vars, pk_vars, svars>>

NoQueue == Init /\ got = CHOOSE v \in Value : TRUE
NoTable == HtInit /\ ht_used = (CHOOSE u \in InitialUsed : TRUE) /\ ~asserts

LInit ==
  /\ PkInit
  /\ \/ part = "queue" /\ Init /\ NoTable /\ NoCall
     \/ part = "table" /\ NoQueue /\ HtInit /\ NoCall
     \/ part = "messages" /\ NoQueue /\ NoTable /\ NoCall
     \/ part = "strings" /\ NoQueue /\ NoTable /\ SInit

LNext ==
  /\ UNCHANGED part
  /\ \/ part = "queue" /\ Next /\ UNCHANGED <<ht_vars, pk_vars, svars>>
     \/ part = "table" /\ HtNext /\ UNCHANGED <<vars, pk_vars, svars>>
     \/ part = "messages" /\ PkNext /\ UNCHANGED <<vars, ht_vars, svars>>
     \/ part = "strings" /\ SNext /\ UNCHANGED <<vars, ht_vars, pk_vars>>

LSpec == LInit /\ [][LNext]_lvars
=============================================================================
