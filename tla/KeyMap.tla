------------------------------- MODULE KeyMap -------------------------------
(***************************************************************************)
(* What the header of libos/libc/ht-hash.h promises: a table from keys to  *)
(* values, each key at most once.                                          *)
(***************************************************************************)
CONSTANTS Key, Val, Nil

VARIABLES
  map,    \* the keys present, with their values
  last    \* the last call, with what it returned

vars == <<map, last>>

Nothing == [k \in {} |-> k]

Init == map = Nothing /\ last = <<"alloc">>

Insert(k, v) ==
  /\ k \notin DOMAIN map
  /\ map' = [x \in DOMAIN map \cup {k} |-> IF x = k THEN v ELSE map[x]]
  /\ last' = <<"insert", k, v>>

Delete(k) ==
  /\ k \in DOMAIN map
  /\ map' = [x \in DOMAIN map \ {k} |-> map[x]]
  /\ last' = <<"delete", k>>

Search(k) ==
  /\ last' = <<"search", k, IF k \in DOMAIN map THEN map[k] ELSE Nil>>
  /\ UNCHANGED map

Free == map' = Nothing /\ last' = <<"free">>

Next == \/ \E k \in Key, v \in Val : Insert(k, v)
        \/ \E k \in Key : Delete(k) \/ Search(k)
        \/ Free

Spec == Init /\ [][Next]_vars
=============================================================================
