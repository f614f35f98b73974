---------------------------- MODULE MCHashTable -----------------------------
(* HashTable with hashes of two bits, which five keys share in every way a  *)
(* growing mask can tell apart or not.                                      *)
EXTENDS HashTable

HashTwoBits == [k \in Key |-> CASE k = "a" -> 0 [] k = "b" -> 2 [] k = "c" -> 3 [] k = "d" -> 2 [] k = "e" -> 1]

GarbageCounts == {0, 5, -1}
=============================================================================
