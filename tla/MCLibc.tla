------------------------------ MODULE MCLibc --------------------------------
(* Messages of eight-bit integers into a small buffer, and hashes of two    *)
(* bits, which five keys share in every way a growing mask can tell apart.  *)
EXTENDS Libc

T(c) == [spec |-> "text", width |-> 0, arg |-> c]
Num(spec, width, arg) == [spec |-> spec, width |-> width, arg |-> arg]

Formats == [
  fits    |-> <<T("%"), Num("d", 3, 255)>>,
  least   |-> <<Num("d", 0, 128), Num("u", 0, 128)>>,
  hex     |-> <<Num("x", 6, 171), Num("b", 9, 254)>>,
  string  |-> <<T("<"), [spec |-> "s", width |-> 9, arg |-> <<"o", "k", Nul, "x">>], T(">")>>,
  chars   |-> <<Num("c", 2, "c"), [spec |-> "c", width |-> 0, arg |-> Nul], T(".")>>,
  empty   |-> <<>>,
  float   |-> <<T("f"), Num("f", 0, 1)>>,
  wide    |-> <<Num("p", 0, 0), Num("u", 32, 1)>>]
Messages == DOMAIN Formats
Characters == {Nul, "%", "<", ">", "o", "k", "x", "c", ".", "f"}
Prints == <<2, 2>>

HashTwoBits == [k \in Key |-> CASE k = "a" -> 0 [] k = "b" -> 2 [] k = "c" -> 3 [] k = "d" -> 2 [] k = "e" -> 1]
GarbageCounts == {0, 5, -1}
=============================================================================
