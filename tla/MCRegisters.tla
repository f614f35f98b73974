----------------------------- MODULE MCRegisters ----------------------------
(* The MMU on a small address space, the debug unit on two addresses.       *)
EXTENDS Registers, TLC

\* Both sections at home, and section 1 at 0, an alias private to its process;
\* addresses a word into their section, and one that is seen not to be aligned.
Requests ==
  {<<0, 0, 1, 0>>, <<2^20, 2^20, 1, 0>>, <<2^20, 0, 2, 1>>,
   <<2^20 + 4, 0, 1, 0>>, <<0, 2^20 + 4, 1, 0>>, <<16, 0, 1, 0>>}

\* Every bit but the one that enables, or only two that mean something else.
Resets == {2^23 - 2, 2^20 + 2^21}

\* Handlers differ in name only.
Symmetry == Permutations(Client)
=============================================================================
