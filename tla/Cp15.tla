-------------------------------- MODULE Cp15 --------------------------------
(***************************************************************************)
(* The coprocessor registers that the labs and pix read and write bit by   *)
(* bit: the domain access control register (dom_perm_set) and the data     *)
(* fault status register (memtrace.c, data_abort_vector), through the      *)
(* ranges of libos/libc/bit-support.h, both ends included.                 *)
(***************************************************************************)
EXTENDS Domains

bit_is_on(x, bit) == (x \div 2^bit) % 2 = 1
bit_clr(x, bit) == IF bit_is_on(x, bit) THEN x - 2^bit ELSE x
bit_set(x, bit) == bit_clr(x, bit) + 2^bit

bits_mask(nbits) == 2^nbits - 1

bits_get(x, lb, ub) == (x \div 2^lb) % (bits_mask(ub - lb + 1) + 1)

bits_clr(x, lb, ub) == x - bits_get(x, lb, ub) * 2^lb

\* A slip: the old bits are not cleared.
bits_set_uncleared(x, lb, ub, v) == IF bits_get(x, lb, ub) = v THEN x ELSE x + v * 2^lb

bits_set(x, lb, ub, v) == bits_clr(x, lb, ub) + v * 2^lb

-----------------------------------------------------------------------------
Mode == {"user", "privileged"}
Access == {"load", "store"}

translation_section == 5
domain_section == 9
permission_section == 13

\* The fault statuses the code names (reason_t), bit 10 above bits 3:0.
reason_t == {0, 1, 2, 3, 4, 5, 7, 8, 9, 10, 11, 12, 13, 14, 15, 20, 22, 24, 26}

\* The register of a fault: its status is split around the domain of the
\* address.
Dfsr(s, dom) == (s % 16) + 16 * dom + 1024 * (s \div 16)

\* The low bit is one where either is.
Or1(r, bit) == IF r % 2 = 1 THEN r ELSE r + bit

\* A slip: the range stops a bit early.
fault_reason_short(dfsr) == Or1(bits_get(dfsr, 0, 2), bits_get(dfsr, 10, 10))

\* Bit 10 is brought down to bit 0 and or-ed there.
fault_reason(dfsr) == Or1(bits_get(dfsr, 0, 3), bits_get(dfsr, 10, 10))
=============================================================================
