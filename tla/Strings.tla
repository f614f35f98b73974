------------------------------ MODULE Strings -------------------------------
(***************************************************************************)
(* The loops of libos/libc over memory: strlen, strcmp, strncmp, strchr,   *)
(* strcpy, strcat, memcmp, memchr, memiszero, memcpy, memset, and the      *)
(* checksum of crc.c, which a client may take piece by piece.              *)
(*                                                                         *)
(* A step is one turn of a loop.  Callers keep to what the functions ask:  *)
(* strings end, counts stay inside, what is written does not overlap what  *)
(* is read.                                                                *)
(***************************************************************************)
EXTENDS Integers, Sequences, FiniteSets, FiniteSetsExt, SequencesExt

CONSTANTS
  N,          \* bytes of memory
  Char,       \* the values they hold; a char of this machine is unsigned
  IntArg,     \* the values passed as an int for a char
  WordBytes   \* of a word memcpy copies at a time (4 in the code)

ASSUME StringsAssumption ==
  N \in Nat /\ Char \subseteq 0..255 /\ 0 \in Char /\ IntArg \subseteq Nat /\ WordBytes \in Nat \ {0}

VARIABLES
  mem,     \* the memory
  call,    \* the call under way: its function and its registers
  result,  \* <<what it returned>>, or Running
  mem0,    \* the memory before it
  args     \* and its arguments

svars == <<mem, call, result, mem0, args>>

Addr == 0..(N - 1)
NULL == N
Running == <<>>

\* A call that points at p and q, with a count n and a char c.
F(f, p, q, n, c) ==
  [f |-> f, p |-> p, q |-> q, n |-> n, c |-> c, found |-> FALSE, crc |-> {}]

Ends(m, p) == \E a \in p..(N - 1) : m[a] = 0
End(m, p) == CHOOSE a \in p..(N - 1) : m[a] = 0 /\ \A b \in p..(a - 1) : m[b] # 0
Apart(p, n, q, k) == p + n <= q \/ q + k <= p
Inside(p, n) == p + n <= N

\* What callers may ask of the memory m.
Calls(m) ==
  LET Str == {p \in Addr : Ends(m, p)}
      Span(p) == End(m, p) - p + 1
      Counts == 0..N
  IN  {F("strlen", p, p, 0, 0) : p \in Str}
      \cup {F("strchr", p, p, 0, c) : p \in Str, c \in IntArg}
      \cup {F("strcmp", p, q, 0, 0) : p \in Str, q \in Str}
      \cup {F("strcpy", r[1], r[2], 0, 0) :
              r \in {r \in Addr \X Str : Inside(r[1], Span(r[2]))
                                          /\ Apart(r[1], Span(r[2]), r[2], Span(r[2]))}}
      \cup {F("strcat", r[1], r[2], 0, 0) :
              r \in {r \in Str \X Str :
                       LET all == Span(r[1]) - 1 + Span(r[2]) IN
                       Inside(r[1], all) /\ Apart(r[1], all, r[2], Span(r[2]))}}
      \cup {F(f, r[1], r[2], r[3], 0) : f \in {"strncmp", "memcmp"},
              r \in {r \in Addr \X Addr \X Counts : Inside(r[1], r[3]) /\ Inside(r[2], r[3])}}
      \cup {F("memcpy", r[1], r[2], r[3], 0) :
              r \in {r \in Addr \X Addr \X Counts : Inside(r[1], r[3]) /\ Inside(r[2], r[3])
                                                    /\ Apart(r[1], r[3], r[2], r[3])}}
      \cup {F(f, r[1], r[1], r[2], c) : f \in {"memchr", "memset"}, c \in IntArg,
              r \in {r \in Addr \X Counts : Inside(r[1], r[2])}}
      \cup {F(f, r[1], r[1], r[2], 0) : f \in {"memiszero", "crc32"},
              r \in {r \in Addr \X Counts : Inside(r[1], r[2])}}

NoCall ==
  /\ mem = [a \in Addr |-> 0] /\ mem0 = mem
  /\ call = F("none", 0, 0, 0, 0) /\ args = call /\ result = Running

SInit ==
  /\ mem \in [Addr -> Char] /\ mem0 = mem
  /\ call \in Calls(mem) /\ args = call
  /\ result = Running

-----------------------------------------------------------------------------
In(f) == call.f = f /\ result = Running
Return(v) == result' = <<v>> /\ UNCHANGED <<mem, call, mem0, args>>
Turn(c) == call' = c /\ UNCHANGED <<mem, result, mem0, args>>
Store(a, v) == mem' = [mem EXCEPT ![a] = v]

Onward == [call EXCEPT !.p = @ + 1, !.q = @ + 1]
Count == [Onward EXCEPT !.n = @ - 1]

strlen ==
  /\ In("strlen")
  /\ IF mem[call.p] # 0 THEN Turn([call EXCEPT !.p = @ + 1]) ELSE Return(call.p - args.p)

strchr ==
  /\ In("strchr")
  /\ IF mem[call.p] = call.c % 256 THEN Return(call.p)
     ELSE IF mem[call.p] # 0 THEN Turn(Onward) ELSE Return(NULL)

strcmp ==
  /\ In("strcmp")
  /\ IF mem[call.p] # 0 /\ mem[call.p] = mem[call.q] THEN Turn(Onward)
     ELSE Return(mem[call.p] - mem[call.q])

\* Both go on past a NUL.
strncmp ==
  /\ In("strncmp")
  /\ IF call.n = 0 THEN Return(0)
     ELSE IF mem[call.p] # mem[call.q] THEN Return(mem[call.p] - mem[call.q]) ELSE Turn(Count)

memcmp ==
  /\ In("memcmp")
  /\ IF call.n = 0 THEN Return(0)
     ELSE LET v == mem[call.p] - mem[call.q] IN IF v # 0 THEN Return(v) ELSE Turn(Count)

\* Compared as an int, not as the char that it is for.
memchr ==
  /\ In("memchr")
  /\ IF call.n = 0 THEN Return(NULL)
     ELSE IF mem[call.p] = call.c THEN Return(call.p) ELSE Turn(Count)

memiszero ==
  /\ In("memiszero")
  /\ IF call.n = 0 THEN Return(1) ELSE IF mem[call.p] # 0 THEN Return(0) ELSE Turn(Count)

memset ==
  /\ In("memset")
  /\ IF call.n = 0 THEN Return(args.p)
     ELSE /\ Store(call.p, call.c % 256) /\ call' = Count
          /\ UNCHANGED <<result, mem0, args>>

\* A character is copied, and the NUL is the last.
CopyString ==
  /\ Store(call.p, mem[call.q])
  /\ call' = Onward
  /\ result' = IF mem[call.q] = 0 THEN <<args.p>> ELSE Running
  /\ UNCHANGED <<mem0, args>>

strcpy == In("strcpy") /\ CopyString

\* A slip: the copy begins behind the NUL.
Found_behind == [call EXCEPT !.found = TRUE, !.p = @ + 1]

\* The end is found one past the NUL; two are taken off, and one added for the
\* first store.
Found == [call EXCEPT !.found = TRUE, !.p = @ + 1 - 2 + 1]

strcat ==
  /\ In("strcat")
  /\ IF call.found THEN CopyString
     ELSE IF mem[call.p] # 0 THEN Turn([call EXCEPT !.p = @ + 1]) ELSE Turn(Found)

\* By words when both pointers and the count are whole words, or by bytes.
memcpy ==
  LET aligned == \A x \in {args.p, args.q, args.n} : x % WordBytes = 0
      k == IF aligned THEN WordBytes ELSE 1
  IN  /\ In("memcpy")
      /\ IF call.n = 0 THEN Return(args.p)
         ELSE /\ mem' = [a \in Addr |-> IF a \in call.p..(call.p + k - 1)
                                          THEN mem[call.q + (a - call.p)] ELSE mem[a]]
              /\ call' = [call EXCEPT !.p = @ + k, !.q = @ + k, !.n = @ - k]
              /\ UNCHANGED <<result, mem0, args>>

-----------------------------------------------------------------------------
(* crc.c, with a 32-bit word as the set of its bits that are one.           *)

ByteBits(b) == {k \in 0..7 : (b \div 2^k) % 2 = 1}
Xor(x, y) == (x \cup y) \ (x \cap y)
Shift(x, n) == {k - n : k \in {k \in x : k >= n}}

Reversed == {31, 30, 29, 27, 26, 24, 23, 21, 20, 19, 15, 9, 8, 5}
Divide(x) == IF 0 \in x THEN Xor(Shift(x, 1), Reversed) ELSE Shift(x, 1)

\* The table of the code is this one, in each of its 256 numbers.
crc32_tab == [x \in SUBSET (0..7) |-> Divide(Divide(Divide(Divide(Divide(Divide(Divide(Divide(x))))))))]

\* A slip: the sum so far is not complemented again.
Entered_plain(crc) == crc

\* crc ^ ~0U, before the first byte and after the last.
Entered(crc) == Xor(crc, 0..31)
Left(crc) == Xor(crc, 0..31)

\* our_crc32_inc has begun when found is set; a piece may end at any byte, and
\* its sum is passed to the next call.
our_crc32_inc ==
  /\ In("crc32")
  /\ \/ ~call.found /\ Turn([call EXCEPT !.crc = Entered(@), !.found = TRUE])
     \/ /\ call.found /\ call.n > 0
        /\ Turn([Count EXCEPT !.crc = Xor(crc32_tab[Xor(@, ByteBits(mem[call.p])) \cap (0..7)],
                                           Shift(@, 8))])
     \/ call.found /\ call.n > 0 /\ Turn([call EXCEPT !.crc = Left(@), !.found = FALSE])
     \/ call.found /\ call.n = 0 /\ Return(Left(call.crc))

Returned == result # Running /\ UNCHANGED svars

SNext ==
  \/ strlen \/ strchr \/ strcmp \/ strncmp \/ memcmp \/ memchr \/ memiszero
  \/ memset \/ strcpy \/ strcat \/ memcpy \/ our_crc32_inc \/ Returned

SSpec == SInit /\ [][SNext]_svars

-----------------------------------------------------------------------------
(* What the functions are for, of the memory as it was.                     *)

StringAt(p) == SubSeq([a \in 1..N |-> mem0[a - 1]], p + 1, End(mem0, p) + 1)
Bytes(p, n) == SubSeq([a \in 1..N |-> mem0[a - 1]], p + 1, p + n)

\* The difference at the first place where two sequences differ.
Difference(s, t) ==
  LET differ == {k \in DOMAIN s \cap DOMAIN t : s[k] # t[k]}
  IN  IF differ = {} THEN 0 ELSE s[Min(differ)] - t[Min(differ)]

\* The first place of c in a sequence that begins at p.
FirstAt(p, s, c) ==
  IF Contains(s, c) THEN p + Min({k \in DOMAIN s : s[k] = c}) - 1 ELSE NULL

\* The memory as it was, but for a sequence written at p.
Written(p, s) ==
  [a \in Addr |-> IF a - p + 1 \in DOMAIN s THEN s[a - p + 1] ELSE mem0[a]]

\* Every function returns what its name promises of the memory as it was, and
\* writes that and nothing beside it: strings with their NULs, whole words or
\* bytes.  strncmp is memcmp, NULs or no; memchr finds no char in a wider int.
StringsMean ==
  result # Running =>
    LET f == args.f  p == args.p  q == args.q  n == args.n  c == args.c
        value == result[1]
    IN  CASE f = "strlen"    -> value = Len(StringAt(p)) - 1 /\ mem = mem0
          [] f = "strcmp"    -> value = Difference(StringAt(p), StringAt(q)) /\ mem = mem0
          [] f \in {"strncmp", "memcmp"} ->
               value = Difference(Bytes(p, n), Bytes(q, n)) /\ mem = mem0
          [] f = "strchr"    -> value = FirstAt(p, StringAt(p), c % 256) /\ mem = mem0
          [] f = "memchr"    -> value = FirstAt(p, Bytes(p, n), c) /\ mem = mem0
          [] f = "memiszero" -> (value = 1 <=> \A k \in 1..n : Bytes(p, n)[k] = 0) /\ mem = mem0
          [] f = "memset"    -> value = p /\ mem = Written(p, [k \in 1..n |-> c % 256])
          [] f = "memcpy"    -> value = p /\ mem = Written(p, Bytes(q, n))
          [] f = "strcpy"    -> value = p /\ mem = Written(p, StringAt(q))
          [] f = "strcat"    -> value = p /\ mem = Written(p, Front(StringAt(p)) \o StringAt(q))
          [] f = "crc32"     -> mem = mem0

\* x^32 + x^26 + ... + 1, and the remainder on division by it of a polynomial, the
\* set of its exponents, none over n + 31: each from there on is taken out.
Generator == {32, 26, 23, 22, 16, 12, 11, 10, 8, 7, 5, 4, 2, 1, 0}

Reduce(poly, d) == IF d \in poly THEN Xor(poly, {e + d - 32 : e \in Generator}) ELSE poly

Remainder(poly, n) ==
  LET rest[k \in 0..n] == IF k = 0 THEN poly ELSE Reduce(rest[k - 1], n + 32 - k)
  IN  rest[n]

\* In however many pieces it is taken, the checksum of crc.c is the remainder of
\* the bytes, low bit first, the first 32 of them and itself complemented.
ChecksumIsRemainder ==
  result # Running /\ args.f = "crc32" =>
    LET s == Bytes(args.p, args.n)
        n == 8 * args.n
        sent == {n - 1 - j : j \in {j \in 0..(n - 1) : j % 8 \in ByteBits(s[(j \div 8) + 1])}}
        rest == Remainder(Xor({e + 32 : e \in sent}, n..(n + 31)), n)
    IN  result[1] = (0..31) \ {31 - e : e \in rest}
=============================================================================
