------------------------------- MODULE Printk -------------------------------
(***************************************************************************)
(* libos/libc: printk formats into one static buffer (va-printk.c) and     *)
(* then puts the buffer (putk.c).  A fault handler that prints while the   *)
(* program it interrupted is inside printk uses the same buffer.           *)
(*                                                                         *)
(* A step writes or puts one character; a conversion makes its text, in    *)
(* buffers of its own, in the step that reaches it.                        *)
(***************************************************************************)
EXTENDS Integers, Sequences, SequencesExt

CONSTANTS
  Bits,       \* the width of an int (32 in the code)
  BufSize,    \* of the buffer (1024 in the code)
  Character,  \* what formats and their arguments may hold, Nul included
  Message,    \* the messages that may be printed
  Format,     \* message -> its pieces, [spec, width, arg]
  MaxPrints,  \* how many messages the program prints, and how many its handler
  None        \* no message yet

Nul == "nul"
Blank == " "
Glyph == <<"0", "1", "2", "3", "4", "5", "6", "7", "8", "9", "a", "b", "c", "d", "e", "f">>
Number == {"d", "u", "p", "x", "b"}

\* 2^k
PowerOfTwo[k \in Nat] == IF k = 0 THEN 1 ELSE 2 * PowerOfTwo[k - 1]

\* emit's buffer of 64 takes the digits of an int, 0x or a sign, and the NUL; no
\* format holds a NUL, and every argument is of the type its specifier asks for.
ASSUME PrintkAssumption ==
  /\ BufSize \in Nat \ {0} /\ Bits \in 1..61 /\ MaxPrints \in Nat \X Nat
  /\ Nul \in Character
  /\ \A m \in Message :
       /\ Format[m] = [k \in 1..Len(Format[m]) |-> Format[m][k]] /\ Len(Format[m]) \in Nat
       /\ \A k \in 1..Len(Format[m]) :
            LET piece == Format[m][k] IN
            /\ piece.width \in Nat
            /\ piece.spec \in Number => piece.arg \in 0..(PowerOfTwo[Bits] - 1)
            /\ piece.spec = "text" => piece.arg \in Character \ {Nul}
            /\ piece.spec = "c" => piece.arg \in Character
            /\ piece.spec = "s" => piece.arg \in Seq(Character)

-----------------------------------------------------------------------------
(* emit: a number's characters lowest first, padded, then turned round.     *)

pad(text, width) ==
  text \o [k \in 1..(IF Len(text) < width THEN width - Len(text) ELSE 0) |-> Blank]

\* The first n - 1 of the characters, from the highest.
reverse(n, text) == SubSeq(Reverse(text), 1, IF Len(text) < n THEN Len(text) ELSE n - 1)

Digits(u, base) ==
  LET digits[v \in 0..u] ==
        <<Glyph[(v % base) + 1]>> \o (IF v < base THEN <<>> ELSE digits[v \div base])
  IN  digits[u]

Negative(val) == val >= PowerOfTwo[Bits - 1]

\* A slip: the sign is taken for an unsigned number too.
Sign_always(val, signed_p) == IF Negative(val) THEN <<"-">> ELSE <<>>

\* -val wraps to itself at the least int, which as an unsigned is right.
Sign(val, signed_p) == IF signed_p /\ Negative(val) THEN <<"-">> ELSE <<>>
Magnitude(val, signed_p) == IF signed_p /\ Negative(val) THEN PowerOfTwo[Bits] - val ELSE val

emit(base, n, val, width, signed_p) ==
  LET w == IF width > n THEN n - 1 ELSE width
      text == CASE base = 10 -> Digits(Magnitude(val, signed_p), 10) \o Sign(val, signed_p)
                [] base = 16 -> Digits(val, 16) \o <<"x", "0">>
                [] base = 2  -> Digits(val, 2)
                [] base = 8  -> <<val>>
  IN  reverse(n, pad(text, w))

\* Up to the first NUL, where a copy of the string stops.
CString(text) ==
  IF \E k \in 1..Len(text) : text[k] = Nul
    THEN SubSeq(text, 1, (CHOOSE k \in 1..Len(text) :
                            text[k] = Nul /\ \A j \in 1..(k - 1) : text[j] # Nul) - 1)
    ELSE text

\* A string ignores its width.
Convert(piece) ==
  CASE piece.spec = "d"          -> emit(10, 128, piece.arg, piece.width, TRUE)
    [] piece.spec = "u"          -> emit(10, 128, piece.arg, piece.width, FALSE)
    [] piece.spec \in {"p", "x"} -> emit(16, 128, piece.arg, piece.width, FALSE)
    [] piece.spec = "b"          -> emit(2, 128, piece.arg, piece.width, FALSE)
    [] piece.spec = "s"          -> CString(piece.arg)
    [] piece.spec = "c"          -> CString(emit(8, 128, piece.arg, piece.width, FALSE))

\* Any other specifier is a panic, %f too, and so is a width of 32.
Known(piece) == piece.spec \in Number \cup {"s", "c"} /\ piece.width < 32

\* The texts of each message's conversions.
Text == [m \in Message |-> [k \in 1..Len(Format[m]) |->
           IF Known(Format[m][k]) THEN Convert(Format[m][k]) ELSE <<>>]]

-----------------------------------------------------------------------------
VARIABLES
  buf,    \* printk's buffer
  calls,  \* the calls of printk under way, the program's before its handler's
  prints, \* messages begun
  shown,  \* the last message put, as it was put
  state   \* "running" or "panic"

pk_vars == <<buf, calls, prints, shown, state>>

end == BufSize - 1

\* A call: the piece it has come to, the text of the last conversion and what
\* is left of it to copy, where it writes, where it puts, what it has put, and
\* the messages printed in the middle of it.
Called(m) == [msg |-> m, i |-> 1, text |-> <<>>, s |-> <<>>, p |-> 0, putting |-> FALSE,
              q |-> 0, out |-> <<>>, by |-> {}]

PkInit ==
  /\ buf = [k \in 0..end |-> Nul] /\ calls = <<>> /\ prints = <<0, 0>>
  /\ shown = None /\ state = "running"

Level == Len(calls)
Top == calls[Level]
Piece == Format[Top.msg][Top.i]
Replace(call) == calls' = [calls EXCEPT ![Level] = call]

\* The handler interrupts the program's call between any two characters, and is
\* not itself interrupted.
printk(m) ==
  /\ state = "running" /\ Level < 2 /\ prints[Level + 1] < MaxPrints[Level + 1]
  /\ prints' = [prints EXCEPT ![Level + 1] = @ + 1]
  /\ buf' = [buf EXCEPT ![0] = Nul]
  /\ calls' = Append([k \in 1..Level |-> [calls[k] EXCEPT !.by = @ \cup {m}]], Called(m))
  /\ UNCHANGED <<shown, state>>

Formatting == state = "running" /\ Level > 0 /\ ~Top.putting

\* A slip: the bound is the size of the buffer.
Room_late(call) == call.p <= end

Room(call) == call.p < end

Write(c, call) ==
  /\ buf' = [buf EXCEPT ![Top.p] = c]
  /\ Replace([call EXCEPT !.p = Top.p + 1])
  /\ UNCHANGED <<prints, shown, state>>

\* A character of the format that stands for itself, or %%.
Literal ==
  /\ Formatting /\ Top.s = <<>> /\ Top.i <= Len(Format[Top.msg]) /\ Room(Top)
  /\ Piece.spec = "text"
  /\ Write(Piece.arg, [Top EXCEPT !.i = @ + 1])

Conversion ==
  /\ Formatting /\ Top.s = <<>> /\ Top.i <= Len(Format[Top.msg]) /\ Room(Top)
  /\ Piece.spec # "text"
  /\ IF Known(Piece)
       THEN /\ Replace([Top EXCEPT !.i = @ + 1, !.text = Text[Top.msg][Top.i],
                           !.s = Text[Top.msg][Top.i]])
            /\ UNCHANGED state
       ELSE state' = "panic" /\ UNCHANGED calls
  /\ UNCHANGED <<buf, prints, shown>>

\* The safe string copy: what does not fit is dropped.
Copy ==
  /\ Formatting /\ Top.s # <<>>
  /\ IF Room(Top) THEN Write(Head(Top.s), [Top EXCEPT !.s = Tail(@)])
     ELSE Replace([Top EXCEPT !.s = <<>>]) /\ UNCHANGED <<buf, prints, shown, state>>

\* A slip: the message is not closed.
Closed_open == buf

Closed == [buf EXCEPT ![Top.p] = Nul]

Close ==
  /\ Formatting /\ Top.s = <<>> /\ (Top.i > Len(Format[Top.msg]) \/ ~Room(Top))
  /\ buf' = Closed
  /\ Replace([Top EXCEPT !.putting = TRUE])
  /\ UNCHANGED <<prints, shown, state>>

\* internal_putk reads the buffer as it then is; the length was counted before.
putk ==
  /\ state = "running" /\ Level > 0 /\ Top.putting
  /\ IF buf[Top.q] # Nul
       THEN /\ Replace([Top EXCEPT !.q = @ + 1, !.out = Append(@, buf[Top.q])])
            /\ UNCHANGED shown
       ELSE /\ shown' = [msg |-> Top.msg, text |-> Top.out, by |-> Top.by, sz |-> Top.p + 1]
            /\ calls' = SubSeq(calls, 1, Level - 1)
  /\ UNCHANGED <<buf, prints, state>>

Step == Literal \/ Conversion \/ Copy \/ Close \/ putk

Done == (state = "panic" \/ (Level = 0 /\ prints[1] = MaxPrints[1])) /\ UNCHANGED pk_vars

PkNext == (\E m \in Message : printk(m)) \/ Step \/ Done

PkSpec == PkInit /\ [][PkNext]_pk_vars

-----------------------------------------------------------------------------
\* What a message should say, as far as it fits.
Expansion(m) ==
  FlattenSeq([k \in 1..Len(Format[m]) |->
    IF Format[m][k].spec = "text" THEN <<Format[m][k].arg>> ELSE Text[m][k]])
Fitting == [m \in Message |->
  SubSeq(Expansion(m), 1, IF Len(Expansion(m)) < BufSize THEN Len(Expansion(m)) ELSE end)]

\* A message nothing was printed in the middle of comes out whole, or cut at the
\* size of the buffer: a handler's always does.  printk returns its length with
\* the NUL, and of a cut one what was written (not what the head of
\* va-printk.c:4-9 says).  Whoever writes, no character goes past the buffer and
\* its last stays NUL, so that putk finds an end (va_printk, the bound e).
FitsWhole ==
  /\ shown # None /\ shown.by = {} =>
       shown.text = Fitting[shown.msg] /\ shown.sz = Len(shown.text) + 1
  /\ buf[end] = Nul
  /\ \A k \in 1..Level : calls[k].p <= end /\ calls[k].q <= end

\* A message that was interrupted is torn, but every character put is the one
\* that it, or one printed in the middle of it, has at that place.
TornInPlace ==
  shown # None =>
    \A k \in 1..Len(shown.text) :
      \E m \in {shown.msg} \cup shown.by :
        k <= Len(Fitting[m]) /\ shown.text[k] = Fitting[m][k]

\* The text of a number reads back as its argument and is as wide as asked, the
\* least int included, with a 0x before hexadecimal digits or without (emit).
Digit(c) == (CHOOSE k \in 1..16 : Glyph[k] = c) - 1
ReadAs(text, base) ==
  LET value[k \in 0..Len(text)] ==
        IF k = 0 THEN 0 ELSE value[k - 1] * base + Digit(text[k])
  IN  value[Len(text)]
Unpadded(text) ==
  SubSeq(text, SelectInSeq(text, LAMBDA c : c # Blank), Len(text))
Hexadecimal(text) ==
  IF SubSeq(text, 1, 2) = <<"0", "x">> THEN SubSeq(text, 3, Len(text)) ELSE text
ReadsBack(piece, printed) ==
  LET text == Unpadded(printed)
      sign == text[1] = "-"
  IN  /\ Len(printed) >= piece.width
      /\ piece.spec \in {"p", "x"} => ReadAs(Hexadecimal(text), 16) = piece.arg
      /\ piece.spec = "b" => ReadAs(text, 2) = piece.arg
      /\ piece.spec \in {"d", "u"} =>
           /\ sign <=> piece.spec = "d" /\ Negative(piece.arg)
           /\ ReadAs(IF sign THEN Tail(text) ELSE text, 10)
                = IF sign THEN PowerOfTwo[Bits] - piece.arg ELSE piece.arg
NumbersReadBack ==
  \A k \in 1..Level : LET call == calls[k] IN
    call.i > 1 /\ Format[call.msg][call.i - 1].spec \in Number =>
      ReadsBack(Format[call.msg][call.i - 1], call.text)
=============================================================================
