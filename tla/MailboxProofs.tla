--------------------------- MODULE MailboxProofs ----------------------------
(***************************************************************************)
(* The driver's answers are the GPU's, for a mailbox of any depth and with *)
(* any messages left over: it asks one question at a time, and so is never *)
(* a reply behind, or always.                                              *)
(***************************************************************************)
EXTENDS Mailbox, SequenceTheorems, TLAPS

Asked == [ch : {MBOX_CH}, buf : Question]
Message == [ch : 0..15, buf : Question \cup {Other}]

Types ==
  /\ asking \in Question /\ outbox \in Seq(Asked) /\ inbox \in Seq(Message)
  /\ gpu \in Asked \cup {Idle} /\ stale \in BOOLEAN
  /\ u \in [Question -> [code : BOOLEAN, value : BOOLEAN]]

Before == {"print", "mem", "fill", "write"}

Busy == IF gpu = Idle THEN 0 ELSE 1
UnderWay == Len(outbox) + Len(inbox) + Busy

\* With nothing left over one message at most is under way, that of the question.
Fresh ==
  ~stale =>
    /\ UnderWay = IF at = "read" THEN 1 ELSE 0
    /\ at = "read" => /\ outbox # <<>> => outbox[1].buf = asking
                      /\ gpu # Idle => gpu.buf = asking
                      /\ inbox # <<>> => inbox[1].buf = asking
    /\ (at = "read" /\ inbox # <<>>) \/ at = "check" => u[asking].code /\ u[asking].value
    /\ at = "check" => taken = asking
    /\ \A q \in Question : got[q] # "wrong"

\* Nothing is under way for the second question but, perhaps, what was sent last.
NoneIn(box, last) == \A k \in 1..last : box[k].buf # "memsize"
Unsent == NoneIn(outbox, Len(outbox)) /\ gpu.buf # "memsize" /\ NoneIn(inbox, Len(inbox))
SentLast ==
  /\ NoneIn(outbox, Len(outbox) - 1)
  /\ outbox # <<>> => gpu.buf # "memsize"
  /\ outbox # <<>> \/ gpu # Idle => NoneIn(inbox, Len(inbox))
  /\ NoneIn(inbox, Len(inbox) - 1)

\* With a message left over, one more is under way than the driver waits for.
Behind ==
  stale =>
    /\ at \in Before \cup {"read"} /\ asking = "serial" => inbox # <<>> /\ inbox[1].buf = Other
    /\ asking = "serial" \/ at \in Before => Unsent
    /\ at \in Before \cup {"check"} => UnderWay >= 1
    /\ at = "read" => UnderWay >= 2
    /\ at = "read" /\ asking = "memsize" => SentLast
    /\ at = "check" => taken # asking

IInv == Types /\ Fresh /\ Behind

-----------------------------------------------------------------------------
LEMMA IdleFact == /\ Idle \notin Asked /\ Idle.buf = Other
                  /\ Other \notin Question /\ \A m \in Asked : m.buf \in Question /\ m # Idle
BY DEF Idle, Asked, Other, Question

LEMMA ListFact ==
  ASSUME NEW S, NEW s \in Seq(S)
  PROVE  /\ Len(s) \in Nat /\ (s = <<>> <=> Len(s) = 0)
         /\ \A k \in 1..Len(s) : s[k] \in S
<1>1. \A k \in 1..Len(s) : s[k] \in S
  BY ElementOfSeq
<1> QED BY <1>1, EmptySeq, LenProperties

LEMMA SentFact ==
  ASSUME NEW S, NEW s \in Seq(S), NEW m \in S
  PROVE  /\ Append(s, m) \in Seq(S) /\ Len(Append(s, m)) = Len(s) + 1
         /\ \A k \in 1..Len(s) : Append(s, m)[k] = s[k]
         /\ Append(s, m)[Len(s) + 1] = m
OBVIOUS

LEMMA TakenFact ==
  ASSUME NEW S, NEW s \in Seq(S), s # <<>>
  PROVE  /\ Tail(s) \in Seq(S) /\ Len(Tail(s)) = Len(s) - 1 /\ Len(s) >= 1
         /\ \A k \in 1..(Len(s) - 1) : Tail(s)[k] = s[k + 1]
         /\ Head(s) = s[1] /\ s[1] \in S
<1>1. Len(s) \in Nat /\ Len(s) # 0 /\ \A k \in 1..Len(s) : s[k] \in S
  BY ListFact
<1>2. Head(s) = s[1]
  OBVIOUS
<1> QED BY <1>1, <1>2, HeadTailProperties

LEMMA BusyFact == Busy \in Nat /\ Busy = IF gpu = Idle THEN 0 ELSE 1
BY DEF Busy

LEMMA InitIInv == Init => IInv
<1> SUFFICES ASSUME Init PROVE IInv
  OBVIOUS
<1>1. inbox \in Seq([ch : 0..15, buf : {Other}])
  BY MailboxAssumption DEF Init
<1>2. \A k \in 1..Len(inbox) : inbox[k] \in [ch : 0..15, buf : {Other}]
  BY <1>1, ListFact
<1>3. Len(inbox) \in Nat /\ (inbox = <<>> <=> Len(inbox) = 0)
  BY <1>1, ListFact
<1>4. [ch : 0..15, buf : {Other}] \subseteq Message
  BY DEF Message
<1>5. inbox \in Seq(Message)
  BY <1>1, <1>4, SeqMonotonic
<1>6. /\ outbox = <<>> /\ gpu = Idle /\ at = "print" /\ asking = "serial"
      /\ stale \in BOOLEAN /\ (stale <=> inbox # <<>>) /\ Len(outbox) = 0
      /\ u = [q \in Question |-> Blank] /\ got = [q \in Question |-> "unasked"]
  BY DEF Init
<1>7. outbox \in Seq(Asked)
  BY <1>6
<1>8. Types
  BY <1>5, <1>6, <1>7 DEF Types, Question, Blank
<1>9. Fresh
  BY <1>3, <1>6 DEF Fresh, UnderWay, Busy
<1>10. Behind
  <2> SUFFICES ASSUME stale PROVE Behind
    BY DEF Behind
  <2>1. Unsent
    BY <1>2, <1>6, IdleFact DEF Unsent, NoneIn, Other
  <2>2. UnderWay >= 1
    BY <1>3, <1>6 DEF UnderWay, Busy
  <2>3. inbox # <<>> /\ inbox[1].buf = Other
    BY <1>2, <1>3, <1>6
  <2> QED BY <1>6, <2>1, <2>2, <2>3 DEF Behind, Before
<1> QED BY <1>8, <1>9, <1>10 DEF IInv

-----------------------------------------------------------------------------
(* The driver. *)

LEMMA WalkKeeps == IInv /\ (atag_print \/ atag_mem) => IInv'
<1> SUFFICES ASSUME IInv, atag_print \/ atag_mem PROVE IInv'
  OBVIOUS
<1>1. /\ UNCHANGED <<outbox, inbox, u, gpu, stale, asking, taken, got>>
      /\ at \in {"print", "mem"} /\ at' \in {"print", "mem", "fill", "panic"}
  BY DEF atag_print, atag_mem, Mail, Stop
<1>2. Types' BY <1>1 DEF IInv, Types
<1>3. UNCHANGED UnderWay BY <1>1 DEF UnderWay, Busy
<1>4. Fresh' BY <1>1, <1>3 DEF IInv, Fresh
<1>5. UNCHANGED Unsent BY <1>1 DEF Unsent, NoneIn
<1>6. Behind' BY <1>1, <1>3, <1>5 DEF IInv, Behind, Before
<1> QED BY <1>2, <1>4, <1>6 DEF IInv

LEMMA FillKeeps == IInv /\ Fill => IInv'
<1> SUFFICES ASSUME IInv, Fill PROVE IInv'
  OBVIOUS
<1>1. /\ UNCHANGED <<outbox, inbox, gpu, stale, asking, taken, got>>
      /\ at = "fill" /\ at' = "write" /\ u' = [u EXCEPT ![asking] = Blank]
  BY DEF Fill
<1>2. Types' BY <1>1 DEF IInv, Types, Blank
<1>3. UNCHANGED UnderWay BY <1>1 DEF UnderWay, Busy
<1>4. Fresh' BY <1>1, <1>3 DEF IInv, Fresh
<1>5. UNCHANGED Unsent BY <1>1 DEF Unsent, NoneIn
<1>6. Behind' BY <1>1, <1>3, <1>5 DEF IInv, Behind, Before
<1> QED BY <1>2, <1>4, <1>6 DEF IInv

\* The question joins the end of what is under way.
LEMMA WriteKeeps == IInv /\ mbox_write => IInv'
<1> SUFFICES ASSUME IInv, mbox_write PROVE IInv'
  OBVIOUS
<1> DEFINE m == [ch |-> MBOX_CH, buf |-> asking]
<1>1. /\ UNCHANGED <<inbox, u, gpu, stale, asking, taken, got>>
      /\ at = "write" /\ at' = "read" /\ outbox' = Append(outbox, m)
  BY DEF mbox_write
<1>2. m \in Asked /\ m.buf = asking
  BY DEF IInv, Types, Asked
<1> HIDE DEF m
<1>3. /\ Len(outbox) \in Nat /\ (outbox = <<>> <=> Len(outbox) = 0)
      /\ Len(inbox) \in Nat /\ (inbox = <<>> <=> Len(inbox) = 0)
  BY ListFact DEF IInv, Types
<1>4. /\ outbox' \in Seq(Asked) /\ Len(outbox') = Len(outbox) + 1 /\ outbox' # <<>>
      /\ \A k \in 1..Len(outbox) : outbox'[k] = outbox[k]
      /\ outbox'[Len(outbox) + 1] = m
  BY <1>1, <1>2, <1>3, SentFact, ListFact DEF IInv, Types
<1>5. Types' BY <1>1, <1>4 DEF IInv, Types
<1>6. UnderWay' = UnderWay + 1 /\ UnderWay \in Nat
  BY <1>1, <1>3, <1>4 DEF UnderWay, Busy
<1>7. Fresh'
  <2> SUFFICES ASSUME ~stale PROVE Fresh'
    BY <1>1 DEF Fresh
  <2>1. UnderWay = 0 /\ \A q \in Question : got[q] # "wrong"
    BY <1>1 DEF IInv, Fresh
  <2>2. Len(outbox) = 0 /\ inbox = <<>> /\ gpu = Idle
    BY <1>3, <2>1 DEF UnderWay, Busy
  <2>3. outbox'[1].buf = asking
    BY <1>2, <1>4, <2>2
  <2> QED BY <1>1, <1>6, <2>1, <2>2, <2>3 DEF Fresh
<1>8. Behind'
  <2> SUFFICES ASSUME stale PROVE Behind'
    BY <1>1 DEF Behind
  <2>1. Unsent /\ UnderWay >= 1
    BY <1>1 DEF IInv, Behind, Before
  <2>2. asking = "serial" => inbox # <<>> /\ inbox[1].buf = Other
    BY <1>1 DEF IInv, Behind, Before
  <2>3. NoneIn(outbox', Len(outbox') - 1)
    BY <1>3, <1>4, <2>1 DEF Unsent, NoneIn
  <2>4. SentLast'
    BY <1>1, <1>3, <2>1, <2>3 DEF SentLast, Unsent, NoneIn
  <2>5. asking = "serial" => Unsent'
    <3> SUFFICES ASSUME asking = "serial" PROVE Unsent'
      OBVIOUS
    <3>1. \A k \in 1..Len(outbox') : outbox'[k].buf # "memsize"
      BY <1>2, <1>3, <1>4, <2>1 DEF Unsent, NoneIn
    <3> QED BY <1>1, <2>1, <3>1 DEF Unsent, NoneIn
  <2> QED BY <1>1, <1>6, <2>1, <2>2, <2>4, <2>5 DEF Behind, Before
<1> QED BY <1>5, <1>7, <1>8 DEF IInv

\* The first reply there is: with a message left over, never the one asked for.
LEMMA ReadKeeps == IInv /\ mbox_read => IInv'
<1> SUFFICES ASSUME IInv, mbox_read PROVE IInv'
  OBVIOUS
<1>1. /\ UNCHANGED <<outbox, u, gpu, stale, asking, got>> /\ inbox # <<>>
      /\ at = "read" /\ at' \in {"check", "panic"}
      /\ inbox' = Tail(inbox) /\ taken' = Head(inbox).buf
  BY DEF mbox_read
<1>2. /\ Len(outbox) \in Nat /\ (outbox = <<>> <=> Len(outbox) = 0)
      /\ Len(inbox) \in Nat /\ (inbox = <<>> <=> Len(inbox) = 0)
  BY ListFact DEF IInv, Types
<1>3. /\ inbox' \in Seq(Message) /\ Len(inbox') = Len(inbox) - 1 /\ Len(inbox) >= 1
      /\ \A k \in 1..(Len(inbox) - 1) : inbox'[k] = inbox[k + 1]
      /\ taken' = inbox[1].buf
  BY <1>1, TakenFact DEF IInv, Types
<1>4. Types' BY <1>1, <1>3 DEF IInv, Types
<1>5. UnderWay' = UnderWay - 1 /\ UnderWay \in Nat
  BY <1>1, <1>2, <1>3 DEF UnderWay, Busy
<1>6. Fresh'
  BY <1>1, <1>3, <1>5 DEF IInv, Fresh
<1>7. Behind'
  <2> SUFFICES ASSUME stale PROVE Behind'
    BY <1>1 DEF Behind
  <2>1. UnderWay >= 2
    BY <1>1 DEF IInv, Behind
  <2>2. asking = "serial" => taken' # asking /\ Unsent'
    <3> SUFFICES ASSUME asking = "serial" PROVE taken' # asking /\ Unsent'
      OBVIOUS
    <3>1. taken' = Other /\ Unsent
      BY <1>1, <1>3 DEF IInv, Behind
    <3>2. \A k \in 1..Len(inbox') : inbox'[k].buf # "memsize"
      BY <1>2, <1>3, <3>1 DEF Unsent, NoneIn
    <3> QED BY <1>1, <3>1, <3>2 DEF Unsent, NoneIn, Other
  <2>3. asking = "memsize" => taken' # asking
    <3> SUFFICES ASSUME asking = "memsize" PROVE inbox[1].buf # "memsize"
      BY <1>3
    <3>1. SentLast BY <1>1 DEF IInv, Behind
    <3>2. CASE outbox # <<>> \/ gpu # Idle
      BY <1>2, <1>3, <3>1, <3>2 DEF SentLast, NoneIn
    <3>3. CASE outbox = <<>> /\ gpu = Idle
      <4>1. Len(inbox) >= 2 BY <1>2, <2>1, <3>3 DEF UnderWay, Busy
      <4> QED BY <1>2, <3>1, <4>1 DEF SentLast, NoneIn
    <3> QED BY <3>2, <3>3
  <2>4. asking \in Question /\ (asking = "serial" \/ asking = "memsize")
    BY DEF IInv, Types, Question
  <2> QED BY <1>1, <1>5, <2>1, <2>2, <2>3, <2>4 DEF Behind, Before
<1> QED BY <1>4, <1>6, <1>7 DEF IInv

LEMMA CheckKeeps == IInv /\ Check => IInv'
<1> SUFFICES ASSUME IInv, Check PROVE IInv'
  OBVIOUS
<1>1. /\ UNCHANGED <<outbox, inbox, u, gpu, stale, taken>> /\ at = "check"
      /\ asking \in Question
  BY DEF Check, Mail, Stop, IInv, Types
<1>2. UNCHANGED <<UnderWay, Unsent>>
  BY <1>1 DEF UnderWay, Busy, Unsent, NoneIn
<1>3. CASE u[asking].code
  <2>1. /\ got' = [got EXCEPT ![asking] = IF u[asking].value THEN "right" ELSE "wrong"]
        /\ at' = IF asking = "serial" THEN "fill" ELSE "off"
        /\ asking' = "memsize"
    BY <1>3 DEF Check, Answered
  <2>2. Types' BY <1>1, <2>1 DEF IInv, Types, Question
  <2>3. Fresh'
    <3> SUFFICES ASSUME ~stale PROVE Fresh'
      BY <1>1 DEF Fresh
    <3>1. UnderWay = 0 /\ u[asking].value /\ \A q \in Question : got[q] # "wrong"
      BY <1>1 DEF IInv, Fresh
    <3>2. \A q \in Question : got'[q] # "wrong"
      BY <2>1, <3>1
    <3> QED BY <1>1, <1>2, <2>1, <3>1, <3>2 DEF Fresh
  <2>4. Behind'
    BY <1>1, <1>2, <2>1 DEF IInv, Behind, Before
  <2> QED BY <2>2, <2>3, <2>4 DEF IInv
<1>4. CASE ~u[asking].code
  <2>1. at' = "panic" /\ UNCHANGED <<asking, got>>
    BY <1>4 DEF Check, Answered, Stop
  <2>2. Types' BY <1>1, <2>1 DEF IInv, Types
  <2>3. Fresh' BY <1>1, <1>2, <2>1 DEF IInv, Fresh
  <2>4. Behind' BY <1>1, <1>2, <2>1 DEF IInv, Behind, Before
  <2> QED BY <2>2, <2>3, <2>4 DEF IInv
<1> QED BY <1>3, <1>4

-----------------------------------------------------------------------------
(* The GPU, which keeps what is under way in its order. *)

LEMMA TakeKeeps == IInv /\ Take => IInv'
<1> SUFFICES ASSUME IInv, Take PROVE IInv'
  OBVIOUS
<1>1. /\ UNCHANGED <<inbox, u, stale, at, asking, taken, got>> /\ gpu = Idle /\ outbox # <<>>
      /\ gpu' = Head(outbox) /\ outbox' = Tail(outbox)
  BY DEF Take, driver
<1>2. /\ Len(outbox) \in Nat /\ Len(inbox) \in Nat /\ (inbox = <<>> <=> Len(inbox) = 0)
  BY ListFact DEF IInv, Types
<1>3. /\ outbox' \in Seq(Asked) /\ Len(outbox') = Len(outbox) - 1 /\ Len(outbox) >= 1
      /\ \A k \in 1..(Len(outbox) - 1) : outbox'[k] = outbox[k + 1]
      /\ gpu' = outbox[1] /\ outbox[1] \in Asked
  BY <1>1, TakenFact DEF IInv, Types
<1>4. outbox' = <<>> <=> Len(outbox') = 0
  BY <1>3, ListFact
<1>5. Types' BY <1>1, <1>3 DEF IInv, Types
<1>6. UnderWay' = UnderWay /\ gpu' # Idle
  BY <1>1, <1>2, <1>3, IdleFact DEF UnderWay, Busy
<1>7. Fresh'
  <2> SUFFICES ASSUME ~stale PROVE Fresh'
    BY <1>1 DEF Fresh
  <2>1. at = "read" /\ UnderWay = 1
    BY <1>1, <1>2, <1>3 DEF IInv, Fresh, UnderWay, Busy
  <2>2. Len(outbox) = 1 /\ inbox = <<>>
    BY <1>1, <1>2, <1>3, <2>1 DEF UnderWay, Busy
  <2>3. gpu'.buf = asking
    BY <1>1, <1>3, <2>1 DEF IInv, Fresh
  <2> QED BY <1>1, <1>3, <1>4, <1>6, <2>1, <2>2, <2>3 DEF IInv, Fresh
<1>8. Unsent => Unsent'
  <2> SUFFICES ASSUME Unsent PROVE Unsent'
    OBVIOUS
  <2>1. outbox[1].buf # "memsize" BY <1>2, <1>3 DEF Unsent, NoneIn
  <2>2. \A k \in 1..Len(outbox') : outbox'[k].buf # "memsize"
    BY <1>2, <1>3 DEF Unsent, NoneIn
  <2> QED BY <1>1, <1>3, <2>1, <2>2 DEF Unsent, NoneIn
<1>9. SentLast => SentLast'
  <2> SUFFICES ASSUME SentLast PROVE SentLast'
    OBVIOUS
  <2>1. outbox' # <<>> => gpu'.buf # "memsize"
    BY <1>2, <1>3, <1>4 DEF SentLast, NoneIn
  <2>2. \A k \in 1..(Len(outbox') - 1) : outbox'[k].buf # "memsize"
    BY <1>2, <1>3 DEF SentLast, NoneIn
  <2> QED BY <1>1, <2>1, <2>2 DEF SentLast, NoneIn
<1>10. Behind' BY <1>1, <1>6, <1>8, <1>9 DEF IInv, Behind
<1> QED BY <1>5, <1>7, <1>10 DEF IInv

LEMMA AnswerKeeps == IInv /\ Answer => IInv'
<1> SUFFICES ASSUME IInv, Answer PROVE IInv'
  OBVIOUS
<1>1. UNCHANGED <<outbox, inbox, gpu, stale, at, asking, taken, got>> /\ gpu \in Asked
  BY DEF Answer, driver, IInv, Types
<1>2. PICK field \in {"code", "value"} : u' = [u EXCEPT ![gpu.buf][field] = TRUE]
  BY DEF Answer
<1>3. /\ u' \in [Question -> [code : BOOLEAN, value : BOOLEAN]]
      /\ \A q \in Question : (u[q].code => u'[q].code) /\ (u[q].value => u'[q].value)
  BY <1>1, <1>2, IdleFact DEF IInv, Types
<1>4. Types' BY <1>1, <1>3 DEF IInv, Types
<1>5. UNCHANGED <<UnderWay, Unsent, SentLast>>
  BY <1>1 DEF UnderWay, Busy, Unsent, SentLast, NoneIn
<1>6. asking \in Question BY DEF IInv, Types
<1>7. Fresh' BY <1>1, <1>3, <1>5, <1>6 DEF IInv, Fresh
<1>8. Behind' BY <1>1, <1>5 DEF IInv, Behind
<1> QED BY <1>4, <1>7, <1>8 DEF IInv

LEMMA ReplyKeeps == IInv /\ Reply => IInv'
<1> SUFFICES ASSUME IInv, Reply PROVE IInv'
  OBVIOUS
<1>1. /\ UNCHANGED <<outbox, u, stale, at, asking, taken, got>>
      /\ gpu \in Asked /\ gpu # Idle /\ gpu' = Idle /\ u[gpu.buf].code /\ u[gpu.buf].value
      /\ inbox' = Append(inbox, gpu)
  BY DEF Reply, driver, IInv, Types
<1>2. /\ Len(outbox) \in Nat /\ Len(inbox) \in Nat /\ (inbox = <<>> <=> Len(inbox) = 0)
      /\ (outbox = <<>> <=> Len(outbox) = 0)
  BY ListFact DEF IInv, Types
<1>3. Asked \subseteq Message
  BY DEF Asked, Message, MBOX_CH
<1>4. /\ inbox' \in Seq(Message) /\ Len(inbox') = Len(inbox) + 1
      /\ \A k \in 1..Len(inbox) : inbox'[k] = inbox[k]
      /\ inbox'[Len(inbox) + 1] = gpu
  BY <1>1, <1>3, SentFact DEF IInv, Types
<1>5. inbox' # <<>>
  BY <1>2, <1>4, ListFact
<1>6. Types' BY <1>1, <1>4 DEF IInv, Types
<1>7. UnderWay' = UnderWay
  BY <1>1, <1>2, <1>4 DEF UnderWay, Busy
<1>8. Fresh'
  <2> SUFFICES ASSUME ~stale PROVE Fresh'
    BY <1>1 DEF Fresh
  <2>1. at = "read" /\ UnderWay = 1
    BY <1>1, <1>2 DEF IInv, Fresh, UnderWay, Busy
  <2>2. Len(inbox) = 0 /\ gpu.buf = asking
    BY <1>1, <1>2, <2>1 DEF IInv, Fresh, UnderWay, Busy
  <2>3. inbox'[1].buf = asking
    BY <1>4, <2>2
  <2> QED BY <1>1, <1>5, <1>7, <2>1, <2>2, <2>3 DEF IInv, Fresh
<1>9. Unsent => Unsent'
  <2> SUFFICES ASSUME Unsent PROVE Unsent'
    OBVIOUS
  <2>1. \A k \in 1..Len(inbox') : inbox'[k].buf # "memsize"
    BY <1>2, <1>4 DEF Unsent, NoneIn
  <2> QED BY <1>1, <2>1, IdleFact DEF Unsent, NoneIn, Other
<1>10. SentLast => SentLast'
  <2> SUFFICES ASSUME SentLast PROVE SentLast'
    OBVIOUS
  <2>1. NoneIn(inbox, Len(inbox)) BY <1>1 DEF SentLast
  <2>2. \A k \in 1..(Len(inbox') - 1) : inbox'[k].buf # "memsize"
    BY <1>2, <1>4, <2>1 DEF NoneIn
  <2>3. outbox # <<>> => \A k \in 1..Len(inbox') : inbox'[k].buf # "memsize"
    BY <1>2, <1>4, <2>1 DEF SentLast, NoneIn
  <2> QED BY <1>1, <2>2, <2>3, IdleFact DEF SentLast, NoneIn, Other
<1>11. inbox # <<>> => inbox'[1] = inbox[1]
  BY <1>2, <1>4
<1>12. Behind' BY <1>1, <1>5, <1>7, <1>9, <1>10, <1>11 DEF IInv, Behind
<1> QED BY <1>6, <1>8, <1>12 DEF IInv

-----------------------------------------------------------------------------
LEMMA StepIInv == IInv /\ [Next]_vars => IInv'
<1> SUFFICES ASSUME IInv, [Next]_vars PROVE IInv'
  OBVIOUS
<1>1. CASE atag_print \/ atag_mem BY <1>1, WalkKeeps
<1>2. CASE Fill BY <1>2, FillKeeps
<1>3. CASE mbox_write BY <1>3, WriteKeeps
<1>4. CASE mbox_read BY <1>4, ReadKeeps
<1>5. CASE Check BY <1>5, CheckKeeps
<1>6. CASE Take BY <1>6, TakeKeeps
<1>7. CASE Answer BY <1>7, AnswerKeeps
<1>8. CASE Reply BY <1>8, ReplyKeeps
<1>9. CASE Stopped \/ UNCHANGED vars
  <2>1. UNCHANGED <<at, asking, outbox, inbox, u, gpu, taken, got, stale>>
    BY <1>9 DEF Stopped, vars
  <2>2. UNCHANGED <<UnderWay, Unsent, SentLast>>
    BY <2>1 DEF UnderWay, Busy, Unsent, SentLast, NoneIn
  <2> QED BY <2>1, <2>2 DEF IInv, Types, Fresh, Behind
<1> QED
  BY <1>1, <1>2, <1>3, <1>4, <1>5, <1>6, <1>7, <1>8, <1>9 DEF Next, DriverStep, GpuStep

\* The reply that ends a wait is for the buffer just sent exactly if no message
\* was left over at boot, and then the answers printed are the GPU's.
THEOREM AnswersAreMine == Spec => []AnswerIsMine
<1>1. IInv => AnswerIsMine
  BY DEF IInv, Types, Fresh, Behind, AnswerIsMine
<1> QED BY <1>1, InitIInv, StepIInv, PTL DEF Spec
=============================================================================
