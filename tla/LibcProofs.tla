----------------------------- MODULE LibcProofs -----------------------------
(***************************************************************************)
(* Proofs about libos/libc, for every value of the constants: the circular *)
(* queue, the hash table, printk with its putk, the functions on strings   *)
(* and memory, and the checksum of crc.c.                                  *)
(*                                                                         *)
(* The functions that recursion defines are reached by induction over      *)
(* sets: the least number for which a thing fails is not the first.        *)
(***************************************************************************)
EXTENDS Libc, SequenceTheorems, FiniteSetTheorems, TLAPS

-----------------------------------------------------------------------------
(* Induction, of sets: the numbers of which something holds. *)

LEMMA LeastNumber ==
  ASSUME NEW S \in SUBSET Nat, S # {}
  PROVE  \E m \in S : \A k \in S : m <= k
<1>1. PICK m \in S : \A k \in S : <<k, m>> \notin OpToRel(<, Nat)
  BY WFMin, NatLessThanWellFounded
<1>2. \A k \in S : ~ (k < m)
  BY <1>1 DEF OpToRel
<1> QED
  BY <1>2

LEMMA NumbersByInduction ==
  ASSUME NEW T, 0 \in T, \A n \in Nat : n \in T => n + 1 \in T
  PROVE  \A n \in Nat : n \in T
<1> SUFFICES ASSUME NEW z \in Nat, z \notin T PROVE FALSE
  OBVIOUS
<1>1. PICK m \in Nat \ T : \A k \in Nat \ T : m <= k
  BY LeastNumber, Nat \ T # {}
<1>2. m # 0
  OBVIOUS
<1>3. m - 1 \in Nat /\ m - 1 \in T
  BY <1>1, <1>2
<1> QED
  BY <1>3, (m - 1) + 1 = m

-----------------------------------------------------------------------------
(* FlattenSeq: the recursive function in it, and what it holds.              *)

IsFlattening(f, seqs, m) ==
  f = [k \in 1..m |-> IF k = 1 THEN seqs[k] ELSE f[k - 1] \o seqs[k]]

LEMMA FlatteningExists ==
  ASSUME NEW seqs
  PROVE  \A m \in Nat : \E f : IsFlattening(f, seqs, m)
<1> DEFINE T == {m \in Nat : \E f : IsFlattening(f, seqs, m)}
<1>1. 0 \in T
  <2>1. IsFlattening([k \in 1..0 |-> <<>>], seqs, 0)
    BY DEF IsFlattening
  <2> QED
    BY <2>1
<1>2. ASSUME NEW n \in Nat, n \in T
      PROVE  n + 1 \in T
  <2>1. PICK f : IsFlattening(f, seqs, n)
    BY <1>2
  <2> DEFINE g == [k \in 1..(n + 1) |-> IF k <= n THEN f[k]
                                        ELSE IF k = 1 THEN seqs[k] ELSE f[k - 1] \o seqs[k]]
  <2>2. \A k \in 1..(n + 1) : g[k] = IF k = 1 THEN seqs[k] ELSE g[k - 1] \o seqs[k]
    <3> TAKE k \in 1..(n + 1)
    <3>1. CASE k = n + 1
      BY <3>1
    <3>2. CASE k <= n
      <4>1. \A j \in 1..n : f[j] = IF j = 1 THEN seqs[j] ELSE f[j - 1] \o seqs[j]
        BY <2>1 DEF IsFlattening
      <4>2. k \in 1..n /\ g[k] = f[k] /\ (k # 1 => k - 1 \in 1..(n + 1) /\ g[k - 1] = f[k - 1])
        BY <3>2
      <4> QED
        BY <4>1, <4>2
    <3> QED
      BY <3>1, <3>2
  <2>3. IsFlattening(g, seqs, n + 1)
    BY <2>2 DEF IsFlattening
  <2> QED
    BY <2>3
<1> HIDE DEF T
<1>3. \A m \in Nat : m \in T
  BY <1>1, <1>2, NumbersByInduction
<1> QED
  BY <1>3 DEF T

LEMMA FlattenIs ==
  ASSUME NEW seqs, Len(seqs) \in Nat \ {0}
  PROVE  \E f : IsFlattening(f, seqs, Len(seqs)) /\ FlattenSeq(seqs) = f[Len(seqs)]
<1> DEFINE f == CHOOSE f : IsFlattening(f, seqs, Len(seqs))
<1>1. IsFlattening(f, seqs, Len(seqs))
  BY FlatteningExists
<1>2. FlattenSeq(seqs) = f[Len(seqs)]
  BY DEF FlattenSeq, IsFlattening
<1> QED
  BY <1>1, <1>2

Keys(s) == {s[k].key : k \in DOMAIN s}
Distinct(s) == \A i, j \in DOMAIN s : s[i].key = s[j].key => i = j

LEMMA ConcatHolds ==
  ASSUME NEW S, NEW s \in Seq(S), NEW t \in Seq(S)
  PROVE  /\ s \o t \in Seq(S)
         /\ ToSet(s \o t) = ToSet(s) \cup ToSet(t)
         /\ Keys(s \o t) = Keys(s) \cup Keys(t)
         /\ Distinct(s) /\ Distinct(t) /\ Keys(s) \cap Keys(t) = {} => Distinct(s \o t)
<1> DEFINE u == s \o t
<1>1. /\ u \in Seq(S) /\ Len(u) = Len(s) + Len(t)
      /\ \A i \in 1..Len(s) : u[i] = s[i]
      /\ \A i \in 1..Len(t) : u[Len(s) + i] = t[i]
  OBVIOUS
<1>2. /\ Len(s) \in Nat /\ Len(t) \in Nat
      /\ DOMAIN s = 1..Len(s) /\ DOMAIN t = 1..Len(t) /\ DOMAIN u = 1..(Len(s) + Len(t))
  BY <1>1
<1> HIDE DEF u
<1>3. ASSUME NEW i \in DOMAIN u
      PROVE  (i \in DOMAIN s /\ u[i] = s[i]) \/ (i - Len(s) \in DOMAIN t /\ u[i] = t[i - Len(s)])
  <2>1. CASE i <= Len(s)
    BY <2>1, <1>1, <1>2
  <2>2. CASE i > Len(s)
    <3>1. i - Len(s) \in 1..Len(t) /\ Len(s) + (i - Len(s)) = i
      BY <2>2, <1>2
    <3> QED
      BY <3>1, <1>1, <1>2
  <2> QED
    BY <2>1, <2>2, <1>2
<1>4. \A i \in DOMAIN s : i \in DOMAIN u /\ u[i] = s[i]
  BY <1>1, <1>2
<1>5. \A i \in DOMAIN t : Len(s) + i \in DOMAIN u /\ u[Len(s) + i] = t[i]
  BY <1>1, <1>2
<1>6. ToSet(u) = ToSet(s) \cup ToSet(t)
  BY <1>3, <1>4, <1>5 DEF ToSet
<1>7. Keys(u) = Keys(s) \cup Keys(t)
  BY <1>3, <1>4, <1>5 DEF Keys
<1>8. ASSUME Distinct(s), Distinct(t), Keys(s) \cap Keys(t) = {},
             NEW i \in DOMAIN u, NEW j \in DOMAIN u, u[i].key = u[j].key
      PROVE  i = j
  <2>1. CASE i \in DOMAIN s /\ u[i] = s[i] /\ j \in DOMAIN s /\ u[j] = s[j]
    BY <2>1, <1>8 DEF Distinct
  <2>2. CASE i - Len(s) \in DOMAIN t /\ u[i] = t[i - Len(s)] /\ j - Len(s) \in DOMAIN t /\ u[j] = t[j - Len(s)]
    <3>1. i - Len(s) = j - Len(s)
      BY <2>2, <1>8 DEF Distinct
    <3> QED
      BY <3>1, <1>2
  <2>3. CASE i \in DOMAIN s /\ u[i] = s[i] /\ j - Len(s) \in DOMAIN t /\ u[j] = t[j - Len(s)]
    BY <2>3, <1>8 DEF Keys
  <2>4. CASE j \in DOMAIN s /\ u[j] = s[j] /\ i - Len(s) \in DOMAIN t /\ u[i] = t[i - Len(s)]
    BY <2>4, <1>8 DEF Keys
  <2> QED
    BY <2>1, <2>2, <2>3, <2>4, <1>3
<1> QED
  BY <1>1, <1>6, <1>7, <1>8 DEF u, Distinct

LEMMA FlattenHolds ==
  ASSUME NEW S, NEW seqs \in Seq(Seq(S)), Len(seqs) > 0
  PROVE  /\ FlattenSeq(seqs) \in Seq(S)
         /\ ToSet(FlattenSeq(seqs)) = UNION {ToSet(seqs[k]) : k \in DOMAIN seqs}
         /\ (\A k, l \in DOMAIN seqs : /\ Distinct(seqs[k])
                                       /\ k # l => Keys(seqs[k]) \cap Keys(seqs[l]) = {})
              => Distinct(FlattenSeq(seqs))
<1> DEFINE n == Len(seqs)
<1>1. n \in Nat \ {0} /\ DOMAIN seqs = 1..n /\ \A k \in 1..n : seqs[k] \in Seq(S)
  OBVIOUS
<1>2. PICK f : IsFlattening(f, seqs, n) /\ FlattenSeq(seqs) = f[n]
  BY <1>1, FlattenIs
<1>3. \A k \in 1..n : f[k] = IF k = 1 THEN seqs[k] ELSE f[k - 1] \o seqs[k]
  BY <1>2 DEF IsFlattening
<1> DEFINE Disjoint == \A k, l \in 1..n : /\ Distinct(seqs[k])
                                          /\ k # l => Keys(seqs[k]) \cap Keys(seqs[l]) = {}
           SoFar(m) == /\ f[m] \in Seq(S)
                       /\ ToSet(f[m]) = UNION {ToSet(seqs[k]) : k \in 1..m}
                       /\ Keys(f[m]) = UNION {Keys(seqs[k]) : k \in 1..m}
                       /\ Disjoint => Distinct(f[m])
           T == {m \in Nat : m \in 1..n => SoFar(m)}
<1> HIDE DEF n
<1>4. 0 \in T
  OBVIOUS
<1> HIDE DEF SoFar
<1>5. ASSUME NEW m \in Nat, m \in T, m + 1 \in 1..n
      PROVE  SoFar(m + 1)
  <2>1. CASE m = 0
    <3>1. f[1] = seqs[1] /\ 1..1 = {1}
      BY <1>3, <1>1
    <3>2. seqs[1] \in Seq(S) /\ (Disjoint => Distinct(seqs[1]))
      BY <1>1
    <3>3. SoFar(1)
      BY <3>1, <3>2 DEF SoFar
    <3>4. m + 1 = 1
      BY <2>1
    <3> QED
      BY <3>3, <3>4
  <2>2. CASE m # 0
    <3>1. SoFar(m) /\ m \in 1..n
      <4>1. m \in 1..n
        BY <1>1, <1>5, <2>2
      <4> QED
        BY <1>5, <4>1
    <3>2. f[m + 1] = f[m] \o seqs[m + 1]
      <4>1. m + 1 # 1 /\ (m + 1) - 1 = m
        BY <2>2
      <4> QED
        BY <1>3, <1>5, <4>1
    <3>3. seqs[m + 1] \in Seq(S) /\ 1..(m + 1) = (1..m) \cup {m + 1}
      BY <1>1, <1>5
    <3> DEFINE a == f[m]
               b == seqs[m + 1]
    <3>4. a \in Seq(S) /\ b \in Seq(S)
      BY <3>1, <3>3 DEF SoFar
    <3>5. Disjoint => Keys(a) \cap Keys(b) = {} /\ Distinct(b)
      <4> SUFFICES ASSUME Disjoint PROVE Keys(a) \cap Keys(b) = {} /\ Distinct(b)
        OBVIOUS
      <4>1. Keys(a) = UNION {Keys(seqs[k]) : k \in 1..m}
        BY <3>1 DEF SoFar
      <4>2. \A k \in 1..m : Keys(seqs[k]) \cap Keys(b) = {}
        BY <1>5, <3>1, <1>1, \A k \in 1..m : k \in 1..n /\ k # m + 1
      <4>3. Distinct(b)
        BY <1>5
      <4> QED
        BY <4>1, <4>2, <4>3
    <3> HIDE DEF a, b
    <3>6. /\ a \o b \in Seq(S) /\ ToSet(a \o b) = ToSet(a) \cup ToSet(b)
          /\ Keys(a \o b) = Keys(a) \cup Keys(b)
          /\ Distinct(a) /\ Distinct(b) /\ Keys(a) \cap Keys(b) = {} => Distinct(a \o b)
      BY <3>4, ConcatHolds
    <3>7. f[m + 1] \in Seq(S) /\ (Disjoint => Distinct(f[m + 1]))
      BY <3>1, <3>2, <3>5, <3>6 DEF a, b, SoFar
    <3>8. ToSet(f[m + 1]) = UNION {ToSet(seqs[k]) : k \in 1..(m + 1)}
      BY <3>1, <3>2, <3>3, <3>6 DEF a, b, SoFar
    <3>9. Keys(f[m + 1]) = UNION {Keys(seqs[k]) : k \in 1..(m + 1)}
      BY <3>1, <3>2, <3>3, <3>6 DEF a, b, SoFar
    <3> QED
      BY <3>7, <3>8, <3>9 DEF SoFar
  <2> QED
    BY <2>1, <2>2
<1>6. \A m \in Nat : m \in T => m + 1 \in T
  BY <1>5
<1> HIDE DEF T
<1>7. \A m \in Nat : m \in T
  BY <1>4, <1>6, NumbersByInduction
<1>8. SoFar(n)
  BY <1>1, <1>7 DEF T
<1> QED
  BY <1>8, <1>1, <1>2 DEF SoFar, n

-----------------------------------------------------------------------------
(* The table: every entry in the chain of its hash, no key twice.           *)

Entry == {x \in [key : Key, val : Val, h_hash : Nat] : x.h_hash = Hash[x.key]}

TableOK(tab, n) ==
  /\ tab \in [Buckets(n) -> Seq(Entry)]
  /\ \A b \in Buckets(n) :
       Distinct(tab[b]) /\ \A i \in DOMAIN tab[b] : tab[b][i].h_hash % n = b

Entries(tab) == UNION {ToSet(tab[b]) : b \in DOMAIN tab}

LEMMA TableSize ==
  ASSUME NEW n \in Nat \ {0}, NEW tab, DOMAIN tab = Buckets(n)
  PROVE  Cardinality(DOMAIN tab) = n
<1>1. Cardinality(0..(n - 1)) = n
  BY FS_Interval
<1> QED
  BY <1>1 DEF Buckets

LEMMA BucketOf ==
  ASSUME NEW n \in Nat \ {0}, NEW h \in Nat
  PROVE  h % n \in Buckets(n)
BY DEF Buckets

LEMMA PlaceIs ==
  ASSUME NEW S, NEW chain \in Seq(S), NEW key
  PROVE  /\ Place(chain, key) = 0 => \A k \in DOMAIN chain : chain[k].key # key
         /\ Place(chain, key) # 0 =>
              Place(chain, key) \in DOMAIN chain /\ chain[Place(chain, key)].key = key
<1> DEFINE I == {k \in 1..Len(chain) : chain[k].key = key}
<1>1. DOMAIN chain = 1..Len(chain) /\ I \in SUBSET Nat /\ 0 \notin I
  OBVIOUS
<1>2. Place(chain, key) = IF I # {} THEN Min(I) ELSE 0
  BY DEF Place, SelectInSeq
<1>3. ASSUME I # {} PROVE Min(I) \in I
  <2>1. \E m \in I : \A k \in I : m <= k
    BY <1>1, <1>3, LeastNumber
  <2> QED
    BY <2>1 DEF Min
<1> QED
  BY <1>1, <1>2, <1>3

LEMMA EntriesAre ==
  ASSUME NEW n \in Nat \ {0}, NEW tab, TableOK(tab, n), NEW x
  PROVE  x \in Entries(tab) <=>
           /\ x \in Entry
           /\ Hash[x.key] % n \in Buckets(n)
           /\ \E k \in DOMAIN tab[Hash[x.key] % n] : x = tab[Hash[x.key] % n][k]
<1>1. ASSUME NEW b \in Buckets(n), NEW k \in DOMAIN tab[b], x = tab[b][k]
      PROVE  x \in Entry /\ Hash[x.key] % n = b
  <2>1. tab[b] \in Seq(Entry)
    BY DEF TableOK
  <2>2. tab[b][k] \in Entry /\ tab[b][k].h_hash % n = b
    BY <2>1 DEF TableOK
  <2> QED
    BY <2>2, <1>1 DEF Entry
<1>2. x \in Entries(tab) <=> \E b \in Buckets(n) : \E k \in DOMAIN tab[b] : x = tab[b][k]
  BY DEF Entries, ToSet, TableOK
<1> QED
  BY <1>1, <1>2

LEMMA KeysOnce ==
  ASSUME NEW n \in Nat \ {0}, NEW tab, TableOK(tab, n),
         NEW x \in Entries(tab), NEW y \in Entries(tab), x.key = y.key
  PROVE  x = y
<1> DEFINE b == Hash[x.key] % n
<1>1. b \in Buckets(n) /\ \E k \in DOMAIN tab[b] : x = tab[b][k]
  BY EntriesAre
<1>2. \E k \in DOMAIN tab[b] : y = tab[b][k]
  BY EntriesAre, x.key = y.key
<1>3. Distinct(tab[b])
  BY <1>1 DEF TableOK
<1> HIDE DEF b
<1> QED
  BY <1>1, <1>2, <1>3 DEF Distinct

LEMMA SearchFinds ==
  ASSUME NEW n \in Nat \ {0}, NEW tab, TableOK(tab, n), NEW key \in Key
  PROVE  /\ \A x \in Entries(tab) : x.key = key => ht_search_in(tab, key) = x.val
         /\ (\A x \in Entries(tab) : x.key # key) => ht_search_in(tab, key) = HT_NIL_VAL
<1> DEFINE b == Hash[key] % n
           c == tab[b]
<1>1. Cardinality(DOMAIN tab) = n
  BY TableSize DEF TableOK
<1>2. b \in Buckets(n)
  BY BucketOf, HashTableAssumption
<1>3. c \in Seq(Entry)
  BY <1>2 DEF TableOK
<1>4. ht_search_in(tab, key) = IF Place(c, key) = 0 THEN HT_NIL_VAL ELSE c[Place(c, key)].val
  BY <1>1 DEF ht_search_in, Bucket
<1>5. \A k \in DOMAIN c : c[k] \in Entries(tab)
  BY <1>2 DEF Entries, ToSet, TableOK
<1>6. ASSUME NEW x \in Entries(tab), x.key = key
      PROVE  \E k \in DOMAIN c : x = c[k]
  BY <1>6, EntriesAre
<1> HIDE DEF c
<1>7. /\ Place(c, key) = 0 => \A k \in DOMAIN c : c[k].key # key
      /\ Place(c, key) # 0 => Place(c, key) \in DOMAIN c /\ c[Place(c, key)].key = key
  BY <1>3, PlaceIs
<1>8. ASSUME NEW x \in Entries(tab), x.key = key
      PROVE  ht_search_in(tab, key) = x.val
  <2>1. Place(c, key) # 0
    BY <1>6, <1>7, <1>8
  <2>2. c[Place(c, key)] = x
    BY <2>1, <1>5, <1>7, <1>8, KeysOnce
  <2> QED
    BY <2>1, <2>2, <1>4
<1>9. ASSUME \A x \in Entries(tab) : x.key # key
      PROVE  ht_search_in(tab, key) = HT_NIL_VAL
  <2>1. Place(c, key) = 0
    BY <1>5, <1>7, <1>9
  <2> QED
    BY <2>1, <1>4
<1> QED
  BY <1>8, <1>9

Replaced(tab, b, c) == [tab EXCEPT ![b] = c]

\* A chain put in the place of another changes the entries of that chain alone.
LEMMA ChainReplaced ==
  ASSUME NEW n \in Nat \ {0}, NEW tab, TableOK(tab, n), NEW b \in Buckets(n),
         NEW c \in Seq(Entry), Distinct(c), \A k \in DOMAIN c : c[k].h_hash % n = b
  PROVE  /\ TableOK(Replaced(tab, b, c), n)
         /\ Entries(Replaced(tab, b, c)) = (Entries(tab) \ ToSet(tab[b])) \cup ToSet(c)
<1> DEFINE new == Replaced(tab, b, c)
<1>1. /\ DOMAIN new = Buckets(n) /\ DOMAIN tab = Buckets(n)
      /\ \A d \in Buckets(n) : new[d] = IF d = b THEN c ELSE tab[d]
      /\ new \in [Buckets(n) -> Seq(Entry)]
  BY DEF TableOK, Replaced
<1> HIDE DEF new
<1>2. TableOK(new, n)
  BY <1>1 DEF TableOK
<1>3. \A d \in Buckets(n) \ {b} : ToSet(tab[d]) \cap ToSet(tab[b]) = {}
  BY DEF ToSet, TableOK
<1>4. Entries(new) = (Entries(tab) \ ToSet(tab[b])) \cup ToSet(c)
  <2>1. \A x : x \in Entries(new) <=> \E d \in Buckets(n) : x \in ToSet(new[d])
    BY <1>1 DEF Entries
  <2>2. \A x : x \in Entries(tab) <=> \E d \in Buckets(n) : x \in ToSet(tab[d])
    BY <1>1 DEF Entries
  <2> QED
    BY <2>1, <2>2, <1>1, <1>3
<1> QED
  BY <1>2, <1>4 DEF new

LEMMA OneEntry ==
  ASSUME NEW x \in Entry
  PROVE  <<x>> \in Seq(Entry) /\ ToSet(<<x>>) = {x} /\ Keys(<<x>>) = {x.key} /\ Distinct(<<x>>)
BY DEF ToSet, Keys, Distinct

\* ht_insert and ht_expand: an entry at the head of its chain.
LEMMA LinkKeeps ==
  ASSUME NEW n \in Nat \ {0}, NEW tab, TableOK(tab, n),
         NEW x \in Entry, \A y \in Entries(tab) : y.key # x.key
  PROVE  TableOK(Link(tab, x), n) /\ Entries(Link(tab, x)) = Entries(tab) \cup {x}
<1> DEFINE b == x.h_hash % n
           h == <<x>>
           c == h \o tab[b]
<1>1. Cardinality(DOMAIN tab) = n
  BY TableSize DEF TableOK
<1>2. b \in Buckets(n)
  BY BucketOf DEF Entry
<1>3. Link(tab, x) = Replaced(tab, b, c)
  BY <1>1 DEF Link, Bucket, Replaced
<1>4. tab[b] \in Seq(Entry) /\ Distinct(tab[b]) /\ \A k \in DOMAIN tab[b] : tab[b][k].h_hash % n = b
  BY <1>2 DEF TableOK
<1>5. ToSet(tab[b]) \subseteq Entries(tab)
  BY <1>2 DEF Entries, TableOK
<1>6. h \in Seq(Entry) /\ ToSet(h) = {x} /\ Keys(h) = {x.key} /\ Distinct(h) /\ x.h_hash % n = b
  BY OneEntry
<1> HIDE DEF h, b
<1>10. Keys(h) \cap Keys(tab[b]) = {}
  <2>1. \A k \in DOMAIN tab[b] : tab[b][k].key # x.key
    BY <1>5 DEF ToSet
  <2>2. x.key \notin Keys(tab[b])
    BY <2>1 DEF Keys
  <2> QED BY <1>6, <2>2
<1>7. /\ c \in Seq(Entry) /\ ToSet(c) = {x} \cup ToSet(tab[b]) /\ Distinct(c)
  BY <1>4, <1>6, <1>10, ConcatHolds
<1> HIDE DEF c
<1>8. \A k \in DOMAIN c : c[k].h_hash % n = b
  <2>1. \A y \in ToSet(tab[b]) : y.h_hash % n = b
    BY <1>4 DEF ToSet
  <2>2. \A y \in ToSet(c) : y.h_hash % n = b
    BY <2>1, <1>6, <1>7
  <2> QED
    BY <2>2 DEF ToSet
<1>9. TableOK(Replaced(tab, b, c), n)
      /\ Entries(Replaced(tab, b, c)) = (Entries(tab) \ ToSet(tab[b])) \cup ToSet(c)
  BY <1>2, <1>7, <1>8, ChainReplaced
<1> QED
  BY <1>3, <1>5, <1>7, <1>9

LEMMA RemovedAt ==
  ASSUME NEW S, NEW s \in Seq(S), NEW at \in DOMAIN s
  PROVE  /\ RemoveAt(s, at) \in Seq(S)
         /\ DOMAIN RemoveAt(s, at) = 1..(Len(s) - 1)
         /\ \A k \in 1..(Len(s) - 1) : RemoveAt(s, at)[k] = IF k < at THEN s[k] ELSE s[k + 1]
<1> DEFINE a == SubSeq(s, 1, at - 1)
           z == SubSeq(s, at + 1, Len(s))
<1>1. Len(s) \in Nat /\ at \in 1..Len(s) /\ DOMAIN s = 1..Len(s)
  OBVIOUS
<1>2. /\ a \in Seq(S) /\ Len(a) = at - 1 /\ \A k \in 1..(at - 1) : a[k] = s[k]
  BY <1>1
<1>3. /\ z \in Seq(S) /\ Len(z) = Len(s) - at /\ \A k \in 1..(Len(s) - at) : z[k] = s[at + k]
  BY <1>1
<1> HIDE DEF a, z
<1>4. /\ a \o z \in Seq(S) /\ Len(a \o z) = Len(a) + Len(z)
      /\ \A k \in 1..(Len(a) + Len(z)) :
           (a \o z)[k] = IF k <= Len(a) THEN a[k] ELSE z[k - Len(a)]
  BY <1>2, <1>3, ConcatProperties
<1>5. Len(a) + Len(z) = Len(s) - 1
  BY <1>1, <1>2, <1>3
<1>6. ASSUME NEW k \in 1..(Len(s) - 1)
      PROVE  (a \o z)[k] = IF k < at THEN s[k] ELSE s[k + 1]
  <2>1. CASE k < at
    <3>1. k <= Len(a) /\ k \in 1..(at - 1)
      BY <2>1, <1>1, <1>2
    <3> QED
      BY <3>1, <2>1, <1>2, <1>4, <1>5
  <2>2. CASE ~ (k < at)
    <3>1. /\ k - Len(a) \in 1..(Len(s) - at) /\ at + (k - Len(a)) = k + 1
          /\ ~ (k <= Len(a))
      BY <2>2, <1>1, <1>2
    <3>2. (a \o z)[k] = z[k - Len(a)]
      BY <3>1, <1>4, <1>5
    <3>3. z[k - Len(a)] = s[k + 1]
      BY <3>1, <1>3
    <3> QED
      BY <3>2, <3>3, <2>2
  <2> QED
    BY <2>1, <2>2
<1>7. DOMAIN (a \o z) = 1..(Len(s) - 1)
  BY <1>4, <1>5
<1>8. RemoveAt(s, at) = a \o z
  BY DEF RemoveAt, a, z
<1> QED
  BY <1>4, <1>6, <1>7, <1>8

Without(tab, b, at) == Replaced(tab, b, RemoveAt(tab[b], at))

\* ht_delete: an entry out of its chain, wherever it stands in it.
LEMMA RemoveKeeps ==
  ASSUME NEW n \in Nat \ {0}, NEW tab, TableOK(tab, n),
         NEW b \in Buckets(n), NEW at \in DOMAIN tab[b]
  PROVE  /\ TableOK(Without(tab, b, at), n)
         /\ Entries(Without(tab, b, at)) = Entries(tab) \ {tab[b][at]}
<1> DEFINE s == tab[b]
           c == RemoveAt(s, at)
           size == Len(s)
<1>1. s \in Seq(Entry) /\ Distinct(s) /\ \A k \in DOMAIN s : s[k].h_hash % n = b
  BY DEF TableOK
<1>2. size \in Nat /\ DOMAIN s = 1..size /\ at \in 1..size
  BY <1>1
<1>3. /\ c \in Seq(Entry) /\ DOMAIN c = 1..(size - 1)
      /\ \A k \in 1..(size - 1) : c[k] = IF k < at THEN s[k] ELSE s[k + 1]
  BY <1>1, RemovedAt
<1> HIDE DEF s, c, size
<1>4. Distinct(c) /\ \A k \in DOMAIN c : c[k].h_hash % n = b
  <2>1. \A k \in 1..(size - 1) : \E l \in 1..size : l # at /\ c[k] = s[l] /\ l = IF k < at THEN k ELSE k + 1
    BY <1>2, <1>3
  <2>2. \A k \in DOMAIN c : c[k].h_hash % n = b
    <3> TAKE k \in DOMAIN c
    <3>1. PICK l \in 1..size : c[k] = s[l]
      BY <2>1, <1>3
    <3> QED BY <3>1, <1>1, <1>2
  <2>3. ASSUME NEW i \in DOMAIN c, NEW j \in DOMAIN c, c[i].key = c[j].key
        PROVE  i = j
    <3>1. PICK k \in 1..size : c[i] = s[k] /\ k = IF i < at THEN i ELSE i + 1
      BY <2>1, <1>3
    <3>2. PICK l \in 1..size : c[j] = s[l] /\ l = IF j < at THEN j ELSE j + 1
      BY <2>1, <1>3
    <3>3. k = l
      BY <3>1, <3>2, <2>3, <1>1, <1>2 DEF Distinct
    <3> QED
      BY <3>1, <3>2, <3>3, <1>2, <1>3
  <2> QED
    BY <2>2, <2>3 DEF Distinct
<1>5. ToSet(c) = ToSet(s) \ {s[at]}
  <2>1. \A k \in 1..(size - 1) : c[k] \in ToSet(s) /\ c[k] # s[at]
    <3> TAKE k \in 1..(size - 1)
    <3>1. PICK l \in 1..size : l # at /\ c[k] = s[l]
      BY <1>2, <1>3
    <3> QED
      BY <3>1, <1>1, <1>2 DEF ToSet, Distinct
  <2>2. \A l \in 1..size : l # at => \E k \in 1..(size - 1) : c[k] = s[l]
    <3> TAKE l \in 1..size
    <3> HAVE l # at
    <3>1. CASE l < at
      <4>1. l \in 1..(size - 1)
        BY <3>1, <1>2
      <4> QED
        BY <4>1, <3>1, <1>3
    <3>2. CASE l > at
      <4>1. l - 1 \in 1..(size - 1) /\ ~ (l - 1 < at) /\ (l - 1) + 1 = l
        BY <3>2, <1>2
      <4> QED
        BY <4>1, <1>3
    <3> QED
      BY <3>1, <3>2, <1>2
  <2>3. \A y \in ToSet(c) : \E k \in 1..(size - 1) : y = c[k]
    BY <1>3 DEF ToSet
  <2>4. \A y \in ToSet(s) \ {s[at]} : \E l \in 1..size : l # at /\ y = s[l]
    BY <1>2 DEF ToSet
  <2>5. \A k \in 1..(size - 1) : c[k] \in ToSet(c)
    BY <1>3 DEF ToSet
  <2> QED
    BY <2>1, <2>2, <2>3, <2>4, <2>5
<1>6. TableOK(Replaced(tab, b, c), n)
      /\ Entries(Replaced(tab, b, c)) = (Entries(tab) \ ToSet(tab[b])) \cup ToSet(c)
  <2>1. c \in Seq(Entry)
    BY <1>3
  <2> QED
    BY <2>1, <1>4, ChainReplaced
<1>7. ToSet(s) \subseteq Entries(tab)
  BY DEF Entries, TableOK, s
<1>8. s[at] \in ToSet(s)
  BY <1>2 DEF ToSet
<1> QED
  BY <1>5, <1>6, <1>7, <1>8 DEF s, c, Without

-----------------------------------------------------------------------------
(* ht_expand: its recursive function, and what the new table holds.          *)

EmptyTable(n) == [b \in Buckets(n) |-> <<>>]

IsMoving(f, all, n, m) ==
  f = [k \in 0..m |-> IF k = 0 THEN EmptyTable(n) ELSE Link(f[k - 1], all[k])]

LEMMA MovingExists ==
  ASSUME NEW all, NEW n
  PROVE  \A m \in Nat : \E f : IsMoving(f, all, n, m)
<1> DEFINE T == {m \in Nat : \E f : IsMoving(f, all, n, m)}
<1>1. 0 \in T
  <2> DEFINE g == [k \in 0..0 |-> EmptyTable(n)]
  <2>1. g = [k \in 0..0 |-> IF k = 0 THEN EmptyTable(n) ELSE Link(g[k - 1], all[k])]
    OBVIOUS
  <2> QED
    BY <2>1 DEF IsMoving
<1>2. ASSUME NEW m \in Nat, m \in T
      PROVE  m + 1 \in T
  <2>1. PICK f : IsMoving(f, all, n, m)
    BY <1>2
  <2> DEFINE g == [k \in 0..(m + 1) |-> IF k <= m THEN f[k] ELSE Link(f[k - 1], all[k])]
  <2>2. \A k \in 0..(m + 1) : g[k] = IF k = 0 THEN EmptyTable(n) ELSE Link(g[k - 1], all[k])
    <3> TAKE k \in 0..(m + 1)
    <3>1. CASE k = m + 1
      BY <3>1
    <3>2. CASE k <= m
      <4>1. \A j \in 0..m : f[j] = IF j = 0 THEN EmptyTable(n) ELSE Link(f[j - 1], all[j])
        BY <2>1 DEF IsMoving
      <4>2. k \in 0..m /\ g[k] = f[k] /\ (k # 0 => k - 1 \in 0..(m + 1) /\ g[k - 1] = f[k - 1])
        BY <3>2
      <4> QED
        BY <4>1, <4>2
    <3> QED
      BY <3>1, <3>2
  <2>3. IsMoving(g, all, n, m + 1)
    BY <2>2 DEF IsMoving
  <2> QED
    BY <2>3
<1> HIDE DEF T
<1>3. \A m \in Nat : m \in T
  BY <1>1, <1>2, NumbersByInduction
<1> QED
  BY <1>3 DEF T

LEMMA EmptyTableOK ==
  ASSUME NEW n \in Nat \ {0}
  PROVE  TableOK(EmptyTable(n), n) /\ Entries(EmptyTable(n)) = {}
<1>1. EmptyTable(n) \in [Buckets(n) -> Seq(Entry)]
  BY DEF EmptyTable
<1>2. \A b \in Buckets(n) : EmptyTable(n)[b] = <<>> /\ DOMAIN EmptyTable(n)[b] = {}
  BY DEF EmptyTable
<1>3. DOMAIN EmptyTable(n) = Buckets(n)
  BY <1>1
<1>4. TableOK(EmptyTable(n), n)
  BY <1>1, <1>2 DEF TableOK, Distinct
<1>5. Entries(EmptyTable(n)) = {}
  BY <1>2, <1>3 DEF Entries, ToSet
<1> QED
  BY <1>4, <1>5

\* The old chains, one after the other, hold every entry once.
AllOf(tab, n) == FlattenSeq([k \in 1..n |-> tab[k - 1]])

LEMMA AllHolds ==
  ASSUME NEW n \in Nat \ {0}, NEW tab, TableOK(tab, n)
  PROVE  AllOf(tab, n) \in Seq(Entry) /\ ToSet(AllOf(tab, n)) = Entries(tab) /\ Distinct(AllOf(tab, n))
<1> DEFINE seqs == [k \in 1..n |-> tab[k - 1]]
<1>1. \A k \in 1..n : k - 1 \in Buckets(n)
  BY DEF Buckets
<1>2. \A k \in 1..n : tab[k - 1] \in Seq(Entry)
  BY <1>1 DEF TableOK
<1>3. /\ seqs \in Seq(Seq(Entry)) /\ Len(seqs) = n /\ Len(seqs) > 0 /\ DOMAIN seqs = 1..n
      /\ \A k \in 1..n : seqs[k] = tab[k - 1]
  BY <1>2
<1> HIDE DEF seqs
<1>4. UNION {ToSet(seqs[k]) : k \in DOMAIN seqs} = Entries(tab)
  <2>1. \A b \in Buckets(n) : b + 1 \in 1..n /\ (b + 1) - 1 = b
    BY DEF Buckets
  <2>2. DOMAIN tab = Buckets(n)
    BY DEF TableOK
  <2>3. \A b \in Buckets(n) : tab[b] = seqs[b + 1]
    BY <2>1, <1>3
  <2> QED
    BY <1>1, <1>3, <2>1, <2>2, <2>3 DEF Entries
<1>5. ASSUME NEW k \in 1..n, NEW l \in 1..n, k # l
      PROVE  Keys(seqs[k]) \cap Keys(seqs[l]) = {}
  <2>1. \A b \in Buckets(n) : \A key \in Keys(tab[b]) : Hash[key] % n = b
    <3> SUFFICES ASSUME NEW b \in Buckets(n), NEW i \in DOMAIN tab[b]
                 PROVE  Hash[tab[b][i].key] % n = b
      BY DEF Keys
    <3>1. tab[b] \in Seq(Entry) /\ tab[b][i].h_hash % n = b
      BY DEF TableOK
    <3>2. tab[b][i] \in Entry
      BY <3>1
    <3> QED
      BY <3>1, <3>2 DEF Entry
  <2>2. k - 1 # l - 1
    BY <1>5
  <2>3. Keys(tab[k - 1]) \cap Keys(tab[l - 1]) = {}
    BY <2>1, <2>2, <1>1
  <2> QED
    BY <2>3, <1>3
<1>6. \A k \in 1..n : Distinct(seqs[k])
  BY <1>1, <1>3 DEF TableOK
<1>7. /\ FlattenSeq(seqs) \in Seq(Entry)
      /\ ToSet(FlattenSeq(seqs)) = UNION {ToSet(seqs[k]) : k \in DOMAIN seqs}
      /\ Distinct(FlattenSeq(seqs))
  BY <1>3, <1>5, <1>6, FlattenHolds
<1> QED
  BY <1>4, <1>7 DEF AllOf, seqs

\* The larger table holds what the smaller one did.
LEMMA ExpandKeeps ==
  ASSUME NEW n \in Nat \ {0}, NEW tab, TableOK(tab, n)
  PROVE  TableOK(ht_expand(tab), 2 * n) /\ Entries(ht_expand(tab)) = Entries(tab)
<1> DEFINE all == AllOf(tab, n)
           size == 2 * n
<1>1. size \in Nat \ {0}
  OBVIOUS
<1>2. all \in Seq(Entry) /\ ToSet(all) = Entries(tab) /\ Distinct(all)
  BY AllHolds
<1>3. Cardinality(DOMAIN tab) = n
  BY TableSize DEF TableOK
<1>4. ht_expand(tab) = (CHOOSE f : IsMoving(f, all, size, Len(all)))[Len(all)]
  BY <1>3 DEF ht_expand, IsMoving, EmptyTable, AllOf
<1> HIDE DEF all, size
<1>5. Len(all) \in Nat /\ DOMAIN all = 1..Len(all) /\ \A k \in 1..Len(all) : all[k] \in Entry
  BY <1>2
<1>6. PICK f : IsMoving(f, all, size, Len(all)) /\ ht_expand(tab) = f[Len(all)]
  BY <1>4, <1>5, MovingExists
<1>7. \A k \in 0..Len(all) : f[k] = IF k = 0 THEN EmptyTable(size) ELSE Link(f[k - 1], all[k])
  BY <1>6 DEF IsMoving
<1> DEFINE SoFar(m) == TableOK(f[m], size) /\ Entries(f[m]) = {all[k] : k \in 1..m}
           T == {m \in Nat : m <= Len(all) => SoFar(m)}
<1> HIDE DEF SoFar
<1>8. 0 \in T
  <2>1. f[0] = EmptyTable(size)
    BY <1>5, <1>7
  <2>2. {all[k] : k \in 1..0} = {}
    OBVIOUS
  <2>3. SoFar(0)
    BY <2>1, <2>2, <1>1, EmptyTableOK DEF SoFar
  <2> QED
    BY <2>3
<1>9. ASSUME NEW m \in Nat, m \in T, m + 1 <= Len(all)
      PROVE  SoFar(m + 1)
  <2>1. SoFar(m)
    BY <1>5, <1>9
  <2>2. m + 1 \in 0..Len(all) /\ m + 1 # 0 /\ (m + 1) - 1 = m /\ m + 1 \in 1..Len(all)
    BY <1>5, <1>9
  <2>3. f[m + 1] = Link(f[m], all[m + 1])
    BY <1>7, <2>2
  <2>4. \A k \in 1..m : all[k].key # all[m + 1].key
    BY <1>2, <1>5, <2>2 DEF Distinct
  <2>5. \A y \in Entries(f[m]) : y.key # all[m + 1].key
    BY <2>1, <2>4 DEF SoFar
  <2> DEFINE x == all[m + 1]
             t == f[m]
  <2>6. x \in Entry /\ TableOK(t, size) /\ \A y \in Entries(t) : y.key # x.key
    BY <1>5, <2>1, <2>2, <2>5 DEF SoFar
  <2> HIDE DEF x, t
  <2>7. TableOK(Link(t, x), size) /\ Entries(Link(t, x)) = Entries(t) \cup {x}
    BY <1>1, <2>6, LinkKeeps
  <2>8. 1..(m + 1) = 1..m \cup {m + 1}
    OBVIOUS
  <2>9. Entries(f[m + 1]) = {all[k] : k \in 1..(m + 1)}
    BY <2>1, <2>3, <2>7, <2>8 DEF SoFar, x, t
  <2> QED
    BY <2>3, <2>7, <2>9 DEF SoFar, x, t
<1>10. \A m \in Nat : m \in T => m + 1 \in T
  BY <1>9
<1> HIDE DEF T
<1>11. \A m \in Nat : m \in T
  BY <1>8, <1>10, NumbersByInduction
<1>12. SoFar(Len(all))
  BY <1>5, <1>11 DEF T
<1> QED
  BY <1>2, <1>5, <1>6, <1>12 DEF SoFar, ToSet, size

-----------------------------------------------------------------------------
(* The map that a set of entries is.                                        *)

KeysOf(E) == {x.key : x \in E}
MapOf(E) == [k \in KeysOf(E) |-> (CHOOSE x \in E : x.key = k).val]

Once(E) == \A x, y \in E : x.key = y.key => x = y

LEMMA MapValue ==
  ASSUME NEW E, Once(E), NEW x \in E
  PROVE  x.key \in DOMAIN MapOf(E) /\ MapOf(E)[x.key] = x.val
<1>1. (CHOOSE y \in E : y.key = x.key) = x
  BY DEF Once
<1> QED
  BY <1>1 DEF MapOf, KeysOf

LEMMA MapWith ==
  ASSUME NEW E, Once(E), NEW x, \A y \in E : y.key # x.key
  PROVE  MapOf(E \cup {x}) =
           [k \in DOMAIN MapOf(E) \cup {x.key} |-> IF k = x.key THEN x.val ELSE MapOf(E)[k]]
<1> DEFINE now == E \cup {x}
<1>1. Once(now)
  BY DEF Once
<1>2. DOMAIN MapOf(now) = DOMAIN MapOf(E) \cup {x.key} /\ DOMAIN MapOf(now) = KeysOf(now)
  BY DEF MapOf, KeysOf
<1>3. \A y \in now : MapOf(now)[y.key] = y.val
  BY <1>1, MapValue
<1>4. \A y \in E : MapOf(E)[y.key] = y.val
  BY MapValue
<1>5. \A k \in KeysOf(now) : MapOf(now)[k] = IF k = x.key THEN x.val ELSE MapOf(E)[k]
  BY <1>3, <1>4 DEF KeysOf
<1>6. MapOf(now) = [k \in KeysOf(now) |-> MapOf(now)[k]]
  BY DEF MapOf
<1> QED
  BY <1>2, <1>5, <1>6

LEMMA MapWithout ==
  ASSUME NEW E, Once(E), NEW x \in E
  PROVE  MapOf(E \ {x}) = [k \in DOMAIN MapOf(E) \ {x.key} |-> MapOf(E)[k]]
<1> DEFINE now == E \ {x}
<1>1. Once(now)
  BY DEF Once
<1>2. DOMAIN MapOf(now) = DOMAIN MapOf(E) \ {x.key} /\ DOMAIN MapOf(now) = KeysOf(now)
  BY DEF MapOf, KeysOf, Once
<1>3. \A y \in now : MapOf(now)[y.key] = y.val
  BY <1>1, MapValue
<1>4. \A y \in E : MapOf(E)[y.key] = y.val
  BY MapValue
<1>5. \A k \in KeysOf(now) : MapOf(now)[k] = MapOf(E)[k]
  BY <1>3, <1>4 DEF KeysOf
<1>6. MapOf(now) = [k \in KeysOf(now) |-> MapOf(now)[k]]
  BY DEF MapOf
<1> QED
  BY <1>2, <1>5, <1>6

-----------------------------------------------------------------------------
(* The inductive invariant. *)

\* The table holds every entry in its place and no key twice, in a build with
\* assertions nothing at all; its limit is that of its size.
HtIInv ==
  /\ \E n \in Nat \ {0} : TableOK(ht_tab, n)
  /\ ht_used \in Int /\ ht_lim = LimitOf(ht_size)
  /\ asserts \in BOOLEAN /\ stopped \in BOOLEAN
  /\ asserts => Entries(ht_tab) = {}

LEMMA HeldIs == Held = Entries(ht_tab) /\ Mapped = MapOf(Entries(ht_tab))
BY DEF Held, Entries, Mapped, MapOf, KeysOf

LEMMA HtIInvTypeOK == HtIInv => HtTypeOK
<1> SUFFICES ASSUME HtIInv PROVE HtTypeOK
  OBVIOUS
<1>1. PICK n \in Nat \ {0} : TableOK(ht_tab, n)
  BY DEF HtIInv
<1>2. DOMAIN ht_tab = Buckets(n) /\ ht_size = n
  BY <1>1, TableSize DEF TableOK, ht_size
<1>3. ASSUME NEW b \in Buckets(n)
      PROVE  ToSet(ht_tab[b]) \subseteq
               {x \in [key : Key, val : Val, h_hash : Nat] : x.h_hash % ht_size = b}
  <2>1. ht_tab[b] \in Seq(Entry) /\ \A k \in DOMAIN ht_tab[b] : ht_tab[b][k].h_hash % n = b
    BY <1>1 DEF TableOK
  <2> QED
    BY <2>1, <1>2 DEF ToSet, Entry
<1> QED
  BY <1>2, <1>3 DEF HtTypeOK, HtIInv

LEMMA HtInitIInv == HtInit => HtIInv /\ Mapped = [k \in {} |-> k]
<1> SUFFICES ASSUME HtInit PROVE HtIInv /\ Mapped = [k \in {} |-> k]
  OBVIOUS
<1>1. Size \in Nat \ {0} /\ ht_tab = EmptyTable(Size)
  BY HashTableAssumption DEF HtInit, ht_alloc, EmptyTable
<1>2. TableOK(ht_tab, Size) /\ Entries(ht_tab) = {}
  BY <1>1, EmptyTableOK
<1>3. ht_size = Size
  BY <1>1, <1>2, TableSize DEF TableOK, ht_size
<1>4. HtIInv
  BY <1>1, <1>2, <1>3, HashTableAssumption DEF HtIInv, HtInit, ht_alloc
<1>5. MapOf({}) = [k \in {} |-> k]
  BY DEF MapOf, KeysOf
<1> QED
  BY <1>2, <1>4, <1>5, HeldIs

\* A search finds nothing just when nothing is there: no value is HT_NIL_VAL.
LEMMA NothingFound ==
  ASSUME NEW n \in Nat \ {0}, NEW tab, TableOK(tab, n), NEW key \in Key
  PROVE  ht_search_in(tab, key) = HT_NIL_VAL <=> \A x \in Entries(tab) : x.key # key
<1>1. ASSUME NEW x \in Entries(tab), x.key = key
      PROVE  ht_search_in(tab, key) # HT_NIL_VAL
  <2>1. ht_search_in(tab, key) = x.val
    BY <1>1, SearchFinds
  <2>2. x.val \in Val
    BY EntriesAre DEF Entry
  <2> QED
    BY <2>1, <2>2, HashTableAssumption
<1> QED
  BY <1>1, SearchFinds

LEMMA OnceInTable ==
  ASSUME NEW n \in Nat \ {0}, NEW tab, TableOK(tab, n)
  PROVE  Once(Entries(tab))
BY KeysOnce DEF Once

\* Each call is the map's call, or stops the program and is none.
LEMMA InsertStep ==
  ASSUME HtIInv, NEW key \in Key, NEW val \in Val, ht_insert(key, val)
  PROVE  HtIInv' /\ (Map!Insert(key, val) \/ UNCHANGED <<Mapped, last>>)
<1> DEFINE tab == IF Crowded(ht_lim, ht_used) THEN ht_expand(ht_tab) ELSE ht_tab
           x == [key |-> key, val |-> val, h_hash |-> Hash[key]]
<1>1. PICK n \in Nat \ {0} : TableOK(ht_tab, n)
  BY DEF HtIInv
<1>2. \E size \in Nat \ {0} : TableOK(tab, size) /\ Entries(tab) = Entries(ht_tab)
  <2>1. 2 * n \in Nat \ {0}
    OBVIOUS
  <2>2. CASE Crowded(ht_lim, ht_used)
    BY <2>1, <2>2, <1>1, ExpandKeeps
  <2>3. CASE ~ Crowded(ht_lim, ht_used)
    BY <2>3, <1>1
  <2> QED
    BY <2>2, <2>3
<1>3. PICK size \in Nat \ {0} : TableOK(tab, size) /\ Entries(tab) = Entries(ht_tab)
  BY <1>2
<1>4. Cardinality(DOMAIN tab) = size
  BY <1>3, TableSize DEF TableOK
<1>5. /\ ht_lim' = LimitOf(Cardinality(DOMAIN tab))
      /\ IF asserts /\ ~AssertionsOfInsert(tab, key, val)
           THEN stopped' = TRUE /\ ht_tab' = tab /\ UNCHANGED <<ht_used, last>>
           ELSE /\ ht_tab' = Link(tab, x) /\ ht_used' = ht_used + 1
                /\ last' = <<"insert", key, val>> /\ UNCHANGED stopped
      /\ UNCHANGED asserts
      /\ asserts \/ ht_search_in(ht_tab, key) = HT_NIL_VAL
  BY DEF ht_insert, ht_search
<1>6. x \in Entry /\ x.key = key /\ x.val = val
  BY HashTableAssumption DEF Entry
<1> HIDE DEF tab, x
<1>7. ~AssertionsOfInsert(tab, key, val)
  BY HashTableAssumption DEF AssertionsOfInsert
<1>8. CASE asserts
  <2>1. stopped' = TRUE /\ ht_tab' = tab /\ UNCHANGED <<ht_used, last, asserts>>
    BY <1>5, <1>7, <1>8
  <2>2. Mapped' = Mapped
    <3>1. Held' = Held
      BY <2>1, <1>3 DEF Held, Entries
    <3> QED
      BY <3>1 DEF Mapped
  <2>3. ht_lim' = LimitOf(ht_size')
    BY <1>5, <2>1 DEF ht_size
  <2>4. HtIInv'
    BY <2>1, <2>3, <1>3 DEF HtIInv
  <2> QED
    BY <2>1, <2>2, <2>4
<1>9. CASE ~asserts
  <2>1. /\ ht_tab' = Link(tab, x) /\ ht_used' = ht_used + 1
        /\ last' = <<"insert", key, val>> /\ UNCHANGED <<stopped, asserts>>
    BY <1>5, <1>9 DEF HtIInv
  <2>2. \A y \in Entries(ht_tab) : y.key # x.key
    BY <1>1, <1>5, <1>6, <1>9, NothingFound
  <2>3. TableOK(Link(tab, x), size) /\ Entries(Link(tab, x)) = Entries(ht_tab) \cup {x}
    BY <1>3, <1>6, <2>2, LinkKeeps
  <2>4. ht_lim' = LimitOf(ht_size')
    <3>1. Cardinality(DOMAIN Link(tab, x)) = size
      BY <2>3, TableSize DEF TableOK
    <3> QED
      BY <3>1, <1>4, <1>5, <2>1 DEF ht_size
  <2>5. HtIInv'
    BY <2>1, <2>3, <2>4, <1>9 DEF HtIInv
  <2>6. Mapped' = MapOf(Entries(ht_tab) \cup {x})
    <3>1. Held' = Entries(ht_tab) \cup {x}
      BY <2>1, <2>3 DEF Held, Entries
    <3> QED
      BY <3>1 DEF Mapped, MapOf, KeysOf
  <2>7. Once(Entries(ht_tab))
    BY <1>1, OnceInTable
  <2>8. Mapped' = [k \in DOMAIN Mapped \cup {key} |-> IF k = key THEN val ELSE Mapped[k]]
    BY <2>2, <2>6, <2>7, <1>6, MapWith, HeldIs
  <2>9. key \notin DOMAIN Mapped
    BY <2>2, <1>6, HeldIs DEF MapOf, KeysOf
  <2> QED
    BY <2>1, <2>5, <2>8, <2>9 DEF Map!Insert
<1> QED
  BY <1>8, <1>9

LEMMA DeleteStep ==
  ASSUME HtIInv, NEW key \in Key, ht_delete(key)
  PROVE  HtIInv' /\ (Map!Delete(key) \/ UNCHANGED <<Mapped, last>>)
<1> DEFINE b == Bucket(Hash[key], ht_tab)
           at == Place(ht_tab[b], key)
<1>1. PICK n \in Nat \ {0} : TableOK(ht_tab, n)
  BY DEF HtIInv
<1>2. Cardinality(DOMAIN ht_tab) = n
  BY <1>1, TableSize DEF TableOK
<1>3. b \in Buckets(n)
  BY <1>2, BucketOf, HashTableAssumption DEF Bucket
<1>4. /\ IF at = 0
           THEN stopped' = TRUE /\ UNCHANGED <<ht_tab, ht_used, last>>
           ELSE /\ ht_tab' = Without(ht_tab, b, at)
                /\ ht_used' = ht_used - 1 /\ last' = <<"delete", key>>
                /\ stopped' = (asserts /\ ht_used - 1 < 0)
      /\ UNCHANGED <<ht_lim, asserts>>
  BY DEF ht_delete, Without, Replaced
<1> HIDE DEF b
<1>5. ht_tab[b] \in Seq(Entry)
  BY <1>1, <1>3 DEF TableOK
<1>6. at # 0 => at \in DOMAIN ht_tab[b] /\ ht_tab[b][at].key = key
  BY <1>5, PlaceIs
<1> HIDE DEF at
<1>7. CASE at = 0
  <2>1. stopped' = TRUE /\ UNCHANGED <<ht_tab, ht_used, last, ht_lim, asserts>>
    BY <1>4, <1>7
  <2>2. Mapped' = Mapped /\ ht_size' = ht_size
    BY <2>1 DEF Mapped, Held, ht_size
  <2>3. HtIInv'
    BY <2>1, <2>2 DEF HtIInv
  <2> QED
    BY <2>1, <2>2, <2>3
<1>8. CASE at # 0
  <2> DEFINE x == ht_tab[b][at]
             new == Without(ht_tab, b, at)
  <2>1. /\ ht_tab' = new /\ ht_used' = ht_used - 1 /\ last' = <<"delete", key>>
        /\ stopped' = (asserts /\ ht_used - 1 < 0) /\ UNCHANGED <<ht_lim, asserts>>
    BY <1>4, <1>8
  <2>2. TableOK(new, n) /\ Entries(new) = Entries(ht_tab) \ {x}
    BY <1>1, <1>3, <1>6, <1>8, RemoveKeeps
  <2>3. x \in Entries(ht_tab) /\ x.key = key
    BY <1>1, <1>3, <1>6, <1>8 DEF Entries, ToSet, TableOK
  <2> HIDE DEF x, new
  <2>4. Cardinality(DOMAIN new) = n
    BY <2>2, TableSize DEF TableOK
  <2>5. ht_size' = ht_size
    BY <2>1, <2>4, <1>2 DEF ht_size
  <2>6. stopped' \in BOOLEAN
    BY <2>1
  <2>7. HtIInv'
    BY <2>1, <2>2, <2>3, <2>5, <2>6 DEF HtIInv
  <2>8. Mapped' = MapOf(Entries(ht_tab) \ {x})
    <3>1. Held' = Entries(ht_tab) \ {x}
      BY <2>1, <2>2 DEF Held, Entries
    <3> QED
      BY <3>1 DEF Mapped, MapOf, KeysOf
  <2>9. Once(Entries(ht_tab))
    BY <1>1, OnceInTable
  <2>10. Mapped' = [k \in DOMAIN Mapped \ {key} |-> Mapped[k]]
    BY <2>3, <2>8, <2>9, MapWithout, HeldIs
  <2>11. key \in DOMAIN Mapped
    BY <2>3, HeldIs DEF MapOf, KeysOf
  <2> QED
    BY <2>1, <2>7, <2>10, <2>11 DEF Map!Delete
<1> QED
  BY <1>7, <1>8

LEMMA SearchStep ==
  ASSUME HtIInv, Search
  PROVE  HtIInv' /\ \E key \in Key : Map!Search(key)
<1>1. PICK n \in Nat \ {0} : TableOK(ht_tab, n)
  BY DEF HtIInv
<1>2. PICK key \in Key : last' = <<"search", key, ht_search(key)>>
  BY DEF Search
<1>3. UNCHANGED <<ht_tab, ht_used, ht_lim, asserts, stopped>>
  BY DEF Search
<1>4. Mapped' = Mapped /\ ht_size' = ht_size
  BY <1>3 DEF Mapped, Held, ht_size
<1>5. HtIInv'
  BY <1>3, <1>4 DEF HtIInv
<1>6. ht_search(key) = IF key \in DOMAIN Mapped THEN Mapped[key] ELSE HT_NIL_VAL
  <2> DEFINE E == Entries(ht_tab)
  <2>1. Once(E)
    BY <1>1, OnceInTable
  <2>2. CASE \E x \in E : x.key = key
    <3>1. PICK x \in E : x.key = key
      BY <2>2
    <3>2. ht_search_in(ht_tab, key) = x.val
      BY <1>1, <3>1, SearchFinds
    <3>3. key \in DOMAIN MapOf(E) /\ MapOf(E)[key] = x.val
      BY <2>1, <3>1, MapValue
    <3> QED
      BY <3>2, <3>3, HeldIs DEF ht_search
  <2>3. CASE \A x \in E : x.key # key
    <3>1. ht_search_in(ht_tab, key) = HT_NIL_VAL
      BY <1>1, <2>3, SearchFinds
    <3>2. key \notin DOMAIN MapOf(E)
      BY <2>3 DEF MapOf, KeysOf
    <3> QED
      BY <3>1, <3>2, HeldIs DEF ht_search
  <2> QED
    BY <2>2, <2>3
<1> QED
  BY <1>2, <1>4, <1>5, <1>6 DEF Map!Search

LEMMA FreeStep ==
  ASSUME HtIInv, ht_free
  PROVE  HtIInv' /\ Map!Free
<1>1. PICK n \in Nat \ {0} : TableOK(ht_tab, n)
  BY DEF HtIInv
<1>2. /\ ht_tab' = EmptyTable(n) /\ stopped' = TRUE /\ last' = <<"free">>
      /\ UNCHANGED <<ht_used, ht_lim, asserts>>
  BY <1>1 DEF ht_free, EmptyTable, TableOK
<1>3. TableOK(EmptyTable(n), n) /\ Entries(EmptyTable(n)) = {}
  BY EmptyTableOK
<1>4. ht_size' = ht_size
  BY <1>1, <1>2, <1>3, TableSize DEF ht_size, TableOK
<1>5. HtIInv'
  BY <1>2, <1>3, <1>4 DEF HtIInv
<1>6. Mapped' = [k \in {} |-> k]
  <2>1. Held' = {}
    BY <1>2, <1>3 DEF Held, Entries
  <2> QED
    BY <2>1 DEF Mapped
<1> QED
  BY <1>2, <1>5, <1>6 DEF Map!Free, Map!Nothing

LEMMA HtStep ==
  HtIInv /\ [HtNext]_ht_vars => HtIInv' /\ [Map!Next]_(Map!vars)
<1> SUFFICES ASSUME HtIInv, [HtNext]_ht_vars
             PROVE  HtIInv' /\ [Map!Next]_(Map!vars)
  OBVIOUS
<1>1. ASSUME NEW k \in Key, NEW v \in Val, ht_insert(k, v)
      PROVE  HtIInv' /\ [Map!Next]_(Map!vars)
  BY <1>1, InsertStep DEF Map!Next, Map!vars
<1>2. ASSUME NEW k \in Key, ht_delete(k)
      PROVE  HtIInv' /\ [Map!Next]_(Map!vars)
  BY <1>2, DeleteStep DEF Map!Next, Map!vars
<1>3. CASE Search
  BY <1>3, SearchStep DEF Map!Next
<1>4. CASE ht_free
  BY <1>4, FreeStep DEF Map!Next
<1>5. CASE UNCHANGED ht_vars
  <2>1. Mapped' = Mapped /\ last' = last
    BY <1>5 DEF ht_vars, Mapped, Held
  <2>2. HtIInv'
    BY <1>5 DEF ht_vars, HtIInv, ht_size
  <2> QED
    BY <2>1, <2>2 DEF Map!vars
<1> QED
  BY <1>1, <1>2, <1>3, <1>4, <1>5 DEF HtNext, HtStopped

\* Every entry of a chain is a key with a value, in the chain of the key's hash and
\* there once, in a table of any size and however often ht_insert has expanded it.
THEOREM HtTypeCorrect == HtSpec => []HtTypeOK
<1>1. HtInit => HtIInv
  BY HtInitIInv
<1>2. HtIInv /\ [HtNext]_ht_vars => HtIInv'
  BY HtStep
<1>3. HtIInv => HtTypeOK
  BY HtIInvTypeOK
<1> QED
  BY <1>1, <1>2, <1>3, PTL DEF HtSpec

\* Chains, removals and expansions are one map's insertions, deletions and
\* searches: ht_lookup and ht_delete answer for the last value inserted.
THEOREM TableIsMap == HtSpec => KeepsMap
<1>1. HtInit => HtIInv /\ Map!Init
  BY HtInitIInv DEF Map!Init, Map!Nothing, HtInit
<1>2. HtIInv /\ [HtNext]_ht_vars => HtIInv' /\ [Map!Next]_(Map!vars)
  BY HtStep
<1> QED
  BY <1>1, <1>2, PTL DEF HtSpec, KeepsMap, Map!Spec

-----------------------------------------------------------------------------
(* The contents of the ring, as a sequence. *)

LEMMA IncSlot == \A i \in Slot : Inc(i) \in Slot
BY CircularAssumption DEF Slot, Inc

LEMMA UsedRange ==
  ASSUME NEW h \in Slot, NEW t \in Slot
  PROVE  /\ Used(h, t) \in 0..(CQ_N - 1)
         /\ Used(h, t) = 0 <=> h = t
BY CircularAssumption DEF Slot, Used

\* Every element of the contents is a slot of the ring, none of them head.
LEMMA WrapSlot ==
  ASSUME NEW h \in Slot, NEW t \in Slot, NEW i \in 1..Used(h, t)
  PROVE  Wrap(t + i - 1) \in Slot \ {h}
BY CircularAssumption DEF Slot, Used, Wrap

LEMMA ContentsSeq ==
  ASSUME NEW b \in [Slot -> Value], NEW h \in Slot, NEW t \in Slot
  PROVE  /\ Contents(b, h, t) \in Seq(Value)
         /\ Len(Contents(b, h, t)) = Used(h, t)
         /\ \A i \in 1..Used(h, t) : Contents(b, h, t)[i] = b[Wrap(t + i - 1)]
<1>1. Used(h, t) \in Nat
  BY UsedRange, CircularAssumption
<1>2. \A i \in 1..Used(h, t) : b[Wrap(t + i - 1)] \in Value
  BY WrapSlot
<1> QED
  BY <1>1, <1>2 DEF Contents

\* Moving head over a slot appends its element.
LEMMA PushedContents ==
  ASSUME NEW b \in [Slot -> Value], NEW h \in Slot, NEW t \in Slot, Inc(h) # t
  PROVE  Contents(b, Inc(h), t) = Append(Contents(b, h, t), b[h])
<1>1. Used(Inc(h), t) = Used(h, t) + 1 /\ Wrap(t + Used(h, t)) = h
  BY CircularAssumption DEF Slot, Used, Inc, Wrap
<1> DEFINE c == Contents(b, h, t)
           d == Contents(b, Inc(h), t)
           n == Used(h, t)
<1>2. c \in Seq(Value) /\ Len(c) = n /\ \A i \in 1..n : c[i] = b[Wrap(t + i - 1)]
  BY ContentsSeq
<1>3. d \in Seq(Value) /\ Len(d) = n + 1 /\ \A i \in 1..(n + 1) : d[i] = b[Wrap(t + i - 1)]
  <2> DEFINE u == Inc(h)
             k == Used(u, t)
  <2>1. u \in Slot
    BY IncSlot
  <2>2. k = n + 1
    BY <1>1
  <2> HIDE DEF u
  <2>3. /\ Contents(b, u, t) \in Seq(Value) /\ Len(Contents(b, u, t)) = k
        /\ \A i \in 1..k : Contents(b, u, t)[i] = b[Wrap(t + i - 1)]
    BY <2>1, ContentsSeq
  <2> HIDE DEF n, k
  <2> QED BY <2>2, <2>3 DEF u
<1>4. n \in Nat
  BY UsedRange
<1>5. b[h] \in Value /\ d[n + 1] = b[h]
  BY <1>1, <1>3, <1>4
<1> HIDE DEF c, d, n
<1>6. Append(c, b[h]) \in Seq(Value) /\ Len(Append(c, b[h])) = n + 1
  BY <1>2, <1>5
<1>7. \A i \in 1..(n + 1) : d[i] = Append(c, b[h])[i]
  BY <1>2, <1>3, <1>4, <1>5
<1>8. d = Append(c, b[h])
  BY <1>3, <1>6, <1>7, SeqEqual
<1> QED
  BY <1>8 DEF c, d

\* Moving tail over a slot takes the first element off.
LEMMA PoppedContents ==
  ASSUME NEW b \in [Slot -> Value], NEW h \in Slot, NEW t \in Slot, h # t
  PROVE  /\ Contents(b, h, t) # <<>>
         /\ Head(Contents(b, h, t)) = b[t]
         /\ Tail(Contents(b, h, t)) = Contents(b, h, Inc(t))
<1> DEFINE c == Contents(b, h, t)
           d == Contents(b, h, Inc(t))
           n == Used(h, t)
<1>1. n \in Nat /\ n > 0
  BY UsedRange
<1>2. c \in Seq(Value) /\ Len(c) = n /\ \A i \in 1..n : c[i] = b[Wrap(t + i - 1)]
  BY ContentsSeq
<1>3. Used(h, Inc(t)) = n - 1 /\ Wrap(t) = t
      /\ \A i \in 1..(n - 1) : Wrap(Inc(t) + i - 1) = Wrap(t + (i + 1) - 1)
  BY CircularAssumption DEF Slot, Used, Inc, Wrap
<1>4. d \in Seq(Value) /\ Len(d) = n - 1 /\ \A i \in 1..(n - 1) : d[i] = b[Wrap(Inc(t) + i - 1)]
  <2> DEFINE u == Inc(t)
             k == Used(h, u)
  <2>1. u \in Slot
    BY IncSlot
  <2>2. k = n - 1
    BY <1>3
  <2> HIDE DEF u
  <2>3. /\ Contents(b, h, u) \in Seq(Value) /\ Len(Contents(b, h, u)) = k
        /\ \A i \in 1..k : Contents(b, h, u)[i] = b[Wrap(u + i - 1)]
    BY <2>1, ContentsSeq
  <2> HIDE DEF n, k
  <2> QED BY <2>2, <2>3 DEF u
<1>5. c[1] = b[t]
  <2>1. t + 1 - 1 = t
    BY DEF Slot
  <2> QED BY <1>1, <1>2, <1>3, <2>1
<1>6. \A i \in 1..(n - 1) : d[i] = c[i + 1]
  <2> SUFFICES ASSUME NEW i \in 1..(n - 1) PROVE d[i] = c[i + 1]
    OBVIOUS
  <2>1. i + 1 \in 1..n
    BY <1>1
  <2> QED BY <1>2, <1>3, <1>4, <2>1
<1> HIDE DEF c, d, n
<1>7. c # <<>> /\ Head(c) = c[1]
  BY <1>1, <1>2
<1>8. Tail(c) \in Seq(Value) /\ Len(Tail(c)) = n - 1 /\ \A i \in 1..(n - 1) : Tail(c)[i] = c[i + 1]
  BY <1>1, <1>2, <1>7
<1>9. Tail(c) = d
  BY <1>4, <1>6, <1>8, SeqEqual
<1> QED
  BY <1>5, <1>7, <1>9 DEF c, d

\* Writing the slot at head changes nothing the consumer can read.
LEMMA WrittenContents ==
  ASSUME NEW b \in [Slot -> Value], NEW h \in Slot, NEW t \in Slot, NEW v
  PROVE  Contents([b EXCEPT ![h] = v], h, t) = Contents(b, h, t)
<1>1. \A i \in 1..Used(h, t) : [b EXCEPT ![h] = v][Wrap(t + i - 1)] = b[Wrap(t + i - 1)]
  BY WrapSlot
<1> QED
  BY <1>1 DEF Contents

-----------------------------------------------------------------------------
(* The inductive invariant. *)

\* The producer's element is in its slot before head moves over it.
ProducerFollows ==
  /\ pAt = "advance" => c_buf[head] = pItem
  /\ pAt # "idle" => pLeft > 0

\* By the final check of a look-ahead tail is back.
ConsumerFollows ==
  /\ cAt = "idle" => popping = "none"
  /\ cAt # "idle" => cLeft > 0 /\ popping # "none"
  /\ cAt \in {"restore", "check"} => popping = "peek_n"
  /\ cAt = "check" => tail = saved

\* What the consumer has looked at is still in the queue: tail has come from saved
\* and not past head, so that a queue with room behind saved has room behind tail.
Ahead ==
  ~overrun /\ popping = "peek_n" => Used(head, tail) <= Used(head, saved)

IInv ==
  /\ TypeOK
  /\ SlotsApart
  /\ ProducerFollows
  /\ ConsumerFollows
  /\ Ahead

Status == {"running", "deadlock", "push_n full", "push_n empty", "peek_n size"}

LEMMA Sizes == CQ_N \in Nat /\ CQ_N > 1 /\ Word \in Nat /\ Word > CQ_N
BY CircularAssumption

LEMMA NelemSlot == \A h, t \in Slot : ((h - t) % Word) % CQ_N \in Slot
<1> SUFFICES ASSUME NEW h \in Slot, NEW t \in Slot PROVE ((h - t) % Word) % CQ_N \in Slot
  OBVIOUS
<1>1. h - t \in Int /\ Word \in Nat /\ Word > 0 /\ CQ_N \in Nat /\ CQ_N > 0
  BY CircularAssumption DEF Slot
<1>2. (h - t) % Word \in Int
  BY <1>1
<1> QED
  BY <1>1, <1>2 DEF Slot

LEMMA ZeroSlot == 0 \in Slot
BY CircularAssumption DEF Slot

LEMMA IncInjective == \A i, j \in Slot : Inc(i) = Inc(j) => i = j
BY CircularAssumption DEF Slot, Inc

\* head takes a slot that is not t's, tail leaves one that is not head.
LEMMA UsedMoves ==
  ASSUME NEW h \in Slot, NEW t \in Slot
  PROVE  /\ Inc(h) # t => Used(Inc(h), t) = Used(h, t) + 1
         /\ h # t => Used(h, Inc(t)) = Used(h, t) - 1
BY CircularAssumption DEF Slot, Used, Inc

LEMMA OldestSlot == TypeOK => Oldest \in Slot
BY DEF TypeOK, QueueOK, ConsumerOK, Oldest

LEMMA InitInvariant == Init => IInv
<1> SUFFICES ASSUME Init PROVE IInv
  OBVIOUS
<1>1. TypeOK
  <2>1. PICK v \in Value : c_buf = [i \in Slot |-> v] /\ pItem = v /\ e = v /\ got = v
    BY DEF Init
  <2>2. QueueOK
    BY <2>1, ZeroSlot DEF Init, QueueOK
  <2>3. ProducerOK
    BY <2>1, Sizes DEF Init, ProducerOK
  <2>4. ConsumerOK
    BY <2>1, ZeroSlot, Sizes DEF Init, ConsumerOK
  <2> QED
    BY <2>2, <2>3, <2>4 DEF Init, TypeOK
<1>2. SlotsApart /\ ProducerFollows /\ ConsumerFollows /\ Ahead
  BY DEF Init, SlotsApart, ProducerFollows, ConsumerFollows, Ahead
<1> QED
  BY <1>1, <1>2 DEF IInv

\* The producer's steps: it fills only the free slot it has found, and leaves one.
LEMMA ProducerKeeps == IInv /\ Producer => IInv'
<1>0. SUFFICES ASSUME IInv, Producer PROVE IInv'
  OBVIOUS
<1> USE Sizes
<1>t. TypeOK /\ SlotsApart /\ ProducerFollows /\ ConsumerFollows /\ Ahead
  BY <1>0 DEF IInv
<1>p. status = "running" /\ UNCHANGED <<tail, popping, cLeft, saved, sz, cAt, e, got>>
  BY <1>0 DEF Producer, cq_push, cq_push_n, CheckFull, WriteSlot, AdvanceHead,
     CheckPushed, Pushes, shared, consumer, reading
<1>f. Oldest' = Oldest
  BY <1>p DEF Oldest
<1>1. CASE cq_push
  <2>0. pAt' = "full" /\ UNCHANGED <<c_buf, head, status, overrun>>
    BY <1>1 DEF cq_push, Pushes, shared
  <2>1. QueueOK' /\ ConsumerOK' /\ status' \in Status /\ overrun' \in BOOLEAN
    BY <2>0, <1>t, <1>p DEF TypeOK, QueueOK, ConsumerOK, Status
  <2>2. ProducerOK'
    BY <1>1, <1>t, <1>p, ZeroSlot DEF cq_push, Pushes, shared, TypeOK, QueueOK, ProducerOK
  <2>3. SlotsApart'
    BY <2>0, <1>t, <1>p, <1>f DEF SlotsApart
  <2>4. ProducerFollows' /\ ConsumerFollows' /\ Ahead'
    BY <1>1, <2>0, <1>t, <1>p DEF cq_push, ProducerFollows, ConsumerFollows, Ahead
  <2> QED BY <2>1, <2>2, <2>3, <2>4 DEF IInv, TypeOK, Status
<1>2. ASSUME NEW n \in 1..CQ_N, cq_push_n(n) PROVE IInv'
  <2>0. pAt' \in {"idle", "full"} /\ UNCHANGED <<c_buf, head, status, overrun>>
    BY <1>2 DEF cq_push_n, Pushes, shared
  <2>1. QueueOK' /\ ConsumerOK' /\ status' \in Status /\ overrun' \in BOOLEAN
    BY <2>0, <1>t, <1>p DEF TypeOK, QueueOK, ConsumerOK, Status
  <2>2. ProducerOK'
    BY <1>2, <1>t, <1>p, ZeroSlot DEF cq_push_n, Pushes, shared, TypeOK, QueueOK, ProducerOK
  <2>3. SlotsApart'
    BY <2>0, <1>t, <1>p, <1>f DEF SlotsApart
  <2>4. ProducerFollows' /\ ConsumerFollows' /\ Ahead'
    BY <1>2, <2>0, <1>t, <1>p DEF cq_push_n, Pushes, ProducerFollows, ConsumerFollows, Ahead
  <2> QED BY <2>1, <2>2, <2>3, <2>4 DEF IInv, TypeOK, Status
<1>3. CASE CheckFull
  <2>0. /\ pAt = "full" /\ UNCHANGED <<c_buf, head>>
        /\ overrun' = (overrun \/ (~cq_full /\ tail # Oldest /\ Inc(head) = Oldest))
    BY <1>3 DEF CheckFull, Pushes, shared
  <2>1. QueueOK' /\ ConsumerOK' /\ status' \in Status /\ overrun' \in BOOLEAN
    BY <1>3, <2>0, <1>t, <1>p DEF CheckFull, TypeOK, QueueOK, ConsumerOK, Status
  <2>2. ProducerOK'
    <3>1. pLeft \in 0..CQ_N /\ refused \in 0..1 /\ pushing \in {"none", "push", "push_n"}
          /\ pItem \in Value
      BY <1>t DEF TypeOK, ProducerOK
    <3>2. /\ pAt' \in {"idle", "full", "write"} /\ pItem' = pItem
          /\ pushing' \in {"none", pushing} /\ pLeft' \in {0, pLeft} /\ refused' \in {1, refused}
      BY <1>3 DEF CheckFull, EndPush, Pushes
    <3>3. pLeft' \in 0..CQ_N /\ refused' \in 0..1
      BY <3>1, <3>2
    <3> QED BY <3>1, <3>2, <3>3 DEF ProducerOK
  <2>3. SlotsApart'
    <3>1. pAt' \in {"idle", "full", "write"} /\ (pAt' = "write" => ~cq_full)
      BY <1>3, <2>0 DEF CheckFull, EndPush
    <3>2. ~overrun' /\ pAt' = "write" => Inc(head) \notin {tail, Oldest}
      BY <3>1, <2>0 DEF cq_full
    <3> QED BY <3>1, <3>2, <2>0, <1>t, <1>p, <1>f DEF SlotsApart
  <2>4. ProducerFollows' /\ ConsumerFollows' /\ Ahead'
    BY <1>3, <2>0, <1>t, <1>p DEF CheckFull, EndPush, ProducerFollows, ConsumerFollows, Ahead
  <2> QED BY <2>1, <2>2, <2>3, <2>4 DEF IInv, TypeOK, Status
<1>4. CASE WriteSlot
  <2>0. /\ pAt = "write" /\ pAt' = "advance"
        /\ UNCHANGED <<head, pushing, pLeft, pItem, refused, status, overrun>>
    BY <1>4 DEF WriteSlot, Pushes
  <2>1. ~overrun /\ cAt = "advance" => c_buf'[tail] = c_buf[tail]
    BY <1>4, <1>t DEF WriteSlot, SlotsApart, TypeOK, QueueOK
  <2>2. c_buf' \in [Slot -> Value] /\ c_buf'[head] = pItem
    BY <1>4, <1>t DEF WriteSlot, TypeOK, QueueOK, ProducerOK
  <2>3. TypeOK'
    BY <1>t, <1>p, <2>0, <2>2 DEF TypeOK, QueueOK, ProducerOK, ConsumerOK
  <2>4. SlotsApart'
    BY <1>t, <1>p, <1>f, <2>0, <2>1 DEF SlotsApart
  <2>5. ProducerFollows' /\ ConsumerFollows' /\ Ahead'
    BY <1>t, <1>p, <2>0, <2>2 DEF ProducerFollows, ConsumerFollows, Ahead
  <2> QED BY <2>3, <2>4, <2>5 DEF IInv
<1>5. CASE AdvanceHead
  <2>0. pAt = "advance" /\ head' = Inc(head) /\ UNCHANGED <<c_buf, refused, status, overrun>>
    BY <1>5 DEF AdvanceHead, Pushes
  <2>1. head' \in Slot
    BY <2>0, <1>t, IncSlot DEF TypeOK, QueueOK
  <2>2. ~overrun => Inc(head) # tail /\ Inc(head) # Oldest
    BY <2>0, <1>t DEF SlotsApart
  <2>3. pLeft \in 0..CQ_N /\ pLeft > 0 /\ pItem \in Value
    BY <1>t, <2>0 DEF TypeOK, ProducerOK, ProducerFollows
  <2>4. pushing \in {"push", "push_n", "none"}
    BY <1>t DEF TypeOK, ProducerOK
  <2>5. /\ pLeft' \in 0..CQ_N /\ pItem' \in Value /\ (pAt' # "idle" => pLeft' > 0)
        /\ pushing' \in {"none", "push", "push_n"} /\ pAt' \in {"idle", "full", "check"}
    BY <1>5, <2>3, <2>4 DEF AdvanceHead, EndPush
  <2>6. Ahead'
    <3> SUFFICES ASSUME ~overrun, popping = "peek_n"
                 PROVE  Used(Inc(head), tail) <= Used(Inc(head), saved)
      BY <2>0, <1>p DEF Ahead
    <3>1. head \in Slot /\ tail \in Slot /\ saved \in Slot
      BY <1>t DEF TypeOK, QueueOK, ConsumerOK
    <3>2. Inc(head) # tail /\ Inc(head) # saved
      BY <2>2 DEF Oldest
    <3>3. /\ Used(Inc(head), tail) = Used(head, tail) + 1
          /\ Used(Inc(head), saved) = Used(head, saved) + 1
      BY <3>1, <3>2, UsedMoves
    <3>4. Used(head, tail) <= Used(head, saved)
      BY <1>t DEF Ahead
    <3>5. Used(head, tail) \in Int /\ Used(head, saved) \in Int
      BY <3>1, UsedRange
    <3> QED BY <3>3, <3>4, <3>5
  <2>7. TypeOK'
    BY <1>t, <1>p, <2>0, <2>1, <2>5 DEF TypeOK, QueueOK, ProducerOK, ConsumerOK
  <2>8. SlotsApart'
    BY <1>t, <1>p, <2>0, <2>2, <2>5 DEF SlotsApart
  <2>9. ProducerFollows' /\ ConsumerFollows'
    BY <1>t, <1>p, <2>0, <2>5 DEF ProducerFollows, ConsumerFollows
  <2> QED BY <2>6, <2>7, <2>8, <2>9 DEF IInv
<1>6. CASE CheckPushed
  <2>0. pAt' = "idle" /\ pLeft' = 0 /\ UNCHANGED <<c_buf, head, overrun>>
    BY <1>6 DEF CheckPushed, EndPush, shared
  <2>1. QueueOK' /\ ConsumerOK' /\ status' \in Status /\ overrun' \in BOOLEAN
    BY <1>6, <2>0, <1>t, <1>p DEF CheckPushed, TypeOK, QueueOK, ConsumerOK, Status
  <2>2. ProducerOK'
    <3>1. refused \in 0..1 /\ pItem \in Value
      BY <1>t DEF TypeOK, ProducerOK
    <3>2. pushing' = "none" /\ pAt' = "idle" /\ pLeft' = 0 /\ UNCHANGED <<pItem, refused>>
      BY <1>6 DEF CheckPushed, EndPush
    <3>3. pLeft' \in 0..CQ_N
      BY <3>2
    <3> QED BY <3>1, <3>2, <3>3 DEF ProducerOK
  <2>3. SlotsApart'
    BY <2>0, <1>t, <1>p, <1>f DEF SlotsApart
  <2>4. ProducerFollows' /\ ConsumerFollows' /\ Ahead'
    BY <2>0, <1>t, <1>p DEF ProducerFollows, ConsumerFollows, Ahead
  <2> QED BY <2>1, <2>2, <2>3, <2>4 DEF IInv, TypeOK, Status
<1> QED
  BY <1>0, <1>1, <1>2, <1>3, <1>4, <1>5, <1>6 DEF Producer

\* The consumer's steps: it empties only a slot it has found full, and a look-ahead
\* leaves the oldest element what it was.
LEMMA ConsumerKeeps == IInv /\ Consumer => IInv'
<1>0. SUFFICES ASSUME IInv, Consumer PROVE IInv'
  OBVIOUS
<1> USE Sizes
<1>t. TypeOK /\ SlotsApart /\ ProducerFollows /\ ConsumerFollows /\ Ahead
  BY <1>0 DEF IInv
<1>p. status = "running" /\ UNCHANGED <<pushing, pAt, pLeft, pItem, refused, c_buf, head, overrun>>
  BY <1>0 DEF Consumer, cq_pop, cq_pop_n_noblk, cq_peek_n, CheckEmpty, ReadSlot, AdvanceTail,
     RestoreTail, CheckPeeked, Pops, producer, shared
<1>s. head \in Slot /\ tail \in Slot /\ saved \in Slot
  BY <1>t DEF TypeOK, QueueOK, ConsumerOK
<1>z. 0 \in 0..CQ_N
  OBVIOUS
<1>k. ProducerOK' /\ overrun' \in BOOLEAN /\ ProducerFollows'
  BY <1>t, <1>p DEF TypeOK, ProducerOK, ProducerFollows
\* Where the slot being written lies, seen from a consumer that moves.
<1>w. ASSUME UNCHANGED tail, Oldest' = Oldest,
             ~overrun => (cAt' \in {"read", "advance"} => head # tail),
             ~overrun => (cAt' = "advance" => e' = c_buf[tail])
      PROVE  SlotsApart'
  BY <1>w, <1>t, <1>p DEF SlotsApart
<1>1. ASSUME NEW kind \in {"pop", "pop_nonblock", "peek"}, cq_pop(kind) PROVE IInv'
  <2>0. /\ cAt = "idle" /\ popping' = kind /\ cAt' = "empty" /\ cLeft' = 1
        /\ UNCHANGED <<tail, e, saved, sz, got, status>>
    BY <1>1 DEF cq_pop, Pops, shared
  <2>1. TypeOK'
    BY <2>0, <1>t, <1>p, <1>k DEF TypeOK, QueueOK, ConsumerOK
  <2>2. Oldest' = Oldest
    BY <2>0, <1>t DEF Oldest, ConsumerFollows
  <2>3. SlotsApart'
    BY <2>0, <2>2, <1>w
  <2>4. ConsumerFollows' /\ Ahead'
    BY <2>0 DEF ConsumerFollows, Ahead
  <2> QED BY <1>k, <2>1, <2>3, <2>4 DEF IInv
<1>2. ASSUME NEW n \in 1..(CQ_N - 1), cq_pop_n_noblk(n) PROVE IInv'
  <2>0. /\ cAt = "idle" /\ popping' = "pop_n" /\ cAt' = "empty" /\ cLeft' = n
        /\ UNCHANGED <<tail, e, saved, sz, got, status>>
    BY <1>2 DEF cq_pop_n_noblk, Pops, shared
  <2>1. TypeOK'
    <3>1. cLeft' \in 0..CQ_N
      BY <2>0
    <3> QED BY <2>0, <3>1, <1>t, <1>p, <1>k DEF TypeOK, QueueOK, ConsumerOK
  <2>2. Oldest' = Oldest
    BY <2>0, <1>t DEF Oldest, ConsumerFollows
  <2>3. SlotsApart'
    BY <2>0, <2>2, <1>w
  <2>4. ConsumerFollows' /\ Ahead'
    BY <2>0 DEF ConsumerFollows, Ahead
  <2> QED BY <1>k, <2>1, <2>3, <2>4 DEF IInv
<1>3. ASSUME NEW n \in 1..(CQ_N - 1), cq_peek_n(n) PROVE IInv'
  <2>0. /\ cAt = "idle" /\ popping' = "peek_n" /\ cAt' = "empty" /\ cLeft' = n /\ saved' = tail
        /\ UNCHANGED <<tail, e, got, status>>
    BY <1>3 DEF cq_peek_n, Pops, shared
  <2>1. sz' \in Slot
    BY <1>3, <1>s, NelemSlot DEF cq_peek_n, cq_nelem
  <2>2. TypeOK'
    BY <2>0, <2>1, <1>t, <1>p, <1>k DEF TypeOK, QueueOK, ConsumerOK
  <2>3. Oldest' = Oldest
    BY <2>0, <1>t DEF Oldest, ConsumerFollows
  <2>4. SlotsApart'
    BY <2>0, <2>3, <1>w
  <2>5. ConsumerFollows' /\ Ahead'
    <3>1. Used(head', tail') = Used(head', saved') /\ Used(head', tail') \in Int
      BY <2>0, <1>p, <1>s, UsedRange
    <3> QED BY <2>0, <3>1 DEF ConsumerFollows, Ahead
  <2> QED BY <1>k, <2>2, <2>4, <2>5 DEF IInv
<1>4. CASE CheckEmpty
  <2>0. UNCHANGED <<tail, e, got>> /\ cAt = "empty" /\ status' \in {status, "deadlock"}
    BY <1>4 DEF CheckEmpty, Pops, shared
  <2>1. \/ /\ cAt' \in {"read", "empty"} /\ (cAt' = "read" => head # tail)
           /\ UNCHANGED <<popping, cLeft, saved, sz>>
        \/ /\ popping # "peek_n" /\ popping' = "none" /\ cAt' = "idle" /\ cLeft' = 0
           /\ saved' = 0 /\ sz' = 0
    BY <1>4, <2>0 DEF CheckEmpty, cq_empty, EndPop, reading
  <2>2. TypeOK'
    <3>1. QueueOK' /\ status' \in Status
      BY <2>0, <1>t, <1>p DEF TypeOK, QueueOK, Status
    <3>2. cLeft' \in 0..CQ_N /\ saved' \in Slot /\ sz' \in Slot
      BY <2>1, <1>t, <1>z, ZeroSlot DEF TypeOK, ConsumerOK
    <3>3. ConsumerOK'
      BY <2>0, <2>1, <3>2, <1>t DEF TypeOK, ConsumerOK
    <3> QED BY <3>1, <3>3, <1>k DEF TypeOK, Status
  <2>3. Oldest' = Oldest
    BY <2>0, <2>1 DEF Oldest
  <2>4. SlotsApart'
    BY <2>0, <2>1, <2>3, <1>w
  <2>5. ConsumerFollows' /\ Ahead'
    BY <2>0, <2>1, <1>t, <1>p DEF ConsumerFollows, Ahead
  <2> QED BY <1>k, <2>2, <2>4, <2>5 DEF IInv
<1>5. CASE ReadSlot
  <2>0. UNCHANGED <<tail, status>> /\ cAt = "read" /\ e' = c_buf[tail]
    BY <1>5 DEF ReadSlot, Pops, shared
  <2>1. e' \in Value /\ got' \in Value
    BY <1>5, <1>t, <1>s, <2>0 DEF ReadSlot, TypeOK, QueueOK, ConsumerOK
  <2>2. \/ cAt' = "advance" /\ UNCHANGED <<popping, cLeft, saved, sz>>
        \/ /\ popping # "peek_n" /\ popping' = "none" /\ cAt' = "idle" /\ cLeft' = 0
           /\ saved' = 0 /\ sz' = 0
    BY <1>5 DEF ReadSlot, EndPop, reading
  <2>3. TypeOK'
    BY <2>0, <2>1, <2>2, <1>t, <1>p, <1>k, ZeroSlot DEF TypeOK, QueueOK, ConsumerOK
  <2>4. Oldest' = Oldest
    BY <2>0, <2>2 DEF Oldest
  <2>5. SlotsApart'
    BY <2>0, <2>2, <2>4, <1>w, <1>t DEF SlotsApart
  <2>6. ConsumerFollows' /\ Ahead'
    BY <2>0, <2>2, <1>t, <1>p DEF ConsumerFollows, Ahead
  <2> QED BY <1>k, <2>3, <2>5, <2>6 DEF IInv
<1>6. CASE AdvanceTail
  <2>0. cAt = "advance" /\ tail' = Inc(tail) /\ UNCHANGED <<e, status>>
    BY <1>6 DEF AdvanceTail, Pops
  <2>1. tail' \in Slot /\ got' \in Value
    BY <1>6, <2>0, <1>t, <1>s, IncSlot DEF AdvanceTail, TypeOK, ConsumerOK
  <2>2. cLeft \in 0..CQ_N
    BY <1>t DEF TypeOK, ConsumerOK
  <2>3. \/ /\ cAt' \in {"empty", "restore"} /\ cLeft' \in 1..CQ_N
           /\ UNCHANGED <<popping, saved, sz>>
           /\ cAt' = "restore" => popping = "peek_n"
        \/ /\ popping # "peek_n" /\ popping' = "none" /\ cAt' = "idle" /\ cLeft' = 0
           /\ saved' = 0 /\ sz' = 0
    BY <1>6, <2>2 DEF AdvanceTail, EndPop, reading
  <2>4. TypeOK'
    BY <2>0, <2>1, <2>3, <1>t, <1>p, <1>k, ZeroSlot DEF TypeOK, QueueOK, ConsumerOK
  <2>5. ~overrun => head # tail
    BY <2>0, <1>t DEF SlotsApart
  <2>6. ~overrun => Inc(head) # tail'
    BY <2>0, <2>5, <1>s, IncInjective
  <2>7. Oldest' \in {Oldest, tail'}
    BY <2>3 DEF Oldest
  <2>8. SlotsApart'
    BY <2>3, <2>6, <2>7, <1>t, <1>p DEF SlotsApart
  <2>9. ConsumerFollows' /\ Ahead'
    <3>1. ConsumerFollows'
      BY <2>0, <2>3, <1>t DEF ConsumerFollows
    <3>2. ASSUME ~overrun, popping = "peek_n" PROVE Used(head, tail') <= Used(head, saved)
      <4>1. Used(head, tail) <= Used(head, saved)
        BY <3>2, <1>t DEF Ahead
      <4>2. Used(head, tail') = Used(head, tail) - 1
        BY <3>2, <2>0, <2>5, <1>s, UsedMoves
      <4>3. Used(head, tail) \in Int /\ Used(head, saved) \in Int
        BY <1>s, UsedRange
      <4> QED BY <4>1, <4>2, <4>3
    <3> QED BY <2>3, <3>1, <3>2, <1>p DEF Ahead
  <2> QED BY <1>k, <2>4, <2>8, <2>9 DEF IInv
<1>7. CASE RestoreTail
  <2>0. /\ cAt = "restore" /\ cAt' = "check" /\ tail' = saved
        /\ UNCHANGED <<popping, cLeft, saved, sz, e, got, status>>
    BY <1>7 DEF RestoreTail, reading, Pops
  <2>1. popping = "peek_n" /\ Oldest = saved /\ Oldest' = saved
    BY <1>t, <2>0 DEF ConsumerFollows, Oldest
  <2>2. TypeOK'
    BY <2>0, <1>t, <1>p, <1>k, <1>s DEF TypeOK, QueueOK, ConsumerOK
  <2>3. SlotsApart'
    BY <2>0, <2>1, <1>t, <1>p DEF SlotsApart
  <2>4. ConsumerFollows' /\ Ahead'
    <3>1. Used(head', tail') = Used(head', saved') /\ Used(head', tail') \in Int
      BY <2>0, <1>p, <1>s, UsedRange
    <3> QED BY <2>0, <2>1, <3>1, <1>t DEF ConsumerFollows, Ahead
  <2> QED BY <1>k, <2>2, <2>3, <2>4 DEF IInv
<1>8. CASE CheckPeeked
  <2>0. /\ cAt = "check" /\ status' \in {status, "peek_n size"} /\ UNCHANGED <<tail, e, got>>
        /\ popping' = "none" /\ cAt' = "idle" /\ cLeft' = 0 /\ saved' = 0 /\ sz' = 0
    BY <1>8 DEF CheckPeeked, EndPop, Pops, shared
  <2>1. Oldest' = Oldest
    BY <2>0, <1>t DEF ConsumerFollows, Oldest
  <2>2. TypeOK'
    <3>1. QueueOK' /\ status' \in Status
      BY <2>0, <1>t, <1>p DEF TypeOK, QueueOK, Status
    <3>2. ConsumerOK'
      BY <2>0, <1>t, <1>z, ZeroSlot DEF TypeOK, ConsumerOK
    <3> QED BY <3>1, <3>2, <1>k DEF TypeOK, Status
  <2>3. SlotsApart'
    BY <2>0, <2>1, <1>w
  <2>4. ConsumerFollows' /\ Ahead'
    BY <2>0 DEF ConsumerFollows, Ahead
  <2> QED BY <1>k, <2>2, <2>3, <2>4 DEF IInv
<1> QED
  BY <1>0, <1>1, <1>2, <1>3, <1>4, <1>5, <1>6, <1>7, <1>8 DEF Consumer

LEMMA InvariantStep == IInv /\ [Next]_vars => IInv'
<1> SUFFICES ASSUME IInv, [Next]_vars PROVE IInv'
  OBVIOUS
<1>1. CASE UNCHANGED vars
  <2> USE <1>1 DEF vars, shared, producer, consumer, reading
  <2>1. TypeOK'
    BY DEF IInv, TypeOK, QueueOK, ProducerOK, ConsumerOK
  <2>2. SlotsApart'
    BY DEF IInv, SlotsApart, Oldest
  <2>3. ProducerFollows' /\ ConsumerFollows'
    BY DEF IInv, ProducerFollows, ConsumerFollows
  <2>4. Ahead'
    BY DEF IInv, Ahead
  <2> QED BY <2>1, <2>2, <2>3, <2>4 DEF IInv
<1> QED
  BY <1>1, ProducerKeeps, ConsumerKeeps DEF Next, Stopped

\* The invariant holds in every reachable state.
THEOREM Invariant == Spec => []IInv
BY InitInvariant, InvariantStep, PTL DEF Spec

\* Every index stays inside the ring and every local has its type, after a push has
\* overrun a look-ahead too.
THEOREM TypeCorrect == Spec => []TypeOK
<1>1. IInv => TypeOK
  BY DEF IInv
<1> QED
  BY <1>1, Invariant, PTL

\* Until a push overruns a look-ahead, the slot being written is free and never the
\* one being read (the two sides' operations in any order).
THEOREM SlotsStayApart == Spec => []SlotsApart
<1>1. IInv => SlotsApart
  BY DEF IInv
<1> QED
  BY <1>1, Invariant, PTL

-----------------------------------------------------------------------------
(* The refinement. *)

LEMMA Quiet ==
  ASSUME UNCHANGED <<c_buf, head>>, Oldest' = Oldest
  PROVE  queue' = queue
BY DEF queue

\* Only the write of head pushes.
LEMMA ProducerRefines ==
  ASSUME IInv, Producer, ~overrun'
  PROVE  [Abstract!Next]_<<queue, got, overrun>>
<1>t. /\ c_buf \in [Slot -> Value] /\ head \in Slot /\ Oldest \in Slot
      /\ SlotsApart /\ ProducerFollows /\ overrun \in BOOLEAN
  BY OldestSlot DEF IInv, TypeOK, QueueOK
<1>p. UNCHANGED <<tail, popping, saved, got>>
  BY DEF Producer, cq_push, cq_push_n, CheckFull, WriteSlot, AdvanceHead,
     CheckPushed, Pushes, shared, consumer, reading
<1>f. Oldest' = Oldest
  BY <1>p DEF Oldest
<1>o. UNCHANGED overrun
  BY <1>t DEF Producer, cq_push, cq_push_n, CheckFull, WriteSlot, AdvanceHead, CheckPushed
<1>1. ASSUME UNCHANGED shared PROVE UNCHANGED <<queue, got, overrun>>
  BY <1>1, <1>p, <1>f, <1>o, Quiet DEF shared
<1>2. CASE WriteSlot
  <2>1. c_buf' = [c_buf EXCEPT ![head] = pItem] /\ UNCHANGED head
    BY <1>2 DEF WriteSlot
  <2>2. Contents([c_buf EXCEPT ![head] = pItem], head, Oldest) = Contents(c_buf, head, Oldest)
    BY <1>t, WrittenContents
  <2>3. queue' = queue
    BY <1>f, <2>1, <2>2 DEF queue
  <2> QED BY <1>p, <1>o, <2>3
<1>3. CASE AdvanceHead
  <2>1. head' = Inc(head) /\ Inc(head) # Oldest /\ UNCHANGED c_buf
    BY <1>3, <1>t, <1>o DEF AdvanceHead, Pushes, SlotsApart
  <2>2. Contents(c_buf, Inc(head), Oldest) = Append(Contents(c_buf, head, Oldest), c_buf[head])
    BY <1>t, <2>1, PushedContents
  <2>3. queue' = Append(queue, c_buf[head]) /\ c_buf[head] \in Value
    BY <1>t, <1>f, <2>1, <2>2 DEF queue
  <2> QED BY <1>p, <1>o, <2>3 DEF Abstract!Next, Abstract!Push
<1> QED
  BY <1>1, <1>2, <1>3 DEF Producer, cq_push, cq_push_n, CheckFull, CheckPushed

\* Only the write of tail by a call that keeps what it reads pops, and the element
\* read is the first.
LEMMA ConsumerRefines ==
  ASSUME IInv, Consumer, ~overrun'
  PROVE  [Abstract!Next]_<<queue, got, overrun>>
<1>t. /\ c_buf \in [Slot -> Value] /\ head \in Slot /\ tail \in Slot
      /\ SlotsApart /\ ConsumerFollows
  BY DEF IInv, TypeOK, QueueOK
<1>p. UNCHANGED <<c_buf, head, overrun>>
  BY DEF Consumer, cq_pop, cq_pop_n_noblk, cq_peek_n, CheckEmpty, ReadSlot, AdvanceTail,
     RestoreTail, CheckPeeked, Pops, shared
<1>1. ASSUME Oldest' = Oldest, got' = got PROVE UNCHANGED <<queue, got, overrun>>
  BY <1>1, <1>p, Quiet
<1>f. ASSUME head # tail, popping # "peek_n"
      PROVE  /\ queue # <<>> /\ Head(queue) = c_buf[tail]
             /\ Tail(queue) = Contents(c_buf, head, Inc(tail))
  BY <1>f, <1>t, PoppedContents DEF queue, Oldest
<1>2. ASSUME NEW kind \in {"pop", "pop_nonblock", "peek"}, cq_pop(kind)
      PROVE  UNCHANGED <<queue, got, overrun>>
  BY <1>1, <1>2, <1>t DEF cq_pop, Pops, shared, ConsumerFollows, Oldest
<1>3. ASSUME NEW n \in 1..(CQ_N - 1), cq_pop_n_noblk(n) PROVE UNCHANGED <<queue, got, overrun>>
  BY <1>1, <1>3, <1>t DEF cq_pop_n_noblk, Pops, shared, ConsumerFollows, Oldest
<1>4. ASSUME NEW n \in 1..(CQ_N - 1), cq_peek_n(n) PROVE UNCHANGED <<queue, got, overrun>>
  BY <1>1, <1>4, <1>t DEF cq_peek_n, Pops, shared, ConsumerFollows, Oldest
<1>5. ASSUME CheckEmpty PROVE UNCHANGED <<queue, got, overrun>>
  BY <1>1, <1>5, <1>t DEF CheckEmpty, EndPop, reading, shared, Oldest
<1>6. CASE ReadSlot
  <2>1. head # tail /\ e' = c_buf[tail] /\ UNCHANGED tail
    BY <1>6, <1>t, <1>p DEF ReadSlot, Pops, SlotsApart, shared
  <2>2. CASE popping = "peek"
    <3>1. got' = c_buf[tail] /\ Oldest = tail /\ Oldest' = tail
      BY <1>6, <2>1, <2>2 DEF ReadSlot, EndPop, Oldest
    <3>2. queue' = queue
      BY <3>1, <1>p, Quiet
    <3> QED BY <1>f, <1>p, <2>1, <2>2, <3>1, <3>2 DEF Abstract!Next, Abstract!Peek
  <2>3. CASE popping # "peek"
    <3>1. got' = got /\ Oldest' = Oldest
      BY <1>6, <2>1, <2>3 DEF ReadSlot, reading, Oldest
    <3> QED BY <1>1, <3>1
  <2> QED BY <2>2, <2>3
<1>7. CASE AdvanceTail
  <2>1. head # tail /\ e = c_buf[tail] /\ tail' = Inc(tail)
    BY <1>7, <1>t, <1>p DEF AdvanceTail, Pops, SlotsApart
  <2>2. CASE popping = "peek_n"
    <3>1. got' = got /\ UNCHANGED <<popping, saved>>
      BY <1>7, <2>2 DEF AdvanceTail, reading
    <3> QED BY <1>1, <2>2, <3>1 DEF Oldest
  <2>3. CASE popping # "peek_n"
    <3>1. got' = e /\ popping' # "peek_n"
      BY <1>7, <2>3 DEF AdvanceTail, EndPop
    <3>2. queue' = Contents(c_buf, head, Inc(tail))
      BY <1>p, <2>1, <3>1 DEF queue, Oldest
    <3>3. queue # <<>> /\ got' = Head(queue) /\ queue' = Tail(queue)
      BY <1>f, <2>1, <2>3, <3>1, <3>2
    <3> QED BY <1>p, <3>3 DEF Abstract!Next, Abstract!Pop
  <2> QED BY <2>2, <2>3
<1>8. ASSUME RestoreTail PROVE UNCHANGED <<queue, got, overrun>>
  <2>1. popping = "peek_n" /\ UNCHANGED <<popping, saved, got>>
    BY <1>8, <1>t DEF RestoreTail, Pops, ConsumerFollows, reading
  <2> QED BY <1>1, <2>1 DEF Oldest
<1>9. ASSUME CheckPeeked PROVE UNCHANGED <<queue, got, overrun>>
  <2>1. /\ popping = "peek_n" /\ tail = saved
        /\ popping' = "none" /\ UNCHANGED <<tail, got>>
    BY <1>9, <1>t DEF CheckPeeked, Pops, ConsumerFollows, EndPop, shared
  <2> QED BY <1>1, <2>1 DEF Oldest
<1> QED
  BY <1>2, <1>3, <1>4, <1>5, <1>6, <1>7, <1>8, <1>9 DEF Consumer

LEMMA InitRefines == IInv /\ Init => Abstract!Init
<1> SUFFICES ASSUME IInv, Init PROVE Abstract!Init
  OBVIOUS
<1>1. got \in Value /\ c_buf \in [Slot -> Value]
  BY DEF IInv, TypeOK, QueueOK, ConsumerOK
<1>2. head = 0 /\ Oldest = 0 /\ overrun = FALSE
  BY DEF Init, Oldest
<1>3. Len(queue) = 0 /\ queue \in Seq(Value)
  BY <1>1, <1>2, ZeroSlot, ContentsSeq, UsedRange DEF queue
<1> QED
  BY <1>1, <1>2, <1>3 DEF Abstract!Init

\* The circular queue is a FIFO: elements come out in the order they went in, each
\* once, whatever the interleaving of the producer's and the consumer's reads and
\* writes of head, tail and the slots, look-aheads included, until a push overruns
\* one.
THEOREM IsFifo == Spec => KeepsFifo
<1>1. IInv /\ [Next]_vars => [Abstract!Next]_<<queue, got, overrun>>
  <2> SUFFICES ASSUME IInv, [Next]_vars PROVE [Abstract!Next]_<<queue, got, overrun>>
    OBVIOUS
  <2>1. ASSUME UNCHANGED vars PROVE UNCHANGED <<queue, got, overrun>>
    <3>1. UNCHANGED <<c_buf, head, got, overrun>> /\ Oldest' = Oldest
      BY <2>1 DEF vars, shared, consumer, reading, Oldest
    <3> QED BY <3>1, Quiet
  <2>2. CASE overrun'
    BY <2>2 DEF Abstract!Next, Abstract!Overrun
  <2>3. CASE ~overrun'
    BY <2>1, <2>3, ProducerRefines, ConsumerRefines DEF Next, Stopped
  <2> QED
    BY <2>2, <2>3
<1> QED
  BY <1>1, InitRefines, Invariant, PTL DEF KeepsFifo, Abstract!Spec, Spec

-----------------------------------------------------------------------------
(* Digits: the recursive function in it. *)

Base == {2, 10, 16}

LEMMA Division ==
  ASSUME NEW base \in Base, NEW v \in Nat
  PROVE  /\ v \div base \in Nat /\ v % base \in 0..(base - 1)
         /\ v = (v \div base) * base + (v % base)
         /\ v >= base => v \div base < v
         /\ v < base => v % base = v
         /\ \A p \in Nat : v < 2 * p /\ v >= base => v \div base < p
<1>1. CASE base = 2
  BY <1>1
<1>2. CASE base = 10
  BY <1>2
<1>3. CASE base = 16
  BY <1>3
<1> QED
  BY <1>1, <1>2, <1>3 DEF Base

IsDigits(f, u, base) ==
  f = [v \in 0..u |->
         <<Glyph[(v % base) + 1]>> \o (IF v < base THEN <<>> ELSE f[v \div base])]

LEMMA DigitsExist ==
  ASSUME NEW base \in Base
  PROVE  \A u \in Nat : \E f : IsDigits(f, u, base)
<1> DEFINE Lowest(v) == <<Glyph[(v % base) + 1]>>
           T == {u \in Nat : \E f : IsDigits(f, u, base)}
<1>1. 0 \in T
  <2> DEFINE f == [v \in 0..0 |-> Lowest(0) \o <<>>]
  <2>1. 0 < base
    BY DEF Base
  <2>2. f = [v \in 0..0 |-> Lowest(v) \o (IF v < base THEN <<>> ELSE f[v \div base])]
    BY <2>1
  <2> QED
    BY <2>2 DEF IsDigits
<1>2. ASSUME NEW u \in Nat, u \in T
      PROVE  u + 1 \in T
  <2>1. PICK f : IsDigits(f, u, base)
    BY <1>2
  <2>2. \A v \in 0..u : f[v] = Lowest(v) \o (IF v < base THEN <<>> ELSE f[v \div base])
    BY <2>1 DEF IsDigits
  <2> DEFINE g == [v \in 0..(u + 1) |->
                     IF v <= u THEN f[v]
                     ELSE Lowest(v) \o (IF v < base THEN <<>> ELSE f[v \div base])]
  <2> HIDE DEF Lowest
  <2>3. ASSUME NEW v \in 0..(u + 1)
        PROVE  g[v] = Lowest(v) \o (IF v < base THEN <<>> ELSE g[v \div base])
    <3>1. v >= base => v \div base \in 0..u /\ g[v \div base] = f[v \div base]
      <4>1. v >= base => v \div base \in Nat /\ v \div base < v
        BY Division
      <4> QED
        BY <4>1
    <3>2. v < base \/ v >= base
      BY DEF Base
    <3>3. v >= base => ~ (v < base)
      BY DEF Base
    <3>4. g[v] = Lowest(v) \o (IF v < base THEN <<>> ELSE f[v \div base])
      BY <2>2
    <3> HIDE DEF g
    <3> QED
      BY <3>1, <3>2, <3>3, <3>4
  <2>4. IsDigits(g, u + 1, base)
    BY <2>3 DEF IsDigits, Lowest
  <2> QED
    BY <2>4
<1> HIDE DEF T
<1>3. \A u \in Nat : u \in T
  BY <1>1, <1>2, NumbersByInduction
<1> QED
  BY <1>3 DEF T

LEMMA DigitsIs ==
  ASSUME NEW base \in Base, NEW u \in Nat
  PROVE  \E f : IsDigits(f, u, base) /\ Digits(u, base) = f[u]
<1> DEFINE f == CHOOSE f : IsDigits(f, u, base)
<1>1. IsDigits(f, u, base)
  BY DigitsExist
<1>2. Digits(u, base) = f[u]
  BY DEF Digits, IsDigits
<1> QED
  BY <1>1, <1>2

-----------------------------------------------------------------------------
(* ReadAs: likewise. *)

IsValue(f, text, base, n) ==
  f = [k \in 0..n |-> IF k = 0 THEN 0 ELSE f[k - 1] * base + Digit(text[k])]

LEMMA ValueExists ==
  ASSUME NEW text, NEW base
  PROVE  \A n \in Nat : \E f : IsValue(f, text, base, n)
<1> DEFINE T == {n \in Nat : \E f : IsValue(f, text, base, n)}
<1>1. 0 \in T
  <2> DEFINE g == [k \in 0..0 |-> 0]
  <2>1. g = [k \in 0..0 |-> IF k = 0 THEN 0 ELSE g[k - 1] * base + Digit(text[k])]
    OBVIOUS
  <2> QED
    BY <2>1 DEF IsValue
<1>2. ASSUME NEW n \in Nat, n \in T
      PROVE  n + 1 \in T
  <2>1. PICK f : IsValue(f, text, base, n)
    BY <1>2
  <2>2. \A k \in 0..n : f[k] = IF k = 0 THEN 0 ELSE f[k - 1] * base + Digit(text[k])
    BY <2>1 DEF IsValue
  <2> DEFINE g == [k \in 0..(n + 1) |-> IF k <= n THEN f[k] ELSE f[k - 1] * base + Digit(text[k])]
  <2>3. ASSUME NEW k \in 0..(n + 1)
        PROVE  g[k] = IF k = 0 THEN 0 ELSE g[k - 1] * base + Digit(text[k])
    <3>1. k # 0 => k - 1 \in 0..(n + 1) /\ g[k - 1] = f[k - 1]
      OBVIOUS
    <3>2. g[k] = IF k <= n THEN f[k] ELSE f[k - 1] * base + Digit(text[k])
      OBVIOUS
    <3>3. k <= n => f[k] = IF k = 0 THEN 0 ELSE f[k - 1] * base + Digit(text[k])
      BY <2>2
    <3>4. ~ (k <= n) => k # 0
      OBVIOUS
    <3> HIDE DEF g
    <3> QED
      BY <3>1, <3>2, <3>3, <3>4
  <2>4. IsValue(g, text, base, n + 1)
    BY <2>3 DEF IsValue
  <2> QED
    BY <2>4
<1> HIDE DEF T
<1>3. \A n \in Nat : n \in T
  BY <1>1, <1>2, NumbersByInduction
<1> QED
  BY <1>3 DEF T

LEMMA ReadAsIs ==
  ASSUME NEW text, NEW base, Len(text) \in Nat
  PROVE  \E f : IsValue(f, text, base, Len(text)) /\ ReadAs(text, base) = f[Len(text)]
<1> DEFINE f == CHOOSE f : IsValue(f, text, base, Len(text))
<1>1. IsValue(f, text, base, Len(text))
  BY ValueExists
<1>2. ReadAs(text, base) = f[Len(text)]
  BY DEF ReadAs, IsValue
<1> QED
  BY <1>1, <1>2

LEMMA ReadAppended ==
  ASSUME NEW S, NEW t \in Seq(S), NEW c \in S, NEW base
  PROVE  ReadAs(Append(t, c), base) = ReadAs(t, base) * base + Digit(c)
<1> DEFINE u == Append(t, c)
           n == Len(t)
<1>1. /\ n \in Nat /\ Len(u) = n + 1 /\ u[n + 1] = c
      /\ \A k \in 1..n : u[k] = t[k]
  OBVIOUS
<1>2. PICK f : IsValue(f, t, base, n) /\ ReadAs(t, base) = f[n]
  BY <1>1, ReadAsIs
<1> HIDE DEF u
<1>31. Len(u) \in Nat
  BY <1>1
<1>32. \E g : IsValue(g, u, base, Len(u)) /\ ReadAs(u, base) = g[Len(u)]
  BY <1>31, ReadAsIs
<1>3. PICK g : IsValue(g, u, base, n + 1) /\ ReadAs(u, base) = g[n + 1]
  BY <1>1, <1>32
<1> HIDE DEF n
<1>4. \A k \in 0..n : f[k] = IF k = 0 THEN 0 ELSE f[k - 1] * base + Digit(t[k])
  BY <1>2 DEF IsValue
<1>5. \A k \in 0..(n + 1) : g[k] = IF k = 0 THEN 0 ELSE g[k - 1] * base + Digit(u[k])
  BY <1>3 DEF IsValue
<1> DEFINE T == {k \in Nat : k <= n => g[k] = f[k]}
<1>6. 0 \in T
  BY <1>1, <1>4, <1>5
<1>7. ASSUME NEW k \in Nat, k \in T, k + 1 <= n
      PROVE  g[k + 1] = f[k + 1]
  <2>1. g[k] = f[k] /\ k + 1 \in 0..n /\ k + 1 \in 0..(n + 1) /\ k + 1 # 0 /\ (k + 1) - 1 = k
    BY <1>1, <1>7
  <2>2. u[k + 1] = t[k + 1]
    BY <1>1, <1>7
  <2>3. g[k + 1] = g[k] * base + Digit(u[k + 1])
    BY <1>5, <2>1
  <2>4. f[k + 1] = f[k] * base + Digit(t[k + 1])
    BY <1>4, <2>1
  <2> QED
    BY <2>1, <2>2, <2>3, <2>4
<1>8. ASSUME NEW k \in Nat, k \in T PROVE k + 1 \in T
  BY <1>7, <1>8, k + 1 \in Nat
<1> HIDE DEF T
<1>9. \A k \in Nat : k \in T
  BY <1>6, <1>8, NumbersByInduction
<1>10. g[n] = f[n]
  BY <1>1, <1>9 DEF T
<1>11. g[n + 1] = g[n] * base + Digit(c)
  BY <1>1, <1>5, (n + 1) - 1 = n, n + 1 # 0, n + 1 \in 0..(n + 1)
<1> QED
  BY <1>2, <1>3, <1>10, <1>11 DEF u

LEMMA ReadNothing == \A base : ReadAs(<<>>, base) = 0
<1> TAKE base
<1>1. Len(<<>>) = 0
  OBVIOUS
<1>2. PICK f : IsValue(f, <<>>, base, 0) /\ ReadAs(<<>>, base) = f[0]
  BY <1>1, ReadAsIs
<1>3. f[0] = 0
  BY <1>2, 0 \in 0..0 DEF IsValue
<1> QED
  BY <1>2, <1>3


-----------------------------------------------------------------------------
(* PowerOfTwo: likewise, over all of Nat. *)

IsPower(f, n) == f = [k \in 0..n |-> IF k = 0 THEN 1 ELSE 2 * f[k - 1]]

LEMMA PowerExists == \A n \in Nat : \E f : IsPower(f, n)
<1> DEFINE T == {n \in Nat : \E f : IsPower(f, n)}
<1>1. 0 \in T
  <2> DEFINE g == [k \in 0..0 |-> 1]
  <2>1. g = [k \in 0..0 |-> IF k = 0 THEN 1 ELSE 2 * g[k - 1]]
    OBVIOUS
  <2> QED
    BY <2>1 DEF IsPower
<1>2. ASSUME NEW n \in Nat, n \in T
      PROVE  n + 1 \in T
  <2>1. PICK f : IsPower(f, n)
    BY <1>2
  <2>2. \A k \in 0..n : f[k] = IF k = 0 THEN 1 ELSE 2 * f[k - 1]
    BY <2>1 DEF IsPower
  <2> DEFINE g == [k \in 0..(n + 1) |-> IF k <= n THEN f[k] ELSE 2 * f[k - 1]]
  <2>3. ASSUME NEW k \in 0..(n + 1)
        PROVE  g[k] = IF k = 0 THEN 1 ELSE 2 * g[k - 1]
    <3>1. k # 0 => k - 1 \in 0..(n + 1) /\ g[k - 1] = f[k - 1]
      OBVIOUS
    <3>2. g[k] = IF k <= n THEN f[k] ELSE 2 * f[k - 1]
      OBVIOUS
    <3>3. k <= n => f[k] = IF k = 0 THEN 1 ELSE 2 * f[k - 1]
      BY <2>2
    <3>4. ~ (k <= n) => k # 0
      OBVIOUS
    <3> HIDE DEF g
    <3> QED
      BY <3>1, <3>2, <3>3, <3>4
  <2>4. IsPower(g, n + 1)
    BY <2>3 DEF IsPower
  <2> QED
    BY <2>4
<1> HIDE DEF T
<1>3. \A n \in Nat : n \in T
  BY <1>1, <1>2, NumbersByInduction
<1> QED
  BY <1>3 DEF T

\* Two of them agree where both are defined.
LEMMA PowersAgree ==
  ASSUME NEW n \in Nat, NEW f, IsPower(f, n), NEW l \in Nat, NEW g, IsPower(g, l)
  PROVE  \A k \in Nat : k <= n /\ k <= l => f[k] = g[k]
<1> DEFINE T == {k \in Nat : k <= n /\ k <= l => f[k] = g[k]}
<1>1. \A k \in 0..n : f[k] = IF k = 0 THEN 1 ELSE 2 * f[k - 1]
  BY DEF IsPower
<1>2. \A k \in 0..l : g[k] = IF k = 0 THEN 1 ELSE 2 * g[k - 1]
  BY DEF IsPower
<1>3. 0 \in T
  BY <1>1, <1>2
<1>4. ASSUME NEW k \in Nat, k \in T
      PROVE  k + 1 \in T
  <2>1. SUFFICES ASSUME k + 1 <= n, k + 1 <= l PROVE f[k + 1] = g[k + 1]
    BY k + 1 \in Nat
  <2>2. f[k] = g[k] /\ k + 1 \in 0..n /\ k + 1 \in 0..l /\ k + 1 # 0 /\ (k + 1) - 1 = k
    BY <1>4, <2>1
  <2>3. f[k + 1] = 2 * f[k] /\ g[k + 1] = 2 * g[k]
    BY <1>1, <1>2, <2>2
  <2> QED
    BY <2>2, <2>3
<1> HIDE DEF T
<1>5. \A k \in Nat : k \in T
  BY <1>3, <1>4, NumbersByInduction
<1> QED
  BY <1>5 DEF T

LEMMA PowerIs ==
  /\ PowerOfTwo[0] = 1
  /\ \A k \in Nat : PowerOfTwo[k + 1] = 2 * PowerOfTwo[k]
<1> DEFINE upto(n) == CHOOSE f : IsPower(f, n)
           power == [n \in Nat |-> upto(n)[n]]
<1>1. \A n \in Nat : IsPower(upto(n), n)
  BY PowerExists
<1> HIDE DEF upto
<1>2. \A n \in Nat : power[n] = IF n = 0 THEN 1 ELSE 2 * power[n - 1]
  <2> TAKE n \in Nat
  <2>1. power[n] = upto(n)[n] /\ (n # 0 => power[n - 1] = upto(n - 1)[n - 1])
    OBVIOUS
  <2>2. upto(n)[n] = IF n = 0 THEN 1 ELSE 2 * upto(n)[n - 1]
    BY <1>1, n \in 0..n DEF IsPower
  <2>3. n # 0 => upto(n)[n - 1] = upto(n - 1)[n - 1]
    <3>1. SUFFICES ASSUME n # 0 PROVE upto(n)[n - 1] = upto(n - 1)[n - 1]
      OBVIOUS
    <3>2. n - 1 \in Nat /\ n - 1 <= n /\ n - 1 <= n - 1
      BY <3>1
    <3>3. IsPower(upto(n), n) /\ IsPower(upto(n - 1), n - 1)
      BY <1>1, <3>2
    <3> QED
      BY <3>2, <3>3, PowersAgree
  <2> HIDE DEF power
  <2> QED
    BY <2>1, <2>2, <2>3
<1>3. power = [n \in Nat |-> IF n = 0 THEN 1 ELSE 2 * power[n - 1]]
  BY <1>2
<1> HIDE DEF power
<1>4. PowerOfTwo = [n \in Nat |-> IF n = 0 THEN 1 ELSE 2 * PowerOfTwo[n - 1]]
  BY <1>3 DEF PowerOfTwo
<1>5. \A n \in Nat : PowerOfTwo[n] = IF n = 0 THEN 1 ELSE 2 * PowerOfTwo[n - 1]
  BY <1>4
<1>6. PowerOfTwo[0] = 1
  BY <1>5
<1>7. ASSUME NEW k \in Nat PROVE PowerOfTwo[k + 1] = 2 * PowerOfTwo[k]
  BY <1>5, k + 1 \in Nat, k + 1 # 0, (k + 1) - 1 = k
<1> QED
  BY <1>6, <1>7

LEMMA BitsNatural == Bits \in Nat /\ Bits - 1 \in Nat
BY PrintkAssumption

LEMMA PowerPositive == \A k \in Nat : PowerOfTwo[k] \in Nat \ {0}
<1> DEFINE T == {k \in Nat : PowerOfTwo[k] \in Nat \ {0}}
<1>1. 0 \in T
  BY PowerIs
<1>2. ASSUME NEW k \in Nat, k \in T PROVE k + 1 \in T
  BY <1>2, PowerIs
<1> HIDE DEF T
<1>3. \A k \in Nat : k \in T
  BY <1>1, <1>2, NumbersByInduction
<1> QED
  BY <1>3 DEF T

-----------------------------------------------------------------------------
Glyphs == {Glyph[k] : k \in 1..16}

LEMMA DigitOfGlyph ==
  /\ \A k \in 1..16 : Digit(Glyph[k]) = k - 1
  /\ \A c \in Glyphs : c # "-" /\ c # "x" /\ c # Blank /\ c # Nul
<1>1. \A j, k \in 1..16 : Glyph[j] = Glyph[k] => j = k
  BY DEF Glyph
<1>2. ASSUME NEW k \in 1..16 PROVE Digit(Glyph[k]) = k - 1
  <2>1. (CHOOSE j \in 1..16 : Glyph[j] = Glyph[k]) = k
    BY <1>1
  <2> QED
    BY <2>1 DEF Digit
<1>3. ASSUME NEW k \in 1..16
      PROVE  Glyph[k] # "-" /\ Glyph[k] # "x" /\ Glyph[k] # " " /\ Glyph[k] # "nul"
  <2> DEFINE C == {"0", "1", "2", "3", "4", "5", "6", "7", "8", "9",
                   "a", "b", "c", "d", "e", "f"}
  <2>1. Glyph \in Seq(C)
    BY DEF Glyph
  <2>2. Len(Glyph) = 16
    BY DEF Glyph
  <2> HIDE DEF C
  <2>3. k \in 1..Len(Glyph)
    BY <2>2
  <2>4. Glyph[k] \in C
    BY <2>1, <2>3, ElementOfSeq
  <2> QED
    BY <2>4 DEF C
<1> QED
  BY <1>2, <1>3 DEF Glyphs, Blank, Nul

LEMMA ReverseLonger ==
  ASSUME NEW S, NEW s \in Seq(S), NEW c \in S
  PROVE  /\ Reverse(<<c>> \o s) = Append(Reverse(s), c)
         /\ Reverse(s) \in Seq(S) /\ Len(Reverse(s)) = Len(s)
         /\ <<c>> \o s \in Seq(S) /\ Len(<<c>> \o s) = Len(s) + 1
<1> DEFINE t == <<c>> \o s
           n == Len(s)
           r == Reverse(s)
<1>1. t \in Seq(S) /\ Len(t) = n + 1 /\ t[1] = c /\ \A k \in 1..n : t[k + 1] = s[k]
  OBVIOUS
<1>2. n \in Nat /\ r = [k \in 1..n |-> s[(n - k) + 1]] /\ \A k \in 1..n : s[k] \in S
  BY DEF Reverse
<1> HIDE DEF n, t
<1>3. r \in Seq(S) /\ Len(r) = n
  BY <1>2
<1>4. Reverse(t) = [k \in 1..(n + 1) |-> t[((n + 1) - k) + 1]]
  BY <1>1 DEF Reverse
<1>5. Append(r, c) = [k \in 1..(n + 1) |-> IF k <= n THEN s[(n - k) + 1] ELSE c]
  BY <1>2, <1>3
<1>6. ASSUME NEW k \in 1..(n + 1)
      PROVE  t[((n + 1) - k) + 1] = IF k <= n THEN s[(n - k) + 1] ELSE c
  <2>1. k <= n => (n - k) + 1 \in 1..n /\ ((n - k) + 1) + 1 = ((n + 1) - k) + 1
    BY <1>2
  <2>2. ~ (k <= n) => ((n + 1) - k) + 1 = 1
    BY <1>2
  <2> QED
    BY <1>1, <2>1, <2>2
<1> QED
  BY <1>1, <1>3, <1>4, <1>5, <1>6 DEF t, n


-----------------------------------------------------------------------------
(* The digits of a number, turned round, read back as the number; and one   *)
(* of fewer than k bits has at most k of them.                              *)

IsNumeral(s, v, base) ==
  /\ s \in Seq(Glyphs) /\ Len(s) >= 1
  /\ ReadAs(Reverse(s), base) = v
  /\ \A k \in Nat \ {0} : v < PowerOfTwo[k] => Len(s) <= k

LEMMA NumeralLonger ==
  ASSUME NEW base \in Base, NEW v \in Nat, NEW s \in Seq(Glyphs),
         IF v < base THEN s = <<>> ELSE IsNumeral(s, v \div base, base)
  PROVE  IsNumeral(<<Glyph[(v % base) + 1]>> \o s, v, base)
<1> DEFINE g == Glyph[(v % base) + 1]
           t == <<g>> \o s
<1>1. /\ v \div base \in Nat /\ v % base \in 0..(base - 1)
      /\ v = (v \div base) * base + (v % base)
      /\ v < base => v % base = v
      /\ \A p \in Nat : v < 2 * p /\ v >= base => v \div base < p
  BY Division
<1>2. base \in Nat /\ base <= 16 /\ base >= 2
  BY DEF Base
<1>3. (v % base) + 1 \in 1..16
  BY <1>1, <1>2
<1>4. g \in Glyphs /\ Digit(g) = v % base
  <2>1. g \in Glyphs
    BY <1>3 DEF Glyphs
  <2>2. Digit(Glyph[(v % base) + 1]) = ((v % base) + 1) - 1
    BY <1>3, DigitOfGlyph
  <2> QED
    BY <1>1, <1>2, <2>1, <2>2
<1> HIDE DEF g
<1>5. /\ Reverse(t) = Append(Reverse(s), g)
      /\ Reverse(s) \in Seq(Glyphs) /\ t \in Seq(Glyphs) /\ Len(t) = Len(s) + 1
  BY <1>4, ReverseLonger
<1> HIDE DEF t
<1> DEFINE r == Reverse(s)
<1> HIDE DEF r
<1>6. ReadAs(Reverse(t), base) = ReadAs(r, base) * base + (v % base)
  <2>1. r \in Seq(Glyphs)
    BY <1>5 DEF r
  <2>2. ReadAs(Append(r, g), base) = ReadAs(r, base) * base + Digit(g)
    BY <1>4, <2>1, ReadAppended
  <2> QED
    BY <2>2, <1>4, <1>5 DEF r
<1>7. CASE v < base
  <2>1. s = <<>> /\ Len(s) = 0
    BY <1>7
  <2>2. r = <<>>
    BY <2>1 DEF r, Reverse
  <2>3. ReadAs(Reverse(t), base) = v
    BY <1>1, <1>2, <1>6, <1>7, <2>2, ReadNothing
  <2> QED
    BY <1>5, <2>1, <2>3 DEF IsNumeral, t, g
<1>8. CASE ~ (v < base)
  <2>1. IsNumeral(s, v \div base, base)
    BY <1>8
  <2>2. ReadAs(r, base) = v \div base
    BY <2>1 DEF IsNumeral, r
  <2>3. ReadAs(Reverse(t), base) = v
    BY <1>1, <1>6, <2>2
  <2>4. ASSUME NEW k \in Nat \ {0}, v < PowerOfTwo[k]
        PROVE  Len(s) + 1 <= k
    <3>1. k - 1 \in Nat /\ (k - 1) + 1 = k
      OBVIOUS
    <3>2. PowerOfTwo[k] = 2 * PowerOfTwo[k - 1] /\ PowerOfTwo[k - 1] \in Nat
      BY <3>1, PowerIs, PowerPositive
    <3>3. v \div base < PowerOfTwo[k - 1]
      BY <1>1, <1>2, <1>8, <2>4, <3>2
    <3>4. CASE k = 1
      <4>1. PowerOfTwo[k - 1] = 1
        BY <3>4, PowerIs
      <4>2. v \div base >= 1
        BY <1>1, <1>2, <1>8
      <4> QED
        BY <1>1, <3>3, <4>1, <4>2
    <3>5. CASE k # 1
      <4>1. k - 1 \in Nat \ {0}
        BY <3>5
      <4>2. Len(s) <= k - 1
        BY <2>1, <3>3, <4>1 DEF IsNumeral
      <4>3. Len(s) \in Nat
        OBVIOUS
      <4> QED
        BY <4>2, <4>3
    <3> QED
      BY <3>4, <3>5
  <2>5. Len(s) + 1 >= 1
    BY Len(s) \in Nat
  <2> QED
    BY <1>5, <2>3, <2>4, <2>5 DEF IsNumeral, t, g
<1> QED
  BY <1>7, <1>8

LEMMA DigitsReadBack ==
  ASSUME NEW base \in Base, NEW u \in Nat
  PROVE  IsNumeral(Digits(u, base), u, base)
<1>1. PICK f : IsDigits(f, u, base) /\ Digits(u, base) = f[u]
  BY DigitsIs
<1>2. \A v \in 0..u : f[v] = <<Glyph[(v % base) + 1]>> \o (IF v < base THEN <<>> ELSE f[v \div base])
  BY <1>1 DEF IsDigits
<1> DEFINE Bad == {v \in 0..u : ~ IsNumeral(f[v], v, base)}
<1>3. SUFFICES ASSUME Bad # {} PROVE FALSE
  BY <1>1
<1>31. Bad \in SUBSET Nat
  OBVIOUS
<1> HIDE DEF Bad
<1>4. PICK v \in Bad : \A w \in Bad : v <= w
  BY <1>3, <1>31, LeastNumber
<1> USE DEF Bad
<1>5. v \in Nat /\ v \in 0..u
  BY <1>4
<1>6. v >= base => v \div base \in Nat /\ v \div base < v
  BY <1>5, Division
<1>7. v < base \/ v >= base
  BY <1>5 DEF Base
<1>8. v >= base => IsNumeral(f[v \div base], v \div base, base)
  <2>1. SUFFICES ASSUME v >= base PROVE v \div base \in 0..u /\ v \div base \notin Bad
    OBVIOUS
  <2>2. v \div base \in Nat /\ v \div base < v
    BY <2>1, <1>6
  <2> QED
    BY <1>4, <1>5, <2>2
<1> DEFINE s == IF v < base THEN <<>> ELSE f[v \div base]
<1>9. s \in Seq(Glyphs)
  BY <1>7, <1>8 DEF IsNumeral
<1>10. IF v < base THEN s = <<>> ELSE IsNumeral(s, v \div base, base)
  BY <1>7, <1>8
<1>11. f[v] = <<Glyph[(v % base) + 1]>> \o s
  BY <1>2, <1>5
<1> HIDE DEF s
<1>12. IsNumeral(f[v], v, base)
  BY <1>5, <1>9, <1>10, <1>11, NumeralLonger
<1> QED
  BY <1>4, <1>12


-----------------------------------------------------------------------------
(* emit: blanks, and then the text turned round. *)

IsEmitted(r, d, t, w) ==
  /\ reverse(128, pad(t, w)) = r
  /\ Len(r) = d + Len(t) /\ Len(r) >= w
  /\ \A j \in 1..d : r[j] = Blank
  /\ \A j \in 1..Len(t) : r[d + j] = Reverse(t)[j]

LEMMA Emitted ==
  ASSUME NEW S, Blank \in S, NEW t \in Seq(S), Len(t) <= 64, NEW w \in Nat, w < 32
  PROVE  \E r \in Seq(S) : \E d \in Nat : IsEmitted(r, d, t, w)
<1> DEFINE l == Len(t)
           d == IF l < w THEN w - l ELSE 0
           b == [k \in 1..d |-> Blank]
           p == t \o b
           r == Reverse(p)
<1>1. l \in Nat /\ d \in Nat /\ d + l >= w /\ d + l < 128
  OBVIOUS
<1>2. b \in Seq(S) /\ Len(b) = d /\ \A k \in 1..d : b[k] = Blank
  BY <1>1
<1>3. pad(t, w) = p
  BY DEF pad
<1> HIDE DEF d, b
<1>4. /\ p \in Seq(S) /\ Len(p) = l + d
      /\ \A k \in 1..l : p[k] = t[k]
      /\ \A k \in 1..d : p[l + k] = Blank
  <2>1. \A k \in 1..d : p[l + k] = b[k]
    BY <1>2
  <2>2. p \in Seq(S) /\ Len(p) = l + d /\ \A k \in 1..l : p[k] = t[k]
    BY <1>2
  <2> HIDE DEF p
  <2> QED
    BY <1>2, <2>1, <2>2
<1> HIDE DEF p, l
<1>5. r \in Seq(S) /\ Len(r) = l + d /\ \A j \in 1..(l + d) : r[j] = p[((l + d) - j) + 1]
  <2>1. r = [j \in 1..(l + d) |-> p[((l + d) - j) + 1]]
    BY <1>4 DEF Reverse
  <2>2. \A j \in 1..(l + d) : ((l + d) - j) + 1 \in 1..(l + d)
    BY <1>1
  <2>3. \A j \in 1..(l + d) : p[j] \in S
    BY <1>1, <1>4
  <2> QED
    BY <1>1, <2>1, <2>2, <2>3
<1>6. reverse(128, p) = r
  <2> HIDE DEF r
  <2>1. SubSeq(r, 1, Len(r)) = r
    BY <1>5, SubSeqFull
  <2> QED
    BY <1>1, <1>4, <1>5, <2>1 DEF reverse, r
<1> HIDE DEF r
<1>7. ASSUME NEW j \in 1..d PROVE r[j] = Blank
  <2>1. ((l + d) - j) + 1 = l + ((d - j) + 1) /\ (d - j) + 1 \in 1..d /\ j \in 1..(l + d)
    BY <1>1
  <2> QED
    BY <1>4, <1>5, <2>1
<1>8. ASSUME NEW j \in 1..l PROVE r[d + j] = Reverse(t)[j]
  <2>1. ((l + d) - (d + j)) + 1 = (l - j) + 1 /\ (l - j) + 1 \in 1..l /\ d + j \in 1..(l + d)
    BY <1>1
  <2>2. r[d + j] = t[(l - j) + 1]
    BY <1>4, <1>5, <2>1
  <2>3. Reverse(t)[j] = t[(l - j) + 1]
    BY DEF Reverse, l
  <2> QED
    BY <2>2, <2>3
<1>9. reverse(128, pad(t, w)) = r /\ Len(r) = d + l /\ Len(r) >= w
  BY <1>1, <1>3, <1>5, <1>6
<1> QED
  BY <1>1, <1>5, <1>7, <1>8, <1>9 DEF l, IsEmitted

LEMMA UnpaddedIs ==
  ASSUME NEW S, NEW r \in Seq(S), NEW u \in Seq(S), NEW d \in Nat,
         Len(r) = d + Len(u), Len(u) >= 1, u[1] # Blank,
         \A j \in 1..d : r[j] = Blank, \A j \in 1..Len(u) : r[d + j] = u[j]
  PROVE  Unpadded(r) = u
<1> DEFINE I == {j \in 1..Len(r) : r[j] # Blank}
<1>1. Len(u) \in Nat /\ d + 1 \in 1..Len(r)
  OBVIOUS
<1>2. d + 1 \in I
  BY <1>1
<1>3. ASSUME NEW j \in I PROVE d + 1 <= j
  BY <1>1
<1>4. SelectInSeq(r, LAMBDA c : c # Blank) = IF I # {} THEN Min(I) ELSE 0
  BY DEF SelectInSeq
<1> HIDE DEF I
<1>5. Min(I) = d + 1
  <2>1. \E x \in I : \A y \in I : x <= y
    BY <1>2, <1>3
  <2>2. Min(I) \in I /\ \A y \in I : Min(I) <= y
    BY <2>1 DEF Min
  <2> QED
    BY <1>2, <1>3, <2>2, I \subseteq Nat DEF I
<1>6. Unpadded(r) = SubSeq(r, d + 1, Len(r))
  BY <1>2, <1>4, <1>5 DEF Unpadded
<1>7. SubSeq(r, d + 1, Len(r)) = [j \in 1..Len(u) |-> r[(d + 1) + j - 1]]
  BY <1>1
<1>8. \A j \in 1..Len(u) : r[(d + 1) + j - 1] = u[j]
  BY <1>1, \A j \in 1..Len(u) : (d + 1) + j - 1 = d + j
<1>9. u = [j \in 1..Len(u) |-> u[j]]
  OBVIOUS
<1> QED
  BY <1>6, <1>7, <1>8, <1>9


-----------------------------------------------------------------------------
(* The texts of the conversions. *)

Printed == Character \cup Glyphs \cup {Blank, "-", "x"}
NoNul(s) == \A j \in 1..Len(s) : s[j] # Nul

LEMMA CStringIs ==
  ASSUME NEW S, NEW s \in Seq(S)
  PROVE  CString(s) \in Seq(S) /\ NoNul(CString(s))
<1> DEFINE I == {j \in 1..Len(s) : s[j] = Nul}
<1>1. CASE I = {}
  BY <1>1 DEF CString, NoNul
<1>2. CASE I # {}
  <2>1. I \in SUBSET Nat
    OBVIOUS
  <2> HIDE DEF I
  <2>2. PICK l \in I : \A k \in I : l <= k
    BY <1>2, <2>1, LeastNumber
  <2> USE DEF I
  <2>3. \E k \in 1..Len(s) : s[k] = Nul /\ \A j \in 1..(k - 1) : s[j] # Nul
    <3>1. \A j \in 1..(l - 1) : j \in 1..Len(s) /\ ~ (l <= j)
      BY <2>2
    <3> QED
      BY <2>2, <3>1
  <2> DEFINE k == CHOOSE k \in 1..Len(s) : s[k] = Nul /\ \A j \in 1..(k - 1) : s[j] # Nul
  <2>4. k \in 1..Len(s) /\ \A j \in 1..(k - 1) : s[j] # Nul
    BY <2>3
  <2>5. CString(s) = SubSeq(s, 1, k - 1)
    BY <1>2 DEF CString
  <2> HIDE DEF k
  <2>6. SubSeq(s, 1, k - 1) \in Seq(S) /\ Len(SubSeq(s, 1, k - 1)) = k - 1
        /\ \A j \in 1..(k - 1) : SubSeq(s, 1, k - 1)[j] = s[j]
    BY <2>4
  <2> QED
    BY <2>4, <2>5, <2>6 DEF NoNul
<1> QED
  BY <1>1, <1>2

LEMMA ReverseConcat ==
  ASSUME NEW S, NEW s \in Seq(S), NEW t \in Seq(S)
  PROVE  /\ Reverse(s \o t) = Reverse(t) \o Reverse(s)
         /\ Reverse(s) \in Seq(S) /\ Len(Reverse(s)) = Len(s)
<1> DEFINE l == Len(s)
           n == Len(t)
           u == s \o t
           a == Reverse(s)
           b == Reverse(t)
<1>1. l \in Nat /\ n \in Nat /\ Len(u) = l + n
      /\ (\A k \in 1..l : u[k] = s[k]) /\ (\A k \in 1..n : u[l + k] = t[k])
  OBVIOUS
<1>2. a = [k \in 1..l |-> s[(l - k) + 1]] /\ b = [k \in 1..n |-> t[(n - k) + 1]]
  BY DEF Reverse
<1>3. Reverse(u) = [k \in 1..(l + n) |-> u[((l + n) - k) + 1]]
  BY <1>1 DEF Reverse
<1>4. (\A k \in 1..l : s[k] \in S) /\ (\A k \in 1..n : t[k] \in S)
  OBVIOUS
<1> HIDE DEF l, n, u, a, b
<1>5. a \in Seq(S) /\ b \in Seq(S) /\ Len(a) = l /\ Len(b) = n
  BY <1>1, <1>2, <1>4
<1> DEFINE c == b \o a
           r == Reverse(u)
<1>6. /\ c \in Seq(S) /\ Len(c) = n + l
      /\ (\A k \in 1..n : c[k] = b[k]) /\ (\A k \in 1..l : c[n + k] = a[k])
  <2>1. /\ c \in Seq(S) /\ Len(c) = Len(b) + Len(a)
        /\ \A k \in 1..Len(b) : c[k] = b[k]
        /\ \A k \in 1..Len(a) : c[Len(b) + k] = a[k]
    <3>1. c \in Seq(S) /\ Len(c) = Len(b) + Len(a)
      BY <1>5
    <3>2. \A k \in 1..Len(b) : c[k] = b[k]
      BY <1>5
    <3>3. \A k \in 1..Len(a) : c[Len(b) + k] = a[k]
      BY <1>5
    <3> QED
      BY <3>1, <3>2, <3>3
  <2> QED
    BY <1>5, <2>1
<1>7. r = [k \in 1..(l + n) |-> u[((l + n) - k) + 1]]
  BY <1>3
<1> HIDE DEF c, r
<1>8. ASSUME NEW k \in 1..(l + n)
      PROVE  r[k] = c[k]
  <2>1. r[k] = u[((l + n) - k) + 1]
    BY <1>7
  <2>2. CASE k <= n
    <3>1. (n - k) + 1 \in 1..n /\ ((l + n) - k) + 1 = l + ((n - k) + 1) /\ k \in 1..n
      BY <1>1, <2>2
    <3>2. b[k] = t[(n - k) + 1]
      BY <1>2, <3>1
    <3> QED
      BY <1>1, <1>6, <2>1, <3>1, <3>2
  <2>3. CASE k > n
    <3>1. k - n \in 1..l /\ ((l + n) - k) + 1 = (l - (k - n)) + 1 /\ ((l + n) - k) + 1 \in 1..l
          /\ n + (k - n) = k
      BY <1>1, <2>3
    <3>2. a[k - n] = s[(l - (k - n)) + 1]
      BY <1>2, <3>1
    <3> QED
      BY <1>1, <1>6, <2>1, <3>1, <3>2
  <2> QED
    BY <1>1, <2>2, <2>3
<1>9. r = [k \in 1..(l + n) |-> r[k]] /\ c = [k \in 1..(l + n) |-> c[k]]
  <2>1. n + l = l + n
    BY <1>1
  <2> QED
    BY <1>6, <1>7, <2>1
<1>10. r = c
  BY <1>8, <1>9
<1> QED
  BY <1>1, <1>5, <1>10 DEF l, n, u, a, b, c, r

LEMMA ReverseNoNul ==
  ASSUME NEW S, NEW t \in Seq(S), NoNul(t)
  PROVE  NoNul(Reverse(t)) /\ Reverse(t) \in Seq(S) /\ Len(Reverse(t)) = Len(t)
<1>1. Reverse(t) = [k \in 1..Len(t) |-> t[(Len(t) - k) + 1]]
  BY DEF Reverse
<1>2. \A k \in 1..Len(t) : (Len(t) - k) + 1 \in 1..Len(t)
  OBVIOUS
<1> QED
  BY <1>1, <1>2 DEF NoNul


LEMMA PrintedText ==
  ASSUME NEW t \in Seq(Printed), NoNul(t), Len(t) <= 64, NEW w \in Nat, w < 32
  PROVE  LET r == reverse(128, pad(t, w)) IN
         /\ r \in Seq(Printed) /\ NoNul(r) /\ Len(r) >= w
         /\ Len(t) >= 1 /\ Reverse(t)[1] # Blank => Unpadded(r) = Reverse(t)
<1>1. Blank \in Printed /\ Blank # Nul
  BY DEF Printed, Blank, Nul
<1>2. PICK r \in Seq(Printed), d \in Nat : IsEmitted(r, d, t, w)
  BY <1>1, Emitted
<1> USE DEF IsEmitted
<1> DEFINE u == Reverse(t)
<1>3. NoNul(u) /\ u \in Seq(Printed) /\ Len(u) = Len(t)
  BY ReverseNoNul
<1> HIDE DEF u
<1>4. \A j \in 1..Len(u) : r[d + j] = u[j]
  BY <1>2, <1>3 DEF u
<1>5. NoNul(r)
  <2> SUFFICES ASSUME NEW j \in 1..Len(r) PROVE r[j] # Nul
    BY DEF NoNul
  <2>1. CASE j <= d
    BY <1>1, <1>2, <2>1
  <2>2. CASE j > d
    <3>1. j - d \in 1..Len(u) /\ d + (j - d) = j
      BY <1>2, <1>3, <2>2
    <3> QED
      BY <1>3, <1>4, <3>1 DEF NoNul
  <2> QED
    BY <1>2, <2>1, <2>2
<1>6. ASSUME Len(u) >= 1, u[1] # Blank PROVE Unpadded(r) = u
  <2>1. Len(r) = d + Len(u)
    BY <1>2, <1>3
  <2>2. \A j \in 1..d : r[j] = Blank
    BY <1>2
  <2> QED
    BY <1>3, <1>4, <1>6, <2>1, <2>2, UnpaddedIs
<1> QED
  BY <1>2, <1>3, <1>5, <1>6 DEF u

ArePrefixes(s, a, b) ==
  /\ (<<a>> \o s)[1] = a /\ Tail(<<a>> \o s) = s
  /\ (<<a, b>> \o s)[1] = a
  /\ SubSeq(<<a, b>> \o s, 1, 2) = <<a, b>>
  /\ SubSeq(<<a, b>> \o s, 3, Len(<<a, b>> \o s)) = s
  /\ Reverse(<<a>>) = <<a>> /\ Reverse(<<b, a>>) = <<a, b>>

LEMMA Prefixed ==
  ASSUME NEW S, NEW s \in Seq(S), NEW a \in S, NEW b \in S
  PROVE  ArePrefixes(s, a, b)
<1>1. (<<a>> \o s)[1] = a /\ Tail(<<a>> \o s) = s
  OBVIOUS
<1> DEFINE u == <<a, b>> \o s
<1>2. /\ u \in Seq(S) /\ Len(u) = 2 + Len(s) /\ u[1] = a /\ u[2] = b
      /\ \A j \in 1..Len(s) : u[2 + j] = s[j]
  OBVIOUS
<1> HIDE DEF u
<1>3. SubSeq(u, 1, 2) = <<a, b>>
  <2>1. SubSeq(u, 1, 2) = [j \in 1..2 |-> u[1 + j - 1]]
    BY <1>2
  <2>2. \A j \in 1..2 : u[1 + j - 1] = <<a, b>>[j]
    BY <1>2
  <2>3. <<a, b>> = [j \in 1..2 |-> <<a, b>>[j]]
    OBVIOUS
  <2> QED
    BY <2>1, <2>2, <2>3
<1>4. SubSeq(u, 3, Len(u)) = s
  <2>1. SubSeq(u, 3, Len(u)) = [j \in 1..Len(s) |-> u[3 + j - 1]]
    BY <1>2
  <2>2. \A j \in 1..Len(s) : u[3 + j - 1] = s[j]
    BY <1>2, \A j \in 1..Len(s) : 3 + j - 1 = 2 + j
  <2>3. s = [j \in 1..Len(s) |-> s[j]]
    OBVIOUS
  <2> QED
    BY <2>1, <2>2, <2>3
<1>5. Reverse(<<a>>) = <<a>>
  <2>1. Reverse(<<a>>) = [j \in 1..1 |-> <<a>>[(1 - j) + 1]]
    BY DEF Reverse
  <2> QED
    BY <2>1
<1>6. Reverse(<<b, a>>) = <<a, b>>
  <2>1. Reverse(<<b, a>>) = [j \in 1..2 |-> <<b, a>>[(2 - j) + 1]]
    BY DEF Reverse
  <2>2. \A j \in 1..2 : <<b, a>>[(2 - j) + 1] = <<a, b>>[j]
    OBVIOUS
  <2> QED
    BY <2>1, <2>2
<1> QED
  BY <1>1, <1>2, <1>3, <1>4, <1>5, <1>6 DEF u, ArePrefixes


\* The text of a number has its digits after what is put before them.
IsNumberText(base, v, after, w) ==
  LET t == Digits(v, base) \o after
      r == reverse(128, pad(t, w))
  IN  /\ r \in Seq(Printed) /\ NoNul(r) /\ Len(r) >= w
      /\ Unpadded(r) = Reverse(after) \o Reverse(Digits(v, base))

LEMMA NumberText ==
  ASSUME NEW base \in Base, NEW v \in Nat, v < PowerOfTwo[Bits],
         NEW after \in Seq(Printed), NoNul(after), Len(after) <= 3,
         Len(after) > 0 => Reverse(after)[1] # Blank,
         NEW w \in Nat, w < 32
  PROVE  IsNumberText(base, v, after, w)
<1> DEFINE s == Digits(v, base)
           t == s \o after
<1>1. IsNumeral(s, v, base)
  BY DigitsReadBack
<1> HIDE DEF s
<1>2. /\ s \in Seq(Glyphs) /\ Len(s) >= 1 /\ Len(s) <= 61
  <2>1. Bits \in Nat \ {0} /\ Bits <= 61
    BY PrintkAssumption
  <2>2. Len(s) \in Nat /\ Len(s) <= Bits
    BY <1>1, <2>1 DEF IsNumeral
  <2> QED
    BY <1>1, <2>1, <2>2 DEF IsNumeral
<1>3. s \in Seq(Printed) /\ NoNul(s)
  <2>1. Glyphs \subseteq Printed /\ \A c \in Glyphs : c # Nul
    BY DigitOfGlyph DEF Printed
  <2> QED
    BY <1>2, <2>1 DEF NoNul
<1>4. /\ t \in Seq(Printed) /\ NoNul(t) /\ Len(t) = Len(s) + Len(after) /\ Len(t) >= 1 /\ Len(t) <= 64
  <2>1. /\ t \in Seq(Printed) /\ Len(t) = Len(s) + Len(after)
        /\ (\A j \in 1..Len(s) : t[j] = s[j])
        /\ \A j \in 1..Len(after) : t[Len(s) + j] = after[j]
    BY <1>3
  <2> HIDE DEF t
  <2>2. ASSUME NEW j \in 1..Len(t) PROVE t[j] # Nul
    <3>1. CASE j <= Len(s)
      BY <1>3, <2>1, <3>1 DEF NoNul
    <3>2. CASE j > Len(s)
      <4>1. j - Len(s) \in 1..Len(after) /\ Len(s) + (j - Len(s)) = j
        BY <1>3, <2>1, <3>2
      <4> QED
        BY <2>1, <4>1 DEF NoNul
    <3> QED
      BY <1>3, <3>1, <3>2
  <2>3. Len(s) \in Nat /\ Len(after) \in Nat
    BY <1>3
  <2> QED
    BY <1>2, <2>1, <2>2, <2>3 DEF NoNul
<1>5. Reverse(t) = Reverse(after) \o Reverse(s)
  BY <1>3, ReverseConcat
<1>6. Reverse(t)[1] # Blank
  <2>1. /\ Reverse(after) \in Seq(Printed) /\ Len(Reverse(after)) = Len(after)
        /\ Len(Reverse(s)) = Len(s) /\ Reverse(s) \in Seq(Printed)
    BY <1>3, ReverseConcat
  <2>2. CASE Len(after) > 0
    BY <1>5, <2>1, <2>2
  <2>3. CASE Len(after) = 0
    <3>1. Reverse(s)[1] = s[(Len(s) - 1) + 1] /\ (Len(s) - 1) + 1 \in 1..Len(s)
      BY <1>2, <1>3 DEF Reverse
    <3>2. Reverse(s)[1] \in Glyphs
      BY <1>2, <3>1
    <3> DEFINE a == Reverse(after)
               b == Reverse(s)
    <3>3. a \in Seq(Printed) /\ b \in Seq(Printed) /\ Len(a) = 0 /\ Len(b) >= 1
      BY <1>2, <2>1, <2>3
    <3> HIDE DEF a, b
    <3>4. (a \o b)[1] = b[1]
      BY <3>3
    <3> QED
      BY <1>5, <3>2, <3>4, DigitOfGlyph DEF a, b
  <2> QED
    BY <2>2, <2>3, Len(after) \in Nat
<1> DEFINE r == reverse(128, pad(t, w))
<1> HIDE DEF t
<1>7. r \in Seq(Printed) /\ NoNul(r) /\ Len(r) >= w /\ Unpadded(r) = Reverse(t)
  BY <1>4, <1>6, PrintedText
<1> QED
  BY <1>5, <1>7 DEF s, t, IsNumberText


IsText(piece, t) ==
  /\ t \in Seq(Printed) /\ NoNul(t)
  /\ piece.spec \in Number => ReadsBack(piece, t)

LEMMA HexText ==
  ASSUME NEW piece, piece.spec \in {"p", "x"}, piece.width \in Nat, piece.width < 32,
         piece.arg \in 0..(PowerOfTwo[Bits] - 1)
  PROVE  IsText(piece, Convert(piece))
<1> DEFINE v == piece.arg
           w == piece.width
           after == <<"x", "0">>
           s == Digits(v, 16)
           r == reverse(128, pad(s \o after, w))
<1>1. v \in Nat /\ v < PowerOfTwo[Bits] /\ 16 \in Base
  <2>1. PowerOfTwo[Bits] \in Nat
    BY PowerPositive, PrintkAssumption
  <2> QED
    BY <2>1 DEF Base
<1>2. "0" \in Printed /\ "x" \in Printed /\ "0" # Nul /\ "x" # Nul /\ "0" # Blank /\ "0" # "-"
  <2>1. Glyph[1] = "0"
    BY DEF Glyph
  <2> QED
    BY <2>1 DEF Printed, Glyphs, Nul, Blank
<1>3. Convert(piece) = r
  BY DEF Convert, emit
<1>4. after \in Seq(Printed) /\ NoNul(after) /\ Len(after) = 2
  BY <1>2 DEF NoNul
<1>5. IsNumeral(s, v, 16)
  BY <1>1, DigitsReadBack
<1> DEFINE u == Reverse(s)
<1> HIDE DEF s
<1>6. s \in Seq(Printed) /\ u \in Seq(Printed)
  <2>1. s \in Seq(Printed)
    BY <1>5 DEF IsNumeral, Printed
  <2> QED
    BY <2>1, ReverseConcat
<1>7. /\ Reverse(after) = <<"0", "x">>
      /\ SubSeq(<<"0", "x">> \o u, 1, 2) = <<"0", "x">>
      /\ SubSeq(<<"0", "x">> \o u, 3, Len(<<"0", "x">> \o u)) = u
  <2> HIDE DEF u
  <2>1. ArePrefixes(u, "0", "x")
    BY <1>2, <1>6, Prefixed
  <2> QED
    BY <2>1 DEF ArePrefixes
<1>8. Reverse(after)[1] # Blank
  BY <1>2, <1>7
<1> HIDE DEF r, after
<1>9. r \in Seq(Printed) /\ NoNul(r) /\ Len(r) >= w /\ Unpadded(r) = Reverse(after) \o u
  <2>1. IsNumberText(16, v, after, w)
    <3>1. w \in Nat /\ w < 32 /\ Len(after) <= 3
      BY <1>4
    <3> HIDE DEF v, w
    <3> QED
      BY <1>1, <1>4, <1>8, <3>1, NumberText
  <2> QED
    BY <2>1 DEF IsNumberText, r, s
<1>10. ReadAs(u, 16) = v
  BY <1>5 DEF IsNumeral
<1>11. ReadsBack(piece, r)
  BY <1>7, <1>9, <1>10 DEF ReadsBack, Hexadecimal
<1> QED
  BY <1>3, <1>9, <1>11 DEF IsText

LEMMA BinaryText ==
  ASSUME NEW piece, piece.spec = "b", piece.width \in Nat, piece.width < 32,
         piece.arg \in 0..(PowerOfTwo[Bits] - 1)
  PROVE  IsText(piece, Convert(piece))
<1> DEFINE v == piece.arg
           w == piece.width
           s == Digits(v, 2)
           u == Reverse(s)
           r == reverse(128, pad(s, w))
<1>1. v \in Nat /\ v < PowerOfTwo[Bits] /\ 2 \in Base
  <2>1. PowerOfTwo[Bits] \in Nat
    BY PowerPositive, PrintkAssumption
  <2> QED
    BY <2>1 DEF Base
<1>2. Convert(piece) = r
  BY DEF Convert, emit
<1>3. IsNumeral(s, v, 2)
  BY <1>1, DigitsReadBack
<1> HIDE DEF s
<1>4. s \in Seq(Printed) /\ u \in Seq(Printed)
  <2>1. s \in Seq(Printed)
    BY <1>3 DEF IsNumeral, Printed
  <2> QED
    BY <2>1, ReverseConcat
<1>5. s \o <<>> = s /\ <<>> \o u = u /\ Reverse(<<>>) = <<>>
  <2> HIDE DEF u
  <2> QED
    BY <1>4 DEF Reverse
<1> DEFINE after == <<>>
<1>6. after \in Seq(Printed) /\ NoNul(after) /\ Len(after) = 0
  BY DEF NoNul
<1> HIDE DEF after
<1>7. IsNumberText(2, v, after, w)
  <2>1. w \in Nat /\ w < 32 /\ Len(after) <= 3 /\ ~ (Len(after) > 0)
    BY <1>6
  <2> HIDE DEF v, w
  <2> QED
    BY <1>1, <1>6, <2>1, NumberText
<1>8. r \in Seq(Printed) /\ NoNul(r) /\ Len(r) >= w /\ Unpadded(r) = u
  BY <1>5, <1>7 DEF after, s, IsNumberText
<1>9. ReadAs(u, 2) = v
  BY <1>3 DEF IsNumeral
<1> HIDE DEF r, u
<1>10. ReadsBack(piece, r)
  BY <1>8, <1>9 DEF ReadsBack
<1> QED
  BY <1>2, <1>8, <1>10 DEF IsText


LEMMA DecimalText ==
  ASSUME NEW piece, piece.spec \in {"d", "u"}, piece.width \in Nat, piece.width < 32,
         piece.arg \in 0..(PowerOfTwo[Bits] - 1)
  PROVE  IsText(piece, Convert(piece))
<1> DEFINE signed_p == piece.spec = "d"
           w == piece.width
           below == signed_p /\ Negative(piece.arg)
           v == Magnitude(piece.arg, signed_p)
           after == Sign(piece.arg, signed_p)
           s == Digits(v, 10)
           u == Reverse(s)
           r == reverse(128, pad(s \o after, w))
<1>1. v = IF below THEN PowerOfTwo[Bits] - piece.arg ELSE piece.arg
  BY DEF Magnitude
<1>2. after = IF below THEN <<"-">> ELSE <<>>
  BY DEF Sign
<1>3. v \in Nat /\ v < PowerOfTwo[Bits] /\ 10 \in Base
  <2>1. PowerOfTwo[Bits] \in Nat /\ PowerOfTwo[Bits - 1] \in Nat \ {0}
    BY BitsNatural, PowerPositive
  <2>2. below => piece.arg >= PowerOfTwo[Bits - 1]
    BY DEF Negative
  <2> QED
    BY <1>1, <2>1, <2>2 DEF Base
<1>4. Convert(piece) = r
  <2>0. ~ (w > 128) /\ 10 # 16 /\ 10 # 2 /\ 10 # 8
    OBVIOUS
  <2>1. piece.spec = "d" => Convert(piece) = emit(10, 128, piece.arg, w, TRUE)
    BY DEF Convert
  <2>2. piece.spec = "u" => Convert(piece) = emit(10, 128, piece.arg, w, FALSE)
    BY DEF Convert
  <2>3. emit(10, 128, piece.arg, w, TRUE)
          = reverse(128, pad(Digits(Magnitude(piece.arg, TRUE), 10) \o Sign(piece.arg, TRUE), w))
    BY <2>0, Zenon DEF emit
  <2>4. emit(10, 128, piece.arg, w, FALSE)
          = reverse(128, pad(Digits(Magnitude(piece.arg, FALSE), 10) \o Sign(piece.arg, FALSE), w))
    BY <2>0, Zenon DEF emit
  <2>5. piece.spec = "d" => signed_p = TRUE
    OBVIOUS
  <2>6. piece.spec = "u" => signed_p = FALSE
    OBVIOUS
  <2> HIDE DEF signed_p
  <2> QED
    BY <2>1, <2>2, <2>3, <2>4, <2>5, <2>6
<1>5. "-" \in Printed /\ "-" # Nul /\ "-" # Blank
  BY DEF Printed, Nul, Blank
<1>6. IsNumeral(s, v, 10)
  BY <1>3, DigitsReadBack
<1> HIDE DEF below, v, after, s
<1>7. s \in Seq(Printed) /\ u \in Seq(Printed) /\ Len(u) >= 1 /\ u \in Seq(Glyphs)
  <2>1. s \in Seq(Printed) /\ s \in Seq(Glyphs) /\ Len(s) >= 1
    BY <1>6 DEF IsNumeral, Printed
  <2>2. Reverse(s) \in Seq(Printed) /\ Len(Reverse(s)) = Len(s)
    BY <2>1, ReverseConcat
  <2>3. Reverse(s) \in Seq(Glyphs)
    BY <2>1, ReverseConcat
  <2> QED
    BY <2>1, <2>2, <2>3
<1>8. ReadAs(u, 10) = v
  BY <1>6 DEF IsNumeral
<1> HIDE DEF u
<1>9. ArePrefixes(u, "-", "-")
  BY <1>5, <1>7, Prefixed
<1>10. below => Reverse(after) = <<"-">>
  BY <1>2, <1>9 DEF ArePrefixes
<1>11. ~ below => Reverse(after) = <<>> /\ Len(after) = 0
  BY <1>2 DEF Reverse
<1>12. after \in Seq(Printed) /\ NoNul(after) /\ Len(after) <= 3
  <2>1. <<"-">> \in Seq(Printed) /\ NoNul(<<"-">>) /\ Len(<<"-">>) <= 3
    BY <1>5 DEF NoNul
  <2>2. <<>> \in Seq(Printed) /\ NoNul(<<>>) /\ Len(<<>>) <= 3
    BY DEF NoNul
  <2> QED
    BY <1>2, <2>1, <2>2
<1>13. Len(after) > 0 => Reverse(after)[1] # Blank
  BY <1>5, <1>10, <1>11
<1>14. IsNumberText(10, v, after, w)
  <2>1. w \in Nat /\ w < 32
    OBVIOUS
  <2> HIDE DEF w
  <2> QED
    BY <1>3, <1>12, <1>13, <2>1, NumberText
<1>15. r \in Seq(Printed) /\ NoNul(r) /\ Len(r) >= w /\ Unpadded(r) = Reverse(after) \o u
  BY <1>14 DEF IsNumberText, u, s
<1> HIDE DEF r
<1> DEFINE text == Unpadded(r)
<1>16. /\ below => text[1] = "-" /\ Tail(text) = u
       /\ ~ below => text[1] # "-" /\ text = u
  <2>1. CASE below
    BY <1>9, <1>10, <1>15, <2>1 DEF ArePrefixes
  <2>2. CASE ~ below
    <3>1. text = u
      BY <1>7, <1>11, <1>15, <2>2
    <3>2. u[1] \in Glyphs
      BY <1>7
    <3> QED
      BY <2>2, <3>1, <3>2, DigitOfGlyph
  <2> QED
    BY <2>1, <2>2
<1>17. text[1] = "-" <=> below
  BY <1>16
<1>18. /\ Len(r) >= piece.width
       /\ text[1] = "-" <=> piece.spec = "d" /\ Negative(piece.arg)
       /\ ReadAs(IF text[1] = "-" THEN Tail(text) ELSE text, 10)
            = IF text[1] = "-" THEN PowerOfTwo[Bits] - piece.arg ELSE piece.arg
  <2>1. text[1] = "-" <=> piece.spec = "d" /\ Negative(piece.arg)
    BY <1>17 DEF below
  <2>2. (IF text[1] = "-" THEN Tail(text) ELSE text) = u
    BY <1>16, <1>17
  <2> HIDE DEF text
  <2> QED
    BY <1>1, <1>8, <1>15, <1>17, <2>1, <2>2
<1>19. ReadsBack(piece, r)
  BY <1>18 DEF ReadsBack
<1> QED
  BY <1>4, <1>15, <1>19 DEF IsText

LEMMA OtherText ==
  ASSUME NEW piece, piece.width \in Nat, piece.width < 32,
         \/ piece.spec = "s" /\ piece.arg \in Seq(Character)
         \/ piece.spec = "c" /\ piece.arg \in Character
  PROVE  IsText(piece, Convert(piece))
<1>1. Character \subseteq Printed /\ Blank \in Printed
  BY DEF Printed
<1>2. CASE piece.spec = "s"
  <2>1. Convert(piece) = CString(piece.arg)
    BY <1>2 DEF Convert
  <2> DEFINE s == piece.arg
  <2>2. s \in Seq(Printed)
    BY <1>1, <1>2
  <2> HIDE DEF s
  <2>3. CString(s) \in Seq(Printed) /\ NoNul(CString(s))
    BY <2>2, CStringIs
  <2> QED
    BY <1>2, <2>1, <2>3 DEF s, IsText, Number
<1>3. CASE piece.spec = "c"
  <2> DEFINE t == <<piece.arg>>
             w == piece.width
             r == reverse(128, pad(t, w))
  <2>1. Convert(piece) = CString(r)
    BY <1>3 DEF Convert, emit
  <2>2. t \in Seq(Printed) /\ Len(t) <= 64 /\ w \in Nat /\ w < 32
    BY <1>1, <1>3
  <2>3. r \in Seq(Printed)
    <3> HIDE DEF t, w
    <3>1. PICK x \in Seq(Printed), d \in Nat : IsEmitted(x, d, t, w)
      BY <1>1, <2>2, Emitted
    <3> QED
      BY <3>1 DEF IsEmitted
  <2> HIDE DEF r
  <2>4. CString(r) \in Seq(Printed) /\ NoNul(CString(r))
    BY <2>3, CStringIs
  <2> QED
    BY <1>3, <2>1, <2>4 DEF IsText, Number
<1> QED
  BY <1>2, <1>3

LEMMA TextIs ==
  ASSUME NEW m \in Message, NEW k \in 1..Len(Format[m])
  PROVE  /\ Text[m][k] \in Seq(Printed) /\ NoNul(Text[m][k])
         /\ Known(Format[m][k]) => IsText(Format[m][k], Text[m][k])
<1> DEFINE piece == Format[m][k]
<1>1. /\ piece.width \in Nat
      /\ piece.spec \in Number => piece.arg \in 0..(PowerOfTwo[Bits] - 1)
      /\ piece.spec = "c" => piece.arg \in Character
      /\ piece.spec = "s" => piece.arg \in Seq(Character)
  BY PrintkAssumption
<1>2. Text[m][k] = IF Known(piece) THEN Convert(piece) ELSE <<>>
  BY DEF Text
<1> HIDE DEF piece
<1>3. CASE ~ Known(piece)
  BY <1>2, <1>3 DEF NoNul, piece
<1>4. CASE Known(piece)
  <2>1. piece.spec \in Number \cup {"s", "c"} /\ piece.width < 32
    BY <1>4 DEF Known
  <2>2. ASSUME piece.spec \in {"p", "x"} PROVE IsText(piece, Convert(piece))
    BY <1>1, <2>1, <2>2, HexText DEF Number
  <2>3. ASSUME piece.spec = "b" PROVE IsText(piece, Convert(piece))
    BY <1>1, <2>1, <2>3, BinaryText DEF Number
  <2>4. ASSUME piece.spec \in {"d", "u"} PROVE IsText(piece, Convert(piece))
    BY <1>1, <2>1, <2>4, DecimalText DEF Number
  <2>5. ASSUME piece.spec \in {"s", "c"} PROVE IsText(piece, Convert(piece))
    BY <1>1, <2>1, <2>5, OtherText
  <2>6. IsText(piece, Convert(piece))
    BY <2>1, <2>2, <2>3, <2>4, <2>5 DEF Number
  <2> QED
    BY <1>2, <1>4, <2>6 DEF IsText, piece
<1> QED
  BY <1>3, <1>4


-----------------------------------------------------------------------------
(* What the first pieces of a message say, and what all of them do.         *)

LEMMA FlattenAppended ==
  ASSUME NEW S, NEW seqs \in Seq(Seq(S)), NEW x \in Seq(S)
  PROVE  FlattenSeq(Append(seqs, x)) = FlattenSeq(seqs) \o x
<1> DEFINE n == Len(seqs)
           more == Append(seqs, x)
<1>1. /\ n \in Nat /\ Len(more) = n + 1 /\ more[n + 1] = x
      /\ \A k \in 1..n : more[k] = seqs[k]
  OBVIOUS
<1> HIDE DEF more
<1>2. n + 1 \in Nat \ {0} /\ Len(more) \in Nat \ {0}
  BY <1>1
<1>3. \E g : IsFlattening(g, more, Len(more)) /\ FlattenSeq(more) = g[Len(more)]
  BY <1>2, FlattenIs
<1>4. PICK g : IsFlattening(g, more, n + 1) /\ FlattenSeq(more) = g[n + 1]
  BY <1>1, <1>3
<1>5. \A k \in 1..(n + 1) : g[k] = IF k = 1 THEN more[k] ELSE g[k - 1] \o more[k]
  BY <1>4 DEF IsFlattening
<1>6. CASE n = 0
  <2>1. g[1] = x
    BY <1>1, <1>5, <1>6
  <2>2. seqs = <<>> /\ FlattenSeq(seqs) = seqs
    BY <1>6 DEF FlattenSeq
  <2>3. n + 1 = 1 /\ <<>> \o x = x
    BY <1>6
  <2> QED
    BY <1>4, <2>1, <2>2, <2>3 DEF more
<1>7. CASE n # 0
  <2>1. n \in Nat \ {0}
    BY <1>1, <1>7
  <2>2. PICK f : IsFlattening(f, seqs, n) /\ FlattenSeq(seqs) = f[n]
    BY <2>1, FlattenIs
  <2>3. \A k \in 1..n : f[k] = IF k = 1 THEN seqs[k] ELSE f[k - 1] \o seqs[k]
    BY <2>2 DEF IsFlattening
  <2> DEFINE T == {k \in Nat : k \in 1..n => g[k] = f[k]}
  <2> HIDE DEF n
  <2>4. 0 \in T
    OBVIOUS
  <2>5. ASSUME NEW k \in Nat, k \in T
        PROVE  k + 1 \in T
    <3>1. SUFFICES ASSUME k + 1 \in 1..n PROVE g[k + 1] = f[k + 1]
      BY k + 1 \in Nat
    <3>2. k + 1 \in 1..(n + 1) /\ more[k + 1] = seqs[k + 1] /\ (k + 1) - 1 = k
      BY <1>1, <3>1
    <3>3. CASE k = 0
      BY <1>5, <2>3, <3>1, <3>2, <3>3
    <3>4. CASE k # 0
      <4>1. k \in 1..n /\ k + 1 # 1
        BY <1>1, <3>1, <3>4
      <4>2. g[k] = f[k]
        BY <2>5, <4>1
      <4>3. g[k + 1] = g[k] \o more[k + 1]
        BY <1>5, <3>2, <4>1
      <4>4. f[k + 1] = f[k] \o seqs[k + 1]
        BY <2>3, <3>1, <3>2, <4>1
      <4> QED
        BY <3>2, <4>2, <4>3, <4>4
    <3> QED
      BY <3>3, <3>4
  <2> HIDE DEF T
  <2>6. \A k \in Nat : k \in T
    BY <2>4, <2>5, NumbersByInduction
  <2>7. g[n] = f[n]
    BY <2>1, <2>6 DEF T
  <2>8. g[n + 1] = g[n] \o x
    BY <1>1, <1>5, <2>1, n + 1 \in 1..(n + 1), n + 1 # 1, (n + 1) - 1 = n
  <2> QED
    BY <1>4, <2>2, <2>7, <2>8 DEF more
<1> QED
  BY <1>6, <1>7

Said(m, k) == IF Format[m][k].spec = "text" THEN <<Format[m][k].arg>> ELSE Text[m][k]
Pieces(m) == [k \in 1..Len(Format[m]) |-> Said(m, k)]
Upto(m, k) == FlattenSeq(SubSeq(Pieces(m), 1, k))

LEMMA PiecesAre ==
  ASSUME NEW m \in Message
  PROVE  /\ Len(Format[m]) \in Nat
         /\ Pieces(m) \in Seq(Seq(Printed)) /\ Len(Pieces(m)) = Len(Format[m])
         /\ \A k \in 1..Len(Format[m]) :
              Said(m, k) \in Seq(Printed) /\ NoNul(Said(m, k)) /\ Pieces(m)[k] = Said(m, k)
         /\ Expansion(m) = FlattenSeq(Pieces(m))
<1>1. Len(Format[m]) \in Nat
  BY PrintkAssumption
<1>2. ASSUME NEW k \in 1..Len(Format[m])
      PROVE  Said(m, k) \in Seq(Printed) /\ NoNul(Said(m, k))
  <2> DEFINE piece == Format[m][k]
  <2>1. CASE piece.spec = "text"
    <3>1. piece.arg \in Character \ {Nul}
      BY <2>1, PrintkAssumption
    <3>2. piece.arg \in Printed /\ piece.arg # Nul
      BY <3>1 DEF Printed
    <3> QED
      BY <2>1, <3>2 DEF Said, NoNul
  <2>2. CASE piece.spec # "text"
    BY <2>2, TextIs DEF Said
  <2> QED
    BY <2>1, <2>2
<1>3. Pieces(m) = [k \in 1..Len(Format[m]) |-> Said(m, k)]
  BY DEF Pieces
<1>4. Pieces(m) \in Seq(Seq(Printed)) /\ Len(Pieces(m)) = Len(Format[m])
  BY <1>1, <1>2, <1>3
<1>5. Expansion(m) = FlattenSeq(Pieces(m))
  BY DEF Expansion, Pieces, Said
<1> QED
  BY <1>1, <1>2, <1>3, <1>4, <1>5

LEMMA UptoIs ==
  ASSUME NEW m \in Message
  PROVE  /\ Upto(m, 0) = <<>> /\ Upto(m, Len(Format[m])) = Expansion(m)
         /\ \A k \in 1..Len(Format[m]) : Upto(m, k) = Upto(m, k - 1) \o Said(m, k)
<1> DEFINE n == Len(Format[m])
           p == Pieces(m)
<1>1. /\ n \in Nat /\ p \in Seq(Seq(Printed)) /\ Len(p) = n
      /\ \A k \in 1..n : Said(m, k) \in Seq(Printed) /\ p[k] = Said(m, k)
      /\ Expansion(m) = FlattenSeq(p)
  BY PiecesAre
<1> HIDE DEF n, p
<1>2. SubSeq(p, 1, 0) = <<>> /\ SubSeq(p, 1, n) = p
  BY <1>1
<1>3. Upto(m, 0) = <<>>
  <2>1. FlattenSeq(<<>>) = <<>>
    BY DEF FlattenSeq
  <2> QED
    BY <1>2, <2>1 DEF Upto, p
<1>4. Upto(m, n) = Expansion(m)
  BY <1>1, <1>2 DEF Upto, p
<1>5. ASSUME NEW k \in 1..n
      PROVE  Upto(m, k) = Upto(m, k - 1) \o Said(m, k)
  <2> DEFINE t == SubSeq(p, 1, k - 1)
             x == p[k]
  <2>1. t \in Seq(Seq(Printed)) /\ x \in Seq(Printed)
    BY <1>1
  <2>2. SubSeq(p, 1, k) = Append(t, x)
    <3>1. t = [j \in 1..(k - 1) |-> p[j]] /\ Len(t) = k - 1
      BY <1>1
    <3>2. SubSeq(p, 1, k) = [j \in 1..k |-> p[j]]
      BY <1>1
    <3> HIDE DEF t, x
    <3>3. Append(t, x) = [j \in 1..((k - 1) + 1) |-> IF j = (k - 1) + 1 THEN x ELSE t[j]]
      BY <2>1, <3>1
    <3>4. \A j \in 1..k : p[j] = IF j = (k - 1) + 1 THEN x ELSE t[j]
      BY <3>1 DEF x
    <3> QED
      BY <3>2, <3>3, <3>4, (k - 1) + 1 = k
  <2> HIDE DEF t, x
  <2>3. FlattenSeq(Append(t, x)) = FlattenSeq(t) \o x
    BY <2>1, FlattenAppended
  <2> QED
    BY <1>1, <2>2, <2>3 DEF Upto, p, t, x
<1> QED
  BY <1>3, <1>4, <1>5 DEF n


Starts(s, t) == Len(s) <= Len(t) /\ \A j \in 1..Len(s) : s[j] = t[j]

LEMMA StartsLonger ==
  ASSUME NEW S, NEW s \in Seq(S), NEW t \in Seq(S), NEW x \in Seq(S), Starts(s, t)
  PROVE  Starts(s, t \o x) /\ t \o x \in Seq(S)
<1> DEFINE u == t \o x
<1>1. u \in Seq(S) /\ Len(u) = Len(t) + Len(x) /\ \A j \in 1..Len(t) : u[j] = t[j]
  OBVIOUS
<1>2. Len(s) \in Nat /\ Len(t) \in Nat /\ Len(x) \in Nat
  OBVIOUS
<1> HIDE DEF u
<1>3. Starts(s, u)
  BY <1>1, <1>2 DEF Starts
<1> QED
  BY <1>1, <1>3 DEF u

LEMMA NoNulConcat ==
  ASSUME NEW S, NEW s \in Seq(S), NEW t \in Seq(S), NoNul(s), NoNul(t)
  PROVE  NoNul(s \o t)
<1> DEFINE u == s \o t
<1>1. /\ Len(u) = Len(s) + Len(t) /\ (\A j \in 1..Len(s) : u[j] = s[j])
      /\ \A j \in 1..Len(t) : u[Len(s) + j] = t[j]
  OBVIOUS
<1>2. Len(s) \in Nat /\ Len(t) \in Nat
  OBVIOUS
<1> HIDE DEF u
<1>3. ASSUME NEW j \in 1..Len(u) PROVE u[j] # Nul
  <2>1. CASE j <= Len(s)
    BY <1>1, <1>2, <2>1 DEF NoNul
  <2>2. CASE j > Len(s)
    <3>1. j - Len(s) \in 1..Len(t) /\ Len(s) + (j - Len(s)) = j
      BY <1>1, <1>2, <2>2
    <3> QED
      BY <1>1, <3>1 DEF NoNul
  <2> QED
    BY <1>2, <2>1, <2>2
<1> QED
  BY <1>3 DEF NoNul, u

LEMMA UptoTexts ==
  ASSUME NEW m \in Message
  PROVE  \A k \in 0..Len(Format[m]) : Upto(m, k) \in Seq(Printed) /\ NoNul(Upto(m, k))
<1> DEFINE n == Len(Format[m])
           T == {k \in Nat : k <= n => Upto(m, k) \in Seq(Printed) /\ NoNul(Upto(m, k))}
<1>1. n \in Nat /\ \A k \in 1..n : Said(m, k) \in Seq(Printed) /\ NoNul(Said(m, k))
  BY PiecesAre
<1>2. /\ Upto(m, 0) = <<>>
      /\ \A k \in 1..n : Upto(m, k) = Upto(m, k - 1) \o Said(m, k)
  BY UptoIs
<1> HIDE DEF n
<1>3. 0 \in T
  <2>1. <<>> \in Seq(Printed) /\ NoNul(<<>>)
    BY DEF NoNul
  <2> QED
    BY <1>2, <2>1
<1>4. ASSUME NEW k \in Nat, k \in T
      PROVE  k + 1 \in T
  <2>1. SUFFICES ASSUME k + 1 <= n
                 PROVE  Upto(m, k + 1) \in Seq(Printed) /\ NoNul(Upto(m, k + 1))
    BY k + 1 \in Nat
  <2>2. Upto(m, k) \in Seq(Printed) /\ NoNul(Upto(m, k)) /\ k + 1 \in 1..n /\ (k + 1) - 1 = k
    BY <1>1, <1>4, <2>1
  <2> DEFINE s == Upto(m, k)
             t == Said(m, k + 1)
  <2>3. t \in Seq(Printed) /\ NoNul(t) /\ Upto(m, k + 1) = s \o t
    BY <1>1, <1>2, <2>2
  <2>4. s \in Seq(Printed) /\ NoNul(s)
    BY <2>2
  <2> HIDE DEF s, t
  <2>5. s \o t \in Seq(Printed)
    BY <2>3, <2>4
  <2>6. NoNul(s \o t)
    BY <2>3, <2>4, NoNulConcat
  <2> QED
    BY <2>3, <2>5, <2>6
<1> HIDE DEF T
<1>5. \A k \in Nat : k \in T
  BY <1>3, <1>4, NumbersByInduction
<1> QED
  BY <1>1, <1>5 DEF T, n

LEMMA UptoStarts ==
  ASSUME NEW m \in Message, NEW k \in 0..Len(Format[m])
  PROVE  Starts(Upto(m, k), Expansion(m))
<1> DEFINE n == Len(Format[m])
           T == {d \in Nat : k + d <= n => Starts(Upto(m, k), Upto(m, k + d))}
<1>1. n \in Nat /\ \A j \in 1..n : Said(m, j) \in Seq(Printed)
  BY PiecesAre
<1>2. \A j \in 1..n : Upto(m, j) = Upto(m, j - 1) \o Said(m, j)
  BY UptoIs
<1>3. \A j \in 0..n : Upto(m, j) \in Seq(Printed)
  BY UptoTexts
<1>4. k \in 0..n /\ k \in Nat
  OBVIOUS
<1> HIDE DEF n
<1>5. 0 \in T
  <2>1. k + 0 = k /\ Len(Upto(m, k)) \in Nat
    BY <1>3, <1>4
  <2> QED
    BY <2>1 DEF Starts
<1>6. ASSUME NEW d \in Nat, d \in T
      PROVE  d + 1 \in T
  <2>1. SUFFICES ASSUME k + (d + 1) <= n PROVE Starts(Upto(m, k), Upto(m, k + (d + 1)))
    BY d + 1 \in Nat
  <2>2. k + d \in 0..n /\ k + (d + 1) \in 1..n /\ (k + (d + 1)) - 1 = k + d
    BY <1>1, <1>4, <2>1
  <2> DEFINE s == Upto(m, k)
             t == Upto(m, k + d)
             x == Said(m, k + (d + 1))
  <2>3. Starts(s, t) /\ s \in Seq(Printed) /\ t \in Seq(Printed) /\ x \in Seq(Printed)
    BY <1>1, <1>3, <1>4, <1>6, <2>2
  <2>4. Upto(m, k + (d + 1)) = t \o x
    BY <1>2, <2>2
  <2> HIDE DEF s, t, x
  <2>5. Starts(s, t \o x)
    BY <2>3, StartsLonger
  <2> QED
    BY <2>4, <2>5 DEF s
<1> HIDE DEF T
<1>7. \A d \in Nat : d \in T
  BY <1>5, <1>6, NumbersByInduction
<1>8. n - k \in Nat /\ k + (n - k) = n
  BY <1>1, <1>4
<1>9. Starts(Upto(m, k), Upto(m, k + (n - k)))
  <2>1. n - k \in T /\ k + (n - k) <= n
    BY <1>1, <1>7, <1>8
  <2> QED
    BY <2>1 DEF T
<1>10. Upto(m, n) = Expansion(m)
  BY UptoIs DEF n
<1> QED
  BY <1>8, <1>9, <1>10

LEMMA FittingIs ==
  ASSUME NEW m \in Message
  PROVE  /\ Expansion(m) \in Seq(Printed) /\ Fitting[m] \in Seq(Printed) /\ NoNul(Fitting[m])
         /\ Len(Fitting[m]) = IF Len(Expansion(m)) < BufSize THEN Len(Expansion(m)) ELSE end
         /\ \A j \in 1..Len(Fitting[m]) : Fitting[m][j] = Expansion(m)[j]
<1> DEFINE x == Expansion(m)
           l == IF Len(x) < BufSize THEN Len(x) ELSE end
<1>1. x \in Seq(Printed) /\ NoNul(x)
  <2>1. Len(Format[m]) \in 0..Len(Format[m])
    BY PiecesAre
  <2> QED
    BY <2>1, UptoIs, UptoTexts
<1>2. Fitting[m] = SubSeq(x, 1, l)
  BY DEF Fitting
<1> HIDE DEF x
<1>3. l \in 0..Len(x)
  BY <1>1, PrintkAssumption DEF end
<1> HIDE DEF l
<1>4. /\ SubSeq(x, 1, l) \in Seq(Printed) /\ Len(SubSeq(x, 1, l)) = l
      /\ \A j \in 1..l : SubSeq(x, 1, l)[j] = x[j]
  BY <1>1, <1>3
<1>5. \A j \in 1..l : j \in 1..Len(x)
  BY <1>1, <1>3
<1> QED
  BY <1>1, <1>2, <1>4, <1>5 DEF x, l, NoNul


-----------------------------------------------------------------------------
(* The invariant of a call: what it has still to copy comes next in its     *)
(* message, and all before it has been written, as far as the buffer goes.  *)

Call == [msg : Message, i : Nat \ {0}, text : Seq(Printed), s : Seq(Printed), p : 0..end,
         putting : BOOLEAN, q : 0..end, out : Seq(Printed), by : SUBSET Message]

Underway(c) ==
  /\ \/ c.p + Len(c.s) = Len(Upto(c.msg, c.i - 1))
     \/ c.p = end /\ c.s = <<>> /\ c.p <= Len(Upto(c.msg, c.i - 1))
  /\ \A j \in 1..Len(c.s) : c.s[j] = Expansion(c.msg)[c.p + j]
  /\ c.putting => c.p = Len(Fitting[c.msg])
  /\ ~c.putting => c.q = 0

TextKept(c) ==
  c.i > 1 /\ Format[c.msg][c.i - 1].spec # "text" =>
    Known(Format[c.msg][c.i - 1]) /\ c.text = Text[c.msg][c.i - 1]

CallOK(c) ==
  /\ c.i <= Len(Format[c.msg]) + 1 /\ Len(c.out) = c.q
  /\ Underway(c) /\ TextKept(c)

LEMMA EndIs == BufSize \in Nat /\ end \in Nat /\ end = BufSize - 1 /\ Nul \in Printed
BY PrintkAssumption DEF end, Printed

\* Where it has come to is in its message.
LEMMA WithinMessage ==
  ASSUME NEW c \in Call, CallOK(c)
  PROVE  /\ c.p + Len(c.s) <= Len(Expansion(c.msg)) /\ c.p <= Len(Fitting[c.msg])
         /\ Len(Expansion(c.msg)) \in Nat /\ Len(Fitting[c.msg]) \in 0..end
<1> DEFINE m == c.msg
           u == Upto(m, c.i - 1)
           x == Expansion(m)
           f == Fitting[m]
<1>1. /\ m \in Message /\ c.p \in 0..end /\ c.i \in Nat \ {0} /\ Len(c.s) \in Nat
      /\ c.i <= Len(Format[m]) + 1 /\ Len(Format[m]) \in Nat
  BY PiecesAre DEF Call, CallOK
<1>2. c.i - 1 \in 0..Len(Format[m])
  BY <1>1
<1>3. Len(u) <= Len(x) /\ u \in Seq(Printed)
  BY <1>1, <1>2, UptoStarts, UptoTexts DEF Starts
<1>4. /\ x \in Seq(Printed) /\ f \in Seq(Printed)
      /\ Len(f) = IF Len(x) < BufSize THEN Len(x) ELSE end
  BY <1>1, FittingIs
<1>5. (c.p + Len(c.s) = Len(u)) \/ (c.p = end /\ Len(c.s) = 0 /\ c.p <= Len(u))
  <2>1. Underway(c)
    BY DEF CallOK
  <2>2. (c.p + Len(c.s) = Len(u)) \/ (c.p = end /\ c.s = <<>> /\ c.p <= Len(u))
    BY <2>1 DEF Underway
  <2>3. Len(<<>>) = 0
    OBVIOUS
  <2> HIDE DEF u
  <2> QED
    BY <2>2, <2>3
<1> HIDE DEF u, x, f
<1>6. Len(u) \in Nat /\ Len(x) \in Nat /\ Len(f) \in Nat
  BY <1>3, <1>4
<1>7. c.p + Len(c.s) <= Len(x)
  BY <1>1, <1>3, <1>5, <1>6, EndIs
<1>8. Len(f) <= end /\ c.p <= Len(f)
  BY <1>1, <1>4, <1>6, <1>7, EndIs
<1> QED
  BY <1>6, <1>7, <1>8, EndIs DEF x, f

LEMMA CalledOK ==
  ASSUME NEW m \in Message
  PROVE  Called(m) \in Call /\ CallOK(Called(m))
<1> DEFINE c == Called(m)
<1>1. c \in Call
  BY EndIs DEF Called, Call
<1>2. /\ c.msg = m /\ c.i = 1 /\ c.s = <<>> /\ c.p = 0 /\ c.putting = FALSE /\ c.q = 0
      /\ c.out = <<>>
  BY DEF Called
<1> HIDE DEF c
<1>3. Upto(m, 0) = <<>> /\ Len(Format[m]) \in Nat
  BY UptoIs, PiecesAre
<1>4. Underway(c)
  BY <1>2, <1>3 DEF Underway
<1>5. TextKept(c)
  BY <1>2 DEF TextKept
<1> QED
  BY <1>1, <1>2, <1>3, <1>4, <1>5 DEF CallOK, c

\* The next piece, once what came before it has been copied.
LEMMA NextPiece ==
  ASSUME NEW c \in Call, CallOK(c), c.s = <<>>, c.i <= Len(Format[c.msg]), c.p < end
  PROVE  LET x == Said(c.msg, c.i) IN
         /\ x \in Seq(Printed) /\ c.p + Len(x) = Len(Upto(c.msg, c.i))
         /\ \A j \in 1..Len(x) : x[j] = Expansion(c.msg)[c.p + j]
<1> DEFINE m == c.msg
           t == Upto(m, c.i - 1)
           x == Said(m, c.i)
           u == Upto(m, c.i)
<1>1. /\ m \in Message /\ c.p \in 0..end /\ c.i \in 1..Len(Format[m]) /\ Len(Format[m]) \in Nat
  BY PiecesAre DEF Call
<1>2. x \in Seq(Printed) /\ t \in Seq(Printed) /\ u = t \o x
  <2>1. c.i - 1 \in 0..Len(Format[m])
    BY <1>1
  <2> QED
    BY <1>1, <2>1, PiecesAre, UptoTexts, UptoIs
<1>3. Starts(u, Expansion(m))
  BY <1>1, UptoStarts
<1>4. c.p = Len(t)
  <2>1. Len(c.s) = 0
    OBVIOUS
  <2> QED
    BY <1>1, <2>1 DEF CallOK, Underway
<1> HIDE DEF m, t, x, u
<1>5. /\ Len(u) = Len(t) + Len(x) /\ \A j \in 1..Len(x) : u[Len(t) + j] = x[j]
  BY <1>2
<1>6. \A j \in 1..Len(x) : Len(t) + j \in 1..Len(u)
  BY <1>2, <1>5
<1> QED
  BY <1>2, <1>3, <1>4, <1>5, <1>6 DEF Starts, m, x, u


-----------------------------------------------------------------------------
(* The buffer: whole under a call nothing interrupted, and under the        *)
(* program's every character in the place it has in a message.              *)

Buffers == [0..end -> Printed]
Filled(b, y, x) == [b EXCEPT ![y] = x]

Whole(b, c) ==
  /\ \A y \in 0..(c.p - 1) : b[y] = Fitting[c.msg][y + 1]
  /\ \A j \in 1..c.q : j <= c.p /\ c.out[j] = Fitting[c.msg][j]
  /\ c.putting => b[c.p] = Nul

InPlace(c, x, j) == \E m \in {c.msg} \cup c.by : j <= Len(Fitting[m]) /\ x = Fitting[m][j]

NulOrInPlace(b, c, y) == b[y] = Nul \/ InPlace(c, b[y], y + 1)

\* Putting ends at x, or beyond it when a handler has yet to close its message.
StopsAt(b, x, reach) == b[x] = Nul \/ reach >= x

Torn(b, c, reach) ==
  /\ ~c.putting => \A y \in 0..(c.p - 1) : NulOrInPlace(b, c, y)
  /\ c.putting =>
       \E x \in c.q..end : StopsAt(b, x, reach) /\ \A y \in 0..(x - 1) : NulOrInPlace(b, c, y)
  /\ \A j \in 1..c.q : InPlace(c, c.out[j], j)

LEMMA WrittenIs ==
  ASSUME NEW b \in Buffers, NEW p \in 0..end, NEW x \in Printed
  PROVE  /\ Filled(b, p, x) \in Buffers
         /\ \A y \in 0..end : Filled(b, p, x)[y] = IF y = p THEN x ELSE b[y]
BY DEF Filled, Buffers

\* The call writes its next character.
LEMMA WholeWritten ==
  ASSUME NEW b \in Buffers, NEW c \in Call, NEW d \in Call, NEW x \in Printed,
         Whole(b, c), c.p < end, x = Fitting[c.msg][c.p + 1],
         d.msg = c.msg, d.p = c.p + 1, ~ d.putting, d.q = c.q, d.out = c.out
  PROVE  Whole(Filled(b, c.p, x), d)
<1>1. c.p \in 0..end /\ end \in Nat /\ c.q \in 0..end
  BY EndIs DEF Call
<1>2. \A y \in 0..end : Filled(b, c.p, x)[y] = IF y = c.p THEN x ELSE b[y]
  BY <1>1, WrittenIs
<1>3. ASSUME NEW y \in 0..(d.p - 1) PROVE Filled(b, c.p, x)[y] = Fitting[d.msg][y + 1]
  <2>1. y \in 0..end /\ (y = c.p \/ y \in 0..(c.p - 1))
    BY <1>1
  <2> QED
    BY <1>2, <2>1 DEF Whole
<1>4. \A j \in 1..d.q : j <= d.p /\ d.out[j] = Fitting[d.msg][j]
  BY <1>1 DEF Whole
<1> QED
  BY <1>3, <1>4 DEF Whole

LEMMA TornWritten ==
  ASSUME NEW b \in Buffers, NEW c \in Call, NEW d \in Call, NEW x \in Printed,
         Torn(b, c, -1), ~ c.putting, c.p < end, InPlace(c, x, c.p + 1),
         d.msg = c.msg, d.by = c.by, d.p = c.p + 1, ~ d.putting, d.q = c.q, d.out = c.out
  PROVE  Torn(Filled(b, c.p, x), d, -1)
<1> DEFINE w == Filled(b, c.p, x)
<1>1. c.p \in 0..end /\ end \in Nat /\ c.q \in 0..end
  BY EndIs DEF Call
<1>2. \A y \in 0..end : w[y] = IF y = c.p THEN x ELSE b[y]
  BY <1>1, WrittenIs
<1> HIDE DEF w
<1>3. \A z, j : InPlace(c, z, j) => InPlace(d, z, j)
  BY DEF InPlace
<1>4. ASSUME NEW y \in 0..(d.p - 1) PROVE NulOrInPlace(w, d, y)
  <2>1. y \in 0..end /\ (y = c.p \/ y \in 0..(c.p - 1))
    BY <1>1
  <2>2. CASE y = c.p
    BY <1>2, <1>3, <2>1, <2>2 DEF NulOrInPlace
  <2>3. CASE y # c.p
    <3>1. NulOrInPlace(b, c, y) /\ w[y] = b[y]
      BY <1>2, <2>1, <2>3 DEF Torn
    <3> QED
      BY <1>3, <3>1 DEF NulOrInPlace
  <2> QED
    BY <2>2, <2>3
<1>5. \A j \in 1..d.q : InPlace(d, d.out[j], j)
  BY <1>3 DEF Torn
<1> QED
  BY <1>4, <1>5 DEF Torn, w

\* A handler's call writes a character of its own.
LEMMA TornWrittenOver ==
  ASSUME NEW b \in Buffers, NEW c \in Call, NEW r \in 0..end, r < end, NEW x \in Printed,
         Torn(b, c, r), InPlace(c, x, r + 1)
  PROVE  Torn(Filled(b, r, x), c, r + 1)
<1> DEFINE w == Filled(b, r, x)
<1>1. c.p \in 0..end /\ end \in Nat /\ c.q \in 0..end
  BY EndIs DEF Call
<1>2. \A y \in 0..end : w[y] = IF y = r THEN x ELSE b[y]
  BY WrittenIs
<1> HIDE DEF w
<1>3. \A y \in 0..end : NulOrInPlace(b, c, y) => NulOrInPlace(w, c, y)
  BY <1>2 DEF NulOrInPlace
<1>4. ASSUME ~ c.putting, NEW y \in 0..(c.p - 1) PROVE NulOrInPlace(w, c, y)
  <2>1. y \in 0..end
    BY <1>1
  <2> QED
    BY <1>3, <1>4, <2>1 DEF Torn
<1>5. ASSUME c.putting
      PROVE  \E z \in c.q..end : StopsAt(w, z, r + 1) /\ \A y \in 0..(z - 1) : NulOrInPlace(w, c, y)
  <2>1. PICK z \in c.q..end : StopsAt(b, z, r) /\ \A y \in 0..(z - 1) : NulOrInPlace(b, c, y)
    BY <1>5 DEF Torn
  <2>2. z \in 0..end /\ \A y \in 0..(z - 1) : y \in 0..end
    BY <1>1
  <2>3. StopsAt(w, z, r + 1)
    BY <1>2, <2>1, <2>2 DEF StopsAt
  <2> QED
    BY <1>3, <2>1, <2>2, <2>3
<1> QED
  BY <1>4, <1>5 DEF Torn, w

\* The call closes its message, and goes on to put it.
LEMMA WholeClosed ==
  ASSUME NEW b \in Buffers, NEW c \in Call, NEW d \in Call, Whole(b, c),
         d.msg = c.msg, d.p = c.p, d.q = c.q, d.out = c.out
  PROVE  Whole(Filled(b, c.p, Nul), d)
<1>1. c.p \in 0..end /\ end \in Nat /\ Nul \in Printed
  BY EndIs DEF Call
<1>2. \A y \in 0..end : Filled(b, c.p, Nul)[y] = IF y = c.p THEN Nul ELSE b[y]
  BY <1>1, WrittenIs
<1>3. \A y \in 0..(d.p - 1) : y \in 0..end /\ y # c.p
  BY <1>1
<1> QED
  BY <1>1, <1>2, <1>3 DEF Whole

LEMMA TornClosed ==
  ASSUME NEW b \in Buffers, NEW c \in Call, NEW d \in Call, Torn(b, c, -1), ~ c.putting, c.q = 0,
         d.msg = c.msg, d.by = c.by, d.p = c.p, d.putting, d.q = c.q, d.out = c.out
  PROVE  Torn(Filled(b, c.p, Nul), d, -1)
<1> DEFINE w == Filled(b, c.p, Nul)
<1>1. c.p \in 0..end /\ end \in Nat /\ Nul \in Printed
  BY EndIs DEF Call
<1>2. \A y \in 0..end : w[y] = IF y = c.p THEN Nul ELSE b[y]
  BY <1>1, WrittenIs
<1> HIDE DEF w
<1>3. \A z, j : InPlace(c, z, j) => InPlace(d, z, j)
  BY DEF InPlace
<1>4. ASSUME NEW y \in 0..(c.p - 1) PROVE NulOrInPlace(w, d, y)
  <2>1. y \in 0..end /\ w[y] = b[y]
    BY <1>1, <1>2
  <2>2. NulOrInPlace(b, c, y)
    BY DEF Torn
  <2> QED
    BY <1>3, <2>1, <2>2 DEF NulOrInPlace
<1>5. StopsAt(w, c.p, -1) /\ c.p \in d.q..end
  BY <1>1, <1>2 DEF StopsAt
<1> QED
  BY <1>4, <1>5 DEF Torn, w

\* A handler's call closes its own.
LEMMA TornClosedOver ==
  ASSUME NEW b \in Buffers, NEW c \in Call, NEW r \in 0..end, Torn(b, c, r),
         \A y \in 0..(r - 1) : InPlace(c, b[y], y + 1)
  PROVE  Torn(Filled(b, r, Nul), c, -1)
<1> DEFINE w == Filled(b, r, Nul)
<1>1. c.p \in 0..end /\ end \in Nat /\ c.q \in 0..end /\ Nul \in Printed
  BY EndIs DEF Call
<1>2. \A y \in 0..end : w[y] = IF y = r THEN Nul ELSE b[y]
  BY <1>1, WrittenIs
<1> HIDE DEF w
<1>3. \A y \in 0..end : NulOrInPlace(b, c, y) => NulOrInPlace(w, c, y)
  BY <1>2 DEF NulOrInPlace
<1>4. ASSUME ~ c.putting, NEW y \in 0..(c.p - 1) PROVE NulOrInPlace(w, c, y)
  <2>1. y \in 0..end
    BY <1>1
  <2> QED
    BY <1>3, <1>4, <2>1 DEF Torn
<1>5. ASSUME c.putting
      PROVE  \E z \in c.q..end : StopsAt(w, z, -1) /\ \A y \in 0..(z - 1) : NulOrInPlace(w, c, y)
  <2>1. PICK z \in c.q..end : StopsAt(b, z, r) /\ \A y \in 0..(z - 1) : NulOrInPlace(b, c, y)
    BY <1>5 DEF Torn
  <2>2. CASE r >= z
    <3>1. r \in c.q..end /\ StopsAt(w, r, -1) /\ \A y \in 0..(r - 1) : y \in 0..end
      BY <1>1, <1>2, <2>1, <2>2 DEF StopsAt
    <3>2. \A y \in 0..(r - 1) : NulOrInPlace(w, c, y)
      BY <1>3, <3>1 DEF NulOrInPlace
    <3> QED
      BY <3>1, <3>2
  <2>3. CASE ~ (r >= z)
    <3>1. b[z] = Nul /\ z \in 0..end /\ \A y \in 0..(z - 1) : y \in 0..end
      BY <1>1, <2>1, <2>3 DEF StopsAt
    <3>2. StopsAt(w, z, -1)
      BY <1>2, <3>1 DEF StopsAt
    <3> QED
      BY <1>3, <2>1, <3>1, <3>2
  <2> QED
    BY <2>2, <2>3
<1> QED
  BY <1>4, <1>5 DEF Torn, w

\* A handler's call begins.
LEMMA TornBegun ==
  ASSUME NEW b \in Buffers, NEW c \in Call, NEW d \in Call, Torn(b, c, -1),
         d.msg = c.msg, c.by \subseteq d.by, d.p = c.p, d.putting = c.putting,
         d.q = c.q, d.out = c.out
  PROVE  Torn(Filled(b, 0, Nul), d, 0)
<1> DEFINE w == Filled(b, 0, Nul)
<1>1. c.p \in 0..end /\ end \in Nat /\ c.q \in 0..end /\ Nul \in Printed
  BY EndIs DEF Call
<1>2. \A y \in 0..end : w[y] = IF y = 0 THEN Nul ELSE b[y]
  BY <1>1, WrittenIs
<1> HIDE DEF w
<1>3. \A z, j : InPlace(c, z, j) => InPlace(d, z, j)
  BY DEF InPlace
<1>4. \A y \in 0..end : NulOrInPlace(b, c, y) => NulOrInPlace(w, d, y)
  BY <1>2, <1>3 DEF NulOrInPlace
<1>5. ASSUME ~ d.putting, NEW y \in 0..(d.p - 1) PROVE NulOrInPlace(w, d, y)
  <2>1. y \in 0..end
    BY <1>1
  <2> QED
    BY <1>4, <1>5, <2>1 DEF Torn
<1>6. ASSUME d.putting
      PROVE  \E z \in d.q..end : StopsAt(w, z, 0) /\ \A y \in 0..(z - 1) : NulOrInPlace(w, d, y)
  <2>1. PICK z \in c.q..end : StopsAt(b, z, -1) /\ \A y \in 0..(z - 1) : NulOrInPlace(b, c, y)
    BY <1>6 DEF Torn
  <2>2. z \in 0..end /\ \A y \in 0..(z - 1) : y \in 0..end
    BY <1>1
  <2>3. StopsAt(w, z, 0)
    BY <1>2, <2>1, <2>2 DEF StopsAt
  <2> QED
    BY <1>4, <2>1, <2>2, <2>3
<1>7. \A j \in 1..d.q : InPlace(d, d.out[j], j)
  BY <1>3 DEF Torn
<1> QED
  BY <1>5, <1>6, <1>7 DEF Torn, w


\* The call puts the next character.
LEMMA PutNext ==
  ASSUME NEW b \in Buffers, b[end] = Nul, NEW c \in Call, CallOK(c), c.putting, b[c.q] # Nul,
         NEW d, d = [c EXCEPT !.q = @ + 1, !.out = Append(@, b[c.q])]
  PROVE  /\ d \in Call /\ CallOK(d)
         /\ Whole(b, c) => Whole(b, d)
         /\ Torn(b, c, -1) => Torn(b, d, -1)
<1> DEFINE x == b[c.q]
           o == Append(c.out, x)
<1>1. /\ c.p \in 0..end /\ end \in Nat /\ c.q \in 0..end /\ c.out \in Seq(Printed)
      /\ Len(c.out) = c.q
  BY EndIs DEF Call, CallOK
<1>2. c.q + 1 \in 0..end
  <2>1. c.q # end
    OBVIOUS
  <2> QED
    BY <1>1, <2>1
<1>3. x \in Printed
  BY <1>1 DEF Buffers
<1>4. o \in Seq(Printed) /\ Len(o) = c.q + 1 /\ o[c.q + 1] = x /\ \A j \in 1..c.q : o[j] = c.out[j]
  BY <1>1, <1>3
<1>5. /\ d.msg = c.msg /\ d.i = c.i /\ d.text = c.text /\ d.s = c.s /\ d.p = c.p
      /\ d.putting = c.putting /\ d.q = c.q + 1 /\ d.out = o /\ d.by = c.by
  BY DEF Call
<1>6. d \in Call
  <2>1. d = [msg |-> d.msg, i |-> d.i, text |-> d.text, s |-> d.s, p |-> d.p,
             putting |-> d.putting, q |-> d.q, out |-> d.out, by |-> d.by]
    BY DEF Call
  <2>2. /\ d.msg \in Message /\ d.i \in Nat \ {0} /\ d.text \in Seq(Printed) /\ d.s \in Seq(Printed)
        /\ d.p \in 0..end /\ d.putting \in BOOLEAN /\ d.q \in 0..end /\ d.out \in Seq(Printed)
        /\ d.by \in SUBSET Message
    <3> HIDE DEF o
    <3> QED
      BY <1>2, <1>4, <1>5 DEF Call
  <2> QED
    BY <2>1, <2>2 DEF Call
<1> HIDE DEF o, x
<1>7. CallOK(d)
  <2>1. Underway(d) /\ TextKept(d)
    BY <1>5 DEF CallOK, Underway, TextKept
  <2> QED
    BY <1>4, <1>5, <2>1 DEF CallOK
<1>8. ASSUME Whole(b, c) PROVE Whole(b, d)
  <2>1. c.q <= c.p
    BY <1>1, <1>8, \A j \in 1..c.q : j <= c.p DEF Whole
  <2>2. b[c.p] = Nul
    BY <1>8 DEF Whole
  <2>3. c.q \in 0..(c.p - 1)
    BY <1>1, <2>1, <2>2
  <2>4. x = Fitting[c.msg][c.q + 1]
    BY <1>8, <2>3 DEF Whole, x
  <2>5. ASSUME NEW j \in 1..(c.q + 1) PROVE j <= c.p /\ o[j] = Fitting[c.msg][j]
    <3>1. CASE j \in 1..c.q
      BY <1>4, <1>8, <3>1 DEF Whole
    <3>2. CASE j = c.q + 1
      BY <1>1, <1>4, <2>3, <2>4, <3>2
    <3> QED
      BY <1>1, <3>1, <3>2
  <2>6. \A y \in 0..(d.p - 1) : b[y] = Fitting[d.msg][y + 1]
    BY <1>5, <1>8 DEF Whole
  <2>7. \A j \in 1..d.q : j <= d.p /\ d.out[j] = Fitting[d.msg][j]
    BY <1>5, <2>5
  <2> QED
    BY <1>5, <2>2, <2>6, <2>7 DEF Whole
<1>9. ASSUME Torn(b, c, -1) PROVE Torn(b, d, -1)
  <2>1. \A z, j : InPlace(c, z, j) => InPlace(d, z, j)
    BY <1>5 DEF InPlace
  <2>2. PICK z \in c.q..end : StopsAt(b, z, -1) /\ \A y \in 0..(z - 1) : NulOrInPlace(b, c, y)
    BY <1>9 DEF Torn
  <2>3. z # c.q /\ z \in (c.q + 1)..end
    <3>1. b[z] = Nul
      BY <1>1, <2>2 DEF StopsAt
    <3> QED
      BY <1>1, <2>2, <3>1
  <2>4. InPlace(c, x, c.q + 1)
    <3>1. c.q \in 0..(z - 1)
      BY <1>1, <2>3
    <3>2. NulOrInPlace(b, c, c.q)
      BY <2>2, <3>1
    <3> QED
      BY <3>2 DEF NulOrInPlace, x
  <2>5. ASSUME NEW j \in 1..(c.q + 1) PROVE InPlace(d, o[j], j)
    <3>1. CASE j \in 1..c.q
      BY <1>4, <1>9, <2>1, <3>1 DEF Torn
    <3>2. CASE j = c.q + 1
      BY <1>4, <2>1, <2>4, <3>2
    <3> QED
      BY <1>1, <3>1, <3>2
  <2>6. \A y \in 0..(z - 1) : NulOrInPlace(b, d, y)
    BY <2>1, <2>2 DEF NulOrInPlace
  <2> QED
    BY <1>5, <2>2, <2>3, <2>5, <2>6 DEF Torn
<1> QED
  BY <1>6, <1>7, <1>8, <1>9

\* The call has put its message: whole, if nothing interrupted it.
LEMMA PutAll ==
  ASSUME NEW b \in Buffers, NEW c \in Call, CallOK(c), c.putting, b[c.q] = Nul, Whole(b, c)
  PROVE  c.out = Fitting[c.msg] /\ c.p = Len(c.out)
<1> DEFINE f == Fitting[c.msg]
<1>1. /\ c.p \in 0..end /\ end \in Nat /\ c.q \in 0..end /\ c.out \in Seq(Printed)
      /\ Len(c.out) = c.q
  BY EndIs DEF Call, CallOK
<1>2. f \in Seq(Printed) /\ NoNul(f)
  BY FittingIs DEF Call
<1>3. c.p = Len(f)
  BY DEF CallOK, Underway
<1>4. c.q <= c.p
  BY <1>1, \A j \in 1..c.q : j <= c.p DEF Whole
<1>5. c.q = c.p
  <2>1. SUFFICES ASSUME c.q \in 0..(c.p - 1) PROVE FALSE
    BY <1>1, <1>4
  <2>2. b[c.q] = f[c.q + 1]
    BY <2>1 DEF Whole
  <2>3. c.q + 1 \in 1..Len(f)
    BY <1>1, <1>3, <2>1
  <2> QED
    BY <1>2, <2>2, <2>3 DEF NoNul
<1>6. \A j \in 1..Len(f) : c.out[j] = f[j]
  BY <1>3, <1>5 DEF Whole
<1> HIDE DEF f
<1>7. c.out = f
  BY <1>1, <1>2, <1>3, <1>5, <1>6, SeqEqual
<1> QED
  BY <1>1, <1>5, <1>7 DEF f


-----------------------------------------------------------------------------
(* The invariant of the buffer and of the calls under way.                  *)

\* How far a handler that is still formatting has written.
Reach == IF Level = 2 /\ ~ calls[2].putting THEN calls[2].p ELSE -1

ShownWhole ==
  shown # None /\ shown.by = {} =>
    shown.text = Fitting[shown.msg] /\ shown.sz = Len(shown.text) + 1

PkIInv ==
  /\ buf \in Buffers /\ buf[end] = Nul
  /\ calls \in Seq(Call) /\ Level \in 0..2
  /\ \A k \in 1..Level : CallOK(calls[k])
  /\ \A k \in 1..Level : calls[k].by = {} => Whole(buf, calls[k])
  /\ Level = 2 => calls[2].by = {} /\ calls[2].msg \in calls[1].by
  /\ Level > 0 => Torn(buf, calls[1], Reach)
  /\ ShownWhole /\ TornInPlace

LEMMA PkInitIInv == PkInit => PkIInv
<1> SUFFICES ASSUME PkInit PROVE PkIInv
  OBVIOUS
<1>1. buf \in Buffers /\ buf[end] = Nul
  BY EndIs DEF PkInit, Buffers
<1>2. calls \in Seq(Call) /\ Level = 0
  BY DEF PkInit, Level
<1>3. ShownWhole /\ TornInPlace
  BY DEF PkInit, ShownWhole, TornInPlace
<1> QED
  BY <1>1, <1>2, <1>3 DEF PkIInv

\* A step of the call on top, which leaves the other as it is.
LEMMA TopActs ==
  ASSUME PkIInv, Level > 0, NEW d \in Call, CallOK(d), d.msg = Top.msg, d.by = Top.by,
         buf' \in Buffers, buf'[end] = Nul, Replace(d), shown' = shown,
         Top.by = {} => Whole(buf', d),
         Level = 1 => Torn(buf', d, -1),
         Level = 2 => Torn(buf', calls[1], IF d.putting THEN -1 ELSE d.p)
  PROVE  PkIInv'
<1>1. Level \in 1..2 /\ calls \in Seq(Call) /\ Level = Len(calls) /\ Top = calls[Level]
  BY DEF PkIInv, Level, Top
<1>2. calls' \in Seq(Call) /\ Len(calls') = Level
  BY <1>1 DEF Replace
<1>3. Level' = Level
  BY <1>2 DEF Level
<1>4. \A k \in 1..Level : calls'[k] = IF k = Level THEN d ELSE calls[k]
  BY <1>1 DEF Replace
<1>5. \A k \in 1..Level' : CallOK(calls'[k])
  BY <1>3, <1>4 DEF PkIInv
<1>6. CASE Level = 1
  <2>1. Reach' = -1 /\ calls'[1] = d
    BY <1>3, <1>4, <1>6 DEF Reach
  <2>2. \A k \in 1..Level' : calls'[k].by = {} => Whole(buf', calls'[k])
    BY <1>1, <1>3, <1>4, <1>6
  <2>3. Torn(buf', calls'[1], Reach')
    BY <1>6, <2>1
  <2>4. ShownWhole' /\ TornInPlace'
    BY DEF PkIInv, ShownWhole, TornInPlace
  <2> QED
    BY <1>1, <1>2, <1>3, <1>5, <1>6, <2>2, <2>3, <2>4 DEF PkIInv
<1>7. CASE Level = 2
  <2>1. calls'[1] = calls[1] /\ calls'[2] = d
    BY <1>4, <1>7
  <2>2. Reach' = IF d.putting THEN -1 ELSE d.p
    BY <1>3, <1>7, <2>1 DEF Reach
  <2>3. d.by = {} /\ d.msg \in calls[1].by
    BY <1>1, <1>7 DEF PkIInv
  <2>4. \A k \in 1..Level' : calls'[k].by = {} => Whole(buf', calls'[k])
    BY <1>1, <1>3, <1>7, <2>1, <2>3
  <2>5. Torn(buf', calls'[1], Reach')
    BY <1>7, <2>1, <2>2
  <2>6. ShownWhole' /\ TornInPlace'
    BY DEF PkIInv, ShownWhole, TornInPlace
  <2> QED
    BY <1>1, <1>2, <1>3, <1>5, <1>7, <2>1, <2>3, <2>4, <2>5, <2>6 DEF PkIInv
<1> QED
  BY <1>1, <1>6, <1>7


LEMMA TopIs ==
  ASSUME PkIInv, Level > 0
  PROVE  /\ Top \in Call /\ CallOK(Top) /\ (Top.by = {} => Whole(buf, Top))
         /\ Level = 1 \/ Level = 2
         /\ Level = 1 => Top = calls[1] /\ Torn(buf, Top, -1)
         /\ Level = 2 => /\ calls[1] \in Call /\ Top.by = {} /\ Top.msg \in calls[1].by
                         /\ Torn(buf, calls[1], IF Top.putting THEN -1 ELSE Top.p)
<1>1. Level \in 1..2 /\ calls \in Seq(Call) /\ Level = Len(calls) /\ Top = calls[Level]
  BY DEF PkIInv, Level, Top
<1>2. Top \in Call /\ calls[1] \in Call
  BY <1>1
<1>3. CallOK(Top) /\ (Top.by = {} => Whole(buf, Top))
  BY <1>1 DEF PkIInv
<1>4. ASSUME Level = 1 PROVE Top = calls[1] /\ Torn(buf, Top, -1)
  <2>1. Reach = -1
    BY <1>4 DEF Reach
  <2> QED
    BY <1>1, <1>4, <2>1 DEF PkIInv
<1>5. ASSUME Level = 2
      PROVE  /\ Top.by = {} /\ Top.msg \in calls[1].by
             /\ Torn(buf, calls[1], IF Top.putting THEN -1 ELSE Top.p)
  <2>1. Reach = IF Top.putting THEN -1 ELSE Top.p
    BY <1>1, <1>5 DEF Reach
  <2> QED
    BY <1>1, <1>5, <2>1 DEF PkIInv
<1> QED
  BY <1>1, <1>2, <1>3, <1>4, <1>5

LEMMA WriteStep ==
  ASSUME PkIInv, Level > 0, ~ Top.putting, Top.p < end, NEW x \in Printed,
         Top.p + 1 <= Len(Expansion(Top.msg)), x = Expansion(Top.msg)[Top.p + 1],
         NEW d \in Call, CallOK(d), d.msg = Top.msg, d.by = Top.by, d.p = Top.p + 1,
         ~ d.putting, d.q = Top.q, d.out = Top.out,
         buf' = Filled(buf, Top.p, x), Replace(d), shown' = shown
  PROVE  PkIInv'
<1> DEFINE c == Top
           f == Fitting[c.msg]
<1>1. /\ c \in Call /\ CallOK(c) /\ (c.by = {} => Whole(buf, c))
      /\ Level = 1 \/ Level = 2
      /\ Level = 1 => c = calls[1] /\ Torn(buf, c, -1)
      /\ Level = 2 => /\ calls[1] \in Call /\ c.by = {} /\ c.msg \in calls[1].by
                      /\ Torn(buf, calls[1], IF c.putting THEN -1 ELSE c.p)
  BY TopIs
<1>2. buf \in Buffers /\ buf[end] = Nul /\ c.p \in 0..end /\ end \in Nat
  BY <1>1, EndIs DEF PkIInv, Call
<1>3. buf' \in Buffers /\ buf'[end] = Nul
  BY <1>2, WrittenIs
<1>4. c.p + 1 \in 1..Len(f) /\ x = f[c.p + 1]
  <2>1. /\ Expansion(c.msg) \in Seq(Printed) /\ f \in Seq(Printed)
        /\ Len(f) = IF Len(Expansion(c.msg)) < BufSize THEN Len(Expansion(c.msg)) ELSE end
        /\ \A j \in 1..Len(f) : f[j] = Expansion(c.msg)[j]
    BY <1>1, FittingIs DEF Call
  <2> HIDE DEF f
  <2>2. c.p + 1 \in 1..Len(f)
    BY <1>2, <2>1
  <2> QED
    BY <2>1, <2>2
<1>5. c.by = {} => Whole(buf', d)
  <2> HIDE DEF c, f
  <2>1. x = Fitting[c.msg][c.p + 1]
    BY <1>4 DEF f
  <2> QED
    BY <1>1, <1>2, <2>1, WholeWritten DEF c
<1>6. ASSUME Level = 1 PROVE Torn(buf', d, -1)
  <2>1. InPlace(c, x, c.p + 1)
    BY <1>4 DEF InPlace
  <2> HIDE DEF c, f
  <2> QED
    BY <1>1, <1>2, <1>6, <2>1, TornWritten DEF c
<1>7. ASSUME Level = 2 PROVE Torn(buf', calls[1], IF d.putting THEN -1 ELSE d.p)
  <2>1. InPlace(calls[1], x, c.p + 1)
    BY <1>1, <1>4, <1>7 DEF InPlace
  <2>2. Torn(buf, calls[1], c.p)
    BY <1>1, <1>7
  <2> DEFINE h == calls[1]
             r == c.p
  <2>3. h \in Call /\ r \in 0..end /\ r < end /\ Torn(buf, h, r) /\ InPlace(h, x, r + 1)
    BY <1>1, <1>2, <1>7, <2>1, <2>2
  <2> HIDE DEF h, r
  <2>4. Torn(Filled(buf, r, x), h, r + 1)
    BY <1>2, <2>3, TornWrittenOver
  <2> QED
    BY <2>4 DEF h, r
<1> QED
  BY <1>3, <1>5, <1>6, <1>7, TopActs

LEMMA LiteralStep == PkIInv /\ Literal => PkIInv'
<1> SUFFICES ASSUME PkIInv, Literal PROVE PkIInv'
  OBVIOUS
<1> DEFINE c == Top
           x == Piece.arg
           d == [c EXCEPT !.i = @ + 1, !.p = c.p + 1]
<1>1. /\ Level > 0 /\ ~ c.putting /\ c.s = <<>> /\ c.i <= Len(Format[c.msg]) /\ c.p < end
      /\ Piece = Format[c.msg][c.i] /\ Piece.spec = "text"
  BY DEF Literal, Formatting, Room, Piece
<1>2. c \in Call /\ CallOK(c)
  BY <1>1, TopIs
<1>3. buf' = Filled(buf, c.p, x) /\ shown' = shown
  BY DEF Literal, Write, Filled
<1>4. /\ c.msg \in Message /\ c.i \in Nat \ {0} /\ c.p \in Nat /\ end \in Nat /\ c.p + 1 \in 0..end
      /\ c.q \in 0..end
  BY <1>1, <1>2, EndIs DEF Call
<1>5. Replace(d)
  <2>1. [[Top EXCEPT !.i = @ + 1] EXCEPT !.p = Top.p + 1] = d
    BY <1>2 DEF Call
  <2> QED
    BY <2>1 DEF Literal, Write
<1>6. /\ d \in Call /\ d.msg = c.msg /\ d.by = c.by /\ d.p = c.p + 1 /\ d.i = c.i + 1
      /\ d.putting = c.putting /\ d.q = c.q /\ d.out = c.out /\ d.s = c.s /\ d.text = c.text
  <2> HIDE DEF c
  <2>1. /\ d.msg = c.msg /\ d.by = c.by /\ d.p = c.p + 1 /\ d.i = c.i + 1
        /\ d.putting = c.putting /\ d.q = c.q /\ d.out = c.out /\ d.s = c.s /\ d.text = c.text
    BY <1>2 DEF Call
  <2>0. d = [c EXCEPT !.i = @ + 1, !.p = c.p + 1]
    OBVIOUS
  <2> HIDE DEF d
  <2>2. d = [msg |-> d.msg, i |-> d.i, text |-> d.text, s |-> d.s, p |-> d.p,
             putting |-> d.putting, q |-> d.q, out |-> d.out, by |-> d.by]
    BY <1>2, <2>0 DEF Call
  <2>3. d.i \in Nat \ {0}
    BY <1>4, <2>1
  <2>4. c.text \in Seq(Printed) /\ c.s \in Seq(Printed) /\ c.putting \in BOOLEAN
        /\ c.out \in Seq(Printed) /\ c.by \in SUBSET Message
    BY <1>2 DEF Call
  <2> QED
    BY <1>4, <2>1, <2>2, <2>3, <2>4 DEF Call
<1> HIDE DEF d
<1>7. Said(c.msg, c.i) = <<x>>
  BY <1>1 DEF Said
<1>8. /\ <<x>> \in Seq(Printed) /\ c.p + Len(<<x>>) = Len(Upto(c.msg, c.i))
      /\ \A j \in 1..Len(<<x>>) : <<x>>[j] = Expansion(c.msg)[c.p + j]
  <2> HIDE DEF c, x
  <2> QED
    BY <1>1, <1>2, <1>7, NextPiece
<1>9. x \in Printed /\ c.p + 1 = Len(Upto(c.msg, c.i)) /\ x = Expansion(c.msg)[c.p + 1]
  <2> HIDE DEF c, x
  <2>1. Len(<<x>>) = 1 /\ <<x>>[1] = x
    OBVIOUS
  <2> QED
    BY <1>8, <2>1
<1>10. c.p + 1 <= Len(Expansion(c.msg))
  <2>1. c.i \in 0..Len(Format[c.msg]) /\ Len(Format[c.msg]) \in Nat
    BY <1>1, <1>4, PiecesAre
  <2>2. Starts(Upto(c.msg, c.i), Expansion(c.msg))
    BY <1>4, <2>1, UptoStarts
  <2> QED
    BY <1>9, <2>2 DEF Starts
<1>11. CallOK(d)
  <2>0. (c.i + 1) - 1 = c.i
    BY <1>4
  <2>1. d.i - 1 = c.i
    BY <1>6, <2>0
  <2>2. Underway(d)
    <3>1. Len(d.s) = 0 /\ d.p + 0 = Len(Upto(d.msg, d.i - 1))
      BY <1>1, <1>4, <1>6, <1>9, <2>1
    <3>2. c.q = 0
      BY <1>1, <1>2 DEF CallOK, Underway
    <3> QED
      BY <1>1, <1>6, <3>1, <3>2 DEF Underway
  <2>3. TextKept(d)
    BY <1>1, <1>6, <2>1 DEF TextKept
  <2>4. d.i <= Len(Format[d.msg]) + 1
    BY <1>1, <1>4, <1>6, PiecesAre
  <2>5. Len(d.out) = d.q
    BY <1>2, <1>6 DEF CallOK
  <2> QED
    BY <2>2, <2>3, <2>4, <2>5 DEF CallOK
<1> QED
  BY <1>1, <1>3, <1>5, <1>6, <1>9, <1>10, <1>11, WriteStep


LEMMA PkUnchanged ==
  ASSUME PkIInv, buf' = buf, calls' = calls, shown' = shown
  PROVE  PkIInv'
<1>1. Level' = Level /\ Reach' = Reach
  BY DEF Level, Reach
<1>2. ShownWhole' /\ TornInPlace'
  BY DEF PkIInv, ShownWhole, TornInPlace
<1> QED
  BY <1>1, <1>2 DEF PkIInv

\* A step that leaves the buffer and how far the call has come in it.
LEMMA ReadyStep ==
  ASSUME PkIInv, Level > 0, NEW d \in Call, CallOK(d), d.msg = Top.msg, d.by = Top.by,
         d.p = Top.p, d.putting = Top.putting, d.q = Top.q, d.out = Top.out,
         buf' = buf, Replace(d), shown' = shown
  PROVE  PkIInv'
<1> DEFINE c == Top
<1>1. /\ c \in Call /\ CallOK(c) /\ (c.by = {} => Whole(buf, c))
      /\ Level = 1 \/ Level = 2
      /\ Level = 1 => c = calls[1] /\ Torn(buf, c, -1)
      /\ Level = 2 => /\ calls[1] \in Call /\ c.by = {} /\ c.msg \in calls[1].by
                      /\ Torn(buf, calls[1], IF c.putting THEN -1 ELSE c.p)
  BY TopIs
<1>2. c.by = {} => Whole(buf, d)
  BY <1>1 DEF Whole
<1>3. Torn(buf, c, -1) => Torn(buf, d, -1)
  <2>1. \A z, j : InPlace(c, z, j) => InPlace(d, z, j)
    BY DEF InPlace
  <2> HIDE DEF c
  <2>2. \A y : NulOrInPlace(buf, c, y) => NulOrInPlace(buf, d, y)
    BY <2>1 DEF NulOrInPlace
  <2> QED
    BY <2>1, <2>2 DEF Torn, c
<1>4. buf' \in Buffers /\ buf'[end] = Nul
  BY DEF PkIInv
<1> QED
  BY <1>1, <1>2, <1>3, <1>4, TopActs

LEMMA ConversionStep == PkIInv /\ Conversion => PkIInv'
<1> SUFFICES ASSUME PkIInv, Conversion PROVE PkIInv'
  OBVIOUS
<1> DEFINE c == Top
           x == Text[c.msg][c.i]
           d == [c EXCEPT !.i = @ + 1, !.text = x, !.s = x]
<1>1. /\ Level > 0 /\ ~ c.putting /\ c.s = <<>> /\ c.i <= Len(Format[c.msg]) /\ c.p < end
      /\ Piece = Format[c.msg][c.i] /\ Piece.spec # "text"
      /\ buf' = buf /\ shown' = shown
  BY DEF Conversion, Formatting, Room, Piece
<1>2. CASE ~ Known(Piece)
  <2>1. calls' = calls
    BY <1>2 DEF Conversion
  <2> QED
    BY <1>1, <2>1, PkUnchanged
<1>3. CASE Known(Piece)
  <2>1. c \in Call /\ CallOK(c)
    BY <1>1, TopIs
  <2>2. Replace(d)
    BY <1>3 DEF Conversion
  <2>3. Said(c.msg, c.i) = x
    BY <1>1 DEF Said
  <2>4. /\ c.msg \in Message /\ c.i \in Nat \ {0} /\ c.p \in Nat /\ Len(Format[c.msg]) \in Nat
    BY <2>1, PiecesAre DEF Call
  <2>5. /\ x \in Seq(Printed) /\ c.p + Len(x) = Len(Upto(c.msg, c.i))
        /\ \A j \in 1..Len(x) : x[j] = Expansion(c.msg)[c.p + j]
    <3> HIDE DEF c, x
    <3> QED
      BY <1>1, <2>1, <2>3, NextPiece
  <2>6. /\ d \in Call /\ d.msg = c.msg /\ d.by = c.by /\ d.p = c.p /\ d.i = c.i + 1
        /\ d.putting = c.putting /\ d.q = c.q /\ d.out = c.out /\ d.s = x /\ d.text = x
    <3>0. d = [c EXCEPT !.i = @ + 1, !.text = x, !.s = x]
      OBVIOUS
    <3> HIDE DEF c, d, x
    <3>1. /\ d.msg = c.msg /\ d.by = c.by /\ d.p = c.p /\ d.i = c.i + 1
          /\ d.putting = c.putting /\ d.q = c.q /\ d.out = c.out /\ d.s = x /\ d.text = x
      BY <2>1, <3>0 DEF Call
    <3>2. d = [msg |-> d.msg, i |-> d.i, text |-> d.text, s |-> d.s, p |-> d.p,
               putting |-> d.putting, q |-> d.q, out |-> d.out, by |-> d.by]
      BY <2>1, <3>0 DEF Call
    <3>3. d.i \in Nat \ {0}
      BY <2>4, <3>1
    <3>4. c.p \in 0..end /\ c.putting \in BOOLEAN /\ c.q \in 0..end
          /\ c.out \in Seq(Printed) /\ c.by \in SUBSET Message
      BY <2>1 DEF Call
    <3> QED
      BY <2>4, <2>5, <3>1, <3>2, <3>3, <3>4 DEF Call
  <2> HIDE DEF d
  <2>7. CallOK(d)
    <3>1. d.i - 1 = c.i
      BY <2>4, <2>6
    <3>2. c.q = 0
      BY <1>1, <2>1 DEF CallOK, Underway
    <3>3. Underway(d)
      BY <1>1, <2>5, <2>6, <3>1, <3>2 DEF Underway
    <3>4. TextKept(d)
      BY <1>1, <1>3, <2>6, <3>1 DEF TextKept
    <3>5. d.i <= Len(Format[d.msg]) + 1
      BY <1>1, <2>4, <2>6
    <3>6. Len(d.out) = d.q
      BY <2>1, <2>6 DEF CallOK
    <3> QED
      BY <3>3, <3>4, <3>5, <3>6 DEF CallOK
  <2> QED
    BY <1>1, <2>2, <2>6, <2>7, ReadyStep
<1> QED
  BY <1>2, <1>3

LEMMA CopyStep == PkIInv /\ Copy => PkIInv'
<1> SUFFICES ASSUME PkIInv, Copy PROVE PkIInv'
  OBVIOUS
<1> DEFINE c == Top
           x == Head(c.s)
<1>1. Level > 0 /\ ~ c.putting /\ c.s # <<>> /\ shown' = shown
  BY DEF Copy, Formatting, Write
<1>2. c \in Call /\ CallOK(c)
  BY <1>1, TopIs
<1>3. /\ c.msg \in Message /\ c.i \in Nat \ {0} /\ c.p \in 0..end /\ end \in Nat /\ c.s \in Seq(Printed)
      /\ c.text \in Seq(Printed) /\ c.putting \in BOOLEAN /\ c.q \in 0..end /\ c.q = 0
      /\ c.out \in Seq(Printed) /\ c.by \in SUBSET Message
  <2>1. c.q = 0
    BY <1>1, <1>2 DEF CallOK, Underway
  <2> QED
    BY <1>2, <2>1, EndIs DEF Call
<1>4. /\ x \in Printed /\ Tail(c.s) \in Seq(Printed) /\ Len(Tail(c.s)) = Len(c.s) - 1
      /\ x = c.s[1] /\ \A j \in 1..Len(Tail(c.s)) : Tail(c.s)[j] = c.s[j + 1]
      /\ Len(c.s) \in Nat /\ Len(c.s) > 0
  <2> DEFINE s == c.s
  <2>1. s \in Seq(Printed) /\ s # <<>>
    BY <1>1, <1>3
  <2> HIDE DEF s
  <2>2. Head(s) \in Printed /\ Tail(s) \in Seq(Printed) /\ Len(Tail(s)) = Len(s) - 1 /\ Head(s) = s[1]
        /\ Len(s) \in Nat /\ Len(s) > 0
    BY <2>1
  <2>3. \A j \in 1..Len(Tail(s)) : Tail(s)[j] = s[j + 1]
    BY <2>1, <2>2
  <2> QED
    BY <2>2, <2>3 DEF s
<1>5. /\ c.p + Len(c.s) = Len(Upto(c.msg, c.i - 1))
      /\ \A j \in 1..Len(c.s) : c.s[j] = Expansion(c.msg)[c.p + j]
  BY <1>1, <1>2 DEF CallOK, Underway
<1>6. CASE c.p < end
  <2> DEFINE d == [c EXCEPT !.s = Tail(@), !.p = c.p + 1]
  <2>1. buf' = Filled(buf, c.p, x) /\ Replace([[Top EXCEPT !.s = Tail(@)] EXCEPT !.p = Top.p + 1])
    BY <1>6 DEF Copy, Room, Write, Filled
  <2>2. Replace(d)
    <3>1. [[Top EXCEPT !.s = Tail(@)] EXCEPT !.p = Top.p + 1] = d
      BY <1>2 DEF Call
    <3> QED
      BY <2>1, <3>1
  <2>3. /\ d \in Call /\ d.msg = c.msg /\ d.by = c.by /\ d.p = c.p + 1 /\ d.i = c.i
        /\ d.putting = c.putting /\ d.q = c.q /\ d.out = c.out /\ d.s = Tail(c.s) /\ d.text = c.text
    <3>0. d = [c EXCEPT !.s = Tail(@), !.p = c.p + 1]
      OBVIOUS
    <3> HIDE DEF c, d, x
    <3>1. /\ d.msg = c.msg /\ d.by = c.by /\ d.p = c.p + 1 /\ d.i = c.i
          /\ d.putting = c.putting /\ d.q = c.q /\ d.out = c.out /\ d.s = Tail(c.s) /\ d.text = c.text
      BY <1>2, <3>0 DEF Call
    <3>2. d = [msg |-> d.msg, i |-> d.i, text |-> d.text, s |-> d.s, p |-> d.p,
               putting |-> d.putting, q |-> d.q, out |-> d.out, by |-> d.by]
      BY <1>2, <3>0 DEF Call
    <3>3. d.p \in 0..end
      BY <1>3, <1>6, <3>1
    <3> QED
      BY <1>3, <1>4, <3>1, <3>2, <3>3 DEF Call
  <2> HIDE DEF d
  <2>4. x = Expansion(c.msg)[c.p + 1] /\ c.p + 1 <= Len(Expansion(c.msg))
    <3>1. 1 \in 1..Len(c.s)
      BY <1>4
    <3>2. c.p + Len(c.s) <= Len(Expansion(c.msg)) /\ Len(Expansion(c.msg)) \in Nat
      BY <1>2, WithinMessage
    <3> QED
      BY <1>3, <1>4, <1>5, <3>1, <3>2
  <2>5. CallOK(d)
    <3>1. d.p + Len(d.s) = Len(Upto(d.msg, d.i - 1))
      <4>1. d.p + Len(d.s) = c.p + Len(c.s)
        BY <1>3, <1>4, <2>3
      <4> QED
        BY <1>5, <2>3, <4>1
    <3>2. ASSUME NEW j \in 1..Len(d.s) PROVE d.s[j] = Expansion(d.msg)[d.p + j]
      <4>1. j + 1 \in 1..Len(c.s) /\ d.s[j] = c.s[j + 1] /\ c.p + (j + 1) = d.p + j
        BY <1>3, <1>4, <2>3
      <4> QED
        BY <1>5, <2>3, <4>1
    <3>3. Underway(d)
      BY <1>1, <1>3, <2>3, <3>1, <3>2 DEF Underway
    <3>4. TextKept(d)
      BY <1>2, <2>3 DEF CallOK, TextKept
    <3> QED
      BY <1>2, <2>3, <3>3, <3>4 DEF CallOK
  <2> QED
    BY <1>1, <1>4, <1>6, <2>1, <2>2, <2>3, <2>4, <2>5, WriteStep
<1>7. CASE ~ (c.p < end)
  <2> DEFINE d == [c EXCEPT !.s = <<>>]
  <2>1. buf' = buf /\ Replace(d)
    BY <1>7 DEF Copy, Room
  <2>2. /\ d \in Call /\ d.msg = c.msg /\ d.by = c.by /\ d.p = c.p /\ d.i = c.i
        /\ d.putting = c.putting /\ d.q = c.q /\ d.out = c.out /\ d.s = <<>> /\ d.text = c.text
    <3>0. d = [c EXCEPT !.s = <<>>]
      OBVIOUS
    <3> HIDE DEF c, d, x
    <3>1. /\ d.msg = c.msg /\ d.by = c.by /\ d.p = c.p /\ d.i = c.i
          /\ d.putting = c.putting /\ d.q = c.q /\ d.out = c.out /\ d.s = <<>> /\ d.text = c.text
      BY <1>2, <3>0 DEF Call
    <3>2. d = [msg |-> d.msg, i |-> d.i, text |-> d.text, s |-> d.s, p |-> d.p,
               putting |-> d.putting, q |-> d.q, out |-> d.out, by |-> d.by]
      BY <1>2, <3>0 DEF Call
    <3>3. <<>> \in Seq(Printed)
      OBVIOUS
    <3> QED
      BY <1>3, <3>1, <3>2, <3>3 DEF Call
  <2> HIDE DEF d
  <2>3. CallOK(d)
    <3>1. d.p = end /\ d.p <= Len(Upto(d.msg, d.i - 1))
      BY <1>3, <1>4, <1>5, <1>7, <2>2
    <3>2. Len(d.s) = 0
      BY <2>2
    <3>3. Underway(d)
      BY <1>1, <1>3, <2>2, <3>1, <3>2 DEF Underway
    <3>4. TextKept(d)
      BY <1>2, <2>2 DEF CallOK, TextKept
    <3> QED
      BY <1>2, <2>2, <3>3, <3>4 DEF CallOK
  <2> QED
    BY <1>1, <2>1, <2>2, <2>3, ReadyStep
<1> QED
  BY <1>6, <1>7


LEMMA CloseStep == PkIInv /\ Close => PkIInv'
<1> SUFFICES ASSUME PkIInv, Close PROVE PkIInv'
  OBVIOUS
<1> DEFINE c == Top
           d == [c EXCEPT !.putting = TRUE]
           u == Upto(c.msg, c.i - 1)
           x == Expansion(c.msg)
           f == Fitting[c.msg]
<1>1. /\ Level > 0 /\ ~ c.putting /\ c.s = <<>> /\ (c.i > Len(Format[c.msg]) \/ ~ (c.p < end))
      /\ shown' = shown /\ buf' = Filled(buf, c.p, Nul) /\ Replace(d)
  BY DEF Close, Closed, Formatting, Room, Filled
<1>2. /\ c \in Call /\ CallOK(c) /\ (c.by = {} => Whole(buf, c))
      /\ Level = 1 \/ Level = 2
      /\ Level = 1 => c = calls[1] /\ Torn(buf, c, -1)
      /\ Level = 2 => /\ calls[1] \in Call /\ c.by = {} /\ c.msg \in calls[1].by
                      /\ Torn(buf, calls[1], IF c.putting THEN -1 ELSE c.p)
  BY <1>1, TopIs
<1>3. /\ d \in Call /\ d.msg = c.msg /\ d.by = c.by /\ d.p = c.p /\ d.i = c.i
      /\ d.putting = TRUE /\ d.q = c.q /\ d.out = c.out /\ d.s = c.s /\ d.text = c.text
  <2> HIDE DEF c
  <2> QED
    BY <1>2 DEF Call
<1> HIDE DEF d
<1>4. /\ c.msg \in Message /\ c.i \in Nat \ {0} /\ c.p \in 0..end /\ end \in Nat
      /\ BufSize \in Nat /\ end = BufSize - 1 /\ Len(Format[c.msg]) \in Nat
      /\ c.i <= Len(Format[c.msg]) + 1
  BY <1>2, EndIs, PiecesAre DEF Call, CallOK
<1>5. c.p = Len(f)
  <2>1. Len(u) <= Len(x) /\ Len(u) \in Nat
    <3>1. c.i - 1 \in 0..Len(Format[c.msg])
      BY <1>4
    <3> QED
      BY <1>4, <3>1, UptoStarts, UptoTexts DEF Starts
  <2>2. c.i > Len(Format[c.msg]) => u = x
    <3>1. c.i > Len(Format[c.msg]) => c.i - 1 = Len(Format[c.msg])
      BY <1>4
    <3> QED
      BY <1>4, <3>1, UptoIs
  <2>3. c.p = Len(u) \/ (c.p = end /\ c.p <= Len(u))
    <3>1. Len(c.s) = 0 /\ c.p + 0 = c.p
      BY <1>1, <1>4
    <3> QED
      BY <1>2, <3>1 DEF CallOK, Underway
  <2>4. Len(x) \in Nat /\ Len(f) = IF Len(x) < BufSize THEN Len(x) ELSE end
    BY <1>4, FittingIs
  <2> HIDE DEF c, u, x, f
  <2>5. c.p = Len(x) \/ (c.p = end /\ c.p <= Len(x))
    BY <1>1, <1>4, <2>1, <2>2, <2>3, <2>4
  <2> QED
    BY <1>4, <2>4, <2>5
<1>6. c.q = 0
  BY <1>1, <1>2 DEF CallOK, Underway
<1>7. CallOK(d)
  <2>1. Underway(d)
    BY <1>2, <1>3, <1>5 DEF CallOK, Underway
  <2>2. TextKept(d)
    BY <1>2, <1>3 DEF CallOK, TextKept
  <2> QED
    BY <1>2, <1>3, <2>1, <2>2 DEF CallOK
<1>8. buf \in Buffers /\ buf[end] = Nul /\ Nul \in Printed
  BY EndIs DEF PkIInv
<1>9. buf' \in Buffers /\ buf'[end] = Nul
  BY <1>1, <1>4, <1>8, WrittenIs
<1>10. c.by = {} => Whole(buf', d)
  <2> HIDE DEF c
  <2> QED
    BY <1>1, <1>2, <1>3, <1>8, WholeClosed
<1>11. ASSUME Level = 1 PROVE Torn(buf', d, -1)
  <2> HIDE DEF c
  <2> QED
    BY <1>1, <1>2, <1>3, <1>6, <1>8, <1>11, TornClosed
<1>12. ASSUME Level = 2 PROVE Torn(buf', calls[1], IF d.putting THEN -1 ELSE d.p)
  <2> DEFINE h == calls[1]
             r == c.p
  <2>1. h \in Call /\ r \in 0..end /\ Torn(buf, h, r)
    BY <1>1, <1>2, <1>4, <1>12
  <2>2. \A y \in 0..(r - 1) : InPlace(h, buf[y], y + 1)
    <3> TAKE y \in 0..(r - 1)
    <3>1. buf[y] = f[y + 1] /\ y + 1 <= Len(f)
      BY <1>2, <1>4, <1>5, <1>12 DEF Whole
    <3> QED
      BY <1>2, <1>12, <3>1 DEF InPlace
  <2> HIDE DEF h, r
  <2>3. Torn(Filled(buf, r, Nul), h, -1)
    BY <1>8, <2>1, <2>2, TornClosedOver
  <2> QED
    BY <1>1, <1>3, <2>3 DEF h, r
<1> QED
  BY <1>1, <1>3, <1>7, <1>9, <1>10, <1>11, <1>12, TopActs

LEMMA PutStep == PkIInv /\ putk => PkIInv'
<1> SUFFICES ASSUME PkIInv, putk PROVE PkIInv'
  OBVIOUS
<1> DEFINE c == Top
<1>1. Level > 0 /\ c.putting /\ buf' = buf
  BY DEF putk
<1>2. /\ c \in Call /\ CallOK(c) /\ (c.by = {} => Whole(buf, c))
      /\ Level = 1 \/ Level = 2
      /\ Level = 1 => c = calls[1] /\ Torn(buf, c, -1)
      /\ Level = 2 => /\ calls[1] \in Call /\ c.by = {} /\ c.msg \in calls[1].by
                      /\ Torn(buf, calls[1], IF c.putting THEN -1 ELSE c.p)
  BY <1>1, TopIs
<1>3. buf \in Buffers /\ buf[end] = Nul
  BY DEF PkIInv
<1>4. CASE buf[c.q] # Nul
  <2> DEFINE d == [c EXCEPT !.q = @ + 1, !.out = Append(@, buf[c.q])]
  <2>1. Replace(d) /\ shown' = shown
    BY <1>4 DEF putk
  <2>2. d.msg = c.msg /\ d.by = c.by /\ d.putting = c.putting
    <3> HIDE DEF c
    <3> QED
      BY <1>2 DEF Call
  <2>3. /\ d \in Call /\ CallOK(d)
        /\ Whole(buf, c) => Whole(buf, d)
        /\ Torn(buf, c, -1) => Torn(buf, d, -1)
    <3>1. d = [c EXCEPT !.q = @ + 1, !.out = Append(@, buf[c.q])]
      OBVIOUS
    <3> HIDE DEF c, d
    <3> QED
      BY <1>1, <1>2, <1>3, <1>4, <3>1, PutNext DEF c
  <2> HIDE DEF d
  <2> QED
    BY <1>1, <1>2, <1>3, <2>1, <2>2, <2>3, TopActs
<1>5. CASE ~ (buf[c.q] # Nul)
  <2>1. /\ shown' = [msg |-> c.msg, text |-> c.out, by |-> c.by, sz |-> c.p + 1]
        /\ calls' = SubSeq(calls, 1, Level - 1)
    BY <1>5 DEF putk
  <2>2. c.by = {} => c.out = Fitting[c.msg] /\ c.p = Len(c.out)
    <3> HIDE DEF c
    <3> QED
      BY <1>1, <1>2, <1>3, <1>5, PutAll DEF c
  <2>3. ShownWhole'
    BY <2>1, <2>2 DEF ShownWhole
  <2>4. TornInPlace'
    <3>1. ASSUME NEW k \in 1..Len(c.out)
          PROVE  \E m \in {c.msg} \cup c.by : k <= Len(Fitting[m]) /\ c.out[k] = Fitting[m][k]
      <4>1. CASE Level = 1
        <5>1. k \in 1..c.q
          BY <1>2 DEF CallOK
        <5>2. InPlace(c, c.out[k], k)
          BY <1>2, <4>1, <5>1 DEF Torn
        <5> QED
          BY <5>2 DEF InPlace
      <4>2. CASE Level = 2
        <5>1. c.out = Fitting[c.msg] /\ k <= Len(c.out)
          BY <1>2, <2>2, <4>2
        <5> QED
          BY <5>1
      <4> QED
        BY <1>2, <4>1, <4>2
    <3>2. shown'.msg = c.msg /\ shown'.by = c.by /\ shown'.text = c.out
      BY <2>1
    <3> HIDE DEF c
    <3> QED
      BY <3>1, <3>2 DEF TornInPlace
  <2>5. calls \in Seq(Call) /\ Level = Len(calls)
    BY DEF PkIInv, Level
  <2>6. CASE Level = 1
    <3>1. calls' = <<>>
      BY <2>1, <2>5, <2>6
    <3>2. Level' = 0 /\ calls' \in Seq(Call)
      BY <3>1 DEF Level
    <3> QED
      BY <1>1, <1>3, <2>3, <2>4, <3>2 DEF PkIInv
  <2>7. CASE Level = 2
    <3>1. calls' \in Seq(Call) /\ Len(calls') = 1 /\ calls'[1] = calls[1]
      <4>1. calls' = SubSeq(calls, 1, 1) /\ Len(calls) = 2
        BY <2>1, <2>5, <2>7
      <4>2. SubSeq(calls, 1, 1) \in Seq(Call) /\ Len(SubSeq(calls, 1, 1)) = 1
            /\ SubSeq(calls, 1, 1)[1] = calls[1]
        BY <2>5, <4>1
      <4> QED
        BY <4>1, <4>2
    <3>2. Level' = 1
      BY <3>1 DEF Level
    <3>3. Reach' = -1
      BY <3>2 DEF Reach
    <3>4. Torn(buf', calls'[1], Reach') /\ calls'[1].by # {}
      BY <1>1, <1>2, <2>7, <3>1, <3>3
    <3>5. CallOK(calls'[1])
      BY <2>7, <3>1 DEF PkIInv
    <3> QED
      BY <1>1, <1>3, <2>3, <2>4, <3>1, <3>2, <3>4, <3>5 DEF PkIInv
  <2> QED
    BY <1>2, <2>6, <2>7
<1> QED
  BY <1>4, <1>5

LEMMA PrintStep == \A m \in Message : PkIInv /\ printk(m) => PkIInv'
<1> SUFFICES ASSUME NEW m \in Message, PkIInv, printk(m) PROVE PkIInv'
  OBVIOUS
<1> DEFINE n == Called(m)
<1>1. /\ Level < 2 /\ buf' = Filled(buf, 0, Nul) /\ shown' = shown
      /\ calls' = Append([k \in 1..Level |-> [calls[k] EXCEPT !.by = @ \cup {m}]], n)
  BY DEF printk, Filled
<1>2. calls \in Seq(Call) /\ Level = Len(calls) /\ Level \in 0..2
  BY DEF PkIInv, Level
<1>3. buf \in Buffers /\ buf[end] = Nul /\ 0 \in 0..end /\ Nul \in Printed
  BY EndIs DEF PkIInv
<1>4. buf' \in Buffers /\ buf'[end] = Nul
  BY <1>1, <1>3, EndIs, WrittenIs
<1>5. n \in Call /\ CallOK(n) /\ n.msg = m /\ n.p = 0 /\ n.putting = FALSE /\ n.q = 0 /\ n.by = {}
  <2>1. n.msg = m /\ n.p = 0 /\ n.putting = FALSE /\ n.q = 0 /\ n.by = {}
    BY DEF Called
  <2> QED
    BY <2>1, CalledOK
<1> HIDE DEF n
<1>6. \A b : Whole(b, n)
  BY <1>5 DEF Whole
<1>7. ShownWhole' /\ TornInPlace'
  BY <1>1 DEF PkIInv, ShownWhole, TornInPlace
<1>8. CASE Level = 0
  <2> DEFINE others == [k \in 1..Level |-> [calls[k] EXCEPT !.by = @ \cup {m}]]
  <2>1. others = <<>>
    BY <1>8
  <2>2. calls' = <<n>>
    <3> HIDE DEF others
    <3>1. calls' = Append(others, n)
      BY <1>1 DEF others
    <3> QED
      BY <2>1, <3>1
  <2>3. calls' \in Seq(Call) /\ Len(calls') = 1 /\ calls'[1] = n
    BY <1>5, <2>2
  <2>4. Level' = 1
    BY <2>3 DEF Level
  <2>5. Torn(buf', n, Reach')
    BY <1>5 DEF Torn
  <2> QED
    BY <1>4, <1>5, <1>6, <1>7, <2>3, <2>4, <2>5 DEF PkIInv
<1>9. CASE Level = 1
  <2> DEFINE c == calls[1]
             d == [c EXCEPT !.by = @ \cup {m}]
             others == [k \in 1..Level |-> [calls[k] EXCEPT !.by = @ \cup {m}]]
  <2>1. c \in Call /\ CallOK(c)
    <3>1. 1 \in 1..Level /\ 1 \in 1..Len(calls)
      BY <1>2, <1>9
    <3>2. calls[1] \in Call
      BY <1>2, <3>1
    <3> QED
      BY <3>1, <3>2 DEF PkIInv
  <2>2. Torn(buf, c, -1)
    BY <1>9 DEF PkIInv, Reach
  <2>3. /\ d \in Call /\ d.msg = c.msg /\ d.by = c.by \cup {m} /\ d.p = c.p /\ d.i = c.i
        /\ d.putting = c.putting /\ d.q = c.q /\ d.out = c.out /\ d.s = c.s /\ d.text = c.text
    <3> HIDE DEF c
    <3> QED
      BY <2>1 DEF Call
  <2>4. CallOK(d)
    <3> HIDE DEF c, d
    <3>1. Underway(d)
      BY <2>1, <2>3 DEF CallOK, Underway
    <3>2. TextKept(d)
      BY <2>1, <2>3 DEF CallOK, TextKept
    <3> QED
      BY <2>1, <2>3, <3>1, <3>2 DEF CallOK
  <2>5. others \in Seq(Call) /\ Len(others) = 1 /\ others[1] = d
    <3>1. others = [k \in 1..1 |-> d]
      BY <1>9
    <3> HIDE DEF d, others
    <3> QED
      BY <2>3, <3>1
  <2>6. calls' \in Seq(Call) /\ Len(calls') = 2 /\ calls'[1] = d /\ calls'[2] = n
    <3>1. calls' = Append(others, n)
      BY <1>1
    <3> HIDE DEF c, d, others
    <3>2. /\ Append(others, n) \in Seq(Call) /\ Len(Append(others, n)) = 2
          /\ Append(others, n)[1] = others[1] /\ Append(others, n)[2] = n
      <4>1. others \in Seq(Call) /\ n \in Call /\ Len(others) = 1
        BY <1>5, <2>5
      <4> HIDE DEF Call
      <4>2. Append(others, n) \in Seq(Call) /\ Len(Append(others, n)) = Len(others) + 1
        BY <4>1, AppendProperties
      <4>3. Append(others, n)[1] = others[1]
        <5>1. 1 \in 1..Len(others)
          BY <4>1
        <5>2. \A i \in 1..Len(others) : Append(others, n)[i] = others[i]
          BY <4>1, AppendProperties
        <5> QED BY <5>1, <5>2
      <4>4. Append(others, n)[Len(others) + 1] = n
        BY <4>1, AppendProperties
      <4> QED
        BY <4>1, <4>2, <4>3, <4>4
    <3> QED
      BY <2>5, <3>1, <3>2
  <2> HIDE DEF d, others
  <2>7. Level' = 2
    BY <2>6 DEF Level
  <2>8. Reach' = 0
    BY <1>5, <2>6, <2>7 DEF Reach
  <2>9. Torn(buf', d, 0)
    <3> HIDE DEF c
    <3> QED
      BY <1>1, <1>3, <2>1, <2>2, <2>3, TornBegun
  <2>10. m \in d.by /\ d.by # {}
    BY <2>3
  <2>11. \A k \in 1..Level' : k = 1 \/ k = 2
    BY <2>7
  <2>12. \A k \in 1..Level' : CallOK(calls'[k])
    BY <1>5, <2>4, <2>6, <2>11
  <2>13. \A k \in 1..Level' : calls'[k].by = {} => Whole(buf', calls'[k])
    BY <1>6, <2>6, <2>10, <2>11
  <2>14. Torn(buf', calls'[1], Reach')
    BY <2>6, <2>8, <2>9
  <2> QED
    BY <1>4, <1>5, <1>7, <2>6, <2>7, <2>10, <2>12, <2>13, <2>14 DEF PkIInv
<1> QED
  BY <1>1, <1>2, <1>8, <1>9


-----------------------------------------------------------------------------
\* The theorems.

LEMMA PkNextIInv == PkIInv /\ [PkNext]_pk_vars => PkIInv'
<1> SUFFICES ASSUME PkIInv, [PkNext]_pk_vars PROVE PkIInv'
  OBVIOUS
<1>1. ASSUME NEW m \in Message, printk(m) PROVE PkIInv'
  BY <1>1, PrintStep
<1>2. CASE Literal
  BY <1>2, LiteralStep
<1>3. CASE Conversion
  BY <1>3, ConversionStep
<1>4. CASE Copy
  BY <1>4, CopyStep
<1>5. CASE Close
  BY <1>5, CloseStep
<1>6. CASE putk
  BY <1>6, PutStep
<1>7. CASE UNCHANGED pk_vars
  BY <1>7, PkUnchanged DEF pk_vars
<1> QED
  BY <1>1, <1>2, <1>3, <1>4, <1>5, <1>6, <1>7 DEF PkNext, Step, Done

\* Whatever the program uses of libc, its messages are printed by PkSpec.
\* Each part of the library goes its own way, the others standing still.
LEMMA LibcQueues == LSpec => Spec
<1>1. LInit => Init
  BY DEF LInit, NoQueue
<1>2. [LNext]_lvars => [Next]_vars
  BY DEF LNext, lvars
<1> QED
  BY <1>1, <1>2, PTL DEF LSpec, Spec

LEMMA LibcTables == LSpec => HtSpec
<1>1. LInit => HtInit
  BY DEF LInit, NoTable
<1>2. [LNext]_lvars => [HtNext]_ht_vars
  BY DEF LNext, lvars
<1> QED
  BY <1>1, <1>2, PTL DEF LSpec, HtSpec

LEMMA LibcPrints == LSpec => PkSpec
<1>1. LInit => PkInit
  BY DEF LInit
<1>2. [LNext]_lvars => [PkNext]_pk_vars
  BY DEF LNext, lvars
<1> QED
  BY <1>1, <1>2, PTL DEF LSpec, PkSpec

LEMMA PkIInvHolds == LSpec => []PkIInv
<1>1. PkSpec => []PkIInv
  BY PkInitIInv, PkNextIInv, PTL DEF PkSpec
<1> QED
  BY <1>1, LibcPrints

\* No message, and none torn by another, leaves the buffer of printk, which
\* always ends; what nothing interrupted is shown whole as far as it fits.
THEOREM EveryMessageFits == LSpec => []FitsWhole
<1>1. PkIInv => FitsWhole
  <2> SUFFICES ASSUME PkIInv PROVE FitsWhole
    OBVIOUS
  <2>1. calls \in Seq(Call) /\ Level = Len(calls) /\ buf[end] = Nul
    BY DEF PkIInv, Level
  <2>2. ASSUME NEW k \in 1..Level PROVE calls[k].p <= end /\ calls[k].q <= end
    <3>1. calls[k] \in Call
      BY <2>1
    <3> QED
      BY <3>1, EndIs DEF Call
  <2> QED
    BY <2>1, <2>2 DEF PkIInv, ShownWhole, FitsWhole
<1> QED
  BY <1>1, PkIInvHolds, PTL

\* A message the handler prints into is shown with each of its characters in the
\* place it has in one of the messages: printk's static buffer, shared by two.
THEOREM TornMessageInPlace == LSpec => []TornInPlace
<1>1. PkIInv => TornInPlace
  BY DEF PkIInv
<1> QED
  BY <1>1, PkIInvHolds, PTL

\* The text emit makes of a number, for any word of up to 61 bits, reads back as
\* the number, the least of the signed ones included.
THEOREM EveryNumberReadsBack == LSpec => []NumbersReadBack
<1>1. PkIInv => NumbersReadBack
  <2> SUFFICES ASSUME PkIInv, NEW k \in 1..Level, calls[k].i > 1,
                      Format[calls[k].msg][calls[k].i - 1].spec \in Number
               PROVE  ReadsBack(Format[calls[k].msg][calls[k].i - 1], calls[k].text)
    BY DEF NumbersReadBack
  <2> DEFINE c == calls[k]
             piece == Format[c.msg][c.i - 1]
  <2>1. c \in Call /\ CallOK(c)
    <3>1. calls \in Seq(Call) /\ Level = Len(calls)
      BY DEF PkIInv, Level
    <3> QED
      BY <3>1 DEF PkIInv
  <2>2. piece.spec # "text"
    BY DEF Number
  <2>3. Known(piece) /\ c.text = Text[c.msg][c.i - 1]
    BY <2>1, <2>2 DEF CallOK, TextKept
  <2>4. c.msg \in Message /\ c.i - 1 \in 1..Len(Format[c.msg])
    BY <2>1, PiecesAre DEF Call, CallOK
  <2>5. IsText(piece, Text[c.msg][c.i - 1])
    BY <2>3, <2>4, TextIs
  <2> QED
    BY <2>3, <2>5 DEF IsText
<1> QED
  BY <1>1, PkIInvHolds, PTL

-----------------------------------------------------------------------------
(* The strings and blocks of the memory as it was. *)

Byte == 0..255
Memory == [Addr -> Byte]

\* The NUL that ends a string is its first.
LEMMA NulEnds ==
  ASSUME NEW m, NEW p \in Addr, Ends(m, p)
  PROVE  /\ End(m, p) \in p..(N - 1)
         /\ m[End(m, p)] = 0
         /\ \A a \in p..(End(m, p) - 1) : m[a] # 0
<1> DEFINE Nuls == {a \in p..(N - 1) : m[a] = 0}
<1>1. Nuls \in SUBSET Nat /\ Nuls # {}
  BY StringsAssumption DEF Ends, Addr
<1>2. PICK z \in Nuls : \A b \in Nuls : z <= b
  BY <1>1, LeastNumber
<1>3. z \in p..(N - 1) /\ m[z] = 0 /\ \A b \in p..(z - 1) : m[b] # 0
  <2>1. ASSUME NEW b \in p..(z - 1), m[b] = 0 PROVE FALSE
    <3>1. b \in Nuls /\ b < z
      BY <1>2, <2>1, StringsAssumption DEF Addr
    <3> QED BY <1>1, <1>2, <3>1
  <2> QED BY <1>2, <2>1
<1> QED
  BY <1>3 DEF End

LEMMA EndOnce ==
  ASSUME NEW m, NEW p \in Addr, NEW a \in p..(N - 1), m[a] = 0, \A b \in p..(a - 1) : m[b] # 0
  PROVE  Ends(m, p) /\ End(m, p) = a
<1>1. Ends(m, p)
  BY DEF Ends
<1> DEFINE z == End(m, p)
<1>2. z \in p..(N - 1) /\ m[z] = 0 /\ \A b \in p..(z - 1) : m[b] # 0
  BY <1>1, NulEnds
<1> HIDE DEF z
<1>3. z \in Int /\ a \in Int /\ p \in Int
  BY <1>2, StringsAssumption DEF Addr
<1>4. z = a
  BY <1>2, <1>3
<1> QED
  BY <1>1, <1>4 DEF z

LEMMA BytesAre ==
  ASSUME mem0 \in Memory, NEW p \in Nat, NEW n \in Nat, p + n <= N
  PROVE  /\ Bytes(p, n) \in Seq(Byte) /\ Len(Bytes(p, n)) = n
         /\ \A k \in 1..n : Bytes(p, n)[k] = mem0[p + k - 1]
<1> DEFINE all == [a \in 1..N |-> mem0[a - 1]]
<1>1. \A i \in (p + 1)..(p + n) : all[i] \in Byte /\ all[i] = mem0[i - 1]
  BY StringsAssumption DEF Memory, Addr
<1> HIDE DEF all
<1>2. p + 1 \in Int /\ p + n \in Int /\ (p + n) - (p + 1) + 1 = n
  OBVIOUS
<1>3. /\ SubSeq(all, p + 1, p + n) \in Seq(Byte)
      /\ Len(SubSeq(all, p + 1, p + n)) = IF p + 1 <= p + n THEN (p + n) - (p + 1) + 1 ELSE 0
      /\ \A i \in 1..((p + n) - (p + 1) + 1) : SubSeq(all, p + 1, p + n)[i] = all[(p + 1) + i - 1]
  BY <1>1, <1>2, SubSeqProperties
<1>4. \A k \in 1..n : all[(p + 1) + k - 1] = mem0[p + k - 1]
  <2> TAKE k \in 1..n
  <2>1. p + k \in (p + 1)..(p + n) /\ (p + 1) + k - 1 = p + k
    OBVIOUS
  <2> QED BY <1>1, <2>1
<1>5. Bytes(p, n) = SubSeq(all, p + 1, p + n)
  BY DEF Bytes, all
<1> QED
  BY <1>2, <1>3, <1>4, <1>5

LEMMA StringIs ==
  ASSUME mem0 \in Memory, NEW p \in Addr, Ends(mem0, p)
  PROVE  /\ StringAt(p) \in Seq(Byte) /\ Len(StringAt(p)) = End(mem0, p) - p + 1
         /\ \A k \in 1..(End(mem0, p) - p + 1) : StringAt(p)[k] = mem0[p + k - 1]
         /\ End(mem0, p) \in p..(N - 1) /\ mem0[End(mem0, p)] = 0
         /\ \A a \in p..(End(mem0, p) - 1) : mem0[a] # 0
<1> DEFINE z == End(mem0, p)
           n == z - p + 1
<1>1. z \in p..(N - 1) /\ mem0[z] = 0 /\ \A a \in p..(z - 1) : mem0[a] # 0
  BY NulEnds
<1> HIDE DEF z
<1>2. p \in Nat /\ n \in Nat /\ p + n <= N /\ p + n = z + 1
  BY <1>1, StringsAssumption DEF Addr
<1>3. StringAt(p) = Bytes(p, n)
  BY <1>2 DEF StringAt, Bytes, z
<1> HIDE DEF n
<1>4. /\ Bytes(p, n) \in Seq(Byte) /\ Len(Bytes(p, n)) = n
      /\ \A k \in 1..n : Bytes(p, n)[k] = mem0[p + k - 1]
  BY <1>2, BytesAre
<1> QED
  BY <1>1, <1>3, <1>4 DEF z, n

LEMMA MinIs ==
  ASSUME NEW S \in SUBSET Nat, NEW k \in S, \A j \in S : k <= j
  PROVE  Min(S) = k
<1>1. \A x \in S : (\A y \in S : x <= y) => x = k
  <2> SUFFICES ASSUME NEW x \in S, \A y \in S : x <= y PROVE x = k
    OBVIOUS
  <2>1. x \in Nat /\ k \in Nat /\ x <= k /\ k <= x
    OBVIOUS
  <2> QED BY <2>1
<1>2. Min(S) \in S /\ \A y \in S : Min(S) <= y
  BY DEF Min
<1> QED
  BY <1>1, <1>2

LEMMA DifferenceAt ==
  ASSUME NEW s \in Seq(Byte), NEW t \in Seq(Byte), NEW k \in DOMAIN s \cap DOMAIN t,
         s[k] # t[k], \A j \in 1..(k - 1) : s[j] = t[j]
  PROVE  Difference(s, t) = s[k] - t[k]
<1> DEFINE differ == {j \in DOMAIN s \cap DOMAIN t : s[j] # t[j]}
<1>1. differ \in SUBSET Nat /\ k \in differ
  OBVIOUS
<1>2. \A j \in differ : k <= j
  <2> TAKE j \in differ
  <2>1. j \in Nat /\ j >= 1 /\ s[j] # t[j] /\ k \in Nat
    OBVIOUS
  <2>2. j \notin 1..(k - 1)
    BY <2>1
  <2> QED BY <2>1, <2>2
<1>3. Difference(s, t) = IF differ = {} THEN 0 ELSE s[Min(differ)] - t[Min(differ)]
  BY DEF Difference
<1> HIDE DEF differ
<1>4. Min(differ) = k
  BY <1>1, <1>2, MinIs
<1> QED
  BY <1>1, <1>3, <1>4

LEMMA DifferenceNone ==
  ASSUME NEW s, NEW t, \A k \in DOMAIN s \cap DOMAIN t : s[k] = t[k]
  PROVE  Difference(s, t) = 0
BY DEF Difference

LEMMA FirstAtIs ==
  ASSUME NEW s \in Seq(Byte), NEW p \in Nat, NEW c, NEW k \in 1..Len(s), s[k] = c,
         \A j \in 1..(k - 1) : s[j] # c
  PROVE  FirstAt(p, s, c) = p + k - 1
<1> DEFINE places == {j \in DOMAIN s : s[j] = c}
<1>1. places \in SUBSET Nat /\ k \in places
  OBVIOUS
<1>2. \A j \in places : k <= j
  <2> TAKE j \in places
  <2>1. j \in Nat /\ j >= 1 /\ s[j] = c /\ k \in Nat
    OBVIOUS
  <2>2. j \notin 1..(k - 1)
    BY <2>1
  <2> QED BY <2>1, <2>2
<1>3. Contains(s, c)
  BY DEF Contains
<1>4. FirstAt(p, s, c) = p + Min(places) - 1
  BY <1>3 DEF FirstAt
<1> HIDE DEF places
<1>5. Min(places) = k
  BY <1>1, <1>2, MinIs
<1> QED
  BY <1>4, <1>5

LEMMA NotAt ==
  ASSUME NEW s \in Seq(Byte), NEW p, NEW c, \A k \in 1..Len(s) : s[k] # c
  PROVE  FirstAt(p, s, c) = NULL
BY DEF FirstAt, Contains

\* The memory as it was, but for k bytes from d on, whose j-th is v(j) - passed as
\* a function.
Copied(m, d, k, v) == \A a \in Addr : m[a] = IF a \in d..(d + k - 1) THEN v[a - d + 1] ELSE mem0[a]

LEMMA WrittenAs ==
  ASSUME mem0 \in Memory, NEW m \in Memory, NEW d \in Nat, NEW k \in Nat, NEW v, DOMAIN v = 1..k,
         Copied(m, d, k, v)
  PROVE  m = Written(d, v)
<1>1. \A a \in Addr : a - d + 1 \in 1..k <=> a \in d..(d + k - 1)
  BY StringsAssumption DEF Addr
<1>2. m = [a \in Addr |-> m[a]]
  BY DEF Memory
<1>3. \A a \in Addr : m[a] = IF a - d + 1 \in DOMAIN v THEN v[a - d + 1] ELSE mem0[a]
  BY <1>1 DEF Copied
<1> QED
  BY <1>2, <1>3 DEF Written

-----------------------------------------------------------------------------
(* The inductive invariant: how far each loop has come. *)

Function == {"strlen", "strchr", "strcmp", "strncmp", "memcmp", "memchr", "memiszero",
             "memset", "strcpy", "strcat", "memcpy", "crc32"}

StringCall == [f : Function \cup {"none"}, p : Nat, q : Nat, n : Nat, c : Nat, found : BOOLEAN,
               crc : SUBSET (0..31)]

\* The bytes of a string from its beginning to its NUL.
Span(p) == End(mem0, p) - p + 1

\* What callers keep to.
Allowed(f, p, q, n) ==
  /\ f \in {"strlen", "strchr", "strcmp", "strcat"} => p \in Addr /\ Ends(mem0, p)
  /\ f \in {"strcmp", "strcpy", "strcat"} => q \in Addr /\ Ends(mem0, q)
  /\ f \in {"strncmp", "memcmp", "memcpy", "memchr", "memset", "memiszero", "crc32"} => p + n <= N
  /\ f \in {"strncmp", "memcmp", "memcpy"} => q + n <= N
  /\ f = "memcpy" => Apart(p, n, q, n)
  /\ f = "strcpy" => p + Span(q) <= N /\ Apart(p, Span(q), q, Span(q))
  /\ f = "strcat" => p + Span(p) - 1 + Span(q) <= N
                     /\ Apart(p, Span(p) - 1 + Span(q), q, Span(q))

\* k turns after the call: call.p and call.q have moved with it, and call.n down.
Turns == call.p - args.p

Same(k) == \A j \in 0..(k - 1) : mem0[args.p + j] = mem0[args.q + j]
None0(k, c) == \A j \in 0..(k - 1) : mem0[args.p + j] # c

AtStrlen == call.p \in args.p..End(mem0, args.p) /\ mem = mem0
AtStrchr == call.p \in args.p..End(mem0, args.p) /\ None0(Turns, args.c % 256) /\ mem = mem0
AtStrcmp ==
  /\ call.p \in args.p..End(mem0, args.p) /\ call.q \in args.q..End(mem0, args.q)
  /\ call.q = args.q + Turns /\ Same(Turns) /\ mem = mem0
AtMemcmp ==
  /\ Turns \in 0..args.n /\ call.n = args.n - Turns /\ call.q = args.q + Turns
  /\ Same(Turns) /\ mem = mem0
AtMemchr ==
  /\ Turns \in 0..args.n /\ call.n = args.n - Turns /\ None0(Turns, args.c) /\ mem = mem0
AtMemiszero ==
  /\ Turns \in 0..args.n /\ call.n = args.n - Turns /\ mem = mem0
  /\ \A j \in 0..(Turns - 1) : mem0[args.p + j] = 0
AtMemset ==
  /\ Turns \in 0..args.n /\ call.n = args.n - Turns
  /\ Copied(mem, args.p, Turns, [k \in 1..args.n |-> args.c % 256])
AtMemcpy ==
  /\ Turns \in 0..args.n /\ call.n = args.n - Turns /\ call.q = args.q + Turns
  /\ (\A x \in {args.p, args.q, args.n} : x % WordBytes = 0) => call.n % WordBytes = 0
  /\ Copied(mem, args.p, Turns, Bytes(args.q, args.n))
AtStrcpy ==
  /\ Turns \in 0..(Span(args.q) - 1) /\ call.q = args.q + Turns
  /\ Copied(mem, args.p, Turns, StringAt(args.q))
AtStrcat ==
  /\ ~call.found => call.p \in args.p..End(mem0, args.p) /\ call.q = args.q /\ mem = mem0
  /\ call.found =>
       LET d == End(mem0, args.p) IN
       /\ call.p - d \in 0..(Span(args.q) - 1) /\ call.q = args.q + (call.p - d)
       /\ Copied(mem, d, call.p - d, StringAt(args.q))

Walk ==
  /\ args.f = "strlen" => AtStrlen
  /\ args.f = "strchr" => AtStrchr
  /\ args.f = "strcmp" => AtStrcmp
  /\ args.f \in {"strncmp", "memcmp"} => AtMemcmp
  /\ args.f = "memchr" => AtMemchr
  /\ args.f = "memiszero" => AtMemiszero
  /\ args.f = "memset" => AtMemset
  /\ args.f = "memcpy" => AtMemcpy
  /\ args.f = "strcpy" => AtStrcpy
  /\ args.f = "strcat" => AtStrcat
  /\ args.f = "crc32" => mem = mem0

SIInv ==
  /\ mem \in Memory /\ mem0 \in Memory
  /\ call \in StringCall /\ args \in StringCall
  /\ call.f = args.f /\ call.c = args.c
  /\ args.f # "none" => Allowed(args.f, args.p, args.q, args.n)
  /\ result = Running => Walk
  /\ result # Running => args.f # "none"
  /\ StringsMean

-----------------------------------------------------------------------------

\* One of the calls there are.
CallIs(c) ==
  \/ \E p \in Addr : Ends(mem0, p) /\ c = F("strlen", p, p, 0, 0)
  \/ \E p \in Addr, x \in IntArg : Ends(mem0, p) /\ c = F("strchr", p, p, 0, x)
  \/ \E p \in Addr, q \in Addr : Ends(mem0, p) /\ Ends(mem0, q) /\ c = F("strcmp", p, q, 0, 0)
  \/ \E p \in Addr, q \in Addr :
       /\ Ends(mem0, q) /\ Inside(p, Span(q)) /\ Apart(p, Span(q), q, Span(q))
       /\ c = F("strcpy", p, q, 0, 0)
  \/ \E p \in Addr, q \in Addr :
       /\ Ends(mem0, p) /\ Ends(mem0, q) /\ Inside(p, Span(p) - 1 + Span(q))
       /\ Apart(p, Span(p) - 1 + Span(q), q, Span(q))
       /\ c = F("strcat", p, q, 0, 0)
  \/ \E f \in {"strncmp", "memcmp"}, p \in Addr, q \in Addr, n \in 0..N :
       Inside(p, n) /\ Inside(q, n) /\ c = F(f, p, q, n, 0)
  \/ \E p \in Addr, q \in Addr, n \in 0..N :
       Inside(p, n) /\ Inside(q, n) /\ Apart(p, n, q, n) /\ c = F("memcpy", p, q, n, 0)
  \/ \E f \in {"memchr", "memset"}, p \in Addr, n \in 0..N, x \in IntArg :
       Inside(p, n) /\ c = F(f, p, p, n, x)
  \/ \E f \in {"memiszero", "crc32"}, p \in Addr, n \in 0..N :
       Inside(p, n) /\ c = F(f, p, p, n, 0)

LEMMA CallsAre == \A c \in Calls(mem0) : CallIs(c)
<1> SUFFICES ASSUME NEW c \in Calls(mem0) PROVE CallIs(c)
  OBVIOUS
<1> QED
  BY DEF Calls, CallIs, Span

LEMMA CallAllowed ==
  ASSUME NEW c, CallIs(c)
  PROVE  /\ c \in StringCall /\ c.f \in Function /\ Allowed(c.f, c.p, c.q, c.n)
         /\ c.p \in Addr /\ c.q \in Addr /\ c.found = FALSE /\ c.crc = {}
<1>1. Addr \subseteq Nat /\ 0..N \subseteq Nat /\ IntArg \subseteq Nat
  BY StringsAssumption DEF Addr
<1> USE DEF Allowed, Inside, Function
<1>2. ASSUME NEW f \in Function, NEW p \in Addr, NEW q \in Addr, NEW n \in 0..N, NEW x \in Nat,
             c = F(f, p, q, n, x), Allowed(f, p, q, n)
      PROVE  /\ c \in StringCall /\ c.f \in Function /\ Allowed(c.f, c.p, c.q, c.n)
             /\ c.p \in Addr /\ c.q \in Addr /\ c.found = FALSE /\ c.crc = {}
  <2>1. c \in StringCall
    BY <1>1, <1>2 DEF F, StringCall
  <2>2. c.f = f /\ c.p = p /\ c.q = q /\ c.n = n /\ c.found = FALSE /\ c.crc = {}
    BY <1>2 DEF F
  <2> HIDE DEF Allowed
  <2> QED BY <1>2, <2>1, <2>2
<1>3. 0 \in Nat /\ (Addr # {} => 0 \in 0..N)
  BY StringsAssumption DEF Addr
<1>4. CASE \E p \in Addr : Ends(mem0, p) /\ c = F("strlen", p, p, 0, 0)
  BY <1>2, <1>3, <1>4
<1>5. CASE \E p \in Addr, x \in IntArg : Ends(mem0, p) /\ c = F("strchr", p, p, 0, x)
  BY <1>1, <1>2, <1>3, <1>5
<1>6. CASE \E p \in Addr, q \in Addr : Ends(mem0, p) /\ Ends(mem0, q) /\ c = F("strcmp", p, q, 0, 0)
  BY <1>2, <1>3, <1>6
<1>7. CASE \E p \in Addr, q \in Addr :
             /\ Ends(mem0, q) /\ Inside(p, Span(q)) /\ Apart(p, Span(q), q, Span(q))
             /\ c = F("strcpy", p, q, 0, 0)
  BY <1>2, <1>3, <1>7
<1>8. CASE \E p \in Addr, q \in Addr :
             /\ Ends(mem0, p) /\ Ends(mem0, q) /\ Inside(p, Span(p) - 1 + Span(q))
             /\ Apart(p, Span(p) - 1 + Span(q), q, Span(q))
             /\ c = F("strcat", p, q, 0, 0)
  <2>1. PICK p \in Addr, q \in Addr :
           /\ Ends(mem0, p) /\ Ends(mem0, q) /\ Inside(p, Span(p) - 1 + Span(q))
           /\ Apart(p, Span(p) - 1 + Span(q), q, Span(q))
           /\ c = F("strcat", p, q, 0, 0)
    BY <1>8
  <2>2. Span(p) \in Int /\ Span(q) \in Int /\ p \in Int
    BY <1>1, <2>1, NulEnds DEF Span
  <2>3. p + Span(p) - 1 + Span(q) <= N
    BY <2>1, <2>2
  <2>4. Allowed("strcat", p, q, 0)
    BY <2>1, <2>3
  <2> QED BY <1>2, <1>3, <2>1, <2>4
<1>9. CASE \E f \in {"strncmp", "memcmp"}, p \in Addr, q \in Addr, n \in 0..N :
             Inside(p, n) /\ Inside(q, n) /\ c = F(f, p, q, n, 0)
  BY <1>2, <1>3, <1>9
<1>10. CASE \E p \in Addr, q \in Addr, n \in 0..N :
             Inside(p, n) /\ Inside(q, n) /\ Apart(p, n, q, n) /\ c = F("memcpy", p, q, n, 0)
  BY <1>2, <1>3, <1>10
<1>11. CASE \E f \in {"memchr", "memset"}, p \in Addr, n \in 0..N, x \in IntArg :
             Inside(p, n) /\ c = F(f, p, p, n, x)
  BY <1>1, <1>2, <1>3, <1>11
<1>12. CASE \E f \in {"memiszero", "crc32"}, p \in Addr, n \in 0..N :
             Inside(p, n) /\ c = F(f, p, p, n, 0)
  BY <1>2, <1>3, <1>12
<1> QED
  BY <1>4, <1>5, <1>6, <1>7, <1>8, <1>9, <1>10, <1>11, <1>12 DEF CallIs

LEMMA SInitIInv == LInit => SIInv
<1> SUFFICES ASSUME LInit PROVE SIInv
  OBVIOUS
<1>1. CASE NoCall
  <2>1. mem \in Memory /\ mem0 \in Memory
    BY <1>1 DEF NoCall, Memory, Byte
  <2>2. call \in StringCall /\ args = call /\ args.f = "none" /\ result = Running
    BY <1>1 DEF NoCall, StringCall, F
  <2> QED
    BY <2>1, <2>2 DEF SIInv, Walk, StringsMean
<1>2. CASE SInit
  <2>1. mem \in Memory /\ mem0 = mem
    BY <1>2, StringsAssumption DEF SInit, Memory, Byte
  <2>2. CallIs(call) /\ args = call /\ result = Running
    BY <1>2, <2>1, CallsAre DEF SInit
  <2>3. /\ call \in StringCall /\ call.f \in Function /\ Allowed(call.f, call.p, call.q, call.n)
        /\ call.p \in Addr /\ call.q \in Addr /\ call.found = FALSE
    BY <2>2, CallAllowed
  <2>4. call.p \in Nat /\ call.q \in Nat /\ call.n \in Nat /\ Turns = 0
    BY <2>2, <2>3 DEF StringCall, Turns
  <2>5. \A p \in Addr : Ends(mem0, p) => End(mem0, p) \in p..(N - 1) /\ Span(p) \in Nat \ {0}
    BY NulEnds, StringsAssumption DEF Span, Addr
  <2>6. \A v : Copied(mem, call.p, 0, v)
    BY <2>1, <2>4 DEF Copied
  <2> USE <2>1, <2>2, <2>3, <2>4, <2>5
  <2>7. Walk
    <3>1. args.f = "strlen" => AtStrlen
      BY DEF AtStrlen, Allowed
    <3>2. args.f = "strchr" => AtStrchr
      BY DEF AtStrchr, Allowed, None0
    <3>3. args.f = "strcmp" => AtStrcmp
      BY DEF AtStrcmp, Allowed, Same
    <3>4. args.f \in {"strncmp", "memcmp"} => AtMemcmp
      BY DEF AtMemcmp, Same
    <3>5. args.f = "memchr" => AtMemchr
      BY DEF AtMemchr, None0
    <3>6. args.f = "memiszero" => AtMemiszero
      BY DEF AtMemiszero
    <3>7. args.f = "memset" => AtMemset
      BY <2>6 DEF AtMemset
    <3>8. args.f = "memcpy" => AtMemcpy
      BY <2>6 DEF AtMemcpy
    <3>9. args.f = "strcpy" => AtStrcpy
      BY <2>6 DEF AtStrcpy, Allowed
    <3>10. args.f = "strcat" => AtStrcat
      BY DEF AtStrcat, Allowed
    <3> QED
      BY <3>1, <3>2, <3>3, <3>4, <3>5, <3>6, <3>7, <3>8, <3>9, <3>10 DEF Walk
  <2>8. StringsMean /\ args.f # "none"
    BY DEF StringsMean, Function
  <2> QED
    BY <2>7, <2>8 DEF SIInv
<1> QED
  BY <1>1, <1>2 DEF LInit

LEMMA AllowedStill ==
  ASSUME SIInv, mem0' = mem0, args' = args
  PROVE  args'.f # "none" => Allowed(args.f, args.p, args.q, args.n)'
BY DEF SIInv, Allowed, Span

\* A turn of a loop; the call goes on.
LEMMA TurnKeeps ==
  ASSUME SIInv, result = Running, UNCHANGED <<result, mem0, args>>, mem' \in Memory,
         NEW d \in StringCall, call' = d, d.f = call.f, d.c = call.c, Walk'
  PROVE  SIInv'
BY AllowedStill DEF SIInv, StringsMean

\* Its last; the call returns.
LEMMA ReturnKeeps ==
  ASSUME SIInv, result = Running, result' # Running, UNCHANGED <<mem0, args>>, mem' \in Memory,
         args.f # "none",
         NEW d \in StringCall, call' = d, d.f = call.f, d.c = call.c, StringsMean'
  PROVE  SIInv'
BY AllowedStill DEF SIInv

\* What a step of the function f finds.
LEMMA InCall ==
  ASSUME SIInv, NEW f \in Function, In(f)
  PROVE  /\ result = Running /\ args.f = f /\ Walk /\ Allowed(args.f, args.p, args.q, args.n)
         /\ call \in StringCall /\ args \in StringCall /\ mem \in Memory /\ mem0 \in Memory
         /\ call.p \in Nat /\ call.q \in Nat /\ call.n \in Nat
         /\ args.p \in Nat /\ args.q \in Nat /\ args.n \in Nat
         /\ call.f = f /\ call.c = args.c /\ args.f # "none"
BY DEF SIInv, In, StringCall, Function

LEMMA OnwardIs ==
  ASSUME call \in StringCall
  PROVE  /\ Onward \in StringCall /\ Onward.f = call.f /\ Onward.c = call.c /\ Onward.n = call.n
         /\ Onward.p = call.p + 1 /\ Onward.q = call.q + 1 /\ Onward.found = call.found
<1> DEFINE d == [call EXCEPT !.p = @ + 1]
<1>1. d \in StringCall /\ d.p = call.p + 1 /\ d.q = call.q
      /\ d.f = call.f /\ d.c = call.c /\ d.n = call.n /\ d.found = call.found
  BY DEF StringCall
<1>2. Onward = [d EXCEPT !.q = @ + 1]
  BY DEF Onward
<1> HIDE DEF d
<1>3. Onward \in StringCall
  BY <1>1, <1>2 DEF StringCall
<1> QED
  BY <1>1, <1>2, <1>3 DEF StringCall

LEMMA CountIs ==
  ASSUME call \in StringCall, call.n # 0
  PROVE  /\ Count \in StringCall /\ Count.f = call.f /\ Count.c = call.c /\ Count.n = call.n - 1
         /\ Count.p = call.p + 1 /\ Count.q = call.q + 1
<1>1. /\ Onward \in StringCall /\ Onward.f = call.f /\ Onward.c = call.c /\ Onward.n = call.n
      /\ Onward.p = call.p + 1 /\ Onward.q = call.q + 1
  BY OnwardIs
<1>2. call.n - 1 \in Nat
  BY DEF StringCall
<1> QED
  BY <1>1, <1>2 DEF Count, StringCall

LEMMA OnwardP ==
  ASSUME call \in StringCall, NEW d, d = [call EXCEPT !.p = @ + 1]
  PROVE  /\ d \in StringCall /\ d.f = call.f /\ d.c = call.c /\ d.n = call.n
         /\ d.p = call.p + 1 /\ d.q = call.q /\ d.found = call.found
BY DEF StringCall

\* What a call a promises to return, v, and to leave, m.
Meant(a, v, m) ==
  LET f == a.f  p == a.p  q == a.q  n == a.n  c == a.c IN
  /\ f = "strlen" => v = Len(StringAt(p)) - 1 /\ m = mem0
  /\ f = "strcmp" => v = Difference(StringAt(p), StringAt(q)) /\ m = mem0
  /\ f \in {"strncmp", "memcmp"} => v = Difference(Bytes(p, n), Bytes(q, n)) /\ m = mem0
  /\ f = "strchr" => v = FirstAt(p, StringAt(p), c % 256) /\ m = mem0
  /\ f = "memchr" => v = FirstAt(p, Bytes(p, n), c) /\ m = mem0
  /\ f = "memiszero" => (v = 1 <=> \A k \in 1..n : Bytes(p, n)[k] = 0) /\ m = mem0
  /\ f = "memset" => v = p /\ m = Written(p, [k \in 1..n |-> c % 256])
  /\ f = "memcpy" => v = p /\ m = Written(p, Bytes(q, n))
  /\ f = "strcpy" => v = p /\ m = Written(p, StringAt(q))
  /\ f = "strcat" => v = p /\ m = Written(p, Front(StringAt(p)) \o StringAt(q))
  /\ f = "crc32" => m = mem0

LEMMA MeansOne ==
  args.f \in Function => (StringsMean <=> (result # Running => Meant(args, result[1], mem)))
<1> SUFFICES ASSUME args.f \in Function
             PROVE  StringsMean <=> (result # Running => Meant(args, result[1], mem))
  OBVIOUS
<1> USE DEF StringsMean, Meant
<1>1. CASE args.f = "strlen"
  BY <1>1
<1>2. CASE args.f = "strcmp"
  BY <1>2
<1>3. CASE args.f = "strncmp"
  BY <1>3
<1>4. CASE args.f = "memcmp"
  BY <1>4
<1>5. CASE args.f = "strchr"
  BY <1>5
<1>6. CASE args.f = "memchr"
  BY <1>6
<1>7. CASE args.f = "memiszero"
  BY <1>7
<1>8. CASE args.f = "memset"
  BY <1>8
<1>9. CASE args.f = "memcpy"
  BY <1>9
<1>10. CASE args.f = "strcpy"
  BY <1>10
<1>11. CASE args.f = "strcat"
  BY <1>11
<1>12. CASE args.f = "crc32"
  BY <1>12
<1> QED
  BY <1>1, <1>2, <1>3, <1>4, <1>5, <1>6, <1>7, <1>8, <1>9, <1>10, <1>11, <1>12 DEF Function

LEMMA MeantStill ==
  ASSUME mem0' = mem0, args' = args, args.f \in Function, NEW v, result' = <<v>>, NEW m, mem' = m, Meant(args, v, m)
  PROVE  StringsMean'
<1>1. Meant(args, v, m)' = Meant(args, v, m)
  BY DEF Meant, StringAt, Bytes, End, Written
<1>2. (args.f \in Function => (StringsMean <=> (result # Running => Meant(args, result[1], mem))))'
  BY MeansOne, PTL
<1>3. args'.f \in Function
  BY DEF Function
<1>4. Meant(args, result[1], mem)'
  <2>1. result'[1] = v
    OBVIOUS
  <2> QED BY <1>1, <2>1
<1> QED
  BY <1>2, <1>3, <1>4 DEF Function

-----------------------------------------------------------------------------
(* The steps. *)

LEMMA StrlenStep == SIInv /\ strlen => SIInv'
<1> SUFFICES ASSUME SIInv, strlen PROVE SIInv'
  OBVIOUS
<1> USE DEF Function
<1>1. In("strlen")
  BY DEF strlen
<1>2. /\ result = Running /\ args.f = "strlen" /\ Walk /\ Allowed(args.f, args.p, args.q, args.n)
      /\ call \in StringCall /\ args \in StringCall /\ mem \in Memory /\ mem0 \in Memory
      /\ call.p \in Nat /\ args.p \in Nat /\ call.f = args.f /\ call.c = args.c
  BY <1>1, InCall
<1>3. AtStrlen /\ args.p \in Addr /\ Ends(mem0, args.p)
  BY <1>2 DEF Walk, Allowed
<1> DEFINE z == End(mem0, args.p)
           s == StringAt(args.p)
<1>4. /\ s \in Seq(Byte) /\ Len(s) = z - args.p + 1
      /\ z \in args.p..(N - 1) /\ mem0[z] = 0 /\ \A a \in args.p..(z - 1) : mem0[a] # 0
  BY <1>2, <1>3, StringIs
<1>5. call.p \in args.p..z /\ mem = mem0
  BY <1>3 DEF AtStrlen
<1> HIDE DEF z, s
<1>6. CASE mem[call.p] # 0
  <2> DEFINE d == [call EXCEPT !.p = @ + 1]
  <2>1. Turn(d)
    BY <1>6 DEF strlen
  <2>2. d \in StringCall /\ d.f = call.f /\ d.c = call.c /\ d.p = call.p + 1
    BY <1>2, OnwardP
  <2> HIDE DEF d
  <2>3. call' = d /\ UNCHANGED <<mem, result, mem0, args>>
    BY <2>1 DEF Turn
  <2>4. d.p \in args.p..z
    BY <1>2, <1>4, <1>5, <1>6, <2>2
  <2>5. AtStrlen'
    BY <1>5, <2>3, <2>4 DEF AtStrlen, z
  <2>6. Walk'
    BY <1>2, <2>3, <2>5 DEF Walk
  <2> QED
    BY <1>2, <2>2, <2>3, <2>6, TurnKeeps
<1>7. CASE mem[call.p] = 0
  <2>1. Return(call.p - args.p)
    BY <1>7 DEF strlen
  <2>2. result' = <<call.p - args.p>> /\ UNCHANGED <<mem, call, mem0, args>>
    BY <2>1 DEF Return
  <2>3. call.p = z
    BY <1>2, <1>4, <1>5, <1>7
  <2>4. Meant(args, call.p - args.p, mem)
    BY <1>2, <1>4, <1>5, <2>3 DEF Meant, s
  <2>5. StringsMean'
    BY <1>2, <2>2, <2>4, MeantStill
  <2>6. result' # Running
    BY <2>2 DEF Running
  <2> QED
    BY <1>2, <2>2, <2>5, <2>6, ReturnKeeps
<1> QED
  BY <1>6, <1>7

LEMMA StrchrStep == SIInv /\ strchr => SIInv'
<1> SUFFICES ASSUME SIInv, strchr PROVE SIInv'
  OBVIOUS
<1> USE DEF Function
<1>1. In("strchr")
  BY DEF strchr
<1>2. /\ result = Running /\ args.f = "strchr" /\ Walk /\ Allowed(args.f, args.p, args.q, args.n)
      /\ call \in StringCall /\ args \in StringCall /\ mem \in Memory /\ mem0 \in Memory
      /\ call.p \in Nat /\ args.p \in Nat /\ call.f = args.f /\ call.c = args.c
  BY <1>1, InCall
<1>3. AtStrchr /\ args.p \in Addr /\ Ends(mem0, args.p)
  BY <1>2 DEF Walk, Allowed
<1> DEFINE z == End(mem0, args.p)
           s == StringAt(args.p)
           c == args.c % 256
           k == Turns
<1>4. /\ s \in Seq(Byte) /\ Len(s) = z - args.p + 1
      /\ \A j \in 1..(z - args.p + 1) : s[j] = mem0[args.p + j - 1]
      /\ z \in args.p..(N - 1) /\ mem0[z] = 0 /\ \A a \in args.p..(z - 1) : mem0[a] # 0
  BY <1>2, <1>3, StringIs
<1>5. call.p \in args.p..z /\ mem = mem0 /\ \A j \in 0..(k - 1) : mem0[args.p + j] # c
  BY <1>3 DEF AtStrchr, None0
<1>6. k \in Nat /\ call.p = args.p + k
  BY <1>2, <1>5 DEF Turns
<1> HIDE DEF z, s, c, k
<1>7. \A j \in 1..k : s[j] # c
  <2> TAKE j \in 1..k
  <2>1. j - 1 \in 0..(k - 1) /\ args.p + (j - 1) = args.p + j - 1 /\ j \in 1..(z - args.p + 1)
    BY <1>2, <1>4, <1>5, <1>6
  <2> QED BY <1>4, <1>5, <2>1
<1>8. k + 1 \in 1..Len(s) /\ s[k + 1] = mem[call.p]
  <2>1. k + 1 \in 1..(z - args.p + 1) /\ args.p + (k + 1) - 1 = call.p
    BY <1>2, <1>4, <1>5, <1>6
  <2> QED BY <1>4, <1>5, <2>1
<1>9. CASE mem[call.p] = call.c % 256
  <2>1. result' = <<call.p>> /\ UNCHANGED <<mem, call, mem0, args>>
    BY <1>9 DEF strchr, Return
  <2>2. FirstAt(args.p, s, c) = args.p + (k + 1) - 1
    <3>1. s[k + 1] = c
      BY <1>2, <1>8, <1>9 DEF c
    <3>2. \A j \in 1..((k + 1) - 1) : s[j] # c
      BY <1>6, <1>7
    <3> DEFINE x == k + 1
    <3>3. x \in 1..Len(s) /\ s[x] = c /\ \A j \in 1..(x - 1) : s[j] # c
      BY <1>8, <3>1, <3>2
    <3> HIDE DEF x
    <3>4. FirstAt(args.p, s, c) = args.p + x - 1
      <4>1. args.p \in Nat /\ s \in Seq(Byte)
        BY <1>2, <1>4
      <4> QED BY <3>3, <4>1, FirstAtIs
    <3> QED BY <3>4 DEF x
  <2>3. call.p = FirstAt(args.p, s, c)
    BY <1>2, <1>6, <2>2
  <2>4. Meant(args, call.p, mem)
    BY <1>2, <1>5, <2>3 DEF Meant, s, c
  <2>5. StringsMean'
    BY <1>2, <2>1, <2>4, MeantStill
  <2>6. result' # Running
    BY <2>1 DEF Running
  <2> QED
    BY <1>2, <2>1, <2>5, <2>6, ReturnKeeps
<1>10. CASE mem[call.p] # call.c % 256 /\ mem[call.p] # 0
  <2>1. call' = Onward /\ UNCHANGED <<mem, result, mem0, args>>
    BY <1>10 DEF strchr, Turn
  <2>2. /\ Onward \in StringCall /\ Onward.f = call.f /\ Onward.c = call.c
        /\ Onward.p = call.p + 1
    BY <1>2, OnwardIs
  <2>3. Onward.p \in args.p..z
    BY <1>2, <1>4, <1>5, <1>10, <2>2
  <2>4. Turns' = k + 1
    BY <1>2, <1>6, <2>1, <2>2 DEF Turns, k
  <2>5. \A j \in 0..((k + 1) - 1) : mem0[args.p + j] # c
    <3>1. mem0[args.p + k] # c
      BY <1>2, <1>5, <1>6, <1>10 DEF c
    <3> QED BY <1>5, <1>6, <3>1
  <2>6. AtStrchr'
    BY <1>5, <2>1, <2>3, <2>4, <2>5 DEF AtStrchr, None0, z, c
  <2>7. Walk'
    BY <1>2, <2>1, <2>6 DEF Walk
  <2> QED
    BY <1>2, <2>1, <2>2, <2>7, TurnKeeps
<1>11. CASE mem[call.p] # call.c % 256 /\ mem[call.p] = 0
  <2>1. result' = <<NULL>> /\ UNCHANGED <<mem, call, mem0, args>>
    BY <1>11 DEF strchr, Return
  <2>2. Len(s) = k + 1
    BY <1>2, <1>4, <1>5, <1>6, <1>11
  <2>3. s[k + 1] # c
    BY <1>2, <1>8, <1>11 DEF c
  <2>4. \A j \in 1..Len(s) : s[j] # c
    BY <1>6, <1>7, <2>2, <2>3
  <2>5. FirstAt(args.p, s, c) = NULL
    BY <1>4, <2>4, NotAt
  <2>6. Meant(args, NULL, mem)
    BY <1>2, <1>5, <2>5 DEF Meant, s, c
  <2>7. StringsMean'
    BY <1>2, <2>1, <2>6, MeantStill
  <2>8. result' # Running
    BY <2>1 DEF Running
  <2> QED
    BY <1>2, <2>1, <2>7, <2>8, ReturnKeeps
<1> QED
  BY <1>9, <1>10, <1>11

LEMMA StrcmpStep == SIInv /\ strcmp => SIInv'
<1> SUFFICES ASSUME SIInv, strcmp PROVE SIInv'
  OBVIOUS
<1> USE DEF Function
<1>1. In("strcmp")
  BY DEF strcmp
<1>2. /\ result = Running /\ args.f = "strcmp" /\ Walk /\ Allowed(args.f, args.p, args.q, args.n)
      /\ call \in StringCall /\ args \in StringCall /\ mem \in Memory /\ mem0 \in Memory
      /\ call.p \in Nat /\ args.p \in Nat /\ call.q \in Nat /\ args.q \in Nat
      /\ call.f = args.f /\ call.c = args.c
  BY <1>1, InCall
<1>3. AtStrcmp /\ args.p \in Addr /\ Ends(mem0, args.p) /\ args.q \in Addr /\ Ends(mem0, args.q)
  BY <1>2 DEF Walk, Allowed
<1> DEFINE z == End(mem0, args.p)
           h == End(mem0, args.q)
           s == StringAt(args.p)
           t == StringAt(args.q)
           k == Turns
<1>4. /\ s \in Seq(Byte) /\ Len(s) = z - args.p + 1
      /\ \A j \in 1..(z - args.p + 1) : s[j] = mem0[args.p + j - 1]
      /\ z \in args.p..(N - 1) /\ mem0[z] = 0 /\ \A a \in args.p..(z - 1) : mem0[a] # 0
  BY <1>2, <1>3, StringIs
<1>5. /\ t \in Seq(Byte) /\ Len(t) = h - args.q + 1
      /\ \A j \in 1..(h - args.q + 1) : t[j] = mem0[args.q + j - 1]
      /\ h \in args.q..(N - 1) /\ mem0[h] = 0 /\ \A a \in args.q..(h - 1) : mem0[a] # 0
  BY <1>2, <1>3, StringIs
<1>6. /\ call.p \in args.p..z /\ call.q \in args.q..h /\ mem = mem0 /\ call.q = args.q + k
      /\ \A j \in 0..(k - 1) : mem0[args.p + j] = mem0[args.q + j]
  BY <1>3 DEF AtStrcmp, Same
<1>7. k \in Nat /\ call.p = args.p + k
  BY <1>2, <1>6 DEF Turns
<1> HIDE DEF z, h, s, t, k
<1>8. \A j \in 1..k : s[j] = t[j]
  <2> TAKE j \in 1..k
  <2>1. /\ j - 1 \in 0..(k - 1) /\ args.p + (j - 1) = args.p + j - 1 /\ j \in 1..(z - args.p + 1)
        /\ args.q + (j - 1) = args.q + j - 1 /\ j \in 1..(h - args.q + 1)
    <3>1. j - 1 \in 0..(k - 1) /\ args.p + (j - 1) = args.p + j - 1 /\ args.q + (j - 1) = args.q + j - 1
      BY <1>2, <1>7
    <3>2. j \in 1..(z - args.p + 1)
      BY <1>2, <1>4, <1>6, <1>7
    <3>3. j \in 1..(h - args.q + 1)
      BY <1>2, <1>5, <1>6, <1>7
    <3> QED BY <3>1, <3>2, <3>3
  <2>2. s[j] = mem0[args.p + (j - 1)] /\ t[j] = mem0[args.q + (j - 1)]
    BY <1>4, <1>5, <2>1
  <2> QED BY <1>6, <2>1, <2>2
<1>9. /\ k + 1 \in 1..Len(s) /\ s[k + 1] = mem[call.p]
      /\ k + 1 \in 1..Len(t) /\ t[k + 1] = mem[call.q]
  <2>1. k + 1 \in 1..(z - args.p + 1) /\ args.p + (k + 1) - 1 = call.p
    BY <1>2, <1>4, <1>6, <1>7
  <2>2. k + 1 \in 1..(h - args.q + 1) /\ args.q + (k + 1) - 1 = call.q
    <3>1. h \in Int /\ args.q + k \in args.q..h
      BY <1>2, <1>5, <1>6
    <3> QED BY <1>2, <1>6, <1>7, <3>1
  <2> QED BY <1>4, <1>5, <1>6, <2>1, <2>2
<1>10. mem[call.p] \in Int /\ mem[call.q] \in Int
  <2>1. s[k + 1] \in Byte /\ t[k + 1] \in Byte
    BY <1>4, <1>5, <1>9
  <2>2. mem[call.p] \in Byte /\ mem[call.q] \in Byte
    BY <1>9, <2>1
  <2>3. \A b \in Byte : b \in Int
    BY DEF Byte
  <2> QED BY <2>2, <2>3
<1>11. CASE mem[call.p] # 0 /\ mem[call.p] = mem[call.q]
  <2>1. call' = Onward /\ UNCHANGED <<mem, result, mem0, args>>
    BY <1>11 DEF strcmp, Turn
  <2>2. /\ Onward \in StringCall /\ Onward.f = call.f /\ Onward.c = call.c
        /\ Onward.p = call.p + 1 /\ Onward.q = call.q + 1
    BY <1>2, OnwardIs
  <2>3. Onward.p \in args.p..z /\ Onward.q \in args.q..h
    <3>1. call.p # z /\ call.q # h
      BY <1>4, <1>5, <1>6, <1>11
    <3>2. Onward.p \in args.p..z
      BY <1>2, <1>4, <1>6, <2>2, <3>1
    <3>3. Onward.q \in args.q..h
      BY <1>2, <1>5, <1>6, <2>2, <3>1
    <3> QED BY <3>2, <3>3
  <2>4. Turns' = k + 1
    BY <1>2, <1>7, <2>1, <2>2 DEF Turns, k
  <2>5. \A j \in 0..((k + 1) - 1) : mem0[args.p + j] = mem0[args.q + j]
    <3>1. mem0[args.p + k] = mem0[args.q + k]
      BY <1>6, <1>7, <1>11
    <3> QED BY <1>6, <1>7, <3>1
  <2>6. Onward.q = args.q + (k + 1)
    BY <1>2, <1>6, <1>7, <2>2
  <2>7. AtStrcmp'
    BY <1>6, <2>1, <2>3, <2>4, <2>5, <2>6 DEF AtStrcmp, Same, z, h
  <2>8. Walk'
    BY <1>2, <2>1, <2>7 DEF Walk
  <2> QED
    BY <1>2, <2>1, <2>2, <2>8, TurnKeeps
<1>12. CASE ~ (mem[call.p] # 0 /\ mem[call.p] = mem[call.q])
  <2> DEFINE v == mem[call.p] - mem[call.q]
  <2>1. result' = <<v>> /\ UNCHANGED <<mem, call, mem0, args>>
    BY <1>12 DEF strcmp, Return
  <2>2. v = Difference(s, t)
    <3>1. CASE mem[call.p] # mem[call.q]
      <4>1. k + 1 \in DOMAIN s \cap DOMAIN t /\ s[k + 1] # t[k + 1]
        BY <1>4, <1>5, <1>9, <3>1
      <4>2. \A j \in 1..((k + 1) - 1) : s[j] = t[j]
        BY <1>7, <1>8
      <4>3. Difference(s, t) = s[k + 1] - t[k + 1]
        BY <1>4, <1>5, <4>1, <4>2, DifferenceAt
      <4> QED BY <1>9, <4>3
    <3>2. CASE mem[call.p] = mem[call.q]
      <4>1. mem[call.p] = 0 /\ v = 0
        BY <1>10, <1>12, <3>2
      <4>2. Len(s) = k + 1 /\ s[k + 1] = t[k + 1]
        BY <1>2, <1>4, <1>6, <1>7, <1>9, <3>2, <4>1
      <4>3. \A j \in DOMAIN s \cap DOMAIN t : s[j] = t[j]
        BY <1>4, <1>7, <1>8, <4>2
      <4> QED BY <4>1, <4>3, DifferenceNone
    <3> QED BY <3>1, <3>2
  <2>3. Meant(args, v, mem)
    BY <1>2, <1>6, <2>2 DEF Meant, s, t
  <2> HIDE DEF v
  <2>4. StringsMean'
    BY <1>2, <2>1, <2>3, MeantStill
  <2>5. result' # Running
    BY <2>1 DEF Running
  <2> QED
    BY <1>2, <2>1, <2>4, <2>5, ReturnKeeps
<1> QED
  BY <1>11, <1>12

LEMMA CompareStep == SIInv /\ (strncmp \/ memcmp) => SIInv'
<1> SUFFICES ASSUME SIInv, strncmp \/ memcmp PROVE SIInv'
  OBVIOUS
<1> USE DEF Function
<1>1. In("strncmp") \/ In("memcmp")
  BY DEF strncmp, memcmp
<1>2. /\ result = Running /\ args.f \in {"strncmp", "memcmp"} /\ Walk
      /\ Allowed(args.f, args.p, args.q, args.n)
      /\ call \in StringCall /\ args \in StringCall /\ mem \in Memory /\ mem0 \in Memory
      /\ call.p \in Nat /\ args.p \in Nat /\ call.q \in Nat /\ args.q \in Nat
      /\ call.n \in Nat /\ args.n \in Nat
      /\ call.f = args.f /\ call.c = args.c /\ args.f # "none"
  BY <1>1, InCall
<1>3. AtMemcmp /\ args.p + args.n <= N /\ args.q + args.n <= N
  BY <1>2 DEF Walk, Allowed
<1> DEFINE s == Bytes(args.p, args.n)
           t == Bytes(args.q, args.n)
           k == Turns
           n == args.n
<1>4. /\ s \in Seq(Byte) /\ Len(s) = n /\ \A j \in 1..n : s[j] = mem0[args.p + j - 1]
      /\ t \in Seq(Byte) /\ Len(t) = n /\ \A j \in 1..n : t[j] = mem0[args.q + j - 1]
  BY <1>2, <1>3, BytesAre
<1>5. /\ k \in 0..n /\ call.n = n - k /\ call.q = args.q + k /\ mem = mem0
      /\ \A j \in 0..(k - 1) : mem0[args.p + j] = mem0[args.q + j]
  BY <1>3 DEF AtMemcmp, Same
<1>6. k \in Nat /\ n \in Nat /\ call.p = args.p + k
  BY <1>2, <1>5 DEF Turns
<1> HIDE DEF s, t, k, n
<1>7. \A j \in 1..k : s[j] = t[j]
  <2> TAKE j \in 1..k
  <2>1. j - 1 \in 0..(k - 1) /\ args.p + (j - 1) = args.p + j - 1 /\ args.q + (j - 1) = args.q + j - 1
    BY <1>2, <1>6
  <2>2. j \in 1..n
    BY <1>5, <1>6
  <2>3. s[j] = mem0[args.p + (j - 1)] /\ t[j] = mem0[args.q + (j - 1)]
    BY <1>4, <2>1, <2>2
  <2> QED BY <1>5, <2>1, <2>3
<1>8. ASSUME k # n
      PROVE  /\ k + 1 \in 1..n /\ s[k + 1] = mem[call.p] /\ t[k + 1] = mem[call.q]
  <2>1. k + 1 \in 1..n
    BY <1>5, <1>6, <1>8
  <2>2. args.p + (k + 1) - 1 = call.p /\ args.q + (k + 1) - 1 = call.q
    BY <1>2, <1>5, <1>6
  <2> QED BY <1>4, <1>5, <2>1, <2>2
<1>9. call.n = 0 <=> k = n
  BY <1>5, <1>6
<1>10. \/ call.n = 0 /\ Return(0)
       \/ call.n # 0 /\ mem[call.p] # mem[call.q] /\ Return(mem[call.p] - mem[call.q])
       \/ call.n # 0 /\ mem[call.p] = mem[call.q] /\ Turn(Count)
  <2>1. CASE strncmp
    BY <2>1 DEF strncmp
  <2>2. CASE memcmp
    <3>1. CASE call.n = 0
      BY <2>2, <3>1 DEF memcmp
    <3>2. CASE call.n # 0
      <4>1. s[k + 1] \in Byte /\ t[k + 1] \in Byte
        BY <1>4, <1>8, <1>9, <3>2
      <4>2. mem[call.p] \in Byte /\ mem[call.q] \in Byte
        BY <1>8, <1>9, <3>2, <4>1
      <4>3. mem[call.p] - mem[call.q] # 0 <=> mem[call.p] # mem[call.q]
        <5>1. \A x, y \in Byte : x - y # 0 <=> x # y
          BY DEF Byte
        <5> QED BY <4>2, <5>1
      <4> QED BY <2>2, <3>2, <4>3 DEF memcmp
    <3> QED BY <3>1, <3>2
  <2> QED BY <2>1, <2>2
<1>11. ASSUME NEW v, Return(v), v = Difference(s, t)
       PROVE  SIInv'
  <2>1. result' = <<v>> /\ UNCHANGED <<mem, call, mem0, args>>
    BY <1>11 DEF Return
  <2>2. Meant(args, v, mem)
    BY <1>2, <1>5, <1>11 DEF Meant, s, t
  <2>3. StringsMean'
    BY <1>2, <2>1, <2>2, MeantStill
  <2>4. result' # Running
    BY <2>1 DEF Running
  <2> QED
    BY <1>2, <2>1, <2>3, <2>4, ReturnKeeps
<1>12. CASE call.n = 0 /\ Return(0)
  <2>1. \A j \in DOMAIN s \cap DOMAIN t : s[j] = t[j]
    BY <1>4, <1>7, <1>9, <1>12
  <2> QED BY <1>11, <1>12, <2>1, DifferenceNone
<1>13. CASE call.n # 0 /\ mem[call.p] # mem[call.q] /\ Return(mem[call.p] - mem[call.q])
  <2> DEFINE x == k + 1
  <2>1. x \in DOMAIN s \cap DOMAIN t /\ s[x] = mem[call.p] /\ t[x] = mem[call.q]
    BY <1>4, <1>8, <1>9, <1>13
  <2>2. \A j \in 1..(x - 1) : s[j] = t[j]
    BY <1>6, <1>7
  <2> HIDE DEF x
  <2>3. Difference(s, t) = s[x] - t[x]
    BY <1>4, <1>13, <2>1, <2>2, DifferenceAt
  <2> QED BY <1>11, <1>13, <2>1, <2>3
<1>14. CASE call.n # 0 /\ mem[call.p] = mem[call.q] /\ Turn(Count)
  <2>1. call' = Count /\ UNCHANGED <<mem, result, mem0, args>>
    BY <1>14 DEF Turn
  <2>2. /\ Count \in StringCall /\ Count.f = call.f /\ Count.c = call.c /\ Count.n = call.n - 1
        /\ Count.p = call.p + 1 /\ Count.q = call.q + 1
    BY <1>2, <1>14, CountIs
  <2>3. Turns' = k + 1
    BY <1>2, <1>6, <2>1, <2>2 DEF Turns, k
  <2>4. \A j \in 0..((k + 1) - 1) : mem0[args.p + j] = mem0[args.q + j]
    <3>1. mem0[args.p + k] = mem0[args.q + k]
      BY <1>5, <1>6, <1>14
    <3> QED BY <1>5, <1>6, <3>1
  <2>5. k + 1 \in 0..n /\ Count.n = n - (k + 1) /\ Count.q = args.q + (k + 1)
    BY <1>2, <1>5, <1>6, <1>14, <2>2
  <2>6. AtMemcmp'
    BY <1>5, <2>1, <2>3, <2>4, <2>5 DEF AtMemcmp, Same, n
  <2>7. Walk'
    BY <1>2, <2>1, <2>6 DEF Walk
  <2> QED
    BY <1>2, <2>1, <2>2, <2>7, TurnKeeps
<1> QED
  BY <1>10, <1>12, <1>13, <1>14

LEMMA MemchrStep == SIInv /\ memchr => SIInv'
<1> SUFFICES ASSUME SIInv, memchr PROVE SIInv'
  OBVIOUS
<1> USE DEF Function
<1>1. In("memchr")
  BY DEF memchr
<1>2. /\ result = Running /\ args.f = "memchr" /\ Walk
      /\ Allowed(args.f, args.p, args.q, args.n)
      /\ call \in StringCall /\ args \in StringCall /\ mem \in Memory /\ mem0 \in Memory
      /\ call.p \in Nat /\ args.p \in Nat
      /\ call.n \in Nat /\ args.n \in Nat
      /\ call.f = args.f /\ call.c = args.c /\ args.f # "none"
  BY <1>1, InCall
<1>3. AtMemchr /\ args.p + args.n <= N
  BY <1>2 DEF Walk, Allowed
<1> DEFINE s == Bytes(args.p, args.n)
           c == args.c
           k == Turns
           n == args.n
<1>4. /\ s \in Seq(Byte) /\ Len(s) = n /\ \A j \in 1..n : s[j] = mem0[args.p + j - 1]
  BY <1>2, <1>3, BytesAre
<1>5. /\ k \in 0..n /\ call.n = n - k /\ mem = mem0
      /\ \A j \in 0..(k - 1) : mem0[args.p + j] # c
  BY <1>3 DEF AtMemchr, None0
<1>6. k \in Nat /\ n \in Nat /\ call.p = args.p + k
  BY <1>2, <1>5 DEF Turns
<1> HIDE DEF s, c, k, n
<1>7. \A j \in 1..k : s[j] # c
  <2> TAKE j \in 1..k
  <2>1. j - 1 \in 0..(k - 1) /\ args.p + (j - 1) = args.p + j - 1
    BY <1>2, <1>6
  <2>2. j \in 1..n
    BY <1>5, <1>6
  <2>3. s[j] = mem0[args.p + (j - 1)]
    BY <1>4, <2>1, <2>2
  <2> QED BY <1>5, <2>1, <2>3
<1>8. ASSUME k # n PROVE k + 1 \in 1..n /\ s[k + 1] = mem[call.p]
  <2>1. k + 1 \in 1..n
    BY <1>5, <1>6, <1>8
  <2>2. args.p + (k + 1) - 1 = call.p
    BY <1>2, <1>5, <1>6
  <2> QED BY <1>4, <1>5, <2>1, <2>2
<1>9. call.n = 0 <=> k = n
  BY <1>5, <1>6
<1>11. ASSUME NEW v, Return(v), v = FirstAt(args.p, s, c)
       PROVE  SIInv'
  <2>1. result' = <<v>> /\ UNCHANGED <<mem, call, mem0, args>>
    BY <1>11 DEF Return
  <2>2. Meant(args, v, mem)
    BY <1>2, <1>5, <1>11 DEF Meant, s, c
  <2>3. StringsMean'
    BY <1>2, <2>1, <2>2, MeantStill
  <2>4. result' # Running
    BY <2>1 DEF Running
  <2> QED
    BY <1>2, <2>1, <2>3, <2>4, ReturnKeeps
<1>12. CASE call.n = 0
  <2>1. Return(NULL)
    BY <1>12 DEF memchr
  <2>2. \A j \in 1..Len(s) : s[j] # c
    BY <1>4, <1>7, <1>9, <1>12
  <2> QED BY <1>4, <1>11, <2>1, <2>2, NotAt
<1>13. CASE call.n # 0 /\ mem[call.p] = call.c
  <2> DEFINE x == k + 1
  <2>1. Return(call.p)
    BY <1>13 DEF memchr
  <2>2. x \in 1..Len(s) /\ s[x] = c
    BY <1>2, <1>4, <1>8, <1>9, <1>13 DEF c
  <2>3. \A j \in 1..(x - 1) : s[j] # c
    BY <1>6, <1>7
  <2>4. args.p + x - 1 = call.p
    BY <1>2, <1>6
  <2> HIDE DEF x
  <2>5. args.p \in Nat /\ s \in Seq(Byte)
    BY <1>2, <1>4
  <2>6. FirstAt(args.p, s, c) = args.p + x - 1
    BY <2>2, <2>3, <2>5, FirstAtIs
  <2> QED BY <1>11, <2>1, <2>4, <2>6
<1>14. CASE call.n # 0 /\ mem[call.p] # call.c
  <2>1. call' = Count /\ UNCHANGED <<mem, result, mem0, args>>
    BY <1>14 DEF memchr, Turn
  <2>2. /\ Count \in StringCall /\ Count.f = call.f /\ Count.c = call.c /\ Count.n = call.n - 1
        /\ Count.p = call.p + 1
    BY <1>2, <1>14, CountIs
  <2>3. Turns' = k + 1
    BY <1>2, <1>6, <2>1, <2>2 DEF Turns, k
  <2>4. \A j \in 0..((k + 1) - 1) : mem0[args.p + j] # c
    <3>1. mem0[args.p + k] # c
      BY <1>2, <1>5, <1>6, <1>14 DEF c
    <3> QED BY <1>5, <1>6, <3>1
  <2>5. k + 1 \in 0..n /\ Count.n = n - (k + 1)
    BY <1>2, <1>5, <1>6, <1>14, <2>2
  <2>6. AtMemchr'
    BY <1>5, <2>1, <2>3, <2>4, <2>5 DEF AtMemchr, None0, n, c
  <2>7. Walk'
    BY <1>2, <2>1, <2>6 DEF Walk
  <2> QED
    BY <1>2, <2>1, <2>2, <2>7, TurnKeeps
<1> QED
  BY <1>12, <1>13, <1>14

LEMMA MemiszeroStep == SIInv /\ memiszero => SIInv'
<1> SUFFICES ASSUME SIInv, memiszero PROVE SIInv'
  OBVIOUS
<1> USE DEF Function
<1>1. In("memiszero")
  BY DEF memiszero
<1>2. /\ result = Running /\ args.f = "memiszero" /\ Walk
      /\ Allowed(args.f, args.p, args.q, args.n)
      /\ call \in StringCall /\ args \in StringCall /\ mem \in Memory /\ mem0 \in Memory
      /\ call.p \in Nat /\ args.p \in Nat
      /\ call.n \in Nat /\ args.n \in Nat
      /\ call.f = args.f /\ call.c = args.c /\ args.f # "none"
  BY <1>1, InCall
<1>3. AtMemiszero /\ args.p + args.n <= N
  BY <1>2 DEF Walk, Allowed
<1> DEFINE s == Bytes(args.p, args.n)
           k == Turns
           n == args.n
<1>4. /\ s \in Seq(Byte) /\ Len(s) = n /\ \A j \in 1..n : s[j] = mem0[args.p + j - 1]
  BY <1>2, <1>3, BytesAre
<1>5. /\ k \in 0..n /\ call.n = n - k /\ mem = mem0
      /\ \A j \in 0..(k - 1) : mem0[args.p + j] = 0
  BY <1>3 DEF AtMemiszero
<1>6. k \in Nat /\ n \in Nat /\ call.p = args.p + k
  BY <1>2, <1>5 DEF Turns
<1> HIDE DEF s, k, n
<1>7. \A j \in 1..k : s[j] = 0
  <2> TAKE j \in 1..k
  <2>1. j - 1 \in 0..(k - 1) /\ args.p + (j - 1) = args.p + j - 1
    BY <1>2, <1>6
  <2>2. j \in 1..n
    BY <1>5, <1>6
  <2>3. s[j] = mem0[args.p + (j - 1)]
    BY <1>4, <2>1, <2>2
  <2> QED BY <1>5, <2>1, <2>3
<1>8. ASSUME k # n PROVE k + 1 \in 1..n /\ s[k + 1] = mem[call.p]
  <2>1. k + 1 \in 1..n
    BY <1>5, <1>6, <1>8
  <2>2. args.p + (k + 1) - 1 = call.p
    BY <1>2, <1>5, <1>6
  <2> QED BY <1>4, <1>5, <2>1, <2>2
<1>9. call.n = 0 <=> k = n
  BY <1>5, <1>6
<1>11. ASSUME NEW v, Return(v), v = 1 <=> \A j \in 1..n : s[j] = 0
       PROVE  SIInv'
  <2>1. result' = <<v>> /\ UNCHANGED <<mem, call, mem0, args>>
    BY <1>11 DEF Return
  <2>2. Meant(args, v, mem)
    BY <1>2, <1>5, <1>11 DEF Meant, s, n
  <2>3. StringsMean'
    BY <1>2, <2>1, <2>2, MeantStill
  <2>4. result' # Running
    BY <2>1 DEF Running
  <2> QED
    BY <1>2, <2>1, <2>3, <2>4, ReturnKeeps
<1>12. CASE call.n = 0
  <2>1. Return(1)
    BY <1>12 DEF memiszero
  <2>2. \A j \in 1..n : s[j] = 0
    BY <1>7, <1>9, <1>12
  <2> QED BY <1>11, <2>1, <2>2
<1>13. CASE call.n # 0 /\ mem[call.p] # 0
  <2>1. Return(0)
    BY <1>13 DEF memiszero
  <2>2. ~ \A j \in 1..n : s[j] = 0
    BY <1>8, <1>9, <1>13
  <2>3. 0 # 1
    OBVIOUS
  <2> QED BY <1>11, <2>1, <2>2, <2>3
<1>14. CASE call.n # 0 /\ mem[call.p] = 0
  <2>1. call' = Count /\ UNCHANGED <<mem, result, mem0, args>>
    BY <1>14 DEF memiszero, Turn
  <2>2. /\ Count \in StringCall /\ Count.f = call.f /\ Count.c = call.c /\ Count.n = call.n - 1
        /\ Count.p = call.p + 1
    BY <1>2, <1>14, CountIs
  <2>3. Turns' = k + 1
    BY <1>2, <1>6, <2>1, <2>2 DEF Turns, k
  <2>4. \A j \in 0..((k + 1) - 1) : mem0[args.p + j] = 0
    <3>1. mem0[args.p + k] = 0
      BY <1>5, <1>6, <1>14
    <3> QED BY <1>5, <1>6, <3>1
  <2>5. k + 1 \in 0..n /\ Count.n = n - (k + 1)
    BY <1>2, <1>5, <1>6, <1>14, <2>2
  <2>6. AtMemiszero'
    BY <1>5, <2>1, <2>3, <2>4, <2>5 DEF AtMemiszero, n
  <2>7. Walk'
    BY <1>2, <2>1, <2>6 DEF Walk
  <2> QED
    BY <1>2, <2>1, <2>2, <2>7, TurnKeeps
<1> QED
  BY <1>12, <1>13, <1>14

\* One byte more.
LEMMA CopiedMore ==
  ASSUME mem0 \in Memory, NEW m \in Memory, NEW d \in Nat, NEW k \in Nat, d + k < N, NEW v,
         NEW x \in Byte, v[k + 1] = x, Copied(m, d, k, v), NEW w, w = [m EXCEPT ![d + k] = x]
  PROVE  w \in Memory /\ Copied(w, d, k + 1, v)
<1>1. d + k \in Addr
  BY StringsAssumption DEF Addr
<1>2. w \in Memory
  BY <1>1 DEF Memory
<1>3. \A a \in Addr : w[a] = IF a = d + k THEN x ELSE m[a]
  BY <1>1 DEF Memory
<1>4. ASSUME NEW a \in Addr
      PROVE  w[a] = IF a \in d..(d + (k + 1) - 1) THEN v[a - d + 1] ELSE mem0[a]
  <2>1. a \in Int
    BY StringsAssumption DEF Addr
  <2>2. CASE a = d + k
    <3>1. a \in d..(d + (k + 1) - 1) /\ a - d + 1 = k + 1
      BY <2>2
    <3> QED BY <1>3, <2>2, <3>1
  <2>3. CASE a # d + k
    <3>1. a \in d..(d + (k + 1) - 1) <=> a \in d..(d + k - 1)
      BY <2>1, <2>3
    <3> QED BY <1>3, <2>3, <3>1 DEF Copied
  <2> QED BY <2>2, <2>3
<1> QED
  BY <1>2, <1>4 DEF Copied

LEMMA MemsetStep == SIInv /\ memset => SIInv'
<1> SUFFICES ASSUME SIInv, memset PROVE SIInv'
  OBVIOUS
<1> USE DEF Function
<1>1. In("memset")
  BY DEF memset
<1>2. /\ result = Running /\ args.f = "memset" /\ Walk
      /\ Allowed(args.f, args.p, args.q, args.n)
      /\ call \in StringCall /\ args \in StringCall /\ mem \in Memory /\ mem0 \in Memory
      /\ call.p \in Nat /\ args.p \in Nat
      /\ call.n \in Nat /\ args.n \in Nat
      /\ call.f = args.f /\ call.c = args.c /\ args.f # "none"
  BY <1>1, InCall
<1>3. AtMemset /\ args.p + args.n <= N
  BY <1>2 DEF Walk, Allowed
<1> DEFINE n == args.n
           x == args.c % 256
           v == [j \in 1..n |-> x]
           k == Turns
<1>4. k \in 0..n /\ call.n = n - k /\ Copied(mem, args.p, k, v)
  BY <1>3 DEF AtMemset
<1>5. k \in Nat /\ n \in Nat /\ call.p = args.p + k
  BY <1>2, <1>4 DEF Turns
<1>6. x \in Byte
  <2>1. args.c \in Nat
    BY <1>2 DEF StringCall
  <2> QED BY <2>1 DEF Byte
<1>7. DOMAIN v = 1..n /\ \A j \in 1..n : v[j] = x
  OBVIOUS
<1> HIDE DEF x, v, k, n
<1>8. CASE call.n = 0
  <2>1. result' = <<args.p>> /\ UNCHANGED <<mem, call, mem0, args>>
    BY <1>8 DEF memset, Return
  <2>2. k = n
    BY <1>4, <1>5, <1>8
  <2>3. Copied(mem, args.p, n, v)
    BY <1>4, <2>2
  <2>4. mem = Written(args.p, v)
    BY <1>2, <1>5, <1>7, <2>3, WrittenAs
  <2>5. Meant(args, args.p, mem)
    BY <1>2, <2>4 DEF Meant, v, x, n
  <2>6. StringsMean'
    BY <1>2, <2>1, <2>5, MeantStill
  <2>7. result' # Running
    BY <2>1 DEF Running
  <2> QED
    BY <1>2, <2>1, <2>6, <2>7, ReturnKeeps
<1>9. CASE call.n # 0
  <2>1. mem' = [mem EXCEPT ![call.p] = call.c % 256] /\ call' = Count /\ UNCHANGED <<result, mem0, args>>
    BY <1>9 DEF memset, Store
  <2>2. /\ Count \in StringCall /\ Count.f = call.f /\ Count.c = call.c /\ Count.n = call.n - 1
        /\ Count.p = call.p + 1
    BY <1>2, <1>9, CountIs
  <2>3. k + 1 \in 1..n /\ v[k + 1] = x /\ args.p + k < N
    <3>1. k + 1 \in 1..n /\ args.p + k < N
      BY <1>2, <1>3, <1>4, <1>5, <1>9, StringsAssumption DEF n
    <3> QED BY <1>7, <3>1
  <2>4. mem' = [mem EXCEPT ![args.p + k] = x]
    BY <1>2, <1>5, <2>1 DEF x
  <2> DEFINE w == mem'
  <2>5. w = [mem EXCEPT ![args.p + k] = x]
    BY <2>4
  <2> HIDE DEF w
  <2>6. w \in Memory /\ Copied(w, args.p, k + 1, v)
    BY <1>2, <1>4, <1>5, <1>6, <2>3, <2>5, CopiedMore
  <2>7. Turns' = k + 1
    BY <1>2, <1>5, <2>1, <2>2 DEF Turns, k
  <2>8. k + 1 \in 0..n /\ Count.n = n - (k + 1)
    BY <1>2, <1>4, <1>5, <2>2, <2>3
  <2>9. AtMemset'
    <3>1. Copied(mem, args.p, Turns, v)'
      <4>1. \A a \in Addr : mem'[a] = IF a \in args.p..(args.p + (k + 1) - 1) THEN v[a - args.p + 1] ELSE mem0[a]
        BY <2>6 DEF Copied, w
      <4>2. v' = v
        BY <2>1 DEF v, n, x
      <4> QED BY <2>1, <2>7, <4>1, <4>2 DEF Copied
    <3>2. (v = [j \in 1..args.n |-> args.c % 256])'
      BY <2>1 DEF v, n, x
    <3> QED BY <2>1, <2>7, <2>8, <3>1, <3>2 DEF AtMemset, n
  <2>10. Walk'
    BY <1>2, <2>1, <2>9 DEF Walk
  <2>11. mem' \in Memory
    BY <2>6 DEF w
  <2> QED
    BY <1>2, <2>1, <2>2, <2>10, <2>11, TurnKeeps
<1> QED
  BY <1>8, <1>9

\* A turn of strcpy, or of the second loop of strcat, which store from d on.
LEMMA CopyTurn ==
  ASSUME mem \in Memory, mem0 \in Memory, call \in StringCall,
         NEW q \in Addr, Ends(mem0, q), NEW d \in Nat, NEW k \in 0..(Span(q) - 1),
         call.p = d + k, call.q = q + k, d + Span(q) <= N, Apart(d, Span(q), q, Span(q)),
         Copied(mem, d, k, StringAt(q)), CopyString
  PROVE  /\ mem' \in Memory /\ Copied(mem', d, k + 1, StringAt(q))
         /\ k + 1 \in 1..Span(q)
         /\ result' = IF k + 1 = Span(q) THEN <<args.p>> ELSE Running
         /\ call' = Onward /\ UNCHANGED <<mem0, args>>
<1> DEFINE z == End(mem0, q)
           t == StringAt(q)
           w == mem'
           x == mem[call.q]
<1>1. /\ t \in Seq(Byte) /\ Len(t) = z - q + 1
      /\ \A j \in 1..(z - q + 1) : t[j] = mem0[q + j - 1]
      /\ z \in q..(N - 1) /\ mem0[z] = 0 /\ \A a \in q..(z - 1) : mem0[a] # 0
  BY StringIs
<1>2. Span(q) = z - q + 1
  BY DEF Span
<1> HIDE DEF z, t, w
<1>3. q \in Nat /\ z \in Int /\ k \in Nat /\ k <= z - q /\ Span(q) \in Nat
  BY <1>1, <1>2, StringsAssumption DEF Addr
<1>4. call.q \in Addr /\ call.q \in q..z /\ ~ (call.q \in d..(d + k - 1))
  <2>1. call.q \in q..z
    BY <1>3
  <2>2. call.q \in Addr
    BY <1>1, <1>3, <2>1, StringsAssumption DEF Addr
  <2>3. ~ (call.q \in d..(d + k - 1))
    <3>1. CASE d + Span(q) <= q
      BY <1>2, <1>3, <3>1
    <3>2. CASE q + Span(q) <= d
      BY <1>2, <1>3, <3>2
    <3> QED BY <3>1, <3>2 DEF Apart
  <2> QED BY <2>1, <2>2, <2>3
<1>5. x = mem0[q + k]
  BY <1>4 DEF Copied, t
<1>6. x \in Byte
  BY <1>4 DEF Memory
<1>7. k + 1 \in 1..(z - q + 1) /\ q + (k + 1) - 1 = q + k
  BY <1>3
<1>8. t[k + 1] = x
  BY <1>1, <1>5, <1>7
<1>9. w = [mem EXCEPT ![d + k] = x] /\ call' = Onward /\ UNCHANGED <<mem0, args>>
      /\ result' = IF x = 0 THEN <<args.p>> ELSE Running
  BY DEF CopyString, Store, w
<1> HIDE DEF x
<1>10. d + k < N
  BY <1>2, <1>3, StringsAssumption
<1>11. Copied(mem, d, k, t)
  BY DEF t
<1>12. w \in Memory /\ Copied(w, d, k + 1, t)
  BY <1>3, <1>6, <1>8, <1>9, <1>10, <1>11, CopiedMore
<1>13. x = 0 <=> k + 1 = Span(q)
  <2>1. CASE k = z - q
    <3>1. q + k = z
      BY <1>3, <2>1
    <3> QED BY <1>1, <1>2, <1>3, <1>5, <2>1, <3>1
  <2>2. CASE k # z - q
    <3>1. q + k \in q..(z - 1)
      BY <1>3, <2>2
    <3>2. x # 0
      BY <1>1, <1>5, <3>1
    <3> QED BY <1>2, <1>3, <2>2, <3>2
  <2> QED BY <2>1, <2>2
<1>14. result' = IF k + 1 = Span(q) THEN <<args.p>> ELSE Running
  BY <1>9, <1>13
<1> QED
  BY <1>2, <1>7, <1>9, <1>12, <1>14 DEF w, t

LEMMA StrcpyStep == SIInv /\ strcpy => SIInv'
<1> SUFFICES ASSUME SIInv, strcpy PROVE SIInv'
  OBVIOUS
<1> USE DEF Function
<1>1. In("strcpy") /\ CopyString
  BY DEF strcpy
<1>2. /\ result = Running /\ args.f = "strcpy" /\ Walk
      /\ Allowed(args.f, args.p, args.q, args.n)
      /\ call \in StringCall /\ args \in StringCall /\ mem \in Memory /\ mem0 \in Memory
      /\ call.p \in Nat /\ args.p \in Nat /\ args.q \in Nat
      /\ call.f = args.f /\ call.c = args.c /\ args.f # "none"
  BY <1>1, InCall
<1> DEFINE d == args.p
           q == args.q
           k == Turns
           t == StringAt(args.q)
           w == mem'
<1>3. /\ AtStrcpy /\ q \in Addr /\ Ends(mem0, q) /\ d + Span(q) <= N
      /\ Apart(d, Span(q), q, Span(q))
  BY <1>2 DEF Walk, Allowed
<1>4. k \in 0..(Span(q) - 1) /\ call.q = q + k /\ Copied(mem, d, k, t)
  BY <1>3 DEF AtStrcpy
<1>5. call.p = d + k
  BY <1>2 DEF Turns
<1>6. d \in Nat
  BY <1>2
<1> HIDE DEF d, q, k
<1>7. /\ w \in Memory /\ Copied(w, d, k + 1, t) /\ k + 1 \in 1..Span(q)
      /\ result' = IF k + 1 = Span(q) THEN <<args.p>> ELSE Running
      /\ call' = Onward /\ UNCHANGED <<mem0, args>>
  BY <1>1, <1>2, <1>3, <1>4, <1>5, <1>6, CopyTurn DEF q
<1>8. /\ Onward \in StringCall /\ Onward.f = call.f /\ Onward.c = call.c
      /\ Onward.p = call.p + 1 /\ Onward.q = call.q + 1
  BY <1>2, OnwardIs
<1>9. /\ t \in Seq(Byte) /\ Len(t) = Span(q) /\ Span(q) \in Nat /\ DOMAIN t = 1..Span(q)
  <2>1. /\ StringAt(q) \in Seq(Byte) /\ Len(StringAt(q)) = End(mem0, q) - q + 1
        /\ End(mem0, q) \in q..(N - 1)
    BY <1>2, <1>3, StringIs
  <2>2. End(mem0, q) - q + 1 \in Nat
    BY <1>3, <2>1, StringsAssumption DEF Addr
  <2> QED BY <2>1, <2>2 DEF Span, q
<1> HIDE DEF t
<1>10. CASE k + 1 = Span(q)
  <2> HIDE DEF w
  <2>1. Copied(w, d, Span(q), t)
    BY <1>7, <1>10
  <2>2. w = Written(d, t)
    BY <1>2, <1>6, <1>7, <1>9, <2>1, WrittenAs
  <2>3. Meant(args, args.p, w)
    BY <1>2, <2>2 DEF Meant, d, t
  <2>4. StringsMean'
    <3>1. result' = <<args.p>> /\ mem' = w
      BY <1>7, <1>10 DEF w
    <3> QED BY <1>2, <1>7, <2>3, <3>1, MeantStill
  <2>5. result' # Running
    BY <1>7, <1>10 DEF Running
  <2>6. mem' \in Memory
    BY <1>7 DEF w
  <2> QED
    BY <1>2, <1>7, <1>8, <2>4, <2>5, <2>6, ReturnKeeps
<1>11. CASE k + 1 # Span(q)
  <2>1. k + 1 \in 0..(Span(q) - 1) /\ Onward.q = q + (k + 1)
    BY <1>4, <1>7, <1>8, <1>9, <1>11, <1>2 DEF q
  <2>2. Turns' = k + 1
    BY <1>2, <1>5, <1>6, <1>7, <1>8 DEF Turns, d, k
  <2>3. result' = Running
    BY <1>7, <1>11
  <2>4. StringAt(args.q)' = t /\ Span(args.q)' = Span(q)
    BY <1>7 DEF StringAt, Span, End, t, q
  <2>5. Copied(mem, args.p, Turns, StringAt(args.q))'
    <3>1. \A a \in Addr : mem'[a] = IF a \in args.p..(args.p + (k + 1) - 1) THEN t[a - args.p + 1] ELSE mem0[a]
      BY <1>7 DEF Copied, d
    <3> QED BY <1>7, <2>2, <2>4, <3>1 DEF Copied
  <2>6. AtStrcpy'
    BY <1>7, <2>1, <2>2, <2>4, <2>5 DEF AtStrcpy, q
  <2>7. Walk'
    BY <1>2, <1>7, <2>6 DEF Walk
  <2> QED
    BY <1>2, <1>7, <1>8, <2>3, <2>7, TurnKeeps
<1> QED
  BY <1>10, <1>11

LEMMA StrcatStep == SIInv /\ strcat => SIInv'
<1> SUFFICES ASSUME SIInv, strcat PROVE SIInv'
  OBVIOUS
<1> USE DEF Function
<1>1. In("strcat")
  BY DEF strcat
<1>2. /\ result = Running /\ args.f = "strcat" /\ Walk
      /\ Allowed(args.f, args.p, args.q, args.n)
      /\ call \in StringCall /\ args \in StringCall /\ mem \in Memory /\ mem0 \in Memory
      /\ call.p \in Nat /\ args.p \in Nat /\ args.q \in Nat
      /\ call.f = args.f /\ call.c = args.c /\ args.f # "none"
  BY <1>1, InCall
<1> DEFINE p == args.p
           q == args.q
           d == End(mem0, args.p)
           k == call.p - d
           s == StringAt(args.p)
           t == StringAt(args.q)
           w == mem'
<1>3. /\ AtStrcat /\ p \in Addr /\ Ends(mem0, p) /\ q \in Addr /\ Ends(mem0, q)
      /\ p + Span(p) - 1 + Span(q) <= N
      /\ Apart(p, Span(p) - 1 + Span(q), q, Span(q))
  BY <1>2 DEF Walk, Allowed
<1>4. /\ s \in Seq(Byte) /\ Len(s) = d - p + 1
      /\ \A j \in 1..(d - p + 1) : s[j] = mem0[p + j - 1]
      /\ d \in p..(N - 1) /\ mem0[d] = 0 /\ \A a \in p..(d - 1) : mem0[a] # 0
  BY <1>2, <1>3, StringIs
<1>5. Span(p) = d - p + 1 /\ d \in Nat /\ p \in Nat
  BY <1>3, <1>4, StringsAssumption DEF Span, Addr
<1>6. t \in Seq(Byte) /\ Len(t) = Span(q) /\ Span(q) \in Nat \ {0} /\ DOMAIN t = 1..Span(q)
  <2>1. /\ StringAt(q) \in Seq(Byte) /\ Len(StringAt(q)) = End(mem0, q) - q + 1
        /\ End(mem0, q) \in q..(N - 1)
    BY <1>2, <1>3, StringIs
  <2>2. End(mem0, q) - q + 1 \in Nat \ {0}
    BY <1>3, <2>1, StringsAssumption DEF Addr
  <2> QED BY <2>1, <2>2 DEF Span
<1> HIDE DEF p, q, d, s, t, w
<1>7. CASE ~call.found
  <2>1. call.p \in p..d /\ call.q = q /\ mem = mem0
    BY <1>3, <1>7 DEF AtStrcat, p, q, d
  <2>2. CASE mem[call.p] # 0
    <3> DEFINE c == [call EXCEPT !.p = @ + 1]
    <3>1. call' = c /\ UNCHANGED <<mem, result, mem0, args>>
      BY <1>7, <2>2 DEF strcat, Turn
    <3>2. /\ c \in StringCall /\ c.f = call.f /\ c.c = call.c /\ c.p = call.p + 1
          /\ c.q = call.q /\ c.found = call.found
      BY <1>2, OnwardP
    <3> HIDE DEF c
    <3>3. c.p \in p..d
      BY <1>2, <1>4, <1>5, <2>1, <2>2, <3>2
    <3>4. AtStrcat'
      BY <1>7, <2>1, <3>1, <3>2, <3>3 DEF AtStrcat, p, q, d
    <3>5. Walk'
      BY <1>2, <3>1, <3>4 DEF Walk
    <3> QED
      BY <1>2, <3>1, <3>2, <3>5, TurnKeeps
  <2>3. CASE mem[call.p] = 0
    <3> DEFINE c == Found
    <3>1. call' = c /\ UNCHANGED <<mem, result, mem0, args>>
      BY <1>7, <2>3 DEF strcat, Turn
    <3>2. /\ c \in StringCall /\ c.f = call.f /\ c.c = call.c /\ c.p = call.p
          /\ c.q = call.q /\ c.found = TRUE
      <4> DEFINE b == [call EXCEPT !.found = TRUE]
      <4>1. /\ b \in StringCall /\ b.f = call.f /\ b.c = call.c /\ b.p = call.p
            /\ b.q = call.q /\ b.found = TRUE
        BY <1>2 DEF StringCall
      <4>2. c = [b EXCEPT !.p = @ + 1 - 2 + 1]
        BY DEF Found
      <4>3. b.p + 1 - 2 + 1 = b.p /\ b.p \in Nat
        BY <1>2, <4>1
      <4> HIDE DEF b, c
      <4> QED BY <4>1, <4>2, <4>3 DEF StringCall
    <3> HIDE DEF c
    <3>3. call.p = d
      BY <1>2, <1>4, <1>5, <2>1, <2>3
    <3>4. \A v : Copied(mem0, d, 0, v)
      BY <1>5 DEF Copied
    <3>5. /\ call'.found = TRUE /\ call'.p = d /\ call'.q = q /\ mem' = mem0
          /\ mem0' = mem0 /\ args' = args
      BY <2>1, <3>1, <3>2, <3>3
    <3>6. End(mem0, args.p)' = d /\ StringAt(args.q)' = t /\ Span(args.q)' = Span(q)
      BY <3>5 DEF StringAt, Span, End, d, q, t
    <3>7. Copied(mem, End(mem0, args.p), call.p - End(mem0, args.p), StringAt(args.q))'
      <4>1. call'.p - d = 0
        BY <1>5, <3>5
      <4>2. \A a \in Addr : mem'[a] = IF a \in d..(d + 0 - 1) THEN t[a - d + 1] ELSE mem0[a]
        BY <3>4, <3>5 DEF Copied
      <4> QED BY <3>5, <3>6, <4>1, <4>2 DEF Copied
    <3>8. (call.p - End(mem0, args.p) \in 0..(Span(args.q) - 1)
           /\ call.q = args.q + (call.p - End(mem0, args.p)))'
      <4>1. call'.p - d = 0 /\ 0 \in 0..(Span(q) - 1) /\ q + 0 = q
        BY <1>2, <1>5, <1>6, <3>5 DEF q
      <4> QED BY <3>5, <3>6, <4>1 DEF q
    <3>9. AtStrcat'
      BY <3>5, <3>7, <3>8 DEF AtStrcat
    <3>10. Walk'
      BY <1>2, <3>1, <3>9 DEF Walk
    <3> QED
      BY <1>2, <3>1, <3>2, <3>10, TurnKeeps
  <2> QED BY <2>2, <2>3
<1>8. CASE call.found
  <2>1. CopyString
    BY <1>1, <1>8 DEF strcat
  <2>2. k \in 0..(Span(q) - 1) /\ call.q = q + k /\ Copied(mem, d, k, t)
    BY <1>3, <1>8 DEF AtStrcat, q, d, t
  <2>3. d + Span(q) <= N /\ Apart(d, Span(q), q, Span(q)) /\ q \in Nat
    <3>1. d + Span(q) = p + Span(p) - 1 + Span(q) /\ p + (Span(p) - 1 + Span(q)) = d + Span(q)
      BY <1>5, <1>6
    <3>2. q \in Nat
      BY <1>2 DEF q
    <3>3. q + Span(q) <= p => q + Span(q) <= d
      BY <1>4, <1>5, <1>6, <3>2
    <3> QED BY <1>3, <3>1, <3>2, <3>3 DEF Apart
  <2>4. call.p = d + k
    BY <1>2, <1>5
  <2> HIDE DEF k
  <2>5. /\ w \in Memory /\ Copied(w, d, k + 1, t) /\ k + 1 \in 1..Span(q)
        /\ result' = IF k + 1 = Span(q) THEN <<args.p>> ELSE Running
        /\ call' = Onward /\ UNCHANGED <<mem0, args>>
    BY <1>2, <1>3, <1>5, <2>1, <2>2, <2>3, <2>4, CopyTurn DEF t, q, w
  <2>6. /\ Onward \in StringCall /\ Onward.f = call.f /\ Onward.c = call.c
        /\ Onward.p = call.p + 1 /\ Onward.q = call.q + 1 /\ Onward.found = call.found
    BY <1>2, OnwardIs
  <2>7. CASE k + 1 = Span(q)
    <3> DEFINE v == Front(s) \o t
               n == (d - p) + Span(q)
    <3>1. Front(s) \in Seq(Byte) /\ Len(Front(s)) = d - p /\ \A j \in 1..(d - p) : Front(s)[j] = s[j]
      <4>1. Len(s) - 1 = d - p /\ d - p \in Nat
        BY <1>4, <1>5
      <4>2. \A i \in 1..(d - p) : s[i] \in Byte
        BY <1>4, <1>5
      <4>3. 1 \in Int /\ d - p \in Int
        BY <4>1
      <4>4. /\ SubSeq(s, 1, d - p) \in Seq(Byte)
            /\ Len(SubSeq(s, 1, d - p)) = IF 1 <= d - p THEN (d - p) - 1 + 1 ELSE 0
            /\ \A i \in 1..((d - p) - 1 + 1) : SubSeq(s, 1, d - p)[i] = s[1 + i - 1]
        BY <4>2, <4>3, SubSeqProperties
      <4>5. Front(s) = SubSeq(s, 1, d - p)
        BY <4>1 DEF Front
      <4>6. \A i \in 1..(d - p) : 1 + i - 1 = i
        OBVIOUS
      <4> QED BY <4>1, <4>4, <4>5, <4>6
    <3>2. v \in Seq(Byte) /\ Len(v) = n /\ n \in Nat /\ DOMAIN v = 1..n
          /\ \A j \in 1..n : v[j] = IF j <= d - p THEN s[j] ELSE t[j - (d - p)]
      <4> HIDE DEF s, t
      <4>1. v \in Seq(Byte) /\ Len(v) = Len(Front(s)) + Len(t)
            /\ \A j \in 1..(Len(Front(s)) + Len(t)) :
                 v[j] = IF j <= Len(Front(s)) THEN Front(s)[j] ELSE t[j - Len(Front(s))]
        BY <1>6, <3>1, ConcatProperties
      <4>2. n \in Nat
        BY <1>4, <1>5, <1>6
      <4>3. DOMAIN v = 1..Len(v)
        BY <4>1
      <4> HIDE DEF v
      <4>4. \A j \in 1..n : j <= d - p => Front(s)[j] = s[j]
        BY <1>5, <3>1, <4>2
      <4> QED BY <1>6, <3>1, <4>1, <4>2, <4>3, <4>4
    <3> HIDE DEF v, n
    <3>3. Copied(w, p, n, v)
      <4>1. \A a \in Addr : w[a] = IF a \in d..(d + Span(q) - 1) THEN t[a - d + 1] ELSE mem0[a]
        BY <2>5, <2>7 DEF Copied
      <4>2. ASSUME NEW a \in Addr
            PROVE  w[a] = IF a \in p..(p + n - 1) THEN v[a - p + 1] ELSE mem0[a]
        <5>1. a \in Int /\ d >= p
          BY <1>4, <1>5, StringsAssumption DEF Addr
        <5>2. p + n = d + Span(q) /\ n \in Nat
          BY <1>5, <1>6, <3>2 DEF n
        <5>3. CASE a \in d..(d + Span(q) - 1)
          <6>1. /\ a \in p..(p + n - 1) /\ a - p + 1 \in 1..n /\ ~ (a - p + 1 <= d - p)
                /\ (a - p + 1) - (d - p) = a - d + 1
            BY <1>5, <1>6, <5>1, <5>2, <5>3
          <6> QED BY <3>2, <4>1, <5>3, <6>1
        <5>4. CASE a \in p..(d - 1)
          <6>1. /\ a \in p..(p + n - 1) /\ a - p + 1 \in 1..n /\ a - p + 1 <= d - p
                /\ a \notin d..(d + Span(q) - 1)
            BY <1>5, <1>6, <5>1, <5>2, <5>4
          <6>2. a - p + 1 \in 1..(d - p + 1) /\ p + (a - p + 1) - 1 = a
            BY <1>5, <5>1, <5>4
          <6>3. v[a - p + 1] = mem0[a]
            BY <1>4, <3>2, <6>1, <6>2
          <6> QED BY <4>1, <6>1, <6>3
        <5>5. CASE a \notin p..(p + n - 1)
          <6>1. a \notin d..(d + Span(q) - 1)
            BY <1>5, <1>6, <5>1, <5>2, <5>5
          <6> QED BY <4>1, <5>5, <6>1
        <5>6. a \in p..(p + n - 1) => a \in d..(d + Span(q) - 1) \/ a \in p..(d - 1)
          BY <1>5, <1>6, <5>1, <5>2
        <5> QED BY <5>3, <5>4, <5>5, <5>6
      <4> QED BY <4>2 DEF Copied
    <3>4. w = Written(p, v)
      BY <1>2, <1>5, <2>5, <3>2, <3>3, WrittenAs
    <3>5. Meant(args, args.p, w)
      BY <1>2, <3>4 DEF Meant, p, v, s, t
    <3>6. result' = <<args.p>> /\ mem' = w
      BY <2>5, <2>7 DEF w
    <3>7. StringsMean'
      BY <1>2, <2>5, <3>5, <3>6, MeantStill
    <3>8. result' # Running
      BY <3>6 DEF Running
    <3>9. mem' \in Memory
      BY <2>5, <3>6
    <3> QED
      BY <1>2, <2>5, <2>6, <3>7, <3>8, <3>9, ReturnKeeps
  <2>8. CASE k + 1 # Span(q)
    <3>1. /\ call'.found = TRUE /\ call'.p - d = k + 1 /\ call'.q = q + (k + 1)
          /\ mem0' = mem0 /\ args' = args
      <4>1. call'.found = TRUE /\ call'.p = call.p + 1 /\ call'.q = call.q + 1
        BY <1>2, <1>8, <2>5, <2>6 DEF StringCall
      <4>2. (d + k) + 1 - d = k + 1 /\ (q + k) + 1 = q + (k + 1)
        BY <1>5, <2>2, <2>3, <1>6
      <4>3. call'.p - d = k + 1
        <5>1. k \in Int
          BY <2>2
        <5> QED BY <1>2, <1>5, <2>4, <4>1, <5>1
      <4>4. call'.q = q + (k + 1)
        BY <2>2, <4>1, <4>2
      <4> QED BY <2>5, <4>1, <4>3, <4>4
    <3>2. k + 1 \in 0..(Span(q) - 1)
      BY <1>6, <2>2, <2>5, <2>8
    <3>3. End(mem0, args.p)' = d /\ StringAt(args.q)' = t /\ Span(args.q)' = Span(q)
      BY <3>1 DEF StringAt, Span, End, d, q, t
    <3>4. Copied(mem, End(mem0, args.p), call.p - End(mem0, args.p), StringAt(args.q))'
      <4>1. \A a \in Addr : mem'[a] = IF a \in d..(d + (k + 1) - 1) THEN t[a - d + 1] ELSE mem0[a]
        BY <2>5 DEF Copied, w
      <4> QED BY <3>1, <3>3, <4>1 DEF Copied
    <3>5. (call.p - End(mem0, args.p) \in 0..(Span(args.q) - 1)
           /\ call.q = args.q + (call.p - End(mem0, args.p)))'
      BY <3>1, <3>2, <3>3 DEF q
    <3>6. AtStrcat'
      BY <3>1, <3>4, <3>5 DEF AtStrcat
    <3>7. Walk'
      BY <1>2, <3>1, <3>6 DEF Walk
    <3>8. result' = result /\ mem' \in Memory
      BY <1>2, <2>5, <2>8 DEF w
    <3> QED
      BY <1>2, <2>5, <2>6, <3>7, <3>8, TurnKeeps
  <2> QED BY <2>7, <2>8
<1> QED
  BY <1>7, <1>8

LEMMA MemcpyStep == SIInv /\ memcpy => SIInv'
<1> SUFFICES ASSUME SIInv, memcpy PROVE SIInv'
  OBVIOUS
<1> USE DEF Function
<1>1. In("memcpy")
  BY DEF memcpy
<1>2. /\ result = Running /\ args.f = "memcpy" /\ Walk
      /\ Allowed(args.f, args.p, args.q, args.n)
      /\ call \in StringCall /\ args \in StringCall /\ mem \in Memory /\ mem0 \in Memory
      /\ call.p \in Nat /\ args.p \in Nat /\ args.q \in Nat
      /\ call.n \in Nat /\ args.n \in Nat
      /\ call.f = args.f /\ call.c = args.c /\ args.f # "none"
  BY <1>1, InCall
<1> DEFINE d == args.p
           q == args.q
           n == args.n
           k == Turns
           t == Bytes(args.q, args.n)
           w == mem'
           aligned == \A x \in {args.p, args.q, args.n} : x % WordBytes = 0
           z == IF aligned THEN WordBytes ELSE 1
<1>3. AtMemcpy /\ d + n <= N /\ q + n <= N /\ Apart(d, n, q, n)
  BY <1>2 DEF Walk, Allowed
<1>4. k \in 0..n /\ call.n = n - k /\ call.q = q + k /\ Copied(mem, d, k, t)
      /\ (aligned => call.n % WordBytes = 0)
  BY <1>3 DEF AtMemcpy
<1>5. call.p = d + k /\ d \in Nat /\ q \in Nat /\ n \in Nat /\ k \in Nat
  BY <1>2, <1>4 DEF Turns
<1>6. t \in Seq(Byte) /\ Len(t) = n /\ DOMAIN t = 1..n /\ \A j \in 1..n : t[j] = mem0[q + j - 1]
  BY <1>2, <1>3, BytesAre
<1>7. z \in Nat \ {0}
  BY StringsAssumption
<1> HIDE DEF d, q, n, k, t, w, aligned, z
<1>8. CASE call.n = 0
  <2>1. result' = <<args.p>> /\ UNCHANGED <<mem, call, mem0, args>>
    BY <1>8 DEF memcpy, Return
  <2>2. k = n
    BY <1>4, <1>5, <1>8
  <2>3. mem = Written(d, t)
    BY <1>2, <1>4, <1>5, <1>6, <2>2, WrittenAs
  <2>4. Meant(args, args.p, mem)
    BY <1>2, <2>3 DEF Meant, d, t
  <2>5. StringsMean'
    BY <1>2, <2>1, <2>4, MeantStill
  <2>6. result' # Running
    BY <2>1 DEF Running
  <2> QED
    BY <1>2, <2>1, <2>5, <2>6, ReturnKeeps
<1>9. CASE call.n # 0
  <2> DEFINE c == [call EXCEPT !.p = @ + z, !.q = @ + z, !.n = @ - z]
  <2>1. /\ w = [a \in Addr |-> IF a \in call.p..(call.p + z - 1) THEN mem[call.q + (a - call.p)] ELSE mem[a]]
        /\ call' = c /\ UNCHANGED <<result, mem0, args>>
    BY <1>9 DEF memcpy, w, z, aligned
  <2>2. z <= call.n /\ (aligned => (call.n - z) % WordBytes = 0)
    <3>1. CASE aligned
      <4>1. \A i \in Nat, m \in Nat \ {0} : i # 0 /\ i % m = 0 => m <= i /\ (i - m) % m = 0
        <5> SUFFICES ASSUME NEW i \in Nat, NEW m \in Nat \ {0}, i # 0, i % m = 0
                     PROVE  m <= i /\ (i - m) % m = 0
          OBVIOUS
        <5>1. i = m * (i \div m) + (i % m) /\ i \div m \in Nat
          OBVIOUS
        <5>2. i \div m # 0
          BY <5>1
        <5>3. PICK x \in Nat : i \div m = x + 1
          <6>1. (i \div m) - 1 \in Nat /\ i \div m = ((i \div m) - 1) + 1
            BY <5>1, <5>2
          <6> QED BY <6>1
        <5>4. i = m * x + m
          BY <5>1, <5>3
        <5>5. m * x \in Nat
          OBVIOUS
        <5>6. m <= i /\ i - m = m * x
          BY <5>4, <5>5
        <5>7. (m * x) % m = 0
          OBVIOUS
        <5> QED BY <5>6, <5>7
      <4>2. z = WordBytes /\ WordBytes \in Nat \ {0} /\ call.n % WordBytes = 0
        BY <1>4, <3>1, StringsAssumption DEF z
      <4> QED BY <1>2, <1>9, <4>1, <4>2
    <3>2. CASE ~aligned
      BY <1>2, <1>9, <3>2 DEF z
    <3> QED BY <3>1, <3>2
  <2>3. /\ c \in StringCall /\ c.f = call.f /\ c.c = call.c /\ c.p = call.p + z
        /\ c.q = call.q + z /\ c.n = call.n - z
    <3> DEFINE b == [call EXCEPT !.p = @ + z]
               g == [b EXCEPT !.q = @ + z]
    <3>1. /\ b \in StringCall /\ b.f = call.f /\ b.c = call.c /\ b.p = call.p + z
          /\ b.q = call.q /\ b.n = call.n
      BY <1>2, <1>7 DEF StringCall
    <3> HIDE DEF b
    <3>2. /\ g \in StringCall /\ g.f = call.f /\ g.c = call.c /\ g.p = call.p + z
          /\ g.q = call.q + z /\ g.n = call.n
      BY <3>1, <1>7 DEF StringCall
    <3>3. c = [g EXCEPT !.n = @ - z]
      BY DEF b
    <3>4. call.n - z \in Nat
      BY <1>2, <1>7, <2>2
    <3> HIDE DEF g, c
    <3> QED BY <3>2, <3>3, <3>4 DEF StringCall
  <2> HIDE DEF c
  <2>4. k + z \in 0..n /\ c.n = n - (k + z) /\ c.q = q + (k + z) /\ c.p = d + (k + z)
    <3>1. k + z \in 0..n /\ c.n = n - (k + z)
      BY <1>4, <1>5, <1>7, <2>2, <2>3
    <3>2. c.q = q + (k + z)
      BY <1>4, <1>5, <1>7, <2>3
    <3>3. c.p = d + (k + z)
      BY <1>5, <1>7, <2>3
    <3> QED BY <3>1, <3>2, <3>3
  <2>5. ASSUME NEW a \in Addr
        PROVE  w[a] = IF a \in d..(d + (k + z) - 1) THEN t[a - d + 1] ELSE mem0[a]
    <3>1. a \in Int
      BY StringsAssumption DEF Addr
    <3>2. CASE a \in (d + k)..(d + k + z - 1)
      <4> DEFINE b == q + k + (a - (d + k))
      <4>1. /\ b \in q..(q + n - 1) /\ b = q + (a - d) /\ a - d + 1 \in 1..n
            /\ q + (a - d + 1) - 1 = q + (a - d) /\ a \in d..(d + (k + z) - 1)
        BY <1>5, <1>7, <2>4, <3>1, <3>2
      <4>2. b \in Addr
        BY <1>3, <1>5, <4>1, StringsAssumption DEF Addr
      <4>3. b \notin d..(d + k - 1)
        <5>1. CASE d + n <= q
          BY <1>4, <1>5, <4>1, <5>1
        <5>2. CASE q + n <= d
          BY <1>4, <1>5, <4>1, <5>2
        <5> QED BY <1>3, <5>1, <5>2 DEF Apart
      <4>4. mem[b] = mem0[b]
        BY <1>4, <4>2, <4>3 DEF Copied
      <4>5. t[a - d + 1] = mem0[b]
        BY <1>6, <4>1
      <4>6. w[a] = mem[b]
        BY <1>4, <1>5, <2>1, <3>2
      <4> QED BY <4>1, <4>4, <4>5, <4>6
    <3>3. CASE a \notin (d + k)..(d + k + z - 1)
      <4>1. a \in d..(d + (k + z) - 1) <=> a \in d..(d + k - 1)
        BY <1>5, <1>7, <3>1, <3>3
      <4>2. w[a] = mem[a]
        BY <1>5, <2>1, <3>3
      <4> QED BY <1>4, <4>1, <4>2 DEF Copied
    <3> QED BY <3>2, <3>3
  <2>6. w \in Memory
    <3>1. ASSUME NEW a \in Addr PROVE w[a] \in Byte
      <4>1. CASE a \in d..(d + (k + z) - 1)
        <5>1. a - d + 1 \in 1..n
          BY <1>5, <1>7, <2>4, <4>1
        <5> QED BY <1>6, <2>5, <4>1, <5>1
      <4>2. CASE a \notin d..(d + (k + z) - 1)
        BY <1>2, <2>5, <4>2 DEF Memory
      <4> QED BY <4>1, <4>2
    <3>2. w = [a \in Addr |-> w[a]]
      BY <2>1
    <3> QED BY <3>1, <3>2 DEF Memory
  <2>7. Turns' = k + z
    BY <1>5, <1>7, <2>1, <2>4 DEF Turns, d
  <2>8. Bytes(args.q, args.n)' = t
    BY <2>1 DEF Bytes, t
  <2>9. Copied(mem, args.p, Turns, Bytes(args.q, args.n))'
    <3>1. \A a \in Addr : mem'[a] = IF a \in args.p..(args.p + (k + z) - 1) THEN t[a - args.p + 1] ELSE mem0[a]
      BY <2>5 DEF d, w
    <3> QED BY <2>1, <2>7, <2>8, <3>1 DEF Copied
  <2>10. ((\A x \in {args.p, args.q, args.n} : x % WordBytes = 0) => call.n % WordBytes = 0)'
    BY <2>1, <2>2, <2>3 DEF aligned
  <2>11. AtMemcpy'
    BY <2>1, <2>4, <2>7, <2>9, <2>10 DEF AtMemcpy, n, q
  <2>12. Walk'
    BY <1>2, <2>1, <2>11 DEF Walk
  <2>13. mem' \in Memory
    BY <2>6 DEF w
  <2> QED
    BY <1>2, <2>1, <2>3, <2>12, <2>13, TurnKeeps
<1> QED
  BY <1>8, <1>9

-----------------------------------------------------------------------------
(* The bits of a checksum. *)

Word32 == SUBSET (0..31)

LEMMA XorRange == \A x, y \in Word32 : Xor(x, y) \in Word32
BY DEF Xor, Word32

LEMMA ShiftRange ==
  ASSUME NEW x \in Word32, NEW n \in Nat
  PROVE  /\ Shift(x, n) \in Word32
         /\ \A k \in Nat : k \in Shift(x, n) <=> k + n \in x
<1>1. ASSUME NEW k \in Shift(x, n) PROVE k \in 0..31
  <2>1. PICK j \in x : j >= n /\ k = j - n
    BY <1>1 DEF Shift
  <2>2. j \in 0..31
    BY DEF Word32
  <2> QED BY <2>1, <2>2
<1>2. ASSUME NEW k \in Nat, k \in Shift(x, n) PROVE k + n \in x
  <2>1. PICK j \in x : j >= n /\ k = j - n
    BY <1>2 DEF Shift
  <2>2. j \in Int
    BY DEF Word32
  <2>3. k + n = j
    BY <2>1, <2>2
  <2> QED BY <2>3
<1>3. ASSUME NEW k \in Nat, k + n \in x PROVE k \in Shift(x, n)
  <2>1. k + n >= n /\ k = (k + n) - n
    OBVIOUS
  <2> QED BY <1>3, <2>1 DEF Shift
<1> QED
  BY <1>1, <1>2, <1>3 DEF Word32

LEMMA DivideRange == \A x \in Word32 : Divide(x) \in Word32
<1> SUFFICES ASSUME NEW x \in Word32 PROVE Divide(x) \in Word32
  OBVIOUS
<1>1. Shift(x, 1) \in Word32
  BY ShiftRange
<1>2. Reversed \in Word32
  BY DEF Reversed, Word32
<1> QED
  BY <1>1, <1>2, XorRange DEF Divide

LEMMA TableIs ==
  ASSUME NEW x \in SUBSET (0..7)
  PROVE  /\ crc32_tab[x] = Divide(Divide(Divide(Divide(Divide(Divide(Divide(Divide(x))))))))
         /\ crc32_tab[x] \in Word32
<1>1. crc32_tab[x] = Divide(Divide(Divide(Divide(Divide(Divide(Divide(Divide(x))))))))
  BY DEF crc32_tab
<1>2. x \in Word32
  BY DEF Word32
<1> QED
  BY <1>1, <1>2, DivideRange

\* A byte of the message.
Entry32(crc, b) == Xor(crc32_tab[Xor(crc, ByteBits(b)) \cap (0..7)], Shift(crc, 8))

LEMMA EntryRange == \A crc \in Word32 : \A b : Entry32(crc, b) \in Word32
<1> SUFFICES ASSUME NEW crc \in Word32, NEW b PROVE Entry32(crc, b) \in Word32
  OBVIOUS
<1>1. Xor(crc, ByteBits(b)) \cap (0..7) \in SUBSET (0..7)
  OBVIOUS
<1>2. Shift(crc, 8) \in Word32
  BY ShiftRange
<1> QED
  BY <1>1, <1>2, TableIs, XorRange DEF Entry32

LEMMA CrcStep == SIInv /\ our_crc32_inc => SIInv'
<1> SUFFICES ASSUME SIInv, our_crc32_inc PROVE SIInv'
  OBVIOUS
<1> USE DEF Function
<1>1. In("crc32")
  BY DEF our_crc32_inc
<1>2. /\ result = Running /\ args.f = "crc32" /\ Walk
      /\ call \in StringCall /\ args \in StringCall /\ mem \in Memory /\ mem0 \in Memory
      /\ call.f = args.f /\ call.c = args.c /\ args.f # "none"
  BY <1>1, InCall
<1>3. mem = mem0
  BY <1>2 DEF Walk
<1>4. call.crc \in Word32 /\ 0..31 \in Word32
  BY <1>2 DEF StringCall, Word32
<1>5. ASSUME NEW d \in StringCall, Turn(d), d.f = call.f, d.c = call.c PROVE SIInv'
  <2>1. call' = d /\ UNCHANGED <<mem, result, mem0, args>>
    BY <1>5 DEF Turn
  <2>2. Walk'
    BY <1>2, <1>3, <2>1 DEF Walk
  <2> QED
    BY <1>2, <1>5, <2>1, <2>2, TurnKeeps
<1>6. ASSUME NEW crc \in Word32, NEW c \in StringCall, c.f = call.f, c.c = call.c,
             NEW d, d = [c EXCEPT !.crc = crc]
      PROVE  d \in StringCall /\ d.f = call.f /\ d.c = call.c
  BY <1>6 DEF StringCall, Word32
<1>7. ASSUME NEW found \in BOOLEAN, NEW c \in StringCall, c.f = call.f, c.c = call.c,
             NEW d, d = [c EXCEPT !.found = found]
      PROVE  d \in StringCall /\ d.f = call.f /\ d.c = call.c
  BY <1>7 DEF StringCall
<1>8. CASE ~call.found /\ Turn([call EXCEPT !.crc = Entered(@), !.found = TRUE])
  <2> DEFINE b == [call EXCEPT !.crc = Entered(call.crc)]
             d == [b EXCEPT !.found = TRUE]
  <2>1. Entered(call.crc) \in Word32
    BY <1>4, XorRange DEF Entered
  <2>2. b \in StringCall /\ b.f = call.f /\ b.c = call.c
    BY <1>2, <1>6, <2>1
  <2>3. d = [call EXCEPT !.crc = Entered(@), !.found = TRUE]
    OBVIOUS
  <2> HIDE DEF b
  <2>4. d \in StringCall /\ d.f = call.f /\ d.c = call.c
    BY <1>7, <2>2
  <2> HIDE DEF d
  <2> QED BY <1>5, <1>8, <2>3, <2>4
<1>9. CASE /\ call.found /\ call.n > 0
           /\ Turn([Count EXCEPT !.crc = Xor(crc32_tab[Xor(@, ByteBits(mem[call.p])) \cap (0..7)],
                                              Shift(@, 8))])
  <2> DEFINE d == [Count EXCEPT !.crc = Entry32(call.crc, mem[call.p])]
  <2>1. Entry32(call.crc, mem[call.p]) \in Word32
    BY <1>4, EntryRange
  <2>2. Count \in StringCall /\ Count.f = call.f /\ Count.c = call.c
    BY <1>2, <1>9, CountIs
  <2>3. Count.crc = call.crc
    BY <1>2 DEF StringCall, Count, Onward
  <2>4. d = [Count EXCEPT !.crc = Xor(crc32_tab[Xor(@, ByteBits(mem[call.p])) \cap (0..7)], Shift(@, 8))]
    BY <2>3 DEF Entry32
  <2>5. d \in StringCall /\ d.f = call.f /\ d.c = call.c
    BY <1>6, <2>1, <2>2
  <2> HIDE DEF d
  <2> QED BY <1>5, <1>9, <2>4, <2>5
<1>10. CASE call.found /\ call.n > 0 /\ Turn([call EXCEPT !.crc = Left(@), !.found = FALSE])
  <2> DEFINE b == [call EXCEPT !.crc = Left(call.crc)]
             d == [b EXCEPT !.found = FALSE]
  <2>1. Left(call.crc) \in Word32
    BY <1>4, XorRange DEF Left
  <2>2. b \in StringCall /\ b.f = call.f /\ b.c = call.c
    BY <1>2, <1>6, <2>1
  <2>3. d = [call EXCEPT !.crc = Left(@), !.found = FALSE]
    OBVIOUS
  <2> HIDE DEF b
  <2>4. d \in StringCall /\ d.f = call.f /\ d.c = call.c
    BY <1>7, <2>2
  <2> HIDE DEF d
  <2> QED BY <1>5, <1>10, <2>3, <2>4
<1>11. CASE call.found /\ call.n = 0 /\ Return(Left(call.crc))
  <2> DEFINE v == Left(call.crc)
  <2>1. result' = <<v>> /\ UNCHANGED <<mem, call, mem0, args>>
    BY <1>11 DEF Return
  <2>2. Meant(args, v, mem)
    BY <1>2, <1>3 DEF Meant
  <2> HIDE DEF v
  <2>3. StringsMean'
    BY <1>2, <2>1, <2>2, MeantStill
  <2>4. result' # Running
    BY <2>1 DEF Running
  <2> QED
    BY <1>2, <2>1, <2>3, <2>4, ReturnKeeps
<1> QED
  BY <1>8, <1>9, <1>10, <1>11 DEF our_crc32_inc

LEMMA SIInvUnchanged == SIInv /\ UNCHANGED svars => SIInv'
<1> SUFFICES ASSUME SIInv, UNCHANGED svars PROVE SIInv'
  OBVIOUS
<1>1. (mem' = mem /\ call' = call /\ result' = result /\ mem0' = mem0 /\ args' = args)
  BY DEF svars
<1>2. StringsMean' = StringsMean
  BY <1>1 DEF StringsMean, StringAt, Bytes, End, Written
<1>3. Walk' = Walk
  BY <1>1 DEF Walk, AtStrlen, AtStrchr, AtStrcmp, AtMemcmp, AtMemchr, AtMemiszero, AtMemset, AtMemcpy, AtStrcpy, AtStrcat, Copied, Turns, Same, None0, Span, StringAt, Bytes, End
<1>4. Allowed(args.f, args.p, args.q, args.n)' = Allowed(args.f, args.p, args.q, args.n)
  BY <1>1 DEF Allowed, Span
<1> QED
  BY <1>1, <1>2, <1>3, <1>4 DEF SIInv

LEMMA SNextIInv == SIInv /\ [SNext]_svars => SIInv'
BY StrlenStep, StrchrStep, StrcmpStep, CompareStep, MemchrStep, MemiszeroStep, MemsetStep,
   StrcpyStep, StrcatStep, MemcpyStep, CrcStep, SIInvUnchanged DEF SNext, Returned

LEMMA LibcSteps == SIInv /\ [LNext]_lvars => SIInv'
BY SNextIInv DEF LNext, lvars, svars

LEMMA SIInvHolds == LSpec => []SIInv
BY SInitIInv, LibcSteps, PTL DEF LSpec

\* The functions of libc on memory return what their names promise, and write that
\* and nothing else, whatever the memory, its size and the words memcpy copies by.
THEOREM StringsAsMeant == LSpec => []StringsMean
<1>1. SIInv => StringsMean
  BY DEF SIInv
<1> QED
  BY <1>1, SIInvHolds, PTL

-----------------------------------------------------------------------------
(* Remainder: the recursive function in it, and what one bit more does.       *)

IsRest(f, poly, n, m) == f = [k \in 0..m |-> IF k = 0 THEN poly ELSE Reduce(f[k - 1], n + 32 - k)]

LEMMA RestExists ==
  ASSUME NEW poly, NEW n
  PROVE  \A m \in Nat : \E f : IsRest(f, poly, n, m)
<1> DEFINE T == {m \in Nat : \E f : IsRest(f, poly, n, m)}
<1>1. 0 \in T
  <2> DEFINE g == [k \in 0..0 |-> poly]
  <2>1. g = [k \in 0..0 |-> IF k = 0 THEN poly ELSE Reduce(g[k - 1], n + 32 - k)]
    OBVIOUS
  <2> QED
    BY <2>1 DEF IsRest
<1>2. ASSUME NEW m \in Nat, m \in T
      PROVE  m + 1 \in T
  <2>1. PICK f : IsRest(f, poly, n, m)
    BY <1>2
  <2>2. \A k \in 0..m : f[k] = IF k = 0 THEN poly ELSE Reduce(f[k - 1], n + 32 - k)
    BY <2>1 DEF IsRest
  <2> DEFINE g == [k \in 0..(m + 1) |-> IF k <= m THEN f[k] ELSE Reduce(f[k - 1], n + 32 - k)]
  <2>3. ASSUME NEW k \in 0..(m + 1)
        PROVE  g[k] = IF k = 0 THEN poly ELSE Reduce(g[k - 1], n + 32 - k)
    <3>1. k # 0 => k - 1 \in 0..(m + 1) /\ g[k - 1] = f[k - 1]
      OBVIOUS
    <3>2. g[k] = IF k <= m THEN f[k] ELSE Reduce(f[k - 1], n + 32 - k)
      OBVIOUS
    <3>3. k <= m => f[k] = IF k = 0 THEN poly ELSE Reduce(f[k - 1], n + 32 - k)
      BY <2>2
    <3>4. ~ (k <= m) => k # 0
      OBVIOUS
    <3> HIDE DEF g
    <3> QED
      BY <3>1, <3>2, <3>3, <3>4
  <2>4. IsRest(g, poly, n, m + 1)
    BY <2>3 DEF IsRest
  <2> QED
    BY <2>4
<1> HIDE DEF T
<1>3. \A m \in Nat : m \in T
  BY <1>1, <1>2, NumbersByInduction
<1> QED
  BY <1>3 DEF T

LEMMA RemainderIs ==
  ASSUME NEW poly, NEW n \in Nat
  PROVE  \E f : IsRest(f, poly, n, n) /\ Remainder(poly, n) = f[n]
<1> DEFINE f == CHOOSE f : IsRest(f, poly, n, n)
<1>1. IsRest(f, poly, n, n)
  BY RestExists
<1>2. Remainder(poly, n) = f[n]
  BY DEF Remainder, IsRest
<1> QED
  BY <1>1, <1>2

\* Times x.
Up(x) == {z + 1 : z \in x}

LEMMA UpIs ==
  ASSUME NEW x \in SUBSET Int
  PROVE  Up(x) \in SUBSET Int /\ \A z \in Int : z + 1 \in Up(x) <=> z \in x
BY DEF Up

LEMMA UpXor ==
  ASSUME NEW x \in SUBSET Int, NEW y \in SUBSET Int
  PROVE  Up(Xor(x, y)) = Xor(Up(x), Up(y))
<1>1. Xor(x, y) \in SUBSET Int
  BY DEF Xor
<1>2. \A z \in Int : z + 1 \in Up(Xor(x, y)) <=> z + 1 \in Xor(Up(x), Up(y))
  BY <1>1, UpIs DEF Xor
<1>3. \A z \in Int : z \in Up(Xor(x, y)) <=> z \in Xor(Up(x), Up(y))
  <2> TAKE z \in Int
  <2>1. z - 1 \in Int /\ (z - 1) + 1 = z
    OBVIOUS
  <2> QED BY <1>2, <2>1
<1>4. Up(Xor(x, y)) \in SUBSET Int /\ Xor(Up(x), Up(y)) \in SUBSET Int
  BY <1>1, UpIs DEF Xor
<1> QED
  BY <1>3, <1>4

LEMMA XorLaws ==
  ASSUME NEW x, NEW y, NEW z
  PROVE  /\ Xor(x, y) = Xor(y, x)
         /\ Xor(Xor(x, y), z) = Xor(x, Xor(y, z))
         /\ Xor(Xor(x, y), z) = Xor(Xor(x, z), y)
BY DEF Xor

Divisor(d) == {z + d - 32 : z \in Generator}

LEMMA DivisorUp ==
  ASSUME NEW d \in Int
  PROVE  Divisor(d) \in SUBSET Int /\ Divisor(d + 1) = Up(Divisor(d))
<1>1. Divisor(d) \in SUBSET Int /\ Divisor(d + 1) \in SUBSET Int
  BY DEF Divisor, Generator
<1>2. \A z \in Int : z + 1 \in Divisor(d + 1) <=> z \in Divisor(d)
  BY DEF Divisor, Generator
<1>3. \A z \in Int : z \in Divisor(d + 1) <=> z \in Up(Divisor(d))
  <2> TAKE z \in Int
  <2>1. z - 1 \in Int /\ (z - 1) + 1 = z
    OBVIOUS
  <2> QED BY <1>1, <1>2, <2>1, UpIs
<1> QED
  BY <1>1, <1>3, UpIs

LEMMA ReduceIs ==
  ASSUME NEW x \in SUBSET Int, NEW d \in Int
  PROVE  /\ Reduce(x, d) = IF d \in x THEN Xor(x, Divisor(d)) ELSE x
         /\ Reduce(x, d) \in SUBSET Int
<1>1. Reduce(x, d) = IF d \in x THEN Xor(x, Divisor(d)) ELSE x
  BY DEF Reduce, Divisor
<1>2. Xor(x, Divisor(d)) \in SUBSET Int
  BY DivisorUp DEF Xor
<1> QED
  BY <1>1, <1>2

\* A term more at 32 keeps out of the way of the division down to 33.
LEMMA ReduceUp ==
  ASSUME NEW x \in SUBSET Int, NEW d \in Int, d # 31, NEW y \in SUBSET {32}
  PROVE  Reduce(Xor(Up(x), y), d + 1) = Xor(Up(Reduce(x, d)), y)
<1>1. Up(x) \in SUBSET Int /\ y \in SUBSET Int /\ Xor(Up(x), y) \in SUBSET Int
  <2>1. Up(x) \in SUBSET Int
    BY UpIs
  <2>2. y \in SUBSET Int
    OBVIOUS
  <2> QED BY <2>1, <2>2 DEF Xor
<1>2. d + 1 \in Xor(Up(x), y) <=> d \in x
  <2>1. d + 1 \in Up(x) <=> d \in x
    BY UpIs
  <2>2. d + 1 \notin y
    OBVIOUS
  <2> QED BY <2>1, <2>2 DEF Xor
<1>3. Reduce(Xor(Up(x), y), d + 1) = IF d \in x THEN Xor(Xor(Up(x), y), Divisor(d + 1)) ELSE Xor(Up(x), y)
  BY <1>1, <1>2, ReduceIs
<1>4. CASE d \in x
  <2>1. Up(Reduce(x, d)) = Xor(Up(x), Divisor(d + 1))
    BY <1>4, ReduceIs, DivisorUp, UpXor
  <2> QED BY <1>3, <1>4, <2>1, XorLaws
<1>5. CASE d \notin x
  BY <1>3, <1>5, ReduceIs
<1> QED
  BY <1>4, <1>5

LEMMA RemainderUp ==
  ASSUME NEW a \in SUBSET Int, NEW n \in Nat, NEW y \in SUBSET {32}
  PROVE  Remainder(Xor(Up(a), y), n + 1) = Reduce(Xor(Up(Remainder(a, n)), y), 32)
<1> DEFINE b == Xor(Up(a), y)
<1>1. PICK f : IsRest(f, a, n, n) /\ Remainder(a, n) = f[n]
  BY RemainderIs
<1>2. n + 1 \in Nat
  OBVIOUS
<1>3. PICK g : IsRest(g, b, n + 1, n + 1) /\ Remainder(b, n + 1) = g[n + 1]
  BY <1>2, RemainderIs
<1> HIDE DEF b
<1>4. \A k \in 0..n : f[k] = IF k = 0 THEN a ELSE Reduce(f[k - 1], n + 32 - k)
  BY <1>1 DEF IsRest
<1>5. \A k \in 0..(n + 1) : g[k] = IF k = 0 THEN b ELSE Reduce(g[k - 1], (n + 1) + 32 - k)
  BY <1>3 DEF IsRest
<1> DEFINE T == {k \in Nat : k \in 0..n => f[k] \in SUBSET Int /\ g[k] = Xor(Up(f[k]), y)}
<1>6. 0 \in T
  <2>1. 0 \in 0..n /\ 0 \in 0..(n + 1)
    OBVIOUS
  <2>2. f[0] = a
    BY <1>4, <2>1
  <2>3. g[0] = b
    BY <1>5, <2>1
  <2>4. f[0] \in SUBSET Int /\ g[0] = Xor(Up(f[0]), y)
    BY <2>2, <2>3 DEF b
  <2> QED BY <2>4
<1>7. ASSUME NEW k \in Nat, k \in T PROVE k + 1 \in T
  <2> SUFFICES ASSUME k + 1 \in 0..n
               PROVE  f[k + 1] \in SUBSET Int /\ g[k + 1] = Xor(Up(f[k + 1]), y)
    OBVIOUS
  <2>1. f[k] \in SUBSET Int /\ g[k] = Xor(Up(f[k]), y)
    BY <1>7
  <2> DEFINE d == n + 32 - (k + 1)
  <2>2. f[k + 1] = Reduce(f[k], d)
    <3>1. (k + 1) - 1 = k /\ k + 1 # 0
      OBVIOUS
    <3> QED BY <1>4, <3>1
  <2>3. g[k + 1] = Reduce(g[k], d + 1)
    <3>1. (k + 1) - 1 = k /\ k + 1 # 0 /\ k + 1 \in 0..(n + 1) /\ (n + 1) + 32 - (k + 1) = d + 1
      OBVIOUS
    <3> HIDE DEF d
    <3> QED BY <1>5, <3>1
  <2>4. d \in Int /\ d # 31
    OBVIOUS
  <2> HIDE DEF d
  <2>5. f[k + 1] \in SUBSET Int
    BY <2>1, <2>2, <2>4, ReduceIs
  <2>6. Reduce(Xor(Up(f[k]), y), d + 1) = Xor(Up(Reduce(f[k], d)), y)
    BY <2>1, <2>4, ReduceUp
  <2> QED BY <2>1, <2>2, <2>3, <2>5, <2>6
<1> HIDE DEF T
<1>8. \A k \in Nat : k \in T
  BY <1>6, <1>7, NumbersByInduction
<1>9. g[n] = Xor(Up(f[n]), y)
  <2>1. n \in T /\ n \in 0..n
    BY <1>8
  <2> QED BY <2>1 DEF T
<1>10. g[n + 1] = Reduce(g[n], 32)
  <2>1. n + 1 \in 0..(n + 1) /\ n + 1 # 0 /\ (n + 1) - 1 = n /\ (n + 1) + 32 - (n + 1) = 32
    OBVIOUS
  <2> QED BY <1>5, <2>1
<1> QED
  BY <1>1, <1>3, <1>9, <1>10 DEF b

-----------------------------------------------------------------------------
(* The register of crc.c is the remainder so far, the other way round.        *)

Bit(s, j) == j % 8 \in ByteBits(s[(j \div 8) + 1])

\* The polynomial of the first n bits, as ChecksumIsRemainder has it.
Poly(s, n) ==
  LET sent == {n - 1 - j : j \in {j \in 0..(n - 1) : Bit(s, j)}}
  IN  Xor({z + 32 : z \in sent}, n..(n + 31))

\* A bit that is one, as the term it adds.
Term(s, n, k) == IF Bit(s, n) THEN {k} ELSE {}

LEMMA PolyIs ==
  ASSUME NEW s, NEW n \in Nat
  PROVE  /\ Poly(s, n) \in SUBSET Int
         /\ \A k \in Int : k \in Poly(s, n) <=>
              ~ ((k - 32 \in 0..(n - 1) /\ Bit(s, n - 1 - (k - 32))) <=> k \in n..(n + 31))
<1> DEFINE sent == {n - 1 - j : j \in {j \in 0..(n - 1) : Bit(s, j)}}
           a == {z + 32 : z \in sent}
<1>1. sent \in SUBSET Int
  OBVIOUS
<1>2. \A i \in Int : i \in sent <=> i \in 0..(n - 1) /\ Bit(s, n - 1 - i)
  <2> TAKE i \in Int
  <2>1. ASSUME i \in sent PROVE i \in 0..(n - 1) /\ Bit(s, n - 1 - i)
    <3>1. PICK j \in 0..(n - 1) : Bit(s, j) /\ i = n - 1 - j
      BY <2>1
    <3>2. n - 1 - i = j /\ i \in 0..(n - 1)
      BY <3>1
    <3> QED BY <3>1, <3>2
  <2>2. ASSUME i \in 0..(n - 1), Bit(s, n - 1 - i) PROVE i \in sent
    <3>1. n - 1 - i \in 0..(n - 1) /\ i = n - 1 - (n - 1 - i)
      BY <2>2
    <3> QED BY <2>2, <3>1
  <2> HIDE DEF sent
  <2> QED BY <2>1, <2>2
<1> HIDE DEF sent
<1>3. a \in SUBSET Int
  BY <1>1
<1>4. \A k \in Int : k \in a <=> k - 32 \in sent
  <2> TAKE k \in Int
  <2>1. k - 32 \in Int /\ (k - 32) + 32 = k
    OBVIOUS
  <2>2. \A z \in sent : z + 32 = k => z = k - 32
    BY <1>1
  <2> QED BY <2>1, <2>2
<1>5. Poly(s, n) = Xor(a, n..(n + 31))
  BY DEF Poly, sent
<1> HIDE DEF a
<1>6. \A k \in Int : k \in a <=> k - 32 \in 0..(n - 1) /\ Bit(s, n - 1 - (k - 32))
  <2> TAKE k \in Int
  <2>1. k - 32 \in Int
    OBVIOUS
  <2> QED BY <1>2, <1>4, <2>1
<1>7. \A k : k \in Poly(s, n) <=> ~ (k \in a <=> k \in n..(n + 31))
  BY <1>5 DEF Xor
<1>8. Poly(s, n) \in SUBSET Int
  BY <1>3, <1>5 DEF Xor
<1> QED
  BY <1>6, <1>7, <1>8

LEMMA PolyUp ==
  ASSUME NEW s, NEW n \in Nat
  PROVE  Poly(s, n + 1) = Xor(Up(Poly(s, n)), Term(s, n, 32))
<1> DEFINE m == n + 1
           a == Poly(s, n)
<1>1. m \in Nat
  OBVIOUS
<1>2. a \in SUBSET Int /\ Poly(s, m) \in SUBSET Int
  BY <1>1, PolyIs
<1>3. Up(a) \in SUBSET Int /\ \A z \in Int : z + 1 \in Up(a) <=> z \in a
  BY <1>2, UpIs
<1>4. \A k \in Int : k \in Up(a) <=>
        ~ ((k - 33 \in 0..(n - 1) /\ Bit(s, n - 1 - (k - 33))) <=> k - 1 \in n..(n + 31))
  <2> TAKE k \in Int
  <2>1. k - 1 \in Int /\ (k - 1) + 1 = k /\ (k - 1) - 32 = k - 33
    OBVIOUS
  <2>2. k \in Up(a) <=> k - 1 \in a
    BY <1>3, <2>1
  <2>3. k - 1 \in a <=>
          ~ (((k - 1) - 32 \in 0..(n - 1) /\ Bit(s, n - 1 - ((k - 1) - 32))) <=> k - 1 \in n..(n + 31))
    BY <2>1, PolyIs
  <2> HIDE DEF a
  <2> QED BY <2>1, <2>2, <2>3
<1>5. \A k \in Int : k \in Poly(s, m) <=>
        ~ ((k - 32 \in 0..(m - 1) /\ Bit(s, m - 1 - (k - 32))) <=> k \in m..(m + 31))
  BY <1>1, PolyIs
<1>6. \A k \in Int : k \in Term(s, n, 32) <=> k = 32 /\ Bit(s, n)
  BY DEF Term
<1>7. \A k \in Int : k \in Poly(s, m) <=> k \in Xor(Up(a), Term(s, n, 32))
  <2> TAKE k \in Int
  <2>1. k \in m..(m + 31) <=> k - 1 \in n..(n + 31)
    OBVIOUS
  <2>2. m - 1 - (k - 32) = n - 1 - (k - 33)
    OBVIOUS
  <2>3. k - 32 \in 0..(m - 1) <=> k = 32 \/ k - 33 \in 0..(n - 1)
    OBVIOUS
  <2>4. k = 32 => k - 33 \notin 0..(n - 1) /\ n - 1 - (k - 33) = n
    OBVIOUS
  <2>5. k \in Xor(Up(a), Term(s, n, 32)) <=> ~ (k \in Up(a) <=> k \in Term(s, n, 32))
    BY DEF Xor
  <2> DEFINE up == k \in Up(a)
             t == k \in Term(s, n, 32)
             sh == k \in m..(m + 31)
             here == k - 33 \in 0..(n - 1)
             bit == Bit(s, n - 1 - (k - 33))
  <2>6. up <=> ~ ((here /\ bit) <=> sh)
    BY <1>4, <2>1
  <2>7. k \in Poly(s, m) <=> ~ (((k = 32 \/ here) /\ bit) <=> sh)
    BY <1>5, <2>2, <2>3
  <2>8. t <=> (k = 32 /\ bit)
    <3>1. k = 32 => (bit <=> Bit(s, n))
      BY <2>4
    <3> QED BY <1>6, <3>1
  <2>9. k = 32 => ~here
    BY <2>4
  <2> HIDE DEF up, t, sh, here, bit
  <2>10. k \in Poly(s, m) <=> ~ (up <=> t)
    BY <2>6, <2>7, <2>8, <2>9
  <2> QED BY <2>5, <2>10 DEF up, t
<1> HIDE DEF m, a
<1>8. Xor(Up(a), Term(s, n, 32)) \in SUBSET Int
  BY <1>3 DEF Xor, Term
<1>9. Poly(s, m) = Xor(Up(a), Term(s, n, 32))
  BY <1>2, <1>7, <1>8
<1> QED
  BY <1>9 DEF m, a

Rest(s, n) == Remainder(Poly(s, n), n)

LEMMA RestNone ==
  ASSUME NEW s
  PROVE  Rest(s, 0) = 0..31
<1>1. Poly(s, 0) \in SUBSET Int
      /\ \A k \in Int : k \in Poly(s, 0) <=> k \in 0..(0 + 31)
  <2>1. 0 \in Nat /\ \A k \in Int : k - 32 \notin 0..(0 - 1)
    OBVIOUS
  <2> QED BY <2>1, PolyIs
<1>2. Poly(s, 0) = 0..31
  BY <1>1
<1>3. PICK f : IsRest(f, Poly(s, 0), 0, 0) /\ Remainder(Poly(s, 0), 0) = f[0]
  BY RemainderIs
<1>4. f[0] = Poly(s, 0)
  BY <1>3 DEF IsRest
<1> QED
  BY <1>2, <1>3, <1>4 DEF Rest

LEMMA RestUp ==
  ASSUME NEW s, NEW n \in Nat
  PROVE  Rest(s, n + 1) = Reduce(Xor(Up(Rest(s, n)), Term(s, n, 32)), 32)
<1>1. Poly(s, n) \in SUBSET Int
  BY PolyIs
<1>2. Term(s, n, 32) \in SUBSET {32}
  BY DEF Term
<1> DEFINE y == Term(s, n, 32)
           a == Poly(s, n)
<1>3. Poly(s, n + 1) = Xor(Up(a), y)
  BY PolyUp
<1> HIDE DEF y, a
<1>4. Remainder(Xor(Up(a), y), n + 1) = Reduce(Xor(Up(Remainder(a, n)), y), 32)
  BY <1>1, <1>2, RemainderUp DEF y, a
<1> QED
  BY <1>3, <1>4 DEF Rest, y, a

\* A step of the division keeps the remainder under x^32.
LEMMA ReduceRange ==
  ASSUME NEW x \in Word32, NEW y \in SUBSET {32}
  PROVE  Reduce(Xor(Up(x), y), 32) \in Word32
<1> DEFINE w == Xor(Up(x), y)
<1>1. w \in SUBSET (0..32)
  <2>1. \A z \in x : z + 1 \in 0..32
    BY DEF Word32
  <2>2. Up(x) \in SUBSET (0..32)
    BY <2>1 DEF Up
  <2>3. y \in SUBSET (0..32)
    OBVIOUS
  <2> QED BY <2>2, <2>3 DEF Xor
<1> HIDE DEF w
<1>2. Divisor(32) = Generator
  <2>1. \A z \in Generator : z + 32 - 32 = z
    BY DEF Generator
  <2>2. Divisor(32) = {z + 32 - 32 : z \in Generator}
    BY DEF Divisor
  <2>3. {z + 32 - 32 : z \in Generator} = Generator
    BY <2>1
  <2> QED BY <2>2, <2>3
<1>3. Generator \in SUBSET (0..32) /\ 32 \in Generator
  BY DEF Generator
<1>4. w \in SUBSET Int
  BY <1>1
<1>5. Reduce(w, 32) = IF 32 \in w THEN Xor(w, Generator) ELSE w
  BY <1>2, <1>4, ReduceIs
<1>6. Reduce(w, 32) \in SUBSET (0..32) /\ 32 \notin Reduce(w, 32)
  BY <1>1, <1>3, <1>5 DEF Xor
<1>7. \A S \in SUBSET (0..32) : 32 \notin S => S \in Word32
  BY DEF Word32
<1> QED
  BY <1>6, <1>7 DEF w

LEMMA RestRange ==
  ASSUME NEW s
  PROVE  \A n \in Nat : Rest(s, n) \in Word32
<1> DEFINE T == {n \in Nat : Rest(s, n) \in Word32}
<1>1. 0 \in T
  BY RestNone DEF Word32
<1>2. ASSUME NEW n \in Nat, n \in T PROVE n + 1 \in T
  <2>1. Term(s, n, 32) \in SUBSET {32}
    BY DEF Term
  <2>2. Reduce(Xor(Up(Rest(s, n)), Term(s, n, 32)), 32) \in Word32
    BY <1>2, <2>1, ReduceRange
  <2> QED BY <2>2, RestUp
<1> HIDE DEF T
<1>3. \A n \in Nat : n \in T
  BY <1>1, <1>2, NumbersByInduction
<1> QED
  BY <1>3 DEF T

Mirror(x) == {31 - z : z \in x}

LEMMA MirrorIs ==
  ASSUME NEW x \in Word32
  PROVE  Mirror(x) \in Word32 /\ \A k \in 0..31 : k \in Mirror(x) <=> 31 - k \in x
<1>1. x \in SUBSET (0..31)
  BY DEF Word32
<1>2. Mirror(x) \in Word32
  BY <1>1 DEF Mirror, Word32
<1>3. ASSUME NEW k \in 0..31, k \in Mirror(x) PROVE 31 - k \in x
  <2>1. PICK z \in x : k = 31 - z
    BY <1>3 DEF Mirror
  <2>2. z \in Int
    BY <1>1
  <2>3. 31 - k = z
    BY <2>1, <2>2
  <2> QED BY <2>3
<1>4. ASSUME NEW k \in 0..31, 31 - k \in x PROVE k \in Mirror(x)
  <2>1. k = 31 - (31 - k)
    OBVIOUS
  <2> QED BY <1>4, <2>1 DEF Mirror
<1> QED
  BY <1>2, <1>3, <1>4

LEMMA ReversedIs == \A k \in 0..31 : 31 - k \in Generator <=> k \in Reversed
BY DEF Generator, Reversed

\* What the code does with a bit is a step of the division, seen the other way round.
LEMMA MirrorReduce ==
  ASSUME NEW x \in Word32, NEW s, NEW n
  PROVE  Mirror(Reduce(Xor(Up(x), Term(s, n, 32)), 32)) = Divide(Xor(Mirror(x), Term(s, n, 0)))
<1> DEFINE y == Term(s, n, 32)
           w == Xor(Up(x), y)
           r == Reduce(w, 32)
           m == Mirror(x)
           v == Xor(m, Term(s, n, 0))
<1>1. y \in SUBSET {32} /\ Term(s, n, 0) \in SUBSET {0} /\ (32 \in y <=> 0 \in Term(s, n, 0))
  BY DEF Term
<1>2. x \in SUBSET Int /\ x \in SUBSET (0..31)
  BY DEF Word32
<1>3. Up(x) \in SUBSET Int /\ \A z \in Int : z + 1 \in Up(x) <=> z \in x
  BY <1>2, UpIs
<1>4. w \in SUBSET Int
  BY <1>1, <1>3 DEF Xor
<1>5. \A k \in Int : k \in Up(x) <=> k - 1 \in x
  <2> TAKE k \in Int
  <2>1. k - 1 \in Int /\ (k - 1) + 1 = k
    OBVIOUS
  <2> QED BY <1>3, <2>1
<1>6. m \in Word32 /\ \A k \in 0..31 : k \in m <=> 31 - k \in x
  BY MirrorIs
<1>7. r \in Word32
  BY <1>1, ReduceRange
<1>8. Mirror(r) \in Word32 /\ \A k \in 0..31 : k \in Mirror(r) <=> 31 - k \in r
  BY <1>7, MirrorIs
<1>9. r = IF 32 \in w THEN Xor(w, Divisor(32)) ELSE w
  BY <1>4, ReduceIs
<1> HIDE DEF y, m
<1>10. 32 \in w <=> 0 \in v
  <2>1. 32 \in Up(x) <=> 31 \in x
    <3>1. 32 - 1 = 31
      OBVIOUS
    <3> QED BY <1>5, <3>1
  <2>2. 0 \in m <=> 31 \in x
    <3>1. 31 - 0 = 31 /\ 0 \in 0..31
      OBVIOUS
    <3> QED BY <1>6, <3>1
  <2> QED BY <1>1, <2>1, <2>2 DEF Xor
<1>11. v \in Word32
  <2>1. Term(s, n, 0) \in Word32
    BY <1>1 DEF Word32
  <2> QED BY <1>6, <2>1, XorRange
<1>12. \A k \in 0..31 : 31 - k \in w <=> k \in Shift(v, 1)
  <2> TAKE k \in 0..31
  <2>1. 31 - k \in w <=> (31 - k) - 1 \in x
    <3>1. 31 - k \notin y
      BY <1>1
    <3>2. 31 - k \in w <=> 31 - k \in Up(x)
      BY <3>1 DEF Xor
    <3> QED BY <1>5, <3>2
  <2>2. k \in Shift(v, 1) <=> k + 1 \in v
    BY <1>11, ShiftRange
  <2>3. k + 1 \in v <=> k + 1 \in m
    <3>1. k + 1 \notin Term(s, n, 0)
      BY <1>1
    <3> QED BY <3>1 DEF Xor
  <2>4. CASE k = 31
    <3>1. k + 1 \notin m
      BY <1>6, <2>4 DEF Word32
    <3>2. (31 - k) - 1 \notin x
      BY <1>2, <2>4
    <3> QED BY <2>1, <2>2, <2>3, <3>1, <3>2
  <2>5. CASE k # 31
    <3>1. k + 1 \in 0..31 /\ 31 - (k + 1) = (31 - k) - 1
      BY <2>5
    <3>2. k + 1 \in m <=> (31 - k) - 1 \in x
      BY <1>6, <3>1
    <3> QED BY <2>1, <2>2, <2>3, <3>2
  <2> QED BY <2>4, <2>5
<1>13. \A k \in 0..31 : 31 - k \in Divisor(32) <=> k \in Reversed
  <2>1. \A z \in Int : z \in Divisor(32) <=> z \in Generator
    BY DEF Divisor, Generator
  <2> QED BY <2>1, ReversedIs
<1> HIDE DEF w, v
<1>14. Divide(v) = IF 0 \in v THEN Xor(Shift(v, 1), Reversed) ELSE Shift(v, 1)
  BY DEF Divide
<1>15. Divide(v) \in Word32
  BY <1>11, DivideRange
<1>16. \A k \in 0..31 : k \in Mirror(r) <=> k \in Divide(v)
  <2> TAKE k \in 0..31
  <2>1. k \in Mirror(r) <=> 31 - k \in r
    BY <1>8
  <2> HIDE DEF r
  <2>2. CASE 0 \in v
    BY <1>9, <1>10, <1>12, <1>13, <1>14, <2>1, <2>2 DEF Xor
  <2>3. CASE 0 \notin v
    BY <1>9, <1>10, <1>12, <1>14, <2>1, <2>3
  <2> QED BY <2>2, <2>3
<1>17. Mirror(r) = Divide(v)
  <2> HIDE DEF r
  <2> QED BY <1>8, <1>15, <1>16 DEF Word32
<1> QED
  BY <1>17 DEF r, w, y, v, m

Register(s, n) == Mirror(Rest(s, n))

\* The register after n bits, and after one more.
LEMMA RegisterIs ==
  ASSUME NEW s
  PROVE  /\ Register(s, 0) = 0..31
         /\ \A n \in Nat : Register(s, n) \in Word32
         /\ \A n \in Nat : Register(s, n + 1) = Divide(Xor(Register(s, n), Term(s, n, 0)))
<1>1. \A n \in Nat : Rest(s, n) \in Word32
  BY RestRange
<1>2. \A n \in Nat : Register(s, n) \in Word32
  BY <1>1, MirrorIs DEF Register
<1>3. Register(s, 0) = 0..31
  <2>1. Rest(s, 0) = 0..31 /\ 0..31 \in Word32
    BY RestNone DEF Word32
  <2>2. \A k \in 0..31 : k \in Mirror(0..31)
    <3> TAKE k \in 0..31
    <3>1. 31 - k \in 0..31
      OBVIOUS
    <3> QED BY <2>1, <3>1, MirrorIs
  <2>3. Mirror(0..31) \in SUBSET (0..31)
    BY <2>1, MirrorIs DEF Word32
  <2> QED BY <2>1, <2>2, <2>3 DEF Register
<1>4. ASSUME NEW n \in Nat PROVE Register(s, n + 1) = Divide(Xor(Register(s, n), Term(s, n, 0)))
  BY <1>1, RestUp, MirrorReduce DEF Register
<1> QED
  BY <1>2, <1>3, <1>4

-----------------------------------------------------------------------------
(* Eight bits at a time, as the table of crc.c does them.                     *)

LEMMA WordsEqual ==
  ASSUME NEW x \in Word32, NEW y \in Word32, \A k \in Nat : k \in x <=> k \in y
  PROVE  x = y
<1>1. x \in SUBSET Nat /\ y \in SUBSET Nat
  BY DEF Word32
<1> QED
  BY <1>1

LEMMA ShiftTwice ==
  ASSUME NEW v \in Word32, NEW k \in Nat
  PROVE  Shift(Shift(v, k), 1) = Shift(v, k + 1)
<1>1. Shift(v, k) \in Word32 /\ \A i \in Nat : i \in Shift(v, k) <=> i + k \in v
  BY ShiftRange
<1>2. /\ Shift(Shift(v, k), 1) \in Word32
      /\ \A i \in Nat : i \in Shift(Shift(v, k), 1) <=> i + 1 \in Shift(v, k)
  BY <1>1, ShiftRange
<1> DEFINE m == k + 1
<1>3. m \in Nat
  OBVIOUS
<1>4. Shift(v, m) \in Word32 /\ \A i \in Nat : i \in Shift(v, m) <=> i + m \in v
  BY <1>3, ShiftRange
<1>5. \A i \in Nat : i \in Shift(Shift(v, k), 1) <=> i \in Shift(v, m)
  <2> TAKE i \in Nat
  <2>1. i + 1 \in Nat /\ (i + 1) + k = i + m
    OBVIOUS
  <2> HIDE DEF m
  <2> QED BY <1>1, <1>2, <1>4, <2>1
<1> HIDE DEF m
<1>6. Shift(Shift(v, k), 1) = Shift(v, m)
  BY <1>2, <1>4, <1>5 DEF Word32
<1> QED
  BY <1>6 DEF m

\* The lowest bits of a word that is to be added may be added later.
LEMMA BitStep ==
  ASSUME NEW u \in Word32, NEW v \in Word32
  PROVE  Divide(Xor(Xor(u, v), v \cap {0})) = Xor(Divide(u), Shift(v, 1))
<1> DEFINE w == Xor(Xor(u, v), v \cap {0})
<1>1. v \cap {0} \in Word32 /\ Xor(u, v) \in Word32
  BY XorRange DEF Word32
<1>2. w \in Word32
  BY <1>1, XorRange
<1>3. \A k \in Nat : k # 0 => (k \in w <=> ~ (k \in u <=> k \in v))
  BY DEF Xor
<1>4. 0 \in w <=> 0 \in u
  BY DEF Xor
<1> HIDE DEF w
<1>5. /\ Shift(u, 1) \in Word32 /\ \A k \in Nat : k \in Shift(u, 1) <=> k + 1 \in u
      /\ Shift(v, 1) \in Word32 /\ \A k \in Nat : k \in Shift(v, 1) <=> k + 1 \in v
      /\ Shift(w, 1) \in Word32 /\ \A k \in Nat : k \in Shift(w, 1) <=> k + 1 \in w
  BY <1>2, ShiftRange
<1>6. \A k \in Nat : k \in Shift(w, 1) <=> ~ (k \in Shift(u, 1) <=> k \in Shift(v, 1))
  <2> TAKE k \in Nat
  <2>1. k + 1 \in Nat /\ k + 1 # 0
    OBVIOUS
  <2> QED BY <1>3, <1>5, <2>1
<1>7. Shift(w, 1) = Xor(Shift(u, 1), Shift(v, 1))
  <2>1. Xor(Shift(u, 1), Shift(v, 1)) \in Word32
    BY <1>5, XorRange
  <2>2. \A k \in Nat : k \in Shift(w, 1) <=> k \in Xor(Shift(u, 1), Shift(v, 1))
    BY <1>6 DEF Xor
  <2> QED BY <1>5, <2>1, <2>2 DEF Word32
<1>8. CASE 0 \in u
  <2>1. Divide(w) = Xor(Xor(Shift(u, 1), Shift(v, 1)), Reversed)
    BY <1>4, <1>7, <1>8 DEF Divide
  <2>2. Divide(u) = Xor(Shift(u, 1), Reversed)
    BY <1>8 DEF Divide
  <2> QED BY <2>1, <2>2, XorLaws DEF w
<1>9. CASE 0 \notin u
  BY <1>4, <1>7, <1>9 DEF Divide, w
<1> QED
  BY <1>8, <1>9

Divide8(x) == Divide(Divide(Divide(Divide(Divide(Divide(Divide(Divide(x))))))))

\* Eight steps, with the lowest eight bits of v added as each comes to the end.
LEMMA EightBits ==
  ASSUME NEW u \in Word32, NEW v \in Word32, NEW r, r[0] = Xor(u, v),
         \A k \in 0..7 : r[k + 1] = Divide(Xor(r[k], Shift(v, k) \cap {0}))
  PROVE  r[8] = Xor(Divide8(u), Shift(v, 8))
<1>1. ASSUME NEW k \in 0..7, NEW x \in Word32, r[k] = Xor(x, Shift(v, k))
      PROVE  Divide(x) \in Word32 /\ r[k + 1] = Xor(Divide(x), Shift(v, k + 1))
  <2>1. k \in Nat /\ Shift(v, k) \in Word32
    <3>1. k \in Nat
      OBVIOUS
    <3> QED BY <3>1, ShiftRange
  <2>2. r[k + 1] = Xor(Divide(x), Shift(Shift(v, k), 1))
    BY <1>1, <2>1, BitStep
  <2> QED BY <2>1, <2>2, ShiftTwice, DivideRange
<1>2. Shift(v, 0) = v
  <2>1. Shift(v, 0) \in Word32 /\ \A k \in Nat : k \in Shift(v, 0) <=> k + 0 \in v
    BY ShiftRange
  <2>2. \A k \in Nat : k \in Shift(v, 0) <=> k \in v
    <3>1. \A k \in Nat : k + 0 = k
      OBVIOUS
    <3> QED BY <2>1, <3>1
  <2> QED BY <2>1, <2>2, WordsEqual
<1> DEFINE u1 == Divide(u)  u2 == Divide(u1)  u3 == Divide(u2)  u4 == Divide(u3)
           u5 == Divide(u4)  u6 == Divide(u5)  u7 == Divide(u6)  u8 == Divide(u7)
<1>10. Divide8(u) = u8
  BY DEF Divide8
<1>11. u1 \in Word32 /\ r[1] = Xor(u1, Shift(v, 1))
  <2>1. r[0] = Xor(u, Shift(v, 0)) /\ 0 \in 0..7 /\ 0 + 1 = 1
    BY <1>2
  <2> QED BY <1>1, <2>1
<1> HIDE DEF u1
<1>12. u2 \in Word32 /\ r[2] = Xor(u2, Shift(v, 2))
  <2>1. 1 \in 0..7 /\ 1 + 1 = 2
    OBVIOUS
  <2> QED BY <1>1, <1>11, <2>1
<1> HIDE DEF u2
<1>13. u3 \in Word32 /\ r[3] = Xor(u3, Shift(v, 3))
  <2>1. 2 \in 0..7 /\ 2 + 1 = 3
    OBVIOUS
  <2> QED BY <1>1, <1>12, <2>1
<1> HIDE DEF u3
<1>14. u4 \in Word32 /\ r[4] = Xor(u4, Shift(v, 4))
  <2>1. 3 \in 0..7 /\ 3 + 1 = 4
    OBVIOUS
  <2> QED BY <1>1, <1>13, <2>1
<1> HIDE DEF u4
<1>15. u5 \in Word32 /\ r[5] = Xor(u5, Shift(v, 5))
  <2>1. 4 \in 0..7 /\ 4 + 1 = 5
    OBVIOUS
  <2> QED BY <1>1, <1>14, <2>1
<1> HIDE DEF u5
<1>16. u6 \in Word32 /\ r[6] = Xor(u6, Shift(v, 6))
  <2>1. 5 \in 0..7 /\ 5 + 1 = 6
    OBVIOUS
  <2> QED BY <1>1, <1>15, <2>1
<1> HIDE DEF u6
<1>17. u7 \in Word32 /\ r[7] = Xor(u7, Shift(v, 7))
  <2>1. 6 \in 0..7 /\ 6 + 1 = 7
    OBVIOUS
  <2> QED BY <1>1, <1>16, <2>1
<1> HIDE DEF u7
<1>18. r[8] = Xor(u8, Shift(v, 8))
  <2>1. 7 \in 0..7 /\ 7 + 1 = 8
    OBVIOUS
  <2> QED BY <1>1, <1>17, <2>1
<1> HIDE DEF u8
<1> QED
  BY <1>10, <1>18

\* Bits that do not come to the end in eight steps take no part in them.
LEMMA HighBits ==
  ASSUME NEW u \in Word32, NEW v \in Word32, v \cap (0..7) = {}
  PROVE  Divide8(Xor(u, v)) = Xor(Divide8(u), Shift(v, 8))
<1> DEFINE x == Xor(u, v)
           r == [k \in 0..8 |->
                   CASE k = 0 -> x
                     [] k = 1 -> Divide(x)
                     [] k = 2 -> Divide(Divide(x))
                     [] k = 3 -> Divide(Divide(Divide(x)))
                     [] k = 4 -> Divide(Divide(Divide(Divide(x))))
                     [] k = 5 -> Divide(Divide(Divide(Divide(Divide(x)))))
                     [] k = 6 -> Divide(Divide(Divide(Divide(Divide(Divide(x))))))
                     [] k = 7 -> Divide(Divide(Divide(Divide(Divide(Divide(Divide(x)))))))
                     [] k = 8 -> Divide8(x)]
<1>1. \A k \in 0..7 : r[k + 1] = Divide(r[k])
  BY DEF Divide8
<1>2. r[0] = x /\ r[8] = Divide8(x)
  OBVIOUS
<1> HIDE DEF r
<1>3. \A k \in 0..7 : Shift(v, k) \cap {0} = {}
  <2> TAKE k \in 0..7
  <2>1. k \in Nat /\ 0 \in Nat /\ 0 + k = k
    OBVIOUS
  <2>2. 0 \in Shift(v, k) <=> k \in v
    BY <2>1, ShiftRange
  <2> QED BY <2>2
<1>4. \A y : Xor(y, {}) = y
  BY DEF Xor
<1>5. \A k \in 0..7 : r[k + 1] = Divide(Xor(r[k], Shift(v, k) \cap {0}))
  BY <1>1, <1>3, <1>4
<1> QED
  BY <1>2, <1>5, EightBits

\* A byte of the message, by the table or by its eight bits.
LEMMA ByteByTable ==
  ASSUME NEW s, NEW t \in Nat
  PROVE  Register(s, 8 * (t + 1)) = Entry32(Register(s, 8 * t), s[t + 1])
<1> DEFINE n == 8 * t
           c == Register(s, n)
           b == ByteBits(s[t + 1])
           u == Xor(c, b)
           r == [k \in 0..8 |-> Register(s, n + k)]
<1>1. n \in Nat /\ c \in Word32
  <2>1. n \in Nat
    OBVIOUS
  <2> QED BY <2>1, RegisterIs
<1>2. b \in SUBSET (0..7)
  BY DEF ByteBits
<1>3. b \in Word32 /\ u \in Word32
  <2>1. b \in Word32
    BY <1>2 DEF Word32
  <2> QED BY <1>1, <2>1, XorRange
<1>4. r[0] = Xor(u, b)
  <2>1. 0 \in 0..8 /\ n + 0 = n
    BY <1>1
  <2>2. c = Xor(u, b)
    BY DEF Xor
  <2> QED BY <2>1, <2>2
<1>5. \A k \in 0..7 : Term(s, n + k, 0) = Shift(b, k) \cap {0}
  <2> TAKE k \in 0..7
  <2>1. (n + k) % 8 = k /\ (n + k) \div 8 = t
    OBVIOUS
  <2>2. Bit(s, n + k) <=> k \in b
    BY <2>1 DEF Bit
  <2>3. 0 \in Shift(b, k) <=> k \in b
    <3>1. k \in Nat /\ 0 \in Nat /\ 0 + k = k
      OBVIOUS
    <3> HIDE DEF b
    <3> QED BY <1>3, <3>1, ShiftRange
  <2> HIDE DEF n, b
  <2> QED BY <2>2, <2>3 DEF Term
<1>6. \A k \in 0..7 : r[k + 1] = Divide(Xor(r[k], Shift(b, k) \cap {0}))
  <2> TAKE k \in 0..7
  <2>1. n + k \in Nat /\ (n + k) + 1 = n + (k + 1) /\ k \in 0..8 /\ k + 1 \in 0..8
    BY <1>1
  <2>2. Register(s, (n + k) + 1) = Divide(Xor(Register(s, n + k), Term(s, n + k, 0)))
    BY <2>1, RegisterIs
  <2> HIDE DEF n, b
  <2> QED BY <1>5, <2>1, <2>2
<1>7. r[8] = Register(s, n + 8)
  OBVIOUS
<1> HIDE DEF n, c, b, u, r
<1>8. r[8] = Xor(Divide8(u), Shift(b, 8))
  BY <1>3, <1>4, <1>6, EightBits
<1>9. Shift(b, 8) = {}
  <2>1. Shift(b, 8) \in Word32 /\ \A k \in Nat : k \in Shift(b, 8) <=> k + 8 \in b
    BY <1>3, ShiftRange, 8 \in Nat
  <2>2. \A k \in Nat : k + 8 \notin b
    BY <1>2
  <2>3. {} \in Word32
    BY DEF Word32
  <2> QED BY <2>1, <2>2, <2>3, WordsEqual
<1>10. r[8] = Divide8(u)
  BY <1>8, <1>9 DEF Xor
<1> DEFINE lo == u \cap (0..7)
           hi == c \ (0..7)
<1>11. lo \in Word32 /\ hi \in Word32 /\ hi \cap (0..7) = {}
  BY <1>1, <1>3 DEF Word32
<1>12. u = Xor(lo, hi)
  BY <1>2 DEF u, Xor
<1>13. Shift(hi, 8) = Shift(c, 8)
  <2>1. Shift(hi, 8) \in Word32 /\ \A k \in Nat : k \in Shift(hi, 8) <=> k + 8 \in hi
    <3>1. hi \in Word32 /\ 8 \in Nat
      BY <1>11
    <3> HIDE DEF hi
    <3> QED BY <3>1, ShiftRange
  <2>2. Shift(c, 8) \in Word32 /\ \A k \in Nat : k \in Shift(c, 8) <=> k + 8 \in c
    BY <1>1, ShiftRange, 8 \in Nat
  <2>3. \A k \in Nat : k + 8 \in hi <=> k + 8 \in c
    OBVIOUS
  <2> HIDE DEF hi
  <2> QED BY <2>1, <2>2, <2>3, WordsEqual
<1>14. crc32_tab[lo] = Divide8(lo)
  BY TableIs DEF Divide8
<1> HIDE DEF lo, hi
<1>15. Divide8(u) = Xor(crc32_tab[lo], Shift(c, 8))
  BY <1>11, <1>12, <1>13, <1>14, HighBits
<1>16. Entry32(c, s[t + 1]) = Xor(crc32_tab[lo], Shift(c, 8))
  BY DEF Entry32, lo, u, b
<1>17. 8 * (t + 1) = n + 8
  BY DEF n
<1> QED
  BY <1>7, <1>10, <1>15, <1>16, <1>17 DEF c, n

-----------------------------------------------------------------------------
(* The checksum, piece by piece: what is done of it, and the register then.   *)

AtCrc ==
  /\ Turns \in 0..args.n /\ call.n = args.n - Turns
  /\ Register(Bytes(args.p, args.n), 8 * Turns) =
       IF call.found THEN call.crc ELSE Xor(call.crc, 0..31)

SumInv ==
  /\ result = Running /\ args.f = "crc32" => AtCrc
  /\ ChecksumIsRemainder

LEMMA ChecksumMeans ==
  ChecksumIsRemainder <=>
    (result # Running /\ args.f = "crc32" =>
       result[1] = (0..31) \ Register(Bytes(args.p, args.n), 8 * args.n))
BY DEF ChecksumIsRemainder, Register, Mirror, Rest, Poly, Bit

LEMMA SumInit == LInit => SumInv
<1> SUFFICES ASSUME LInit PROVE SumInv
  OBVIOUS
<1>1. result = Running
  BY DEF LInit, NoCall, SInit
<1>2. ASSUME args.f = "crc32" PROVE AtCrc
  <2>1. SInit
    BY <1>2 DEF LInit, NoCall, F
  <2>2. CallIs(call) /\ args = call
    BY <2>1, CallsAre DEF SInit
  <2>3. call \in StringCall /\ call.found = FALSE /\ call.crc = {}
    BY <2>2, CallAllowed
  <2>4. Turns = 0 /\ Turns \in 0..args.n /\ call.n = args.n - Turns
    BY <2>2, <2>3 DEF StringCall, Turns
  <2>5. Register(Bytes(args.p, args.n), 8 * Turns) = 0..31
    BY <2>4, RegisterIs
  <2>6. Xor(call.crc, 0..31) = 0..31
    BY <2>3 DEF Xor
  <2> QED BY <2>3, <2>4, <2>5, <2>6 DEF AtCrc
<1> QED
  BY <1>1, <1>2 DEF SumInv, ChecksumIsRemainder

\* A step of the checksum that leaves it running.
LEMMA SumTurn ==
  ASSUME NEW d, Turn(d), result = Running, args.f = "crc32", NEW k, k = d.p - args.p,
         k \in 0..args.n, d.n = args.n - k,
         Register(Bytes(args.p, args.n), 8 * k) = IF d.found THEN d.crc ELSE Xor(d.crc, 0..31)
  PROVE  SumInv'
<1>1. call' = d /\ result' = result /\ mem0' = mem0 /\ args' = args
  BY DEF Turn
<1>2. Turns' = k
  BY <1>1 DEF Turns
<1>3. Bytes(args.p, args.n)' = Bytes(args.p, args.n)
  BY <1>1 DEF Bytes
<1>4. AtCrc'
  BY <1>1, <1>2, <1>3 DEF AtCrc
<1> QED
  BY <1>1, <1>4 DEF SumInv, ChecksumIsRemainder

LEMMA SumStep == SIInv /\ SumInv /\ our_crc32_inc => SumInv'
<1> SUFFICES ASSUME SIInv, SumInv, our_crc32_inc PROVE SumInv'
  OBVIOUS
<1> USE DEF Function
<1>1. In("crc32")
  BY DEF our_crc32_inc
<1>2. /\ result = Running /\ args.f = "crc32" /\ Walk /\ Allowed(args.f, args.p, args.q, args.n)
      /\ call \in StringCall /\ args \in StringCall /\ mem0 \in Memory
      /\ call.p \in Nat /\ call.n \in Nat /\ args.p \in Nat /\ args.n \in Nat
  BY <1>1, InCall
<1>3. mem = mem0 /\ args.p + args.n <= N
  BY <1>2 DEF Walk, Allowed
<1>4. AtCrc
  BY <1>2 DEF SumInv
<1> DEFINE s == Bytes(args.p, args.n)
           t == Turns
           reg == Register(s, 8 * t)
<1>5. t \in 0..args.n /\ call.n = args.n - t /\ t = call.p - args.p
  BY <1>4 DEF AtCrc, Turns
<1>6. reg = IF call.found THEN call.crc ELSE Xor(call.crc, 0..31)
  BY <1>4 DEF AtCrc
<1>7. call.crc \in Word32 /\ reg \in Word32
  <2>1. 8 * t \in Nat
    BY <1>5
  <2>2. reg \in Word32
    BY <2>1, RegisterIs
  <2> QED BY <1>2, <2>2 DEF StringCall, Word32
<1>8. \A x \in Word32 : Xor(x, 0..31) = (0..31) \ x /\ Xor(Xor(x, 0..31), 0..31) = x
  BY DEF Xor, Word32
<1> HIDE DEF t
<1>9. CASE ~call.found /\ Turn([call EXCEPT !.crc = Entered(@), !.found = TRUE])
  <2> DEFINE b == [call EXCEPT !.crc = Entered(@)]
             d == [b EXCEPT !.found = TRUE]
  <2>1. b.crc = Entered(call.crc) /\ b.p = call.p /\ b.n = call.n /\ b \in StringCall
    <3>1. Entered(call.crc) \in SUBSET (0..31)
      BY <1>7 DEF Entered, Xor, Word32
    <3> QED BY <1>2, <3>1 DEF StringCall
  <2>2. Turn(d)
    BY <1>9
  <2> HIDE DEF b
  <2>3. d.crc = Entered(call.crc) /\ d.p = call.p /\ d.n = call.n /\ d.found = TRUE
    BY <2>1 DEF StringCall
  <2> HIDE DEF d
  <2>4. reg = d.crc
    BY <1>6, <1>9, <2>3 DEF Entered
  <2>5. t = d.p - args.p /\ d.n = args.n - t
    BY <1>5, <2>3
  <2> QED BY <1>2, <1>5, <2>2, <2>3, <2>4, <2>5, SumTurn
<1>10. CASE /\ call.found /\ call.n > 0
            /\ Turn([Count EXCEPT !.crc = Xor(crc32_tab[Xor(@, ByteBits(mem[call.p])) \cap (0..7)],
                                               Shift(@, 8))])
  <2> DEFINE c == Entry32(call.crc, mem[call.p])
             d == [Count EXCEPT !.crc = c]
             k == t + 1
  <2>1. /\ Count \in StringCall /\ Count.n = call.n - 1 /\ Count.p = call.p + 1
        /\ Count.crc = call.crc /\ Count.found = call.found
    <3>1. Count \in StringCall /\ Count.n = call.n - 1 /\ Count.p = call.p + 1
      BY <1>2, <1>10, CountIs
    <3> QED BY <1>2, <3>1 DEF Count, Onward, StringCall
  <2>2. Turn(d)
    BY <1>10, <2>1 DEF Entry32
  <2> HIDE DEF c
  <2>3. d.crc = c /\ d.p = call.p + 1 /\ d.n = call.n - 1 /\ d.found = call.found
    BY <2>1 DEF StringCall
  <2> HIDE DEF d
  <2>4. k \in 0..args.n /\ k = d.p - args.p /\ d.n = args.n - k /\ t \in Nat /\ k \in 1..args.n
    BY <1>2, <1>5, <1>10, <2>3
  <2>5. s[k] = mem[call.p]
    <3>1. s[k] = mem0[args.p + k - 1]
      BY <1>2, <1>3, <2>4, BytesAre
    <3>2. args.p + k - 1 = call.p
      BY <1>2, <1>5
    <3> QED BY <1>3, <3>1, <3>2
  <2>6. Register(s, 8 * k) = Entry32(reg, s[k])
    BY <2>4, ByteByTable
  <2>7. reg = call.crc
    BY <1>6, <1>10
  <2>8. Register(s, 8 * k) = d.crc
    BY <2>3, <2>5, <2>6, <2>7 DEF c
  <2> HIDE DEF k
  <2> QED BY <1>2, <1>10, <2>2, <2>3, <2>4, <2>8, SumTurn
<1>11. CASE call.found /\ call.n > 0 /\ Turn([call EXCEPT !.crc = Left(@), !.found = FALSE])
  <2> DEFINE b == [call EXCEPT !.crc = Left(@)]
             d == [b EXCEPT !.found = FALSE]
  <2>1. b.crc = Left(call.crc) /\ b.p = call.p /\ b.n = call.n /\ b \in StringCall
    <3>1. Left(call.crc) \in SUBSET (0..31)
      BY <1>7 DEF Left, Xor, Word32
    <3> QED BY <1>2, <3>1 DEF StringCall
  <2>2. Turn(d)
    BY <1>11
  <2> HIDE DEF b
  <2>3. d.crc = Left(call.crc) /\ d.p = call.p /\ d.n = call.n /\ d.found = FALSE
    BY <2>1 DEF StringCall
  <2> HIDE DEF d
  <2>4. reg = Xor(d.crc, 0..31)
    BY <1>6, <1>7, <1>8, <1>11, <2>3 DEF Left
  <2>5. t = d.p - args.p /\ d.n = args.n - t
    BY <1>5, <2>3
  <2> QED BY <1>2, <1>5, <2>2, <2>3, <2>4, <2>5, SumTurn
<1>12. CASE call.found /\ call.n = 0 /\ Return(Left(call.crc))
  <2>1. result' = <<Left(call.crc)>> /\ mem0' = mem0 /\ args' = args
    BY <1>12 DEF Return
  <2>2. t = args.n
    BY <1>2, <1>5, <1>12
  <2>3. Left(call.crc) = (0..31) \ Register(s, 8 * args.n)
    BY <1>6, <1>7, <1>8, <1>12, <2>2 DEF Left
  <2>4. Bytes(args.p, args.n)' = s
    BY <2>1 DEF Bytes
  <2> HIDE DEF s
  <2>5. (ChecksumIsRemainder <=>
          (result # Running /\ args.f = "crc32" =>
             result[1] = (0..31) \ Register(Bytes(args.p, args.n), 8 * args.n)))'
    BY ChecksumMeans, PTL
  <2>6. result'[1] = (0..31) \ Register(Bytes(args.p, args.n)', 8 * args'.n)
    BY <2>1, <2>3, <2>4
  <2>7. (result[1] = (0..31) \ Register(Bytes(args.p, args.n), 8 * args.n))'
    BY <2>6 DEF Register, Mirror, Rest, Remainder, Poly, Bit, Reduce, Generator, ByteBits, Xor
  <2>8. ChecksumIsRemainder'
    BY <2>5, <2>7
  <2>9. result' # Running
    BY <2>1 DEF Running
  <2> QED BY <2>8, <2>9 DEF SumInv
<1> QED
  BY <1>9, <1>10, <1>11, <1>12 DEF our_crc32_inc

\* The other functions.
LEMMA SumOther ==
  ASSUME SIInv, SumInv, args' = args, args.f # "crc32"
  PROVE  SumInv'
BY DEF SumInv, ChecksumIsRemainder

LEMMA SumUnchanged ==
  ASSUME SumInv, UNCHANGED svars
  PROVE  SumInv'
<1>1. (mem' = mem /\ call' = call /\ result' = result /\ mem0' = mem0 /\ args' = args)
  BY DEF svars
<1>2. Bytes(args.p, args.n)' = Bytes(args.p, args.n) /\ Turns' = Turns
  BY <1>1 DEF Bytes, Turns
<1>3. AtCrc' = AtCrc
  BY <1>1, <1>2 DEF AtCrc
<1>4. ChecksumIsRemainder' = ChecksumIsRemainder
  BY <1>1, <1>2 DEF ChecksumIsRemainder
<1> QED
  BY <1>1, <1>3, <1>4 DEF SumInv

LEMMA SumNext == SIInv /\ SumInv /\ [LNext]_lvars => SumInv'
<1> SUFFICES ASSUME SIInv, SumInv, [LNext]_lvars PROVE SumInv'
  OBVIOUS
<1>1. CASE UNCHANGED svars
  BY <1>1, SumUnchanged
<1>2. CASE SNext
  <2>1. CASE our_crc32_inc
    BY <2>1, SumStep
  <2>2. CASE Returned
    BY <2>2, SumUnchanged DEF Returned
  <2>3. CASE strlen \/ strchr \/ strcmp \/ strncmp \/ memcmp \/ memchr \/ memiszero
    BY <2>3, SumOther DEF SIInv, In, Turn, Return, strlen, strchr, strcmp, strncmp, memcmp, memchr, memiszero
  <2>4. CASE memset \/ strcpy \/ strcat \/ memcpy
    BY <2>4, SumOther DEF SIInv, In, Turn, Return, CopyString, memset, strcpy, strcat, memcpy
  <2> QED BY <1>2, <2>1, <2>2, <2>3, <2>4 DEF SNext
<1> QED
  BY <1>1, <1>2 DEF LNext, lvars, svars

\* The checksum of crc.c, byte by byte through its table and in however many
\* pieces, is the remainder of the bytes as one polynomial on division by the
\* generator, complemented, whatever the bytes and however many.
THEOREM ChecksumsDivide == LSpec => []ChecksumIsRemainder
<1>1. LInit => SIInv /\ SumInv
  BY SInitIInv, SumInit
<1>2. SIInv /\ SumInv /\ [LNext]_lvars => (SIInv /\ SumInv)'
  BY LibcSteps, SumNext
<1>3. SumInv => ChecksumIsRemainder
  BY DEF SumInv
<1> QED
  BY <1>1, <1>2, <1>3, PTL DEF LSpec
=============================================================================
