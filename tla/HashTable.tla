----------------------------- MODULE HashTable ------------------------------
(***************************************************************************)
(* libos/libc/ht-hash.h: chains of entries in a table that doubles when it *)
(* is too crowded.  The program is sequential, so a call is one step; what *)
(* is hard is where a call leaves an entry once the table has grown.       *)
(*                                                                         *)
(* External: HT_ALLOC (memory as it was), HT_FREE, and the hash, which is  *)
(* some number of HashBits bits for each key.                              *)
(***************************************************************************)
EXTENDS Integers, FiniteSets, Sequences, SequencesExt

CONSTANTS
  Key, Val,
  Hash,          \* key -> its hash, h_hash: the top slotBits of a product
  Size,          \* a power of two, the size ht_alloc is asked for
  InitialUsed    \* what the memory of ht_used may hold: ht_alloc does not set it

HT_NIL_VAL == -1

ASSUME HashTableAssumption ==
  /\ Hash \in [Key -> Nat] /\ Val \subseteq Int \ {HT_NIL_VAL}
  /\ Size \in Nat \ {0} /\ InitialUsed \subseteq Int

VARIABLES
  ht_tab,    \* bucket -> the chain of entries, the first the newest
  ht_used,
  ht_lim,
  asserts,   \* the build keeps the assertions
  stopped,   \* one has failed, or the table is freed
  last       \* the last call that went through, with what it returned

ht_vars == <<ht_tab, ht_used, ht_lim, asserts, stopped, last>>

ht_size == Cardinality(DOMAIN ht_tab)
Buckets(n) == 0..(n - 1)

-----------------------------------------------------------------------------
LimitOf(n) == (n * 2) \div 3

ht_alloc ==
  /\ ht_tab = [b \in Buckets(Size) |-> <<>>]
  /\ ht_used \in InitialUsed
  /\ ht_lim = LimitOf(Size)

HtInit == ht_alloc /\ asserts \in BOOLEAN /\ stopped = FALSE /\ last = <<"alloc">>

\* The mask is the size less one: a remainder, sizes being powers of two.
Bucket(hash, tab) == hash % Cardinality(DOMAIN tab)

\* The place in a chain of the first entry with the key, 0 if it has none.
Place(chain, key) == SelectInSeq(chain, LAMBDA entry : entry.key = key)

ht_search_in(tab, key) ==
  LET chain == tab[Bucket(Hash[key], tab)]
      at == Place(chain, key)
  IN  IF at = 0 THEN HT_NIL_VAL ELSE chain[at].val

ht_search(key) == ht_search_in(ht_tab, key)

\* An entry goes to the head of its chain.
Link(tab, entry) == [tab EXCEPT ![Bucket(entry.h_hash, tab)] = <<entry>> \o @]

\* Each old chain in turn, from its head, into the new table.
ht_expand(tab) ==
  LET n == 2 * Cardinality(DOMAIN tab)
      all == FlattenSeq([i \in 1..Cardinality(DOMAIN tab) |-> tab[i - 1]])
      moved[i \in 0..Len(all)] ==
        IF i = 0 THEN [b \in Buckets(n) |-> <<>>] ELSE Link(moved[i - 1], all[i])
  IN  moved[Len(all)]

Crowded(lim, used) == lim < used

\* The second assertion asks for the value before the entry is in the table.
AssertionsOfInsert(tab, key, val) ==
  /\ ht_search_in(tab, key) = HT_NIL_VAL
  /\ ht_search_in(tab, key) = val

\* A caller of a build without assertions keeps to keys that are not mapped.
ht_insert(key, val) ==
  /\ ~stopped
  /\ asserts \/ ht_search(key) = HT_NIL_VAL
  /\ LET tab == IF Crowded(ht_lim, ht_used) THEN ht_expand(ht_tab) ELSE ht_tab
     IN /\ ht_lim' = LimitOf(Cardinality(DOMAIN tab))
        /\ IF asserts /\ ~AssertionsOfInsert(tab, key, val)
             THEN stopped' = TRUE /\ ht_tab' = tab /\ UNCHANGED <<ht_used, last>>
             ELSE /\ ht_tab' = Link(tab, [key |-> key, val |-> val, h_hash |-> Hash[key]])
                  /\ ht_used' = ht_used + 1
                  /\ last' = <<"insert", key, val>>
                  /\ UNCHANGED stopped
  /\ UNCHANGED asserts

\* A slip: whatever entry matches, the chain's first is taken out.
ht_delete_head(key) ==
  /\ ~stopped
  /\ LET b == Bucket(Hash[key], ht_tab) IN
       /\ ht_search(key) # HT_NIL_VAL
       /\ ht_tab' = [ht_tab EXCEPT ![b] = Tail(@)]
       /\ last' = <<"delete", key>>
  /\ ht_used' = ht_used - 1
  /\ UNCHANGED <<ht_lim, asserts, stopped>>

\* The assertion on the count comes last, when the entry is gone.
ht_delete(key) ==
  /\ ~stopped
  /\ LET b == Bucket(Hash[key], ht_tab)
         at == Place(ht_tab[b], key)
     IN /\ asserts \/ at # 0
        /\ IF at = 0
             THEN stopped' = TRUE /\ UNCHANGED <<ht_tab, ht_used, last>>
             ELSE /\ ht_tab' = [ht_tab EXCEPT ![b] = RemoveAt(@, at)]
                  /\ ht_used' = ht_used - 1
                  /\ last' = <<"delete", key>>
                  /\ stopped' = (asserts /\ ht_used - 1 < 0)
  /\ UNCHANGED <<ht_lim, asserts>>

Search ==
  /\ ~stopped
  /\ \E k \in Key : last' = <<"search", k, ht_search(k)>>
  /\ UNCHANGED <<ht_tab, ht_used, ht_lim, asserts, stopped>>

ht_free ==
  /\ ~stopped /\ stopped' = TRUE
  /\ last' = <<"free">>
  /\ ht_tab' = [b \in DOMAIN ht_tab |-> <<>>]
  /\ UNCHANGED <<ht_used, ht_lim, asserts>>

HtStopped == stopped /\ UNCHANGED ht_vars

HtNext == \/ \E k \in Key, v \in Val : ht_insert(k, v)
          \/ \E k \in Key : ht_delete(k)
          \/ Search \/ ht_free \/ HtStopped

HtSpec == HtInit /\ [][HtNext]_ht_vars

-----------------------------------------------------------------------------
Held == UNION {ToSet(ht_tab[b]) : b \in DOMAIN ht_tab}

Mapped == [k \in {e.key : e \in Held} |-> (CHOOSE e \in Held : e.key = k).val]

HtTypeOK ==
  /\ DOMAIN ht_tab = Buckets(ht_size)
  /\ \A b \in DOMAIN ht_tab : ToSet(ht_tab[b]) \subseteq {e \in [key : Key, val : Val, h_hash : Nat] : e.h_hash % ht_size = b}
  /\ ht_used \in Int /\ ht_lim = LimitOf(ht_size)
  /\ asserts \in BOOLEAN /\ stopped \in BOOLEAN

\* Every call does and returns what the same call on a map does, each key once,
\* whatever the table has grown to (ht_insert, ht_delete, ht_search).
Map == INSTANCE KeyMap WITH map <- Mapped, Nil <- HT_NIL_VAL
KeepsMap == Map!Spec

\* An insert goes through, and a search then finds the key (ht_insert, as the self
\* test of ht-hash.h uses it).
InsertedIsFound ==
  [][\A k \in Key, v \in Val : ht_insert(k, v) => ~stopped' /\ ht_search(k)' = v]_ht_vars
=============================================================================
