--------------------------- MODULE SequiturProofs ---------------------------
(* Proofs about the compressor and its transmissions, of four things.  The  *)
(* digram table of Sequitur, for every size of the table and every content  *)
(* of the symbol storage: open addressing with tombstones answers each      *)
(* lookup with the digram that was put in, until that digram is deleted     *)
(* (src/hw1/src/diagram_hash.c).  The encoding of symbols in a transmission: *)
(* the reader of src/hw1/src/comdec.c gets what the writer has put there.   *)
(* And the operations on the grammar (src/hw1/src/sequitur.c, rules.c and   *)
(* symbol.c): each keeps the lists, the counts, the recycled symbols and    *)
(* the text that every symbol stands for in order.  Last, a block of rules: *)
(* where its bytes stand, and how the reader gets the rules back from them. *)
EXTENDS Transmission, WellFoundedInduction, FiniteSetTheorems, TLAPS

\* What the C types allow the symbol storage and the table to hold.
Storage ==
  [value : [Symbols -> Nat], refcnt : [Symbols -> Nat],
   next : [Symbols -> Symbols \cup {Null}], prev : [Symbols -> Symbols \cup {Null}],
   nextr : [Symbols -> Symbols \cup {Null}], prevr : [Symbols -> Symbols \cup {Null}],
   rule : [Symbols -> Symbols \cup {Null}],
   new : Symbols \cup {Null}, num : Nat, recycled : Symbols \cup {Null},
   nextvalue : Nat, main : Symbols \cup {Null}, fault : {"none", "abort", "exhausted"},
   table : [Slots -> Symbols \cup {Null, Tombstone}]]

First(h, s) == h.value[s]
Second(h, s) == h.value[h.next[s]]
Lookup(h, s) == digram_get(h, First(h, s), Second(h, s))
Entered(h) == {s \in Symbols : \E i \in Slots : h.table[i] = s}
Vacant(h) == {j \in Slots : h.table[j] \in {Null, Tombstone}}

\* Every digram in the table has two symbols, is in one slot, and is what its values lead to.
Served(h) ==
  /\ \A i, j \in Slots : h.table[i] = h.table[j] /\ h.table[i] \in Symbols => i = j
  /\ \A s \in Entered(h) : h.next[s] \in Symbols /\ Lookup(h, s) = s

-----------------------------------------------------------------------------
(* Probing.                                                                *)

\* Every nonempty set of natural numbers has a least element.
LEMMA LeastNat ==
  ASSUME NEW T, T \subseteq Nat, T # {}
  PROVE  \E x \in T : \A y \in T : x <= y
<1> DEFINE R == OpToRel(<, Nat)
<1>1. IsWellFoundedOn(R, Nat)
  BY NatLessThanWellFounded
<1>2. \A x, y \in Nat : x < y => <<x, y>> \in R
  BY DEF OpToRel
<1> HIDE DEF R
<1>3. PICK x \in T : \A y \in T : ~ (<<y, x>> \in R)
  BY <1>1, WFMin
<1>4. ASSUME NEW y \in T PROVE x <= y
  <2>1. x \in Nat /\ y \in Nat
    OBVIOUS
  <2>2. ~(y < x)
    BY <1>2, <1>3, <2>1
  <2> QED
    BY <2>1, <2>2
<1> QED
  BY <1>4

\* The remainder of a sum of two numbers below the modulus.
LEMMA Wrap ==
  ASSUME NEW m \in Nat, m > 0, NEW a \in 0 .. m - 1, NEW b \in 0 .. m - 1
  PROVE  (a + b) % m = IF a + b < m THEN a + b ELSE a + b - m
<1> DEFINE q == (a + b) \div m
           r == (a + b) % m
<1>1. q \in Int /\ r \in 0 .. m - 1 /\ a + b = m * q + r
  BY SMT
<1> HIDE DEF q, r
<1>2. ~(q < 0)
  <2> SUFFICES ASSUME q <= -1 PROVE FALSE
    BY <1>1
  <2>1. m * q <= m * (-1)
    BY <1>1, SMT
  <2> QED
    BY <1>1, <2>1, SMT
<1>3. ~(q > 1)
  <2> SUFFICES ASSUME q >= 2 PROVE FALSE
    BY <1>1
  <2>1. m * q >= m * 2
    BY <1>1, SMT
  <2> QED
    BY <1>1, <2>1, SMT
<1>4. q = 0 \/ q = 1
  BY <1>1, <1>2, <1>3
<1>5. r = IF a + b < m THEN a + b ELSE a + b - m
  BY <1>1, <1>4, SMT
<1> QED
  BY <1>5 DEF r

\* Probing goes through the slots, and to each of them once.
LEMMA Probes ==
  ASSUME NEW v1 \in Nat, NEW v2 \in Nat
  PROVE  /\ \A k \in Slots : Slot(v1, v2, k) \in Slots
         /\ \A i \in Slots : \E k \in Slots : Slot(v1, v2, k) = i
<1> DEFINE hash == Hash(v1, v2)
<1>1. MaxDigrams \in Nat /\ MaxDigrams > 1
  BY SizesAssumption
<1>2. hash \in Slots
  <2>1. v1 * 37 + v2 \in Nat
    BY SMT
  <2> QED
    BY <1>1, <2>1, SMT DEF Hash, Slots
<1> HIDE DEF hash
<1>3. \A k \in Slots : Slot(v1, v2, k) = IF hash + k < MaxDigrams THEN hash + k
                                         ELSE hash + k - MaxDigrams
  BY <1>1, <1>2, Wrap DEF Slot, Slots, hash
<1>4. ASSUME NEW i \in Slots PROVE \E k \in Slots : Slot(v1, v2, k) = i
  <2> DEFINE k == IF i >= hash THEN i - hash ELSE i - hash + MaxDigrams
  <2>1. k \in Slots
    BY <1>1, <1>2 DEF Slots
  <2>2. Slot(v1, v2, k) = i
    BY <1>1, <1>2, <1>3, <2>1 DEF Slots
  <2> QED
    BY <2>1, <2>2
<1>5. \A k \in Slots : Slot(v1, v2, k) \in Slots
  BY <1>1, <1>2, <1>3 DEF Slots
<1> QED
  BY <1>4, <1>5

\* FirstProbe finds the first of the slots it looks for.
LEMMA FirstProbeLemma ==
  ASSUME NEW v1 \in Nat, NEW v2 \in Nat, NEW ends, ends \subseteq Slots
  PROVE  /\ ends = {} => FirstProbe(v1, v2, ends) = Null
         /\ ends # {} =>
              \E k \in Slots : /\ FirstProbe(v1, v2, ends) = Slot(v1, v2, k)
                               /\ Slot(v1, v2, k) \in ends
                               /\ \A j \in Slots : Slot(v1, v2, j) \in ends => k <= j
<1> DEFINE hits == {k \in Slots : Slot(v1, v2, k) \in ends}
<1>1. ends = {} => hits = {}
  OBVIOUS
<1>2. ends # {} => hits # {}
  BY Probes
<1>3. FirstProbe(v1, v2, ends) =
        IF hits = {} THEN Null
        ELSE Slot(v1, v2, CHOOSE k \in hits : \A j \in hits : k <= j)
  BY DEF FirstProbe
<1>4. hits \subseteq Nat
  BY SizesAssumption DEF Slots
<1>5. hits # {} => \E k \in hits : \A j \in hits : k <= j
  BY <1>4, LeastNat
<1> HIDE DEF hits
<1>6. ASSUME hits # {}
      PROVE  \E k \in hits : /\ FirstProbe(v1, v2, ends) = Slot(v1, v2, k)
                             /\ \A j \in hits : k <= j
  <2> DEFINE k == CHOOSE k \in hits : \A j \in hits : k <= j
  <2>1. k \in hits /\ \A j \in hits : k <= j
    BY <1>5, <1>6
  <2> QED
    BY <1>3, <1>6, <2>1
<1> QED
  BY <1>1, <1>2, <1>3, <1>6 DEF hits

-----------------------------------------------------------------------------
(* Lookup.                                                                 *)

Probed(h, v1, v2, k) == h.table[Slot(v1, v2, k)]

\* The k-th probe is the first to meet an empty slot or the digram, and meets the digram.
Hit(h, v1, v2, k) ==
  /\ Matches(h, Probed(h, v1, v2, k), v1, v2)
  /\ \A j \in Slots : j < k => /\ Probed(h, v1, v2, j) # Null
                               /\ ~ Matches(h, Probed(h, v1, v2, j), v1, v2)

\* A symbol that matches is no mark for an empty or deleted slot.
LEMMA MatchesLemma ==
  ASSUME NEW h \in Storage, NEW i \in Slots, NEW v1 \in Nat, NEW v2 \in Nat
  PROVE  Matches(h, h.table[i], v1, v2) <=>
           /\ h.table[i] \in Symbols
           /\ h.value[h.table[i]] = v1 /\ h.value[h.next[h.table[i]]] = v2
<1>1. h.table[i] \in Symbols \cup {Null, Tombstone}
  BY DEF Storage
<1>2. h.table[i] >= 0 <=> h.table[i] \in Symbols
  BY <1>1, SizesAssumption DEF Symbols, Null, Tombstone
<1> QED
  BY <1>2 DEF Matches

\* digram_get answers with the digram of the one probe that hits, or else with NULL.
LEMMA GetLemma ==
  ASSUME NEW h \in Storage, NEW v1 \in Nat, NEW v2 \in Nat
  PROVE  /\ \A k \in Slots : Hit(h, v1, v2, k) => digram_get(h, v1, v2) = Probed(h, v1, v2, k)
         /\ \/ digram_get(h, v1, v2) = Null
            \/ \E k \in Slots : /\ Hit(h, v1, v2, k)
                                /\ digram_get(h, v1, v2) = Probed(h, v1, v2, k)
<1> DEFINE ends == {j \in Slots : h.table[j] = Null \/ Matches(h, h.table[j], v1, v2)}
           i == FirstProbe(v1, v2, ends)
<1>1. digram_get(h, v1, v2) = IF i = Null THEN Null ELSE h.table[i]
  BY DEF digram_get
<1>2. ends \subseteq Slots /\ Slots \subseteq Nat /\ Null \notin Slots
  BY SizesAssumption DEF Slots, Null
<1>3. \A k \in Slots : Slot(v1, v2, k) \in ends <=>
        Probed(h, v1, v2, k) = Null \/ Matches(h, Probed(h, v1, v2, k), v1, v2)
  BY Probes DEF Probed
<1>4. \/ ends = {} /\ i = Null
      \/ \E k \in Slots : /\ i = Slot(v1, v2, k) /\ Slot(v1, v2, k) \in ends
                          /\ \A j \in Slots : Slot(v1, v2, j) \in ends => k <= j
  BY <1>2, FirstProbeLemma
<1> HIDE DEF ends, i
<1>5. CASE ends = {} /\ i = Null
  <2>1. \A k \in Slots : ~ Hit(h, v1, v2, k)
    BY <1>3, <1>5 DEF Hit
  <2> QED
    BY <1>1, <1>5, <2>1
<1>6. ASSUME NEW k \in Slots, i = Slot(v1, v2, k), Slot(v1, v2, k) \in ends,
             \A j \in Slots : Slot(v1, v2, j) \in ends => k <= j
      PROVE  /\ digram_get(h, v1, v2) = Probed(h, v1, v2, k)
             /\ Probed(h, v1, v2, k) = Null \/ Hit(h, v1, v2, k)
             /\ \A j \in Slots : Hit(h, v1, v2, j) => j = k
  <2>1. digram_get(h, v1, v2) = Probed(h, v1, v2, k)
    BY <1>1, <1>2, <1>6 DEF Probed
  <2>2. \A j \in Slots : j < k => Slot(v1, v2, j) \notin ends
    BY <1>2, <1>6
  <2>3. Probed(h, v1, v2, k) = Null \/ Hit(h, v1, v2, k)
    BY <1>3, <1>6, <2>2 DEF Hit
  <2>4. ASSUME NEW j \in Slots, Hit(h, v1, v2, j) PROVE j = k
    <3>1. Slot(v1, v2, j) \in ends
      BY <1>3, <2>4 DEF Hit
    <3>2. ~ (k < j)
      BY <1>3, <1>6, <2>4 DEF Hit
    <3> QED
      BY <1>2, <1>6, <3>1, <3>2
  <2> QED
    BY <2>1, <2>3, <2>4
<1> QED
  BY <1>4, <1>5, <1>6

\* In a table that serves, a lookup fails only if there is nothing to be found.
LEMMA GetFails ==
  ASSUME NEW h \in Storage, Served(h), NEW v1 \in Nat, NEW v2 \in Nat,
         digram_get(h, v1, v2) = Null
  PROVE  \A i \in Slots : ~ Matches(h, h.table[i], v1, v2)
<1> SUFFICES ASSUME NEW i \in Slots, Matches(h, h.table[i], v1, v2) PROVE FALSE
  OBVIOUS
<1>1. h.table[i] \in Symbols /\ h.value[h.table[i]] = v1 /\ h.value[h.next[h.table[i]]] = v2
  BY MatchesLemma
<1>2. h.table[i] \in Entered(h)
  BY <1>1 DEF Entered
<1>3. digram_get(h, v1, v2) = h.table[i]
  BY <1>1, <1>2 DEF Served, Lookup, First, Second
<1> QED
  BY <1>1, <1>3, SizesAssumption DEF Symbols, Null

\* Where nothing matches, nothing is found.
LEMMA GetNothing ==
  ASSUME NEW h \in Storage, NEW v1 \in Nat, NEW v2 \in Nat,
         \A i \in Slots : ~ Matches(h, h.table[i], v1, v2)
  PROVE  digram_get(h, v1, v2) = Null
<1>1. \A k \in Slots : ~ Hit(h, v1, v2, k)
  BY Probes DEF Hit, Probed
<1> QED
  BY <1>1, GetLemma

\* A table that is changed in slot i only, from a vacancy to a symbol or from a symbol to a
\* tombstone, goes on to answer for the digrams that neither symbol is.
LEMMA GetElsewhere ==
  ASSUME NEW h \in Storage, Served(h), NEW i \in Slots, NEW x \in Symbols \cup {Tombstone},
         NEW v1 \in Nat, NEW v2 \in Nat,
         ~ Matches(h, h.table[i], v1, v2), ~ Matches(h, x, v1, v2)
  PROVE  digram_get([h EXCEPT !.table[i] = x], v1, v2) = digram_get(h, v1, v2)
<1> DEFINE k == [h EXCEPT !.table[i] = x]
<1>1. /\ k \in Storage /\ k.value = h.value /\ k.next = h.next
      /\ k.table[i] = x /\ \A j \in Slots : j # i => k.table[j] = h.table[j]
  BY DEF Storage
<1>2. x # Null
  BY SizesAssumption DEF Symbols, Null, Tombstone
<1> HIDE DEF k
<1>3. \A y : Matches(k, y, v1, v2) <=> Matches(h, y, v1, v2)
  BY <1>1 DEF Matches
<1>4. CASE digram_get(h, v1, v2) = Null
  <2>1. \A j \in Slots : ~ Matches(k, k.table[j], v1, v2)
    BY <1>1, <1>3, <1>4, GetFails
  <2> QED
    BY <1>1, <1>4, <2>1, GetNothing DEF k
<1>5. CASE digram_get(h, v1, v2) # Null
  <2>1. PICK p \in Slots : /\ Hit(h, v1, v2, p)
                           /\ digram_get(h, v1, v2) = Probed(h, v1, v2, p)
    BY <1>5, GetLemma
  <2>2. Slot(v1, v2, p) # i
    BY <2>1 DEF Hit, Probed
  <2>3. Probed(k, v1, v2, p) = Probed(h, v1, v2, p)
    BY <1>1, <2>2, Probes DEF Probed
  <2>4. ASSUME NEW j \in Slots, j < p
        PROVE  Probed(k, v1, v2, j) # Null /\ ~ Matches(k, Probed(k, v1, v2, j), v1, v2)
    <3>1. Probed(h, v1, v2, j) # Null /\ ~ Matches(h, Probed(h, v1, v2, j), v1, v2)
      BY <2>1, <2>4 DEF Hit
    <3>2. CASE Slot(v1, v2, j) = i
      BY <1>1, <1>2, <1>3, <3>2 DEF Probed
    <3>3. CASE Slot(v1, v2, j) # i
      BY <1>1, <1>3, <3>1, <3>3, Probes DEF Probed
    <3> QED
      BY <3>2, <3>3
  <2>5. Hit(k, v1, v2, p)
    BY <1>3, <2>1, <2>3, <2>4 DEF Hit
  <2> QED
    BY <1>1, <2>1, <2>3, <2>5, GetLemma DEF k
<1> QED
  BY <1>4, <1>5

-----------------------------------------------------------------------------
(* Insertion and deletion.                                                 *)

\* Where digram_put puts a digram that is not in the table yet.
LEMMA PutLemma ==
  ASSUME NEW h \in Storage, NEW s \in Symbols, h.next[s] \in Symbols, s \notin Entered(h)
  PROVE  /\ Vacant(h) = {} => digram_put(h, s) = h
         /\ Vacant(h) # {} =>
              \E k \in Slots :
                /\ Slot(First(h, s), Second(h, s), k) \in Vacant(h)
                /\ digram_put(h, s) = [h EXCEPT !.table[Slot(First(h, s), Second(h, s), k)] = s]
                /\ \A j \in Slots : j < k => Slot(First(h, s), Second(h, s), j) \notin Vacant(h)
<1> DEFINE v1 == First(h, s)
           v2 == Second(h, s)
           from == Hash(v1, v2)
           ends == {j \in Slots : h.table[j] \in {Null, Tombstone} \/ (j < from /\ h.table[j] = s)}
           i == FirstProbe(v1, v2, ends)
<1>1. v1 \in Nat /\ v2 \in Nat
  BY DEF First, Second, Storage
<1>2. \A j \in Slots : h.table[j] # s
  BY DEF Entered
<1>3. ends = Vacant(h) /\ ends \subseteq Slots
  BY <1>2 DEF Vacant
<1>4. 1 \in Slots /\ Slots \subseteq Nat /\ Null \notin Slots
  BY SizesAssumption DEF Slots, Null
<1>5. digram_put(h, s) = IF h.table[1] = s \/ i = Null \/ h.table[i] = s THEN h
                         ELSE [h EXCEPT !.table[i] = s]
  BY DEF digram_put, First, Second
<1>6. /\ ends = {} => i = Null
      /\ ends # {} => \E k \in Slots : /\ i = Slot(v1, v2, k) /\ Slot(v1, v2, k) \in ends
                                       /\ \A j \in Slots : Slot(v1, v2, j) \in ends => k <= j
  BY <1>1, <1>3, FirstProbeLemma
<1> HIDE DEF v1, v2, from, ends, i
<1>7. ends = {} => digram_put(h, s) = h
  BY <1>5, <1>6
<1>8. ASSUME NEW k \in Slots, i = Slot(v1, v2, k), Slot(v1, v2, k) \in ends,
             \A j \in Slots : Slot(v1, v2, j) \in ends => k <= j
      PROVE  /\ digram_put(h, s) = [h EXCEPT !.table[Slot(v1, v2, k)] = s]
             /\ \A j \in Slots : j < k => Slot(v1, v2, j) \notin ends
  <2>1. i \in Slots /\ i # Null
    BY <1>3, <1>4, <1>8
  <2>2. h.table[1] # s /\ h.table[i] # s
    BY <1>2, <1>4, <2>1
  <2>3. digram_put(h, s) = [h EXCEPT !.table[Slot(v1, v2, k)] = s]
    BY <1>5, <1>8, <2>1, <2>2
  <2> QED
    BY <1>4, <1>8, <2>3
<1> QED
  BY <1>3, <1>6, <1>7, <1>8 DEF v1, v2

\* A digram that is put into a table without its like is found from then on, in place of
\* nothing: all other digrams are found as before.  A full table stays as it is
\* (diagram_hash.c:171-238).
THEOREM PutIsFound ==
  ASSUME NEW h \in Storage, Served(h), NEW s \in Symbols, h.next[s] \in Symbols,
         Lookup(h, s) = Null, Vacant(h) # {}
  PROVE  LET k == digram_put(h, s) IN
         /\ Served(k) /\ Lookup(k, s) = s /\ Entered(k) = Entered(h) \cup {s}
         /\ \A v1, v2 \in Nat : v1 # First(h, s) \/ v2 # Second(h, s)
                                 => digram_get(k, v1, v2) = digram_get(h, v1, v2)
<1> DEFINE k == digram_put(h, s)
           u1 == First(h, s)
           u2 == Second(h, s)
<1>1. u1 \in Nat /\ u2 \in Nat
  BY DEF First, Second, Storage
<1>2. s # Null
  BY SizesAssumption DEF Symbols, Null
<1>3. s \notin Entered(h)
  BY <1>2 DEF Served
<1>4. \A j \in Slots : ~ Matches(h, h.table[j], u1, u2)
  BY <1>1, GetFails DEF Lookup
<1>5. PICK p \in Slots : /\ Slot(u1, u2, p) \in Vacant(h)
                         /\ k = [h EXCEPT !.table[Slot(u1, u2, p)] = s]
                         /\ \A j \in Slots : j < p => Slot(u1, u2, j) \notin Vacant(h)
  BY <1>3, PutLemma
<1> DEFINE i == Slot(u1, u2, p)
<1>6. i \in Slots /\ h.table[i] \in {Null, Tombstone}
  BY <1>5 DEF Vacant
<1>7. k = [h EXCEPT !.table[i] = s]
  BY <1>5
<1> HIDE DEF k, u1, u2, i
<1>8. /\ k \in Storage /\ k.value = h.value /\ k.next = h.next
      /\ k.table[i] = s /\ \A j \in Slots : j # i => k.table[j] = h.table[j]
  BY <1>6, <1>7 DEF Storage
<1>9. h.table[i] \notin Symbols
  BY <1>6, SizesAssumption DEF Symbols, Null, Tombstone
<1>10. Entered(k) = Entered(h) \cup {s}
  <2>1. \A t \in Symbols, j \in Slots : h.table[j] = t => k.table[j] = t
    BY <1>8, <1>9
  <2> QED
    BY <1>6, <1>8, <2>1 DEF Entered
<1>11. First(k, s) = u1 /\ Second(k, s) = u2
  BY <1>8 DEF First, Second, u1, u2
<1>12. Lookup(k, s) = s
  <2>1. \A y : Matches(k, y, u1, u2) <=> Matches(h, y, u1, u2)
    BY <1>8 DEF Matches
  <2>2. Probed(k, u1, u2, p) = s
    BY <1>8 DEF Probed, i
  <2>3. Matches(k, s, u1, u2)
    BY <1>8, SizesAssumption DEF Matches, First, Second, u1, u2, Symbols
  <2>4. ASSUME NEW j \in Slots, j < p
        PROVE  Probed(k, u1, u2, j) # Null /\ ~ Matches(k, Probed(k, u1, u2, j), u1, u2)
    <3>1. Slot(u1, u2, j) \in Slots /\ Slot(u1, u2, j) \notin Vacant(h)
      BY <1>1, <1>5, <2>4, Probes
    <3>2. Slot(u1, u2, j) # i
      BY <1>5, <3>1 DEF i
    <3>3. Probed(k, u1, u2, j) = h.table[Slot(u1, u2, j)]
      BY <1>8, <3>1, <3>2 DEF Probed
    <3> QED
      BY <1>4, <2>1, <3>1, <3>3 DEF Vacant
  <2>5. Hit(k, u1, u2, p)
    BY <2>2, <2>3, <2>4 DEF Hit
  <2> QED
    BY <1>1, <1>8, <1>11, <2>2, <2>5, GetLemma DEF Lookup
<1>13. ASSUME NEW v1 \in Nat, NEW v2 \in Nat, v1 # u1 \/ v2 # u2
       PROVE  digram_get(k, v1, v2) = digram_get(h, v1, v2)
  <2>1. ~ Matches(h, h.table[i], v1, v2)
    BY <1>6, <1>9, MatchesLemma
  <2>2. ~ Matches(h, s, v1, v2)
    BY <1>13 DEF Matches, First, Second, u1, u2
  <2> QED
    BY <1>6, <1>7, <2>1, <2>2, GetElsewhere
<1>14. ASSUME NEW a \in Slots, NEW b \in Slots, k.table[a] = k.table[b], k.table[a] \in Symbols
       PROVE  a = b
  <2>1. \A j \in Slots : h.table[j] # s
    BY <1>3 DEF Entered
  <2>2. CASE a = i \/ b = i
    BY <1>8, <1>14, <2>1, <2>2
  <2>3. CASE a # i /\ b # i
    BY <1>8, <1>14, <2>3 DEF Served
  <2> QED
    BY <2>2, <2>3
<1>15. ASSUME NEW t \in Entered(h)
       PROVE  k.next[t] \in Symbols /\ Lookup(k, t) = t
  <2>1. t \in Symbols /\ h.next[t] \in Symbols /\ Lookup(h, t) = t
    BY DEF Served, Entered
  <2>2. First(h, t) \in Nat /\ Second(h, t) \in Nat
    BY <2>1 DEF First, Second, Storage
  <2>3. First(h, t) # u1 \/ Second(h, t) # u2
    <3>1. t # Null
      BY <2>1, SizesAssumption DEF Symbols, Null
    <3> QED
      BY <2>1, <3>1 DEF Lookup, u1, u2
  <2>4. digram_get(k, First(h, t), Second(h, t)) = t
    BY <1>13, <2>1, <2>2, <2>3 DEF Lookup
  <2> QED
    BY <1>8, <2>1, <2>4 DEF Lookup, First, Second
<1>16. Served(k)
  BY <1>8, <1>10, <1>12, <1>14, <1>15 DEF Served
<1> QED
  BY <1>10, <1>12, <1>13, <1>16 DEF k, u1, u2

\* A digram that is deleted is found no more, and all others are found as before: what lay
\* behind it is still reached, over the tombstone (diagram_hash.c:77-141).
THEOREM DeleteIsLost ==
  ASSUME NEW h \in Storage, Served(h), NEW s \in Entered(h)
  PROVE  LET k == digram_delete(h, s) IN
         /\ Served(k) /\ Lookup(k, s) = Null /\ Entered(k) = Entered(h) \ {s}
         /\ \A v1, v2 \in Nat : v1 # First(h, s) \/ v2 # Second(h, s)
                                 => digram_get(k, v1, v2) = digram_get(h, v1, v2)
<1> DEFINE k == digram_delete(h, s)
           u1 == First(h, s)
           u2 == Second(h, s)
           ends == {j \in Slots : h.table[j] \in {Null, s}}
           i == FirstProbe(u1, u2, ends)
<1>1. s \in Symbols /\ h.next[s] \in Symbols /\ Lookup(h, s) = s
  BY DEF Served, Entered
<1>2. u1 \in Nat /\ u2 \in Nat /\ s # Null
  BY <1>1, SizesAssumption DEF First, Second, Storage, Symbols, Null
<1>3. PICK p \in Slots : Hit(h, u1, u2, p) /\ Probed(h, u1, u2, p) = s
  BY <1>1, <1>2, GetLemma DEF Lookup
<1>4. Matches(h, s, u1, u2)
  BY <1>3 DEF Hit
<1>5. Slots \subseteq Nat /\ Null \notin Slots
  BY SizesAssumption DEF Slots, Null
<1>6. k = IF i # Null /\ h.table[i] = s THEN [h EXCEPT !.table[i] = Tombstone] ELSE h
  BY DEF digram_delete, First, Second
<1>7. Slot(u1, u2, p) \in ends
  BY <1>2, <1>3, Probes DEF Probed
<1>8. PICK q \in Slots : /\ i = Slot(u1, u2, q) /\ Slot(u1, u2, q) \in ends
                         /\ \A j \in Slots : Slot(u1, u2, j) \in ends => q <= j
  <2>1. ends \subseteq Slots /\ ends # {}
    BY <1>7
  <2> QED
    BY <1>2, <2>1, FirstProbeLemma
<1>9. i \in Slots /\ h.table[i] = s
  <2>1. i \in Slots /\ h.table[i] \in {Null, s} /\ h.table[i] = Probed(h, u1, u2, q)
    BY <1>8 DEF Probed
  <2>2. q <= p
    BY <1>7, <1>8
  <2>3. q < p => h.table[i] # Null /\ h.table[i] # s
    BY <1>3, <1>4, <2>1 DEF Hit
  <2>4. q = p => h.table[i] = s
    BY <1>3, <2>1
  <2> QED
    BY <1>5, <2>1, <2>2, <2>3, <2>4
<1>10. k = [h EXCEPT !.table[i] = Tombstone]
  BY <1>5, <1>6, <1>9
<1> HIDE DEF k, u1, u2, ends, i
<1>11. /\ k \in Storage /\ k.value = h.value /\ k.next = h.next
       /\ k.table[i] = Tombstone /\ \A j \in Slots : j # i => k.table[j] = h.table[j]
  BY <1>9, <1>10 DEF Storage
<1>12. Tombstone \notin Symbols
  BY SizesAssumption DEF Symbols, Tombstone
<1>13. Entered(k) = Entered(h) \ {s}
  <2>1. \A j \in Slots : j # i => h.table[j] # s
    BY <1>1, <1>9 DEF Served
  <2> QED
    BY <1>9, <1>11, <1>12, <2>1 DEF Entered
<1>14. ASSUME NEW v1 \in Nat, NEW v2 \in Nat, v1 # u1 \/ v2 # u2
       PROVE  digram_get(k, v1, v2) = digram_get(h, v1, v2)
  <2>1. ~ Matches(h, h.table[i], v1, v2)
    BY <1>9, <1>14 DEF Matches, First, Second, u1, u2
  <2>2. ~ Matches(h, Tombstone, v1, v2)
    BY DEF Matches, Tombstone
  <2> QED
    BY <1>9, <1>10, <2>1, <2>2, GetElsewhere
<1>15. ASSUME NEW t \in Entered(h), t # s
       PROVE  /\ k.next[t] \in Symbols /\ Lookup(k, t) = t
              /\ First(h, t) # u1 \/ Second(h, t) # u2
  <2>1. t \in Symbols /\ h.next[t] \in Symbols /\ Lookup(h, t) = t
    BY DEF Served, Entered
  <2>2. First(h, t) \in Nat /\ Second(h, t) \in Nat
    BY <2>1 DEF First, Second, Storage
  <2>3. First(h, t) # u1 \/ Second(h, t) # u2
    BY <1>1, <1>15, <2>1 DEF Lookup, u1, u2
  <2>4. digram_get(k, First(h, t), Second(h, t)) = t
    BY <1>14, <2>1, <2>2, <2>3 DEF Lookup
  <2> QED
    BY <1>11, <2>1, <2>3, <2>4 DEF Lookup, First, Second
<1>16. ASSUME NEW a \in Slots, NEW b \in Slots, k.table[a] = k.table[b], k.table[a] \in Symbols
       PROVE  a = b
  BY <1>11, <1>12, <1>16 DEF Served
<1>17. Served(k)
  BY <1>11, <1>13, <1>15, <1>16 DEF Served
<1>18. Lookup(k, s) = Null
  <2>1. ASSUME NEW j \in Slots, Matches(k, k.table[j], u1, u2) PROVE FALSE
    <3> DEFINE t == k.table[j]
    <3>1. t \in Symbols /\ k.value[t] = u1 /\ k.value[k.next[t]] = u2
      BY <1>2, <1>11, <2>1, MatchesLemma
    <3>2. t \in Entered(k)
      BY <3>1 DEF Entered
    <3>3. First(h, t) = u1 /\ Second(h, t) = u2
      BY <1>11, <3>1 DEF First, Second
    <3> QED
      BY <1>13, <1>15, <3>2, <3>3
  <2>2. digram_get(k, u1, u2) = Null
    BY <1>2, <1>11, <2>1, GetNothing
  <2> QED
    BY <1>11, <2>2 DEF Lookup, First, Second, u1, u2
<1> QED
  BY <1>13, <1>14, <1>17, <1>18 DEF k, u1, u2

\* Whatever the table holds, digram_put overwrites no digram, and changes nothing else than
\* one vacant slot (diagram_hash.c:185-203).
THEOREM PutOverwritesNothing ==
  ASSUME NEW h \in Storage, NEW s \in Symbols, h.next[s] \in Symbols
  PROVE  \/ digram_put(h, s) = h
         \/ \E i \in Vacant(h) : digram_put(h, s) = [h EXCEPT !.table[i] = s]
<1> DEFINE v1 == First(h, s)
           v2 == Second(h, s)
           from == Hash(v1, v2)
           ends == {j \in Slots : h.table[j] \in {Null, Tombstone} \/ (j < from /\ h.table[j] = s)}
           i == FirstProbe(v1, v2, ends)
<1>1. v1 \in Nat /\ v2 \in Nat
  BY DEF First, Second, Storage
<1>2. digram_put(h, s) = IF h.table[1] = s \/ i = Null \/ h.table[i] = s THEN h
                         ELSE [h EXCEPT !.table[i] = s]
  BY DEF digram_put, First, Second
<1>3. i = Null \/ i \in ends
  <2>1. ends \subseteq Slots
    OBVIOUS
  <2> HIDE DEF ends
  <2> QED
    BY <1>1, <2>1, FirstProbeLemma
<1>4. i \in ends => i \in Vacant(h) \/ h.table[i] = s
  BY DEF Vacant
<1> QED
  BY <1>2, <1>3, <1>4

-----------------------------------------------------------------------------
(* Symbols in a transmission.  (Zenon writes a number as so many            *)
(* successors of 0 and cannot be asked about these.)                        *)

Marks == {SOT, EOT, SOB, EOB, RD}

\* get_encoded writes one, two or three bytes, and its first byte tells which
\* (comdec.c:39-94, read at 225-275).
LEMMA EncodedForms ==
  ASSUME NEW v \in Nat, v <= 65535
  PROVE  /\ v < 128 => get_encoded(v) = <<v>>
         /\ v > 127 /\ v < 2048 => get_encoded(v) = <<192 + (v \div 64), 128 + (v % 64)>>
         /\ v > 2047 => get_encoded(v) = <<224 + (v \div 4096), 128 + ((v \div 64) % 64),
                                           128 + (v % 64)>>
  <1>1. ~(v > 65535) /\ v \div 1 = v
    BY SMT
  <1>2. ASSUME v < 128 PROVE ~(v > 2047) /\ ~(v > 127)
    BY <1>1, <1>2, SMT
  <1>3. ASSUME v < 2048 PROVE ~(v > 2047)
    BY <1>1, <1>3, SMT
  <1>4. ASSUME v < 128 PROVE get_encoded(v) = <<v>>
    BY <1>1, <1>2, <1>4, SMT DEF get_encoded, Continuation
  <1>5. ASSUME v > 127, v < 2048
        PROVE  get_encoded(v) = <<192 + (v \div 64), 128 + (v % 64)>>
    BY <1>1, <1>3, <1>5, SMT DEF get_encoded, Continuation
  <1>6. ASSUME v > 2047
        PROVE  get_encoded(v) = <<224 + (v \div 4096), 128 + ((v \div 64) % 64), 128 + (v % 64)>>
    BY <1>1, <1>6, SMT DEF get_encoded, Continuation
  <1> QED BY <1>4, <1>5, <1>6, SMT

\* The arithmetic of the forms of two and of three bytes.
LEMMA TwoBytes ==
  ASSUME NEW v \in Nat, v > 127, v < 2048
  PROVE  /\ 192 + (v \div 64) \in 194 .. 223
         /\ ((192 + (v \div 64)) % 32) * 64 + ((128 + (v % 64)) % 64) = v
  <1>1. v \div 64 \in 2 .. 31 /\ v % 64 \in 0 .. 63 /\ v = 64 * (v \div 64) + (v % 64)
    BY SMT
  <1>2. (192 + (v \div 64)) % 32 = v \div 64 /\ (128 + (v % 64)) % 64 = v % 64
    BY <1>1, SMT
  <1> QED BY <1>1, <1>2, SMT

\* The arithmetic of a symbol of three bytes.
LEMMA ThreeBytes ==
  ASSUME NEW v \in Nat, v > 2047, v <= 65535
  PROVE  /\ 224 + (v \div 4096) \in 224 .. 239
         /\ ((224 + (v \div 4096)) % 16) * 4096 + ((128 + ((v \div 64) % 64)) % 64) * 64
              + ((128 + (v % 64)) % 64) = v
  <1>1. /\ v \div 4096 \in 0 .. 15 /\ (v \div 64) % 64 \in 0 .. 63 /\ v % 64 \in 0 .. 63
        /\ v = (v \div 4096) * 4096 + ((v \div 64) % 64) * 64 + (v % 64)
    BY SMT
  <1>2. /\ (224 + (v \div 4096)) % 16 = v \div 4096
        /\ (128 + ((v \div 64) % 64)) % 64 = (v \div 64) % 64
        /\ (128 + (v % 64)) % 64 = v % 64
    BY <1>1, SMT
  <1> QED BY <1>1, <1>2, SMT

\* The reader stands where the writer has put v.
Written(v) ==
  /\ d.pos \in Nat
  /\ \A i \in DOMAIN get_encoded(v) : file[d.pos + (i - 1)] = get_encoded(v)[i]

\* What get_encoded writes, get_decoded reads: the same value, over as many bytes as were
\* written.  Where a symbol begins there is never a mark, and so the reader does not take
\* one for the other (comdec.c:39-94, 225-275).
THEOREM SymbolsReadAsWritten ==
  \A v \in Nat :
    v <= 65535 /\ Written(v) => /\ Curr \notin Marks
                                /\ get_decoded = [value |-> v, bytes |-> Len(get_encoded(v))]
  <1> SUFFICES ASSUME NEW v \in Nat, v <= 65535, Written(v)
               PROVE  /\ Curr \notin Marks
                      /\ get_decoded = [value |-> v, bytes |-> Len(get_encoded(v))]
    BY SMT
  <1>1. /\ d.pos + (1 - 1) = d.pos /\ d.pos + (2 - 1) = d.pos + 1
        /\ d.pos + (3 - 1) = d.pos + 2
    BY SMT DEF Written
  <1>2. CASE v < 128
    <2>1. get_encoded(v) = <<v>>
      BY <1>2, EncodedForms, SMT
    <2>2. Len(get_encoded(v)) = 1 /\ Curr = v
      BY <1>1, <2>1, SMT DEF Written, Curr
    <2>3. Curr \notin 224 .. 239 /\ Curr \notin 192 .. 223 /\ Curr \notin Marks
      BY <1>2, <2>2, SMT DEF Marks, SOT, EOT, SOB, EOB, RD
    <2> QED BY <2>2, <2>3, SMT DEF get_decoded
  <1>3. CASE v > 127 /\ v < 2048
    <2>1. get_encoded(v) = <<192 + (v \div 64), 128 + (v % 64)>>
      BY <1>3, EncodedForms, SMT
    <2>2. /\ Len(get_encoded(v)) = 2
          /\ Curr = 192 + (v \div 64) /\ file[d.pos + 1] = 128 + (v % 64)
      BY <1>1, <2>1, SMT DEF Written, Curr
    <2>3. /\ Curr \in 194 .. 223
          /\ (Curr % 32) * 64 + (file[d.pos + 1] % 64) = v
      BY <1>3, <2>2, TwoBytes, SMT
    <2>4. Curr \notin 224 .. 239 /\ Curr \in 192 .. 223 /\ Curr \notin Marks
      BY <2>3, SMT DEF Marks, SOT, EOT, SOB, EOB, RD
    <2> QED BY <2>2, <2>3, <2>4, SMT DEF get_decoded
  <1>4. CASE v > 2047
    <2>1. get_encoded(v)
            = <<224 + (v \div 4096), 128 + ((v \div 64) % 64), 128 + (v % 64)>>
      BY <1>4, EncodedForms, SMT
    <2>2. /\ Len(get_encoded(v)) = 3
          /\ Curr = 224 + (v \div 4096) /\ file[d.pos + 1] = 128 + ((v \div 64) % 64)
          /\ file[d.pos + 2] = 128 + (v % 64)
      BY <1>1, <2>1, SMT DEF Written, Curr
    <2>3. /\ Curr \in 224 .. 239
          /\ (Curr % 16) * 4096 + (file[d.pos + 1] % 64) * 64 + (file[d.pos + 2] % 64) = v
      BY <1>4, <2>2, ThreeBytes, SMT
    <2>4. Curr \notin Marks
      BY <2>3, SMT DEF Marks, SOT, EOT, SOB, EOB, RD
    <2> QED BY <2>2, <2>3, <2>4, SMT DEF get_decoded
  <1> QED BY <1>2, <1>3, <1>4, SMT

-----------------------------------------------------------------------------
(* The grammar in the symbol storage.  R are the heads of the rules and O   *)
(* the symbols on right-hand sides; own gives the rule in whose list a      *)
(* symbol is.  Each symbol stands for one stretch of the input, from a to z,*)
(* and each rule for the stretch that its list covers, from z of its head   *)
(* to a of its head: so every symbol ends where the next one begins.        *)

Linked(h, R, O, own) ==
  /\ R \subseteq Symbols /\ O \subseteq Symbols /\ R \cap O = {}
  /\ own \in [Symbols -> Symbols] /\ \A r \in R : own[r] = r
  /\ \A x \in R \cup O : /\ own[x] \in R /\ h.next[x] \in R \cup O /\ h.prev[x] \in R \cup O
                         /\ own[h.next[x]] = own[x]
                         /\ h.prev[h.next[x]] = x /\ h.next[h.prev[x]] = x

Stretched(h, in, R, O, own, a, z) ==
  /\ a \in [Symbols -> Int] /\ z \in [Symbols -> Int]
  /\ \A x \in R \cup O : z[x] = a[h.next[x]]
  /\ \A r \in R : 0 <= z[r] /\ z[r] <= a[r] /\ a[r] <= Len(in)
  /\ \A s \in O : a[s] < z[s] /\ z[own[s]] <= a[s] /\ z[s] <= a[own[s]]

SameText(in, i, j, n) == \A k \in 1 .. n : in[i + k] = in[j + k]

Letter(h, in, a, z, s) ==
  h.rule[s] = Null /\ h.value[s] < FirstNonterminal /\ z[s] = a[s] + 1 /\ in[z[s]] = h.value[s]

Instance(h, in, R, a, z, s) ==
  /\ h.rule[s] \in R \ {h.main} /\ h.value[s] = h.value[h.rule[s]]
  /\ z[s] - a[s] = a[h.rule[s]] - z[h.rule[s]]
  /\ SameText(in, a[s], z[h.rule[s]], z[s] - a[s])

Named(h, in, R, O, a, z) ==
  /\ h.main \in R
  /\ \A r \in R : h.rule[r] = r /\ h.value[r] >= FirstNonterminal /\ h.value[r] < h.nextvalue
  /\ \A q, r \in R : h.value[q] = h.value[r] => q = r
  /\ \A s \in O : Letter(h, in, a, z, s) \/ Instance(h, in, R, a, z, s)

\* The rules in the order in which they were made, the main rule first.
Ringed(h, R) ==
  \A r \in R : /\ h.nextr[r] \in R /\ h.prevr[r] \in R
               /\ h.prevr[h.nextr[r]] = r /\ h.nextr[h.prevr[r]] = r
               /\ h.nextr[r] = h.main \/ h.value[h.nextr[r]] > h.value[r]

Uses(h, O, r) == {s \in O : h.rule[s] = r}
Counted(h, R, O) == \A r \in R : h.refcnt[r] = Cardinality(Uses(h, O, r))

\* The symbols that wait for reuse, n of them, one above the other.
Waiting(h, R, O) == (0 .. h.num - 1) \ (R \cup O)
Spared(h, R, O, rank, n) ==
  LET P == Waiting(h, R, O) IN
  /\ h.num \in 0 .. MaxSymbols /\ R \cup O \subseteq 0 .. h.num - 1
  /\ n \in Nat /\ rank \in [Symbols -> Int]
  /\ \A x \in P : rank[x] \in 1 .. n
  /\ \A x, y \in P : rank[x] = rank[y] => x = y
  /\ n = 0 => h.recycled = Null
  /\ n > 0 => h.recycled \in P /\ rank[h.recycled] = n
  /\ \A x \in P : IF rank[x] = 1 THEN h.next[x] = Null
                  ELSE h.next[x] \in P /\ rank[h.next[x]] = rank[x] - 1

\* All rules but those in E have two symbols or more.
Bodied(h, R, O, E) == \A r \in R \ E : h.next[r] \in O /\ h.next[h.next[r]] \in O

Sound(h, in, E, R, O, own, a, z, rank, n) ==
  /\ h \in Storage /\ h.fault = "none" /\ in \in Seq(Letters)
  /\ Linked(h, R, O, own) /\ Stretched(h, in, R, O, own, a, z)
  /\ Named(h, in, R, O, a, z) /\ Ringed(h, R) /\ Counted(h, R, O)
  /\ Spared(h, R, O, rank, n) /\ Bodied(h, R, O, E)

\* The table holds digrams of the grammar.
Tabled(h, O) == Served(h) /\ \A s \in Entered(h) : s \in O /\ h.next[s] \in O

-----------------------------------------------------------------------------
(* The table.                                                              *)

\* Lookups depend on the slots and the values of the digrams in them only.
LEMMA ServedSame ==
  ASSUME NEW h \in Storage, NEW k \in Storage, Served(h), k.table = h.table,
         \A s \in Entered(h) : /\ k.value[s] = h.value[s] /\ k.next[s] \in Symbols
                               /\ k.value[k.next[s]] = h.value[h.next[s]]
  PROVE  /\ Served(k) /\ Entered(k) = Entered(h)
         /\ \A v1, v2 \in Nat : digram_get(k, v1, v2) = digram_get(h, v1, v2)
<1>1. Entered(k) = Entered(h)
  BY DEF Entered
<1>2. ASSUME NEW v1 \in Nat, NEW v2 \in Nat PROVE digram_get(k, v1, v2) = digram_get(h, v1, v2)
  <2>1. ASSUME NEW j \in Slots
        PROVE  Matches(k, k.table[j], v1, v2) <=> Matches(h, h.table[j], v1, v2)
    <3>1. CASE h.table[j] \in Symbols
      <4>1. h.table[j] \in Entered(h)
        BY <3>1 DEF Entered
      <4> QED BY <4>1 DEF Matches
    <3>2. CASE h.table[j] \notin Symbols
      BY <3>2, MatchesLemma
    <3> QED BY <3>1, <3>2
  <2>2. {j \in Slots : k.table[j] = Null \/ Matches(k, k.table[j], v1, v2)}
          = {j \in Slots : h.table[j] = Null \/ Matches(h, h.table[j], v1, v2)}
    BY <2>1
  <2> QED BY <2>2 DEF digram_get
<1>3. Served(k)
  <2>1. ASSUME NEW s \in Entered(k) PROVE Lookup(k, s) = s
    <3>1. s \in Entered(h) /\ Lookup(h, s) = s /\ s \in Symbols /\ h.next[s] \in Symbols
      BY <1>1 DEF Served, Entered
    <3>2. First(h, s) \in Nat /\ Second(h, s) \in Nat /\ First(k, s) = First(h, s)
          /\ Second(k, s) = Second(h, s)
      BY <3>1 DEF First, Second, Storage
    <3> QED BY <1>2, <3>1, <3>2 DEF Lookup
  <2> QED BY <1>1, <2>1 DEF Served
<1> QED BY <1>1, <1>2, <1>3

\* A digram that is not in the table can be deleted in vain.
LEMMA DeleteAny ==
  ASSUME NEW h \in Storage, Served(h), NEW s \in Symbols, h.next[s] \in Symbols
  PROVE  LET k == digram_delete(h, s) IN
         /\ k \in Storage /\ k = [h EXCEPT !.table = k.table]
         /\ Served(k) /\ Entered(k) = Entered(h) \ {s}
<1> DEFINE k == digram_delete(h, s)
           ends == {j \in Slots : h.table[j] \in {Null, s}}
           i == FirstProbe(h.value[s], h.value[h.next[s]], ends)
<1>1. k = IF i # Null /\ h.table[i] = s THEN [h EXCEPT !.table[i] = Tombstone] ELSE h
  BY DEF digram_delete
<1>2. i = Null \/ i \in Slots
  <2>1. h.value[s] \in Nat /\ h.value[h.next[s]] \in Nat /\ ends \subseteq Slots
    BY DEF Storage
  <2> HIDE DEF ends
  <2> QED BY <2>1, FirstProbeLemma, Probes
<1> HIDE DEF i
<1>3. k \in Storage /\ k = [h EXCEPT !.table = k.table]
  BY <1>1, <1>2 DEF Storage
<1>4. CASE s \in Entered(h)
  BY <1>3, <1>4, DeleteIsLost
<1>5. CASE s \notin Entered(h)
  <2>1. k = h
    BY <1>1, <1>2, <1>5 DEF Entered
  <2> QED BY <1>3, <1>5, <2>1
<1> QED BY <1>4, <1>5

\* What digram_put can do to a table without the digram.
LEMMA PutAny ==
  ASSUME NEW h \in Storage, Served(h), NEW s \in Symbols, h.next[s] \in Symbols,
         Lookup(h, s) = Null
  PROVE  LET k == digram_put(h, s) IN
         /\ k \in Storage /\ k = [h EXCEPT !.table = k.table]
         /\ Served(k) /\ Entered(h) \subseteq Entered(k) /\ Entered(k) \subseteq Entered(h) \cup {s}
<1> DEFINE k == digram_put(h, s)
<1>1. k = h \/ \E i \in Vacant(h) : k = [h EXCEPT !.table[i] = s]
  BY PutOverwritesNothing
<1>2. Vacant(h) \subseteq Slots
  BY DEF Vacant
<1> HIDE DEF k
<1>3. k \in Storage /\ k = [h EXCEPT !.table = k.table]
  BY <1>1, <1>2 DEF Storage
<1>4. CASE Vacant(h) = {}
  BY <1>1, <1>3, <1>4 DEF k
<1>5. CASE Vacant(h) # {}
  BY <1>3, <1>5, PutIsFound DEF k
<1> QED BY <1>4, <1>5 DEF k

-----------------------------------------------------------------------------
(* What symbols stand for.                                                 *)

NoSquare(in) ==
  \A i \in Nat, n \in Nat \ {0} : i + n + n <= Len(in) => ~ SameText(in, i, i + n, n)

\* A symbol stands for a part of the input, and for less than the rule it is in.
LEMMA Inside ==
  ASSUME NEW h, NEW in, NEW E, NEW R, NEW O, NEW own, NEW a, NEW z, NEW rank, NEW n,
         Sound(h, in, E, R, O, own, a, z, rank, n), NEW s \in O
  PROVE  /\ a[s] \in Int /\ z[s] \in Int /\ 0 <= a[s] /\ a[s] < z[s] /\ z[s] <= Len(in)
         /\ own[s] \in R /\ s \in Symbols /\ Len(in) \in Nat
         /\ own[s] \notin E => z[s] - a[s] < a[own[s]] - z[own[s]]
<1>1. /\ Linked(h, R, O, own) /\ Stretched(h, in, R, O, own, a, z) /\ Bodied(h, R, O, E)
      /\ in \in Seq(Letters)
  BY DEF Sound
<1>2. s \in Symbols /\ own[s] \in R /\ own[s] \in Symbols
  BY <1>1 DEF Linked
<1>3. /\ a[s] \in Int /\ z[s] \in Int /\ a[own[s]] \in Int /\ z[own[s]] \in Int
      /\ a[s] < z[s] /\ z[own[s]] <= a[s] /\ z[s] <= a[own[s]]
      /\ 0 <= z[own[s]] /\ a[own[s]] <= Len(in) /\ Len(in) \in Nat
  BY <1>1, <1>2 DEF Stretched
<1>4. ASSUME own[s] \notin E PROVE z[s] - a[s] < a[own[s]] - z[own[s]]
  <2> DEFINE r == own[s]
             f == h.next[r]
             f2 == h.next[f]
  <2>1. f \in O /\ f2 \in O /\ r \in R /\ own[r] = r
    BY <1>1, <1>2, <1>4 DEF Bodied, Linked
  <2>2. own[f] = r /\ own[f2] = r /\ f \in Symbols /\ f2 \in Symbols
    BY <1>1, <2>1 DEF Linked
  <2> HIDE DEF f, f2, r
  <2>3. z[r] <= a[f] /\ a[f] < z[f] /\ z[f] \in Int /\ a[f] \in Int /\ z[r] \in Int
    BY <1>1, <1>3, <2>1, <2>2 DEF Stretched, r
  <2>4. CASE s # f
    <3> DEFINE p == h.prev[s]
    <3>1. p \in O /\ h.next[p] = s /\ own[p] = r
      <4>1. p \in R \cup O /\ h.next[p] = s /\ own[p] \in R /\ own[h.next[p]] = own[p]
        BY <1>1 DEF Linked
      <4>2. p \in R => p = r
        BY <1>1, <4>1 DEF Linked, r
      <4> QED BY <2>4, <4>1, <4>2 DEF f, r
    <3>2. p \in Symbols /\ z[p] = a[s] /\ a[p] < z[p] /\ z[r] <= a[p]
      BY <1>1, <3>1 DEF Stretched, Linked
    <3>3. a[p] \in Int
      BY <1>1, <3>2 DEF Stretched
    <3> QED BY <1>3, <2>3, <3>2, <3>3 DEF r
  <2>5. CASE s = f
    <3>1. z[s] = a[f2] /\ a[f2] < z[f2] /\ z[f2] <= a[r] /\ z[f2] \in Int /\ a[r] \in Int
      BY <1>1, <1>2, <2>1, <2>2, <2>5 DEF Stretched, f2, r
    <3> QED BY <1>3, <3>1 DEF r
  <2> QED BY <2>4, <2>5
<1> QED BY <1>2, <1>3, <1>4

\* What a value says about the symbol.
LEMMA Values ==
  ASSUME NEW h, NEW in, NEW E, NEW R, NEW O, NEW own, NEW a, NEW z, NEW rank, NEW n,
         Sound(h, in, E, R, O, own, a, z, rank, n), NEW s \in O
  PROVE  /\ h.value[s] \in Nat /\ h.value[s] # h.value[h.main]
         /\ h.value[s] < FirstNonterminal => Letter(h, in, a, z, s)
         /\ h.value[s] >= FirstNonterminal => Instance(h, in, R, a, z, s)
         /\ \A r \in R : h.value[s] = h.value[r] <=> h.rule[s] = r /\ r # h.main
         /\ h.rule[s] # s
<1>1. h \in Storage /\ Named(h, in, R, O, a, z) /\ Linked(h, R, O, own)
  BY DEF Sound
<1>2. s \in Symbols /\ h.value[s] \in Nat /\ FirstNonterminal \in Nat /\ Null \notin R /\ s \notin R /\ s # Null
  <2>1. Null \notin Symbols
    BY SizesAssumption DEF Null, Symbols
  <2> QED BY <1>1, <2>1, LettersAssumption DEF Storage, Linked
<1>3. h.main \in R /\ \A r \in R : h.value[r] >= FirstNonterminal /\ h.value[r] \in Nat
  BY <1>1 DEF Named, Storage, Linked
<1>4. Letter(h, in, a, z, s) \/ Instance(h, in, R, a, z, s)
  BY <1>1 DEF Named
<1>5. Letter(h, in, a, z, s) => h.value[s] < FirstNonterminal /\ h.rule[s] = Null
  BY DEF Letter
<1>6. Instance(h, in, R, a, z, s) => h.rule[s] \in R \ {h.main} /\ h.value[s] = h.value[h.rule[s]]
  BY DEF Instance
<1>7. h.value[s] < FirstNonterminal \/ h.value[s] >= FirstNonterminal
  BY <1>2
<1>8. \A r \in R : ~ (h.value[r] < FirstNonterminal)
  BY <1>2, <1>3
<1>9. \A q, r \in R : h.value[q] = h.value[r] => q = r
  BY <1>1 DEF Named
<1>10. CASE Letter(h, in, a, z, s)
  <2>1. h.value[s] < FirstNonterminal /\ ~(h.value[s] >= FirstNonterminal) /\ h.rule[s] = Null
    BY <1>2, <1>5, <1>10
  <2>2. h.rule[s] # s /\ \A r \in R : h.value[s] # h.value[r] /\ h.rule[s] # r
    BY <1>2, <1>8, <2>1
  <2> QED BY <1>2, <1>3, <1>10, <2>1, <2>2
<1>11. CASE Instance(h, in, R, a, z, s)
  <2>1. h.rule[s] \in R /\ h.rule[s] # h.main /\ h.value[s] = h.value[h.rule[s]]
    BY <1>6, <1>11
  <2>2. h.value[s] >= FirstNonterminal /\ ~(h.value[s] < FirstNonterminal)
    BY <1>3, <1>8, <2>1
  <2>3. h.rule[s] # s /\ \A r \in R : h.value[s] = h.value[r] <=> h.rule[s] = r
    BY <1>2, <1>9, <2>1
  <2> QED BY <1>2, <1>3, <1>11, <2>1, <2>2, <2>3
<1> QED BY <1>4, <1>10, <1>11

\* Texts that are equal to a third are equal.
LEMMA TextTrans ==
  ASSUME NEW in, NEW i, NEW j, NEW l, NEW n, SameText(in, i, l, n), SameText(in, j, l, n)
  PROVE  SameText(in, i, j, n)
BY DEF SameText

\* Symbols of the same value stand for the same text.
LEMMA SameValue ==
  ASSUME NEW h, NEW in, NEW E, NEW R, NEW O, NEW own, NEW a, NEW z, NEW rank, NEW n,
         Sound(h, in, E, R, O, own, a, z, rank, n), NEW s \in O, NEW t \in O,
         h.value[s] = h.value[t]
  PROVE  /\ h.rule[s] = h.rule[t] /\ z[s] - a[s] = z[t] - a[t]
         /\ SameText(in, a[s], a[t], z[s] - a[s])
<1>1. /\ a[s] \in Int /\ z[s] \in Int /\ a[t] \in Int /\ z[t] \in Int
      /\ h.value[s] \in Nat /\ FirstNonterminal \in Nat
  BY Inside, Values, LettersAssumption
<1>2. CASE h.value[s] < FirstNonterminal
  <2>1. Letter(h, in, a, z, s) /\ Letter(h, in, a, z, t)
    BY <1>2, Values
  <2>2. h.rule[s] = h.rule[t] /\ z[s] = a[s] + 1 /\ z[t] = a[t] + 1 /\ in[z[s]] = in[z[t]]
    BY <2>1 DEF Letter
  <2>3. z[s] - a[s] = 1
    BY <1>1, <2>2
  <2>4. SameText(in, a[s], a[t], 1)
    BY <1>1, <2>2 DEF SameText
  <2> QED BY <1>1, <2>2, <2>3, <2>4
<1>3. CASE h.value[s] >= FirstNonterminal
  <2>1. Instance(h, in, R, a, z, s) /\ Instance(h, in, R, a, z, t)
    BY <1>3, Values
  <2>2. h.rule[s] \in R /\ h.rule[t] \in R /\ h.rule[s] # h.main
    BY <2>1 DEF Instance
  <2>3. h.rule[s] = h.rule[t]
    <3>1. h.value[s] = h.value[h.rule[s]]
      BY <2>1 DEF Instance
    <3>2. h.value[t] = h.value[h.rule[s]]
      BY <3>1
    <3> QED BY <2>2, <3>2, Values
  <2>4. z[s] - a[s] = z[t] - a[t]
    BY <2>1, <2>3 DEF Instance
  <2> QED BY <2>1, <2>3, <2>4, TextTrans DEF Instance
<1> QED BY <1>1, <1>2, <1>3

\* No two symbols in a row have the same value, and none has that of its rule.
LEMMA NoTwins ==
  ASSUME NEW h, NEW in, NEW E, NEW R, NEW O, NEW own, NEW a, NEW z, NEW rank, NEW n,
         Sound(h, in, E, R, O, own, a, z, rank, n), NoSquare(in),
         NEW s \in O, h.next[s] \in O
  PROVE  h.value[s] # h.value[h.next[s]]
<1> SUFFICES ASSUME h.value[s] = h.value[h.next[s]] PROVE FALSE
  OBVIOUS
<1> DEFINE t == h.next[s]
           l == z[s] - a[s]
<1>1. l = z[t] - a[t] /\ SameText(in, a[s], a[t], l)
  BY SameValue
<1>2. z[s] = a[t]
  BY DEF Sound, Stretched
<1>3. /\ a[s] \in Int /\ z[s] \in Int /\ a[t] \in Int /\ z[t] \in Int /\ 0 <= a[s] /\ a[s] < z[s]
      /\ z[t] <= Len(in) /\ Len(in) \in Nat
  BY Inside
<1> HIDE DEF t
<1>4. a[s] \in Nat /\ l \in Nat \ {0} /\ a[s] + l = a[t] /\ a[s] + l + l = z[t]
  BY <1>1, <1>2, <1>3
<1> QED BY <1>1, <1>3, <1>4 DEF NoSquare

\* No rule uses itself.
LEMMA NoSelf ==
  ASSUME NEW h, NEW in, NEW E, NEW R, NEW O, NEW own, NEW a, NEW z, NEW rank, NEW n,
         Sound(h, in, E, R, O, own, a, z, rank, n), NEW s \in O,
         \A q \in E : q # h.main => Uses(h, O, q) = {}
  PROVE  h.value[s] # h.value[own[s]] /\ h.rule[s] # own[s]
<1>1. own[s] \in R /\ a[s] \in Int /\ z[s] \in Int
  BY Inside
<1> SUFFICES ASSUME h.rule[s] = own[s], own[s] # h.main PROVE FALSE
  <2>1. h.rule[s] # h.main
    <3>1. h.main \in R
      BY DEF Sound, Named
    <3>2. h.value[s] = h.value[h.main] <=> FALSE
      BY Values
    <3>3. Letter(h, in, a, z, s) \/ Instance(h, in, R, a, z, s)
      BY DEF Sound, Named
    <3>4. Null \notin R
      BY SizesAssumption DEF Null, Symbols, Sound, Linked
    <3> QED BY <3>1, <3>3, <3>4 DEF Letter, Instance
  <2> QED BY <1>1, <2>1, Values
<1>2. own[s] \notin E
  BY DEF Uses
<1>3. Instance(h, in, R, a, z, s)
  BY <1>1, Values DEF Sound, Named
<1>4. z[s] - a[s] = a[own[s]] - z[own[s]]
  BY <1>3 DEF Instance
<1>5. a[own[s]] \in Int /\ z[own[s]] \in Int
  BY <1>1 DEF Sound, Stretched, Linked
<1> QED BY <1>1, <1>2, <1>4, <1>5, Inside

-----------------------------------------------------------------------------
(* The storage.                                                            *)

\* The symbol that new_symbol hands out.
Next0(h) == IF h.recycled # Null THEN h.recycled ELSE h.num

\* The null pointer is not a symbol, and there are finitely many symbols.
LEMMA NullApart == Null \notin Symbols /\ Symbols \subseteq Nat /\ IsFiniteSet(Symbols)
<1>1. MaxSymbols \in Nat
  BY SizesAssumption
<1>2. IsFiniteSet(Symbols)
  BY <1>1, FS_Interval DEF Symbols
<1> QED BY <1>1, <1>2 DEF Null, Symbols

\* Taking a symbol for use keeps account of those that wait.
LEMMA Popped ==
  ASSUME NEW h, NEW R, NEW O, NEW rank, NEW n, Spared(h, R, O, rank, n), h \in Storage,
         Next0(h) \in Symbols
  PROVE  /\ Next0(h) \notin R \cup O
         /\ \A k, R2, O2 :
              /\ R2 \cup O2 = R \cup O \cup {Next0(h)}
              /\ k.num = (IF h.recycled # Null THEN h.num ELSE h.num + 1)
              /\ k.recycled = (IF h.recycled # Null THEN h.next[h.recycled] ELSE Null)
              /\ \A y \in Waiting(h, R, O) \ {Next0(h)} : k.next[y] = h.next[y]
              => \E m : Spared(k, R2, O2, rank, m)
<1> DEFINE x == Next0(h)
           P == Waiting(h, R, O)
<1>1. /\ h.num \in 0 .. MaxSymbols /\ R \cup O \subseteq 0 .. h.num - 1
      /\ n \in Nat /\ rank \in [Symbols -> Int]
      /\ \A y \in P : rank[y] \in 1 .. n
      /\ \A y, u \in P : rank[y] = rank[u] => y = u
      /\ n = 0 => h.recycled = Null
      /\ n > 0 => h.recycled \in P /\ rank[h.recycled] = n
      /\ \A y \in P : IF rank[y] = 1 THEN h.next[y] = Null
                      ELSE h.next[y] \in P /\ rank[h.next[y]] = rank[y] - 1
  BY DEF Spared
<1>2. MaxSymbols \in Nat /\ Symbols = 0 .. MaxSymbols - 1 /\ h.num \in Nat /\ P \subseteq 0 .. h.num - 1
  BY <1>1, SizesAssumption DEF Symbols, Waiting
<1>3. Null \notin P
  BY <1>2 DEF Null
<1>4. CASE h.recycled # Null
  <2>1. x = h.recycled /\ n > 0 /\ x \in P /\ rank[x] = n
    BY <1>1, <1>4 DEF Next0
  <2>2. x \notin R \cup O
    BY <2>1 DEF Waiting
  <2>3. ASSUME NEW k, NEW R2, NEW O2, R2 \cup O2 = R \cup O \cup {x}, k.num = h.num,
               k.recycled = h.next[x], \A y \in P \ {x} : k.next[y] = h.next[y]
        PROVE  Spared(k, R2, O2, rank, n - 1)
    <3>1. Waiting(k, R2, O2) = P \ {x}
      BY <2>3 DEF Waiting
    <3> DEFINE Q == P \ {x}
    <3>2. n - 1 \in Nat /\ \A y \in Q : rank[y] \in 1 .. n - 1
      BY <1>1, <2>1
    <3>3. \A y \in Q : IF rank[y] = 1 THEN k.next[y] = Null
                       ELSE k.next[y] \in Q /\ rank[k.next[y]] = rank[y] - 1
      <4> SUFFICES ASSUME NEW y \in Q
                   PROVE IF rank[y] = 1 THEN k.next[y] = Null
                         ELSE k.next[y] \in Q /\ rank[k.next[y]] = rank[y] - 1
        OBVIOUS
      <4>1. k.next[y] = h.next[y] /\ rank[y] \in 1 .. n - 1
        BY <2>3, <3>2
      <4> QED BY <1>1, <2>1, <4>1
    <3>4. n - 1 = 0 => k.recycled = Null
      BY <1>1, <2>1, <2>3
    <3>5. n - 1 > 0 => k.recycled \in Q /\ rank[k.recycled] = n - 1
      BY <1>1, <2>1, <2>3
    <3>6. R2 \cup O2 \subseteq 0 .. k.num - 1
      BY <1>1, <1>2, <2>1, <2>3
    <3> QED BY <1>1, <2>3, <3>1, <3>2, <3>3, <3>4, <3>5, <3>6 DEF Spared
  <2> QED BY <1>4, <2>1, <2>2, <2>3
<1>5. CASE h.recycled = Null
  <2>1. x = h.num /\ n = 0 /\ P = {}
    <3>1. n = 0
      BY <1>1, <1>3, <1>5
    <3> QED BY <1>1, <1>5, <3>1 DEF Next0
  <2>2. x \notin R \cup O
    BY <1>1, <1>2, <2>1
  <2>3. ASSUME NEW k, NEW R2, NEW O2, R2 \cup O2 = R \cup O \cup {x}, k.num = h.num + 1,
               k.recycled = Null
        PROVE  Spared(k, R2, O2, rank, 0)
    <3>1. x \in Symbols
      OBVIOUS
    <3>2. k.num \in 0 .. MaxSymbols /\ R2 \cup O2 \subseteq 0 .. k.num - 1
      BY <1>1, <1>2, <2>1, <2>3, <3>1, SMTT(20)
    <3>3. Waiting(k, R2, O2) = {}
      <4>1. 0 .. k.num - 1 = (0 .. h.num - 1) \cup {h.num}
        BY <1>2, <2>3
      <4> QED BY <2>1, <2>3, <4>1 DEF Waiting
    <3> QED BY <1>1, <2>3, <3>2, <3>3 DEF Spared
  <2> QED BY <1>5, <2>1, <2>2, <2>3
<1> QED BY <1>4, <1>5

\* Recycling a symbol keeps account of those that wait.
LEMMA Pushed ==
  ASSUME NEW h, NEW R, NEW O, NEW rank, NEW n, Spared(h, R, O, rank, n), NEW s \in R \cup O,
         R \cup O \subseteq Symbols,
         NEW k, NEW R2, NEW O2, R2 \cup O2 = (R \cup O) \ {s}, k.num = h.num, k.recycled = s,
         k.next[s] = h.recycled, \A y \in Waiting(h, R, O) : k.next[y] = h.next[y]
  PROVE  \E rank2, m : Spared(k, R2, O2, rank2, m)
<1> DEFINE P == Waiting(h, R, O)
           rank2 == [rank EXCEPT ![s] = n + 1]
<1>1. /\ h.num \in 0 .. MaxSymbols /\ R \cup O \subseteq 0 .. h.num - 1
      /\ n \in Nat /\ rank \in [Symbols -> Int]
      /\ \A y \in P : rank[y] \in 1 .. n
      /\ \A y, u \in P : rank[y] = rank[u] => y = u
      /\ n = 0 => h.recycled = Null
      /\ n > 0 => h.recycled \in P /\ rank[h.recycled] = n
      /\ \A y \in P : IF rank[y] = 1 THEN h.next[y] = Null
                      ELSE h.next[y] \in P /\ rank[h.next[y]] = rank[y] - 1
  BY DEF Spared
<1>2. s \in Symbols /\ s \notin P /\ s # Null
  BY NullApart DEF Waiting
<1>3. P \subseteq Symbols
  BY <1>1, SizesAssumption DEF Waiting, Symbols
<1>4. Waiting(k, R2, O2) = P \cup {s}
  BY <1>1 DEF Waiting
<1>5. rank2 \in [Symbols -> Int] /\ rank2[s] = n + 1 /\ \A y \in P : rank2[y] = rank[y]
  BY <1>1, <1>2, <1>3
<1> DEFINE Q == P \cup {s}
<1> HIDE DEF P, rank2
<1>6. n + 1 \in Nat /\ n + 1 > 0 /\ \A y \in Q : rank2[y] \in 1 .. n + 1
  BY <1>1, <1>5
<1>7. \A y, u \in Q : rank2[y] = rank2[u] => y = u
  <2> SUFFICES ASSUME NEW y \in Q, NEW u \in Q, rank2[y] = rank2[u] PROVE y = u
    OBVIOUS
  <2>1. \A v \in P : rank2[v] \in 1 .. n /\ rank2[v] # n + 1
    BY <1>1, <1>5
  <2> QED BY <1>1, <1>5, <2>1
<1>8. \A y \in Q : IF rank2[y] = 1 THEN k.next[y] = Null
                   ELSE k.next[y] \in Q /\ rank2[k.next[y]] = rank2[y] - 1
  <2>1. CASE n = 0
    BY <1>1, <1>5, <1>6, <2>1 DEF P
  <2>2. CASE n > 0
    <3>1. rank2[s] # 1 /\ k.next[s] \in P /\ rank2[k.next[s]] = n
      BY <1>1, <1>5, <2>2
    <3>2. \A y \in P : k.next[y] = h.next[y]
      BY DEF P
    <3> QED BY <1>1, <1>5, <3>1, <3>2
  <2> QED BY <1>1, <2>1, <2>2
<1>9. R2 \cup O2 \subseteq 0 .. k.num - 1
  BY <1>1
<1>10. Spared(k, R2, O2, rank2, n + 1)
  BY <1>1, <1>4, <1>5, <1>6, <1>7, <1>8, <1>9 DEF Spared
<1> QED BY <1>10

\* Taking a symbol for use leaves the ranks of the others as they are.
LEMMA PoppedRest ==
  ASSUME NEW h, NEW R, NEW O, NEW rank, NEW n, Spared(h, R, O, rank, n), h \in Storage,
         Next0(h) \in Symbols, NEW k, NEW R2, NEW O2, R2 \cup O2 = R \cup O \cup {Next0(h)},
         k.num = (IF h.recycled # Null THEN h.num ELSE h.num + 1),
         k.recycled = (IF h.recycled # Null THEN h.next[h.recycled] ELSE Null),
         \A y \in Waiting(h, R, O) \ {Next0(h)} : k.next[y] = h.next[y]
  PROVE  \E m : Spared(k, R2, O2, rank, m)
BY Popped

\* What new_symbol writes (symbol.c:64-109).
Created(h, k, x, v, q) ==
  /\ k \in Storage /\ k.fault = "none" /\ k.new = x
  /\ k.value = [h.value EXCEPT ![x] = v] /\ k.rule = [h.rule EXCEPT ![x] = q]
  /\ k.next = [h.next EXCEPT ![x] = Null] /\ k.prev = [h.prev EXCEPT ![x] = Null]
  /\ k.nextr = [h.nextr EXCEPT ![x] = Null] /\ k.prevr = [h.prevr EXCEPT ![x] = Null]
  /\ \A y \in Symbols : k.refcnt[y] = IF y = q THEN h.refcnt[y] + 1
                                      ELSE IF y = x THEN 0 ELSE h.refcnt[y]
  /\ k.num = (IF h.recycled # Null THEN h.num ELSE h.num + 1)
  /\ k.recycled = (IF h.recycled # Null THEN h.next[h.recycled] ELSE Null)
  /\ k.nextvalue = h.nextvalue /\ k.main = h.main /\ k.table = h.table

\* What new_symbol does to the fields (symbol.c:64-109).
LEMMA NewSymbolFields ==
  ASSUME NEW h \in Storage, h.fault = "none", Next0(h) \in Symbols, NEW v \in Nat,
         NEW q \in Symbols \cup {Null}, q # Null => v >= FirstNonterminal, q # Next0(h)
  PROVE  Created(h, new_symbol(h, v, q), Next0(h), v, q)
<1> DEFINE x == Next0(h)
           isRule == v >= FirstNonterminal /\ q # Null
           rest == IF h.recycled # Null THEN h.next[h.recycled] ELSE Null
           m == IF h.recycled # Null THEN h.num ELSE h.num + 1
           zero == 0
           j == [h EXCEPT !.value[x] = v, !.refcnt[x] = zero, !.next[x] = Null, !.prev[x] = Null,
                          !.nextr[x] = Null, !.prevr[x] = Null, !.rule[x] = q, !.new = x,
                          !.recycled = rest, !.num = m]
           k == IF isRule THEN [j EXCEPT !.refcnt[q] = @ + 1] ELSE j
<1>1. new_symbol(h, v, q) = k
  <2>1. (IF isRule THEN q ELSE Null) = q
    OBVIOUS
  <2>2. (IF h.recycled # Null THEN h.next[x] ELSE Null) = rest
    BY DEF Next0
  <2> DEFINE ru == IF isRule THEN q ELSE Null
             nx == IF h.recycled # Null THEN h.next[x] ELSE Null
             i == [h EXCEPT !.value[x] = v, !.refcnt[x] = 0, !.next[x] = Null, !.prev[x] = Null,
                            !.nextr[x] = Null, !.prevr[x] = Null, !.rule[x] = ru, !.new = x,
                            !.recycled = nx, !.num = IF h.recycled # Null THEN @ ELSE @ + 1]
  <2>3. new_symbol(h, v, q) = IF x \notin Symbols THEN [h EXCEPT !.fault = "exhausted"]
                              ELSE IF isRule THEN [i EXCEPT !.refcnt[q] = @ + 1] ELSE i
    BY DEF new_symbol, Next0
  <2>4. ru = q /\ nx = rest
    BY <2>1, <2>2
  <2>5. i = j
    <3> HIDE DEF ru, nx, x, rest
    <3> QED BY <2>4
  <2> QED BY <2>3, <2>5
<1>2. (isRule <=> q # Null) /\ x \in Symbols
  OBVIOUS
<1>3. /\ rest \in Symbols \cup {Null} /\ m \in Nat /\ zero \in Nat
  BY DEF Storage
<1> HIDE DEF x, isRule, rest, m, zero
<1>b. j \in Storage
  BY <1>2, <1>3, ZenonT(40) DEF Storage
<1>4. /\ j.fault = "none" /\ j.new = x
      /\ j.value = [h.value EXCEPT ![x] = v] /\ j.rule = [h.rule EXCEPT ![x] = q]
      /\ j.next = [h.next EXCEPT ![x] = Null] /\ j.prev = [h.prev EXCEPT ![x] = Null]
      /\ j.nextr = [h.nextr EXCEPT ![x] = Null] /\ j.prevr = [h.prevr EXCEPT ![x] = Null]
      /\ j.refcnt = [h.refcnt EXCEPT ![x] = zero] /\ j.num = m /\ j.recycled = rest
      /\ j.nextvalue = h.nextvalue /\ j.main = h.main /\ j.table = h.table
  BY <1>2, <1>3 DEF Storage
<1> HIDE DEF j
<1>5. CASE q # Null
  <2>1. k = [j EXCEPT !.refcnt[q] = @ + 1] /\ q \in Symbols
    BY <1>2, <1>5
  <2>2. k \in Storage /\ k.refcnt = [j.refcnt EXCEPT ![q] = @ + 1]
    <3>1. j.refcnt \in [Symbols -> Nat] /\ j.refcnt[q] + 1 \in Nat
      BY <1>b, <2>1 DEF Storage
    <3> HIDE DEF k
    <3> QED BY <1>b, <2>1, <3>1 DEF Storage
  <2>3. /\ k.fault = j.fault /\ k.new = j.new /\ k.value = j.value /\ k.rule = j.rule
        /\ k.next = j.next /\ k.prev = j.prev /\ k.nextr = j.nextr /\ k.prevr = j.prevr
        /\ k.num = j.num /\ k.recycled = j.recycled
        /\ k.nextvalue = j.nextvalue /\ k.main = j.main /\ k.table = j.table
    BY <1>b, <2>1 DEF Storage
  <2> HIDE DEF k
  <2>4. \A y \in Symbols : k.refcnt[y] = IF y = q THEN h.refcnt[y] + 1
                                         ELSE IF y = x THEN 0 ELSE h.refcnt[y]
    <3>1. h.refcnt \in [Symbols -> Nat] /\ j.refcnt \in [Symbols -> Nat] /\ q # x
      BY <1>b DEF Storage, x
    <3> QED BY <1>4, <2>1, <2>2, <3>1 DEF zero
  <2> QED BY <1>1, <1>4, <2>2, <2>3, <2>4 DEF Created, x, k, m, rest, zero
<1>6. CASE q = Null
  <2>1. k = j /\ h.refcnt \in [Symbols -> Nat] /\ q \notin Symbols
    BY <1>2, <1>6, NullApart DEF Storage
  <2>2. \A y \in Symbols : j.refcnt[y] = IF y = q THEN h.refcnt[y] + 1
                                         ELSE IF y = x THEN 0 ELSE h.refcnt[y]
    BY <1>4, <2>1 DEF zero
  <2> HIDE DEF k
  <2> QED BY <1>1, <1>b, <1>4, <2>1, <2>2 DEF Created, x, k, m, rest, zero
<1> QED BY <1>5, <1>6

-----------------------------------------------------------------------------
(* Joining symbols.                                                        *)

Triple(h, s) ==
  /\ Null \notin {h.prev[s], h.next[s]}
  /\ h.value[s] = h.value[h.prev[s]] /\ h.value[s] = h.value[h.next[s]]

\* Joining a symbol that has no next one yet deletes no digram (sequitur.c:30-64).
LEMMA JoinFresh ==
  ASSUME NEW h, NEW s, NEW t, h.next[s] = Null
  PROVE  join_symbols(h, s, t) = [h EXCEPT !.next[s] = t, !.prev[t] = s]
BY DEF join_symbols

\* Two symbols are joined and the digram of the first one goes out of the table.
Joined(h, k, s, t) ==
  /\ k \in Storage /\ Served(k) /\ Entered(k) = Entered(h) \ {s}
  /\ k.next = [h.next EXCEPT ![s] = t] /\ k.prev = [h.prev EXCEPT ![t] = s]
  /\ k.value = h.value /\ k.refcnt = h.refcnt /\ k.rule = h.rule
  /\ k.nextr = h.nextr /\ k.prevr = h.prevr /\ k.new = h.new /\ k.num = h.num
  /\ k.recycled = h.recycled /\ k.nextvalue = h.nextvalue /\ k.main = h.main /\ k.fault = h.fault

\* Joining two symbols deletes the digram at the first from the table (sequitur.c:30-64).
LEMMA JoinCut ==
  ASSUME NEW h \in Storage, Served(h), NEW s \in Symbols, NEW t \in Symbols,
         h.next[s] \in Symbols, ~ Triple(h, s), ~ Triple(h, t)
  PROVE  Joined(h, join_symbols(h, s, t), s, t)
<1> DEFINE cut == digram_delete(h, s)
           k == [cut EXCEPT !.next[s] = t, !.prev[t] = s]
<1>1. cut \in Storage /\ cut = [h EXCEPT !.table = cut.table] /\ Served(cut) /\ Entered(cut) = Entered(h) \ {s}
  BY DeleteAny
<1> HIDE DEF cut
<1>2. /\ cut.next = h.next /\ cut.prev = h.prev /\ cut.value = h.value /\ cut.refcnt = h.refcnt
      /\ cut.rule = h.rule /\ cut.nextr = h.nextr /\ cut.prevr = h.prevr /\ cut.new = h.new
      /\ cut.num = h.num /\ cut.recycled = h.recycled /\ cut.nextvalue = h.nextvalue
      /\ cut.main = h.main /\ cut.fault = h.fault
  BY <1>1 DEF Storage
<1>3. ~ Triple(cut, s) /\ ~ Triple(cut, t)
  BY <1>2 DEF Triple
<1>4. join_symbols(h, s, t) = k
  <2>1. PutBack(cut, t) = cut
    BY <1>3 DEF PutBack, Triple
  <2>2. PutBack(cut, s) = cut
    BY <1>3 DEF PutBack, Triple
  <2>3. h.next[s] # Null
    BY NullApart
  <2> QED BY <2>1, <2>2, <2>3 DEF join_symbols, cut
<1>5. /\ k \in Storage /\ k.table = cut.table
      /\ k.next = [h.next EXCEPT ![s] = t] /\ k.prev = [h.prev EXCEPT ![t] = s]
      /\ k.value = h.value /\ k.refcnt = h.refcnt /\ k.rule = h.rule
      /\ k.nextr = h.nextr /\ k.prevr = h.prevr /\ k.new = h.new /\ k.num = h.num
      /\ k.recycled = h.recycled /\ k.nextvalue = h.nextvalue /\ k.main = h.main /\ k.fault = h.fault
  BY <1>1, <1>2 DEF Storage
<1> HIDE DEF k
<1>6. ASSUME NEW y \in Entered(cut)
      PROVE  k.value[y] = cut.value[y] /\ k.next[y] \in Symbols
             /\ k.value[k.next[y]] = cut.value[cut.next[y]]
  <2>1. y # s /\ y \in Symbols /\ cut.next[y] \in Symbols
    BY <1>1 DEF Served, Entered
  <2>2. k.next[y] = h.next[y]
    BY <1>5, <2>1
  <2> QED BY <1>2, <1>5, <2>1, <2>2
<1>7. Served(k) /\ Entered(k) = Entered(cut)
  BY <1>1, <1>5, <1>6, ServedSame
<1> QED BY <1>1, <1>4, <1>5, <1>7 DEF Joined

-----------------------------------------------------------------------------
(* A new symbol at the end of a rule.                                      *)

Appended(h, k, x, r, v, q) ==
  /\ k \in Storage /\ Served(k) /\ Entered(k) = Entered(h) /\ k.fault = "none"
  /\ k.next = [h.next EXCEPT ![x] = r, ![h.prev[r]] = x]
  /\ k.prev = [h.prev EXCEPT ![x] = h.prev[r], ![r] = x]
  /\ k.value = [h.value EXCEPT ![x] = v] /\ k.rule = [h.rule EXCEPT ![x] = q]
  /\ k.nextr = [h.nextr EXCEPT ![x] = Null] /\ k.prevr = [h.prevr EXCEPT ![x] = Null]
  /\ \A y \in Symbols : k.refcnt[y] = IF y = q THEN h.refcnt[y] + 1
                                      ELSE IF y = x THEN 0 ELSE h.refcnt[y]
  /\ k.num = (IF h.recycled # Null THEN h.num ELSE h.num + 1)
  /\ k.recycled = (IF h.recycled # Null THEN h.next[h.recycled] ELSE Null)
  /\ k.nextvalue = h.nextvalue /\ k.main = h.main

\* insert_after(rule->prev, new_symbol(v, q)), as sequitur.c:231-243 and comdec.c have it.
LEMMA AppendFields ==
  ASSUME NEW h \in Storage, h.fault = "none", NEW R, NEW O, NEW own,
         Linked(h, R, O, own), Tabled(h, O), NEW r \in R,
         Next0(h) \in Symbols, Next0(h) \notin R \cup O,
         NEW v \in Nat, v # h.value[r], h.prev[r] # r => h.value[h.prev[r]] # h.value[r],
         NEW q \in Symbols \cup {Null}, q # Null => v >= FirstNonterminal, q # Next0(h)
  PROVE  Appended(h, InsertNew(new_symbol(h, v, q), h.prev[r]), Next0(h), r, v, q)
<1> DEFINE x == Next0(h)
           f == new_symbol(h, v, q)
           l == h.prev[r]
           e == join_symbols(f, x, r)
           k == join_symbols(e, l, x)
<1>1. Created(h, f, x, v, q)
  BY NewSymbolFields
<1>2. /\ r \in Symbols /\ x \in Symbols /\ l \in Symbols /\ x # r /\ x # l /\ h.next[l] = r
      /\ l = r \/ l \in O
  <2>1. l \in R \cup O /\ h.next[l] = r /\ R \subseteq Symbols /\ O \subseteq Symbols
    BY DEF Linked
  <2>2. l \in R => l = r
    BY <2>1 DEF Linked
  <2> QED BY <2>1, <2>2
<1>3. InsertNew(f, l) = k
  <2>1. f.fault = "none" /\ f.new = x /\ f.next[l] = r
    BY <1>1, <1>2 DEF Created, Storage
  <2> HIDE DEF f, x, l
  <2> QED BY <2>1 DEF InsertNew, insert_after
<1> HIDE DEF x, f, l
<1>4. /\ f \in Storage /\ f.next[x] = Null /\ f.table = h.table /\ f.value = [h.value EXCEPT ![x] = v]
      /\ f.next = [h.next EXCEPT ![x] = Null] /\ f.prev = [h.prev EXCEPT ![x] = Null]
  BY <1>1, <1>2 DEF Created, Storage
<1>5. e = [f EXCEPT !.next[x] = r, !.prev[r] = x]
  <2>1. f.next[x] = Null
    BY <1>4
  <2> QED BY ONLY <2>1 DEF join_symbols, e
<1> HIDE DEF e
<1>6. /\ e \in Storage /\ e.table = h.table
      /\ e.next = [h.next EXCEPT ![x] = r] /\ e.prev = [h.prev EXCEPT ![x] = Null, ![r] = x]
      /\ e.value = f.value /\ e.refcnt = f.refcnt /\ e.rule = f.rule
      /\ e.nextr = f.nextr /\ e.prevr = f.prevr /\ e.new = f.new /\ e.num = f.num
      /\ e.recycled = f.recycled /\ e.nextvalue = f.nextvalue /\ e.main = f.main /\ e.fault = f.fault
  BY <1>2, <1>4, <1>5, ZenonT(40) DEF Storage
<1>7. Served(h) /\ \A y \in Entered(h) : y \in O /\ h.next[y] \in O
  BY DEF Tabled
<1>8. Served(e) /\ Entered(e) = Entered(h)
  <2>1. ASSUME NEW y \in Entered(h)
        PROVE  e.value[y] = h.value[y] /\ e.next[y] \in Symbols
               /\ e.value[e.next[y]] = h.value[h.next[y]]
    <3>1. y # x /\ h.next[y] # x /\ y \in Symbols /\ h.next[y] \in Symbols
      BY <1>7 DEF Linked, x
    <3>2. e.next[y] = h.next[y]
      BY <1>6, <3>1
    <3> QED BY <1>4, <1>6, <3>1, <3>2
  <2> QED BY <1>6, <1>7, <2>1, ServedSame
<1>9. e.next[l] = r /\ ~ Triple(e, l) /\ ~ Triple(e, x)
  <2>1. e.prev[x] = Null
    BY <1>2, <1>6 DEF Storage
  <2>2. e.next[l] = r /\ h.prev \in [Symbols -> Symbols \cup {Null}] /\ h.value \in [Symbols -> Nat]
    BY <1>2, <1>6 DEF Storage
  <2>3. CASE l = r
    <3>1. e.prev[l] = x /\ e.value[x] = v /\ e.value[l] = h.value[r]
      BY <1>2, <1>4, <1>6, <2>2, <2>3
    <3> QED BY <2>1, <2>2, <3>1 DEF Triple
  <2>4. CASE l # r
    <3>1. e.value[l] = h.value[l] /\ e.value[r] = h.value[r] /\ h.value[l] # h.value[r]
      BY <1>2, <1>4, <1>6, <2>2, <2>4 DEF l
    <3> QED BY <2>1, <2>2, <3>1 DEF Triple
  <2> QED BY <2>3, <2>4
<1>10. Joined(e, k, l, x)
  BY <1>2, <1>6, <1>8, <1>9, JoinCut
<1> HIDE DEF k
<1>11. l \notin Entered(h)
  BY <1>2, <1>7 DEF Linked
<1>12. k.next = [h.next EXCEPT ![x] = r, ![l] = x] /\ k.prev = [h.prev EXCEPT ![x] = l, ![r] = x]
  <2>1. k.next = [e.next EXCEPT ![l] = x] /\ k.prev = [e.prev EXCEPT ![x] = l]
    BY <1>10 DEF Joined
  <2>2. h.prev \in [Symbols -> Symbols \cup {Null}]
    BY DEF Storage
  <2> QED BY <1>2, <1>6, <2>1, <2>2
<1> QED BY <1>1, <1>3, <1>6, <1>8, <1>10, <1>11, <1>12 DEF Appended, Joined, Created, l, x, f

\* Storage is exhausted if no symbol is left (symbol.c:89).
LEMMA AppendFails ==
  ASSUME NEW h \in Storage, Next0(h) \notin Symbols, NEW v, NEW q, NEW p
  PROVE  /\ new_symbol(h, v, q) = [h EXCEPT !.fault = "exhausted"]
         /\ InsertNew(new_symbol(h, v, q), p) = [h EXCEPT !.fault = "exhausted"]
         /\ [h EXCEPT !.fault = "exhausted"] \in Storage
         /\ [h EXCEPT !.fault = "exhausted"].fault = "exhausted"
<1> DEFINE k == [h EXCEPT !.fault = "exhausted"]
<1>1. new_symbol(h, v, q) = k
  BY DEF new_symbol, Next0
<1>2. k \in Storage /\ k.fault = "exhausted"
  BY DEF Storage
<1> QED BY <1>1, <1>2 DEF InsertNew

\* v stands for the l bytes from i on.
Spells(h, in, R, a, z, v, q, i, l) ==
  \/ /\ q = Null /\ v \in Nat /\ v < FirstNonterminal /\ l = 1 /\ in[i + 1] = v
  \/ /\ q \in R \ {h.main} /\ v = h.value[q] /\ l = a[q] - z[q] /\ SameText(in, i, z[q], l)

\* The list of a rule that no symbol stands for can grow at its end.
LEMMA AppendSound ==
  ASSUME NEW h, NEW in, NEW E, NEW R, NEW O, NEW own, NEW a, NEW z, NEW rank, NEW n,
         Sound(h, in, E, R, O, own, a, z, rank, n), NEW r \in R \cap E, Uses(h, O, r) = {},
         NEW x \in Symbols \ (R \cup O), x = Next0(h), NEW v, NEW q, q # r, NEW l \in Nat \ {0},
         Spells(h, in, R, a, z, v, q, a[r], l), a[r] + l <= Len(in),
         NEW k, Appended(h, k, x, r, v, q)
  PROVE  \E m : Sound(k, in, E, R, O \cup {x}, [own EXCEPT ![x] = r],
                      [a EXCEPT ![x] = a[r], ![r] = a[r] + l], [z EXCEPT ![x] = a[r] + l], rank, m)
<1> DEFINE O2 == O \cup {x}
           own2 == [own EXCEPT ![x] = r]
           a2 == [a EXCEPT ![x] = a[r], ![r] = a[r] + l]
           z2 == [z EXCEPT ![x] = a[r] + l]
           p == h.prev[r]
<1>1. /\ h \in Storage /\ Linked(h, R, O, own) /\ Stretched(h, in, R, O, own, a, z)
      /\ Named(h, in, R, O, a, z) /\ Ringed(h, R) /\ Counted(h, R, O) /\ in \in Seq(Letters)
      /\ Spared(h, R, O, rank, n) /\ Bodied(h, R, O, E)
  BY DEF Sound
<1>2. /\ k \in Storage /\ k.fault = "none"
      /\ k.next = [h.next EXCEPT ![x] = r, ![p] = x]
      /\ k.prev = [h.prev EXCEPT ![x] = p, ![r] = x]
      /\ k.value = [h.value EXCEPT ![x] = v] /\ k.rule = [h.rule EXCEPT ![x] = q]
      /\ k.nextr = [h.nextr EXCEPT ![x] = Null] /\ k.prevr = [h.prevr EXCEPT ![x] = Null]
      /\ k.nextvalue = h.nextvalue /\ k.main = h.main
  BY DEF Appended
<1>3. /\ r \in R /\ r \in E /\ x \in Symbols /\ x \notin R /\ x \notin O /\ x # r
      /\ R \subseteq Symbols /\ O \subseteq Symbols /\ R \cap O = {}
  BY <1>1 DEF Linked
<1>4. p \in R \cup O /\ h.next[p] = r /\ p # x /\ p \in Symbols /\ own[p] = r
      /\ \A y \in R \cup O : y # p => h.next[y] # r
  <2>1. \A y \in R \cup O : h.next[y] = r => y = p
    BY <1>1 DEF Linked
  <2>2. p \in R \cup O /\ h.next[p] = r /\ own[p] = r
    BY <1>1, <1>3 DEF Linked
  <2> QED BY <1>3, <2>1, <2>2
<1>5. /\ own \in [Symbols -> Symbols] /\ a \in [Symbols -> Int] /\ z \in [Symbols -> Int]
      /\ h.next \in [Symbols -> Symbols \cup {Null}] /\ h.prev \in [Symbols -> Symbols \cup {Null}]
      /\ h.rule \in [Symbols -> Symbols \cup {Null}] /\ h.value \in [Symbols -> Nat]
  BY <1>1 DEF Storage, Linked, Stretched
<1> HIDE DEF p
<1>6. /\ own2 \in [Symbols -> Symbols] /\ own2[x] = r /\ \A y \in R \cup O : own2[y] = own[y]
      /\ a2 \in [Symbols -> Int] /\ a2[x] = a[r] /\ a2[r] = a[r] + l
      /\ \A y \in R \cup O : y # r => a2[y] = a[y]
      /\ z2 \in [Symbols -> Int] /\ z2[x] = a[r] + l /\ \A y \in R \cup O : z2[y] = z[y]
  BY <1>3, <1>5
<1>7. /\ k.next[x] = r /\ k.next[p] = x /\ \A y \in R \cup O : y # p => k.next[y] = h.next[y]
      /\ k.prev[x] = p /\ k.prev[r] = x /\ \A y \in R \cup O : y # r => k.prev[y] = h.prev[y]
      /\ k.value[x] = v /\ \A y \in R \cup O : k.value[y] = h.value[y]
      /\ k.rule[x] = q /\ \A y \in R \cup O : k.rule[y] = h.rule[y]
  BY <1>2, <1>3, <1>4, <1>5
<1> HIDE DEF own2, a2, z2
<1>8. Linked(k, R, O2, own2)
  <2>1. \A y \in R : own2[y] = y
    BY <1>1, <1>6 DEF Linked
  <2>2. ASSUME NEW y \in R \cup O2
        PROVE  /\ own2[y] \in R /\ k.next[y] \in R \cup O2 /\ k.prev[y] \in R \cup O2
               /\ own2[k.next[y]] = own2[y]
               /\ k.prev[k.next[y]] = y /\ k.next[k.prev[y]] = y
    <3>1. CASE y = x
      BY <1>1, <1>3, <1>4, <1>6, <1>7, <3>1 DEF Linked
    <3>2. CASE y # x
      <4>1. /\ y \in R \cup O /\ own[y] \in R /\ h.next[y] \in R \cup O /\ h.prev[y] \in R \cup O
            /\ own[h.next[y]] = own[y] /\ h.prev[h.next[y]] = y /\ h.next[h.prev[y]] = y
        BY <1>1, <3>2 DEF Linked
      <4>2. own2[y] \in R /\ k.next[y] \in R \cup O2 /\ k.prev[y] \in R \cup O2
        BY <1>4, <1>6, <1>7, <4>1
      <4>3. own2[k.next[y]] = own2[y] /\ k.prev[k.next[y]] = y
        <5>1. CASE y = p
          BY <1>4, <1>6, <1>7, <4>1, <5>1
        <5>2. CASE y # p
          <6>1. k.next[y] = h.next[y] /\ h.next[y] # r
            BY <1>4, <1>7, <4>1, <5>2
          <6> QED BY <1>6, <1>7, <4>1, <6>1
        <5> QED BY <5>1, <5>2
      <4>4. k.next[k.prev[y]] = y
        <5>1. CASE y = r
          BY <1>7, <5>1
        <5>2. CASE y # r
          <6>1. k.prev[y] = h.prev[y] /\ h.prev[y] # p
            BY <1>4, <1>7, <4>1, <5>2
          <6> QED BY <1>7, <4>1, <6>1
        <5> QED BY <5>1, <5>2
      <4> QED BY <4>2, <4>3, <4>4
    <3> QED BY <3>1, <3>2
  <2> QED BY <1>3, <1>6, <2>1, <2>2 DEF Linked
<1>9. Stretched(k, in, R, O2, own2, a2, z2)
  <2>0. a[r] \in Int /\ z[r] \in Int /\ 0 <= z[r] /\ z[r] <= a[r] /\ Len(in) \in Nat
        /\ z[p] = a[r] /\ own[r] = r
    BY <1>1, <1>3, <1>4, <1>5 DEF Stretched, Linked
  <2>1. ASSUME NEW y \in R \cup O2 PROVE z2[y] = a2[k.next[y]]
    <3>1. CASE y = x
      BY <1>6, <1>7, <3>1
    <3>2. CASE y = p
      BY <1>4, <1>6, <1>7, <2>0, <3>2
    <3>3. CASE y # x /\ y # p
      <4>1. z[y] = a[h.next[y]] /\ h.next[y] \in R \cup O /\ h.next[y] # r /\ y \in R \cup O
        BY <1>1, <1>4, <3>3 DEF Stretched, Linked
      <4> QED BY <1>6, <1>7, <3>3, <4>1
    <3> QED BY <3>1, <3>2, <3>3
  <2>2. ASSUME NEW y \in R PROVE 0 <= z2[y] /\ z2[y] <= a2[y] /\ a2[y] <= Len(in)
    <3>1. 0 <= z[y] /\ z[y] <= a[y] /\ a[y] <= Len(in)
      BY <1>1 DEF Stretched
    <3>2. CASE y = r
      BY <1>6, <2>0, <3>1, <3>2
    <3>3. CASE y # r
      BY <1>6, <3>1, <3>3
    <3> QED BY <3>2, <3>3
  <2>3. ASSUME NEW y \in O2 PROVE a2[y] < z2[y] /\ z2[own2[y]] <= a2[y] /\ z2[y] <= a2[own2[y]]
    <3>1. CASE y = x
      BY <1>3, <1>6, <2>0, <3>1
    <3>2. CASE y # x
      <4>1. /\ y \in O /\ y # r /\ own[y] \in R /\ a[y] < z[y] /\ z[own[y]] <= a[y]
            /\ z[y] <= a[own[y]] /\ y \in Symbols
        BY <1>1, <1>3, <3>2 DEF Stretched, Linked
      <4>2. a2[y] = a[y] /\ z2[y] = z[y] /\ own2[y] = own[y] /\ z2[own[y]] = z[own[y]]
        BY <1>3, <1>6, <4>1
      <4>3. CASE own[y] = r
        <5>1. z[y] \in Int
          BY <1>5, <4>1
        <5> QED BY <1>6, <2>0, <4>1, <4>2, <4>3, <5>1
      <4>4. CASE own[y] # r
        BY <1>6, <4>1, <4>2, <4>4
      <4> QED BY <4>3, <4>4
    <3> QED BY <3>1, <3>2
  <2> QED BY <1>6, <2>1, <2>2, <2>3 DEF Stretched
<1>10. Named(k, in, R, O2, a2, z2)
  <2>1. h.main \in R /\ k.main \in R
    BY <1>1, <1>2 DEF Named
  <2>2. /\ \A y \in R : k.rule[y] = y /\ k.value[y] >= FirstNonterminal /\ k.value[y] < k.nextvalue
        /\ \A y, u \in R : k.value[y] = k.value[u] => y = u
    BY <1>1, <1>2, <1>7 DEF Named
  <2>3. ASSUME NEW y \in O PROVE Letter(k, in, a2, z2, y) \/ Instance(k, in, R, a2, z2, y)
    <3>1. /\ y \in R \cup O /\ y # r /\ a2[y] = a[y] /\ z2[y] = z[y] /\ k.value[y] = h.value[y]
          /\ k.rule[y] = h.rule[y] /\ h.rule[y] # r
      BY <1>3, <1>6, <1>7 DEF Uses
    <3>2. CASE Letter(h, in, a, z, y)
      BY <3>1, <3>2 DEF Letter
    <3>3. CASE Instance(h, in, R, a, z, y)
      <4>1. /\ h.rule[y] \in R /\ h.rule[y] # h.main /\ h.value[y] = h.value[h.rule[y]]
            /\ z[y] - a[y] = a[h.rule[y]] - z[h.rule[y]]
            /\ SameText(in, a[y], z[h.rule[y]], z[y] - a[y])
        BY <3>3 DEF Instance
      <4>2. /\ a2[h.rule[y]] = a[h.rule[y]] /\ z2[h.rule[y]] = z[h.rule[y]]
            /\ k.value[h.rule[y]] = h.value[h.rule[y]]
        BY <1>6, <1>7, <3>1, <4>1
      <4> QED BY <1>2, <3>1, <4>1, <4>2 DEF Instance
    <3> QED BY <1>1, <3>2, <3>3 DEF Named
  <2>4. Letter(k, in, a2, z2, x) \/ Instance(k, in, R, a2, z2, x)
    <3>0. a[r] \in Int /\ z2[x] - a2[x] = l
      BY <1>3, <1>5, <1>6
    <3>1. CASE q = Null /\ v < FirstNonterminal /\ l = 1 /\ in[a[r] + 1] = v
      BY <1>6, <1>7, <3>0, <3>1 DEF Letter
    <3>2. CASE q \in R \ {h.main} /\ v = h.value[q] /\ l = a[q] - z[q] /\ SameText(in, a[r], z[q], l)
      <4>1. a2[q] = a[q] /\ z2[q] = z[q] /\ k.value[q] = h.value[q]
        BY <1>6, <1>7, <3>2
      <4> QED BY <1>2, <1>6, <1>7, <3>0, <3>2, <4>1 DEF Instance
    <3> QED BY <3>1, <3>2 DEF Spells
  <2> QED BY <2>1, <2>2, <2>3, <2>4 DEF Named
<1>11. Ringed(k, R)
  <2>1. \A y \in R : k.nextr[y] = h.nextr[y] /\ k.prevr[y] = h.prevr[y] /\ k.value[y] = h.value[y]
    BY <1>1, <1>2, <1>3, <1>7, ZenonT(40) DEF Storage
  <2> QED BY <1>1, <1>2, <2>1 DEF Ringed
<1>12. Counted(k, R, O2)
  <2> SUFFICES ASSUME NEW y \in R PROVE k.refcnt[y] = Cardinality(Uses(k, O2, y))
    BY DEF Counted
  <2>1. h.refcnt[y] = Cardinality(Uses(h, O, y)) /\ Uses(k, O, y) = Uses(h, O, y)
    BY <1>1, <1>7 DEF Counted, Uses
  <2>2. IsFiniteSet(Uses(h, O, y)) /\ x \notin Uses(h, O, y) /\ h.refcnt[y] \in Nat
    <3>1. Uses(h, O, y) \subseteq Symbols
      BY <1>3 DEF Uses
    <3> QED BY <1>1, <1>3, <3>1, NullApart, FS_Subset DEF Uses, Storage
  <2>3. CASE y = q
    <3>1. Uses(k, O2, y) = Uses(h, O, y) \cup {x}
      BY <1>7, <2>1, <2>3 DEF Uses
    <3>2. k.refcnt[y] = h.refcnt[y] + 1
      BY <1>3, <2>3 DEF Appended
    <3> QED BY <2>1, <2>2, <3>1, <3>2, FS_AddElement, ZenonT(40)
  <2>4. CASE y # q
    <3>1. Uses(k, O2, y) = Uses(h, O, y)
      BY <1>7, <2>1, <2>4 DEF Uses
    <3>2. k.refcnt[y] = h.refcnt[y]
      BY <1>3, <2>4 DEF Appended
    <3> QED BY <2>1, <3>1, <3>2
  <2> QED BY <2>3, <2>4
<1>13. \E m : Spared(k, R, O2, rank, m)
  <2>1. R \cup O2 = R \cup O \cup {Next0(h)} /\ Next0(h) \in Symbols
    BY <1>3
  <2>2. /\ k.num = (IF h.recycled # Null THEN h.num ELSE h.num + 1)
        /\ k.recycled = (IF h.recycled # Null THEN h.next[h.recycled] ELSE Null)
    BY DEF Appended
  <2>3. \A y \in Waiting(h, R, O) \ {Next0(h)} : k.next[y] = h.next[y]
    <3>1. \A y \in Waiting(h, R, O) : y \in Symbols /\ y # p
      <4>1. h.num \in 0 .. MaxSymbols /\ MaxSymbols \in Nat
        BY <1>1, SizesAssumption DEF Spared
      <4>2. \A y \in 0 .. h.num - 1 : y \in Symbols
        BY <4>1 DEF Symbols
      <4> QED BY <1>4, <4>2 DEF Waiting
    <3> QED BY <1>2, <1>5, <3>1
  <2> QED BY <1>1, <2>1, <2>2, <2>3, Popped
<1>14. Bodied(k, R, O2, E)
  <2> SUFFICES ASSUME NEW y \in R \ E PROVE k.next[y] \in O2 /\ k.next[k.next[y]] \in O2
    BY DEF Bodied
  <2>1. h.next[y] \in O /\ h.next[h.next[y]] \in O /\ y # r
    BY <1>1 DEF Bodied
  <2>2. y # p /\ h.next[y] # p
    BY <1>3, <1>4, <2>1
  <2> QED BY <1>7, <2>1, <2>2
<1> HIDE DEF O2
<1>15. PICK m : Spared(k, R, O2, rank, m)
  BY <1>13
<1>16. Sound(k, in, E, R, O2, own2, a2, z2, rank, m)
  BY <1>1, <1>2, <1>8, <1>9, <1>10, <1>11, <1>12, <1>14, <1>15 DEF Sound
<1> QED BY <1>16 DEF O2, own2, a2, z2

-----------------------------------------------------------------------------
(* A new rule.                                                             *)

RuleMade(h, k, x) ==
  /\ k \in Storage /\ k.fault = "none" /\ k.table = h.table /\ k.main = h.main
  /\ k.next = [h.next EXCEPT ![x] = x] /\ k.prev = [h.prev EXCEPT ![x] = x]
  /\ k.value = [h.value EXCEPT ![x] = h.nextvalue] /\ k.rule = [h.rule EXCEPT ![x] = x]
  /\ k.nextr = [h.nextr EXCEPT ![x] = h.main, ![h.prevr[h.main]] = x]
  /\ k.prevr = [h.prevr EXCEPT ![h.main] = x, ![x] = h.prevr[h.main]]
  /\ \A y \in Symbols : k.refcnt[y] = IF y = x THEN 0 ELSE h.refcnt[y]
  /\ k.nextvalue = h.nextvalue + 1
  /\ k.num = (IF h.recycled # Null THEN h.num ELSE h.num + 1)
  /\ k.recycled = (IF h.recycled # Null THEN h.next[h.recycled] ELSE Null)

\* new_rule and add_rule (rules.c:27-113).
LEMMA NewRuleFields ==
  ASSUME NEW h \in Storage, h.fault = "none", Next0(h) \in Symbols,
         h.main \in Symbols, h.prevr[h.main] \in Symbols, Next0(h) # h.main,
         Next0(h) # h.prevr[h.main]
  PROVE  /\ new_rule(h).fault = "none" /\ new_rule(h).new = Next0(h)
         /\ RuleMade(h, add_rule(new_rule(h), Next0(h)), Next0(h))
<1> DEFINE x == Next0(h)
           f == new_symbol(h, h.nextvalue, Null)
           e == new_rule(h)
           w == h.prevr[h.main]
           up == h.nextvalue + 1
<1>1. Created(h, f, x, h.nextvalue, Null)
  <2>1. h.nextvalue \in Nat /\ Null # Next0(h)
    BY NullApart DEF Storage
  <2> QED BY <2>1, NewSymbolFields
<1>2. x \in Symbols /\ h.main \in Symbols /\ w \in Symbols /\ x # w /\ x # h.main
      /\ Null \notin Symbols /\ h.nextvalue \in Nat /\ up \in Nat
  BY NullApart DEF Storage
<1>3. /\ f \in Storage /\ f.new = x /\ f.fault = "none"
      /\ f.value = [h.value EXCEPT ![x] = h.nextvalue] /\ f.rule = [h.rule EXCEPT ![x] = Null]
      /\ f.next = [h.next EXCEPT ![x] = Null] /\ f.prev = [h.prev EXCEPT ![x] = Null]
      /\ f.nextr = [h.nextr EXCEPT ![x] = Null] /\ f.prevr = [h.prevr EXCEPT ![x] = Null]
      /\ f.nextvalue = h.nextvalue /\ f.main = h.main /\ f.table = h.table
  BY <1>1 DEF Created
<1> HIDE DEF x, f, w
<1>4. e = [f EXCEPT !.nextvalue = up, !.rule[x] = x,
                    !.nextr[x] = x, !.prevr[x] = x, !.next[x] = x, !.prev[x] = x]
  BY <1>3 DEF new_rule, f, Storage
<1> HIDE DEF e, up
<1>5. e \in Storage
  <2> DEFINE i == [f EXCEPT !.nextvalue = up, !.rule[x] = x, !.nextr[x] = x]
  <2>1. i \in Storage
    BY <1>2, <1>3 DEF Storage
  <2>2. e = [i EXCEPT !.prevr[x] = x, !.next[x] = x, !.prev[x] = x]
    BY <1>3, <1>4 DEF Storage
  <2> HIDE DEF i
  <2> QED BY <1>2, <2>1, <2>2 DEF Storage
<1>6. /\ e.new = x /\ e.fault = "none" /\ e.value = f.value /\ e.rule = [f.rule EXCEPT ![x] = x]
      /\ e.next = [f.next EXCEPT ![x] = x] /\ e.prev = [f.prev EXCEPT ![x] = x]
      /\ e.nextr = [f.nextr EXCEPT ![x] = x] /\ e.prevr = [f.prevr EXCEPT ![x] = x]
      /\ e.nextvalue = up /\ e.main = h.main /\ e.table = h.table
      /\ e.refcnt = f.refcnt /\ e.num = f.num /\ e.recycled = f.recycled
  BY <1>2, <1>3, <1>4 DEF Storage
<1>7. /\ h.next \in [Symbols -> Symbols \cup {Null}] /\ h.prev \in [Symbols -> Symbols \cup {Null}]
      /\ h.nextr \in [Symbols -> Symbols \cup {Null}] /\ h.prevr \in [Symbols -> Symbols \cup {Null}]
      /\ h.rule \in [Symbols -> Symbols \cup {Null}]
  BY DEF Storage
<1>8. e.main # Null /\ e.prevr[e.main] = w
  BY <1>2, <1>3, <1>6, <1>7 DEF w
<1> DEFINE k == add_rule(e, x)
<1>9. k = [e EXCEPT !.nextr = [@ EXCEPT ![x] = h.main, ![w] = x],
                    !.prevr = [@ EXCEPT ![h.main] = x, ![x] = w]]
  BY <1>6, <1>8 DEF add_rule
<1> HIDE DEF k
<1>10. /\ k \in Storage
       /\ k.nextr = [e.nextr EXCEPT ![x] = h.main, ![w] = x]
       /\ k.prevr = [e.prevr EXCEPT ![h.main] = x, ![x] = w]
       /\ k.fault = e.fault /\ k.value = e.value /\ k.rule = e.rule /\ k.next = e.next
       /\ k.prev = e.prev /\ k.nextvalue = e.nextvalue /\ k.main = e.main /\ k.table = e.table
       /\ k.refcnt = e.refcnt /\ k.num = e.num /\ k.recycled = e.recycled
  BY <1>2, <1>5, <1>9 DEF Storage
<1>11. /\ k.next = [h.next EXCEPT ![x] = x] /\ k.prev = [h.prev EXCEPT ![x] = x]
       /\ k.rule = [h.rule EXCEPT ![x] = x]
  BY <1>2, <1>3, <1>6, <1>7, <1>10
<1>12. /\ k.nextr = [h.nextr EXCEPT ![x] = h.main, ![w] = x]
       /\ k.prevr = [h.prevr EXCEPT ![h.main] = x, ![x] = w]
  BY <1>2, <1>3, <1>6, <1>7, <1>10
<1>13. \A y \in Symbols : k.refcnt[y] = IF y = x THEN 0 ELSE h.refcnt[y]
  BY <1>1, <1>2, <1>6, <1>10 DEF Created
<1>14. RuleMade(h, k, x)
  BY <1>1, <1>3, <1>6, <1>10, <1>11, <1>12, <1>13 DEF RuleMade, Created, w, up
<1> QED BY <1>6, <1>14 DEF k, e, x

Founded(h, k, in, E, R, O, own, a, z, rank, x, c) ==
  /\ \E m : Sound(k, in, E \cup {x}, R \cup {x}, O, [own EXCEPT ![x] = x],
                  [a EXCEPT ![x] = c], [z EXCEPT ![x] = c], rank, m)
  /\ Tabled(k, O) /\ Entered(k) = Entered(h) /\ Uses(k, O, x) = {}

\* A new rule is empty, and may stand for an empty stretch anywhere.
LEMMA NewRuleSound ==
  ASSUME NEW h, NEW in, NEW E, NEW R, NEW O, NEW own, NEW a, NEW z, NEW rank, NEW n,
         Sound(h, in, E, R, O, own, a, z, rank, n), Tabled(h, O),
         NEW x \in Symbols \ (R \cup O), x = Next0(h), NEW c \in 0 .. Len(in),
         NEW k, RuleMade(h, k, x)
  PROVE  Founded(h, k, in, E, R, O, own, a, z, rank, x, c)
<1> DEFINE R2 == R \cup {x}
           own2 == [own EXCEPT ![x] = x]
           a2 == [a EXCEPT ![x] = c]
           z2 == [z EXCEPT ![x] = c]
           w == h.prevr[h.main]
<1>1. /\ h \in Storage /\ Linked(h, R, O, own) /\ Stretched(h, in, R, O, own, a, z)
      /\ Named(h, in, R, O, a, z) /\ Ringed(h, R) /\ Counted(h, R, O) /\ in \in Seq(Letters)
      /\ Spared(h, R, O, rank, n) /\ Bodied(h, R, O, E)
  BY DEF Sound
<1>2. /\ k \in Storage /\ k.fault = "none" /\ k.table = h.table /\ k.main = h.main
      /\ k.next = [h.next EXCEPT ![x] = x] /\ k.prev = [h.prev EXCEPT ![x] = x]
      /\ k.value = [h.value EXCEPT ![x] = h.nextvalue] /\ k.rule = [h.rule EXCEPT ![x] = x]
      /\ k.nextr = [h.nextr EXCEPT ![x] = h.main, ![w] = x]
      /\ k.prevr = [h.prevr EXCEPT ![h.main] = x, ![x] = w]
      /\ \A y \in Symbols : k.refcnt[y] = IF y = x THEN 0 ELSE h.refcnt[y]
      /\ k.nextvalue = h.nextvalue + 1
  BY DEF RuleMade
<1>3. /\ x \in Symbols /\ x \notin R /\ x \notin O
      /\ R \subseteq Symbols /\ O \subseteq Symbols /\ R \cap O = {}
  BY <1>1 DEF Linked
<1>4. /\ own \in [Symbols -> Symbols] /\ a \in [Symbols -> Int] /\ z \in [Symbols -> Int]
      /\ h.next \in [Symbols -> Symbols \cup {Null}] /\ h.prev \in [Symbols -> Symbols \cup {Null}]
      /\ h.nextr \in [Symbols -> Symbols \cup {Null}] /\ h.prevr \in [Symbols -> Symbols \cup {Null}]
      /\ h.rule \in [Symbols -> Symbols \cup {Null}] /\ h.value \in [Symbols -> Nat]
      /\ h.nextvalue \in Nat
  BY <1>1 DEF Storage, Linked, Stretched
<1>i. c \in Int /\ 0 <= c /\ c <= Len(in) /\ Len(in) \in Nat
  BY <1>1
<1>5. /\ h.main \in R /\ w \in R /\ h.nextr[w] = h.main /\ h.prevr[h.main] = w
      /\ \A y \in R : y # w => h.nextr[y] # h.main
      /\ \A y \in R : y # h.main => h.prevr[y] # w
  BY <1>1 DEF Ringed, Named
<1> HIDE DEF w
<1>6. /\ own2 \in [Symbols -> Symbols] /\ own2[x] = x /\ \A y \in R \cup O : own2[y] = own[y]
      /\ a2 \in [Symbols -> Int] /\ a2[x] = c /\ \A y \in R \cup O : a2[y] = a[y]
      /\ z2 \in [Symbols -> Int] /\ z2[x] = c /\ \A y \in R \cup O : z2[y] = z[y]
  BY <1>3, <1>4, <1>i
<1>7. /\ k.next[x] = x /\ \A y \in R \cup O : k.next[y] = h.next[y]
      /\ k.prev[x] = x /\ \A y \in R \cup O : k.prev[y] = h.prev[y]
      /\ k.value[x] = h.nextvalue /\ \A y \in R \cup O : k.value[y] = h.value[y]
      /\ k.rule[x] = x /\ \A y \in R \cup O : k.rule[y] = h.rule[y]
  BY <1>2, <1>3, <1>4
<1>d. k.nextr[x] = h.main /\ k.nextr[w] = x /\ \A y \in R : y # w => k.nextr[y] = h.nextr[y]
  BY <1>2, <1>3, <1>4, <1>5, SMTT(20)
<1>e. k.prevr[x] = w /\ k.prevr[h.main] = x /\ \A y \in R : y # h.main => k.prevr[y] = h.prevr[y]
  BY <1>2, <1>3, <1>4, <1>5
<1> HIDE DEF own2, a2, z2
<1>8. Linked(k, R2, O, own2)
  <2>1. ASSUME NEW y \in R \cup O
        PROVE  /\ own2[y] \in R /\ k.next[y] \in R \cup O /\ k.prev[y] \in R \cup O
               /\ own2[k.next[y]] = own2[y]
               /\ k.prev[k.next[y]] = y /\ k.next[k.prev[y]] = y
    <3>1. /\ own[y] \in R /\ h.next[y] \in R \cup O /\ h.prev[y] \in R \cup O
          /\ own[h.next[y]] = own[y] /\ h.prev[h.next[y]] = y /\ h.next[h.prev[y]] = y
      BY <1>1 DEF Linked
    <3> QED BY <1>6, <1>7, <3>1
  <2>2. \A y \in R : own2[y] = y
    BY <1>1, <1>6 DEF Linked
  <2> QED BY <1>3, <1>6, <1>7, <2>1, <2>2 DEF Linked
<1>9. Stretched(k, in, R2, O, own2, a2, z2)
  <2>1. ASSUME NEW y \in R \cup O PROVE z2[y] = a2[k.next[y]] /\ own[y] \in R
    <3>1. z[y] = a[h.next[y]] /\ own[y] \in R /\ h.next[y] \in R \cup O
      BY <1>1 DEF Stretched, Linked
    <3> QED BY <1>6, <1>7, <3>1
  <2>2. \A y \in R : 0 <= z2[y] /\ z2[y] <= a2[y] /\ a2[y] <= Len(in)
    BY <1>1, <1>6 DEF Stretched
  <2>3. ASSUME NEW y \in O
        PROVE  a2[y] < z2[y] /\ z2[own2[y]] <= a2[y] /\ z2[y] <= a2[own2[y]]
    <3>1. a[y] < z[y] /\ z[own[y]] <= a[y] /\ z[y] <= a[own[y]] /\ own[y] \in R
      BY <1>1, <2>1 DEF Stretched
    <3> QED BY <1>6, <3>1
  <2> QED BY <1>i, <1>6, <1>7, <2>1, <2>2, <2>3 DEF Stretched
<1>10. Named(k, in, R2, O, a2, z2)
  <2>1. ASSUME NEW y \in O PROVE Letter(k, in, a2, z2, y) \/ Instance(k, in, R2, a2, z2, y)
    <3>1. /\ y \in R \cup O /\ a2[y] = a[y] /\ z2[y] = z[y] /\ k.value[y] = h.value[y]
          /\ k.rule[y] = h.rule[y]
      BY <1>6, <1>7
    <3>2. CASE Letter(h, in, a, z, y)
      BY <3>1, <3>2 DEF Letter
    <3>3. CASE Instance(h, in, R, a, z, y)
      <4>1. h.rule[y] \in R
        BY <3>3 DEF Instance
      <4>2. /\ a2[h.rule[y]] = a[h.rule[y]] /\ z2[h.rule[y]] = z[h.rule[y]]
            /\ k.value[h.rule[y]] = h.value[h.rule[y]]
        BY <1>6, <1>7, <4>1
      <4> QED BY <1>2, <3>1, <3>3, <4>2 DEF Instance
    <3> QED BY <1>1, <3>2, <3>3 DEF Named
  <2>2. FirstNonterminal \in Nat /\ h.main \in R
        /\ \A y \in R : h.rule[y] = y /\ h.value[y] >= FirstNonterminal /\ h.value[y] < h.nextvalue
                        /\ h.value[y] \in Nat
    BY <1>1, <1>3, <1>4, LettersAssumption DEF Named
  <2>3. h.nextvalue > FirstNonterminal /\ h.nextvalue < h.nextvalue + 1
    <3>1. /\ h.value[h.main] \in Nat /\ h.value[h.main] < h.nextvalue
          /\ h.value[h.main] >= FirstNonterminal
      BY <2>2
    <3> QED BY <1>4, <2>2, <3>1
  <2>4. \A y \in R2 : k.rule[y] = y /\ k.value[y] >= FirstNonterminal /\ k.value[y] < k.nextvalue
    BY <1>2, <1>4, <1>7, <2>2, <2>3
  <2>5. \A y, u \in R2 : k.value[y] = k.value[u] => y = u
    BY <1>1, <1>4, <1>7, <2>2 DEF Named
  <2> QED BY <1>2, <2>1, <2>2, <2>4, <2>5 DEF Named
<1>11. Ringed(k, R2)
  <2>1. ASSUME NEW y \in R
        PROVE  /\ k.nextr[y] \in R2 /\ k.prevr[y] \in R2
               /\ k.prevr[k.nextr[y]] = y /\ k.nextr[k.prevr[y]] = y
               /\ (k.nextr[y] = h.main \/ k.value[k.nextr[y]] > k.value[y])
    <3>1. /\ h.nextr[y] \in R /\ h.prevr[y] \in R /\ h.prevr[h.nextr[y]] = y
          /\ h.nextr[h.prevr[y]] = y /\ (h.nextr[y] = h.main \/ h.value[h.nextr[y]] > h.value[y])
          /\ h.value[y] \in Nat /\ h.value[y] < h.nextvalue
      BY <1>1, <1>3, <1>4 DEF Ringed, Named
    <3>2. k.nextr[y] \in R2 /\ k.prevr[k.nextr[y]] = y
          /\ (k.nextr[y] = h.main \/ k.value[k.nextr[y]] > k.value[y])
      <4>1. CASE y = w
        BY <1>4, <1>5, <1>7, <1>d, <1>e, <3>1, <4>1
      <4>2. CASE y # w
        <5>1. h.nextr[y] # h.main
          BY <1>5, <4>2
        <5> QED BY <1>5, <1>7, <1>d, <1>e, <3>1, <4>2, <5>1
      <4> QED BY <4>1, <4>2
    <3>3. k.prevr[y] \in R2 /\ k.nextr[k.prevr[y]] = y
      <4>1. CASE y = h.main
        BY <1>5, <1>d, <1>e, <4>1
      <4>2. CASE y # h.main
        <5>1. h.prevr[y] # w
          BY <1>5, <4>2
        <5> QED BY <1>d, <1>e, <3>1, <4>2, <5>1
      <4> QED BY <4>1, <4>2
    <3> QED BY <3>2, <3>3
  <2>2. /\ k.nextr[x] \in R2 /\ k.prevr[x] \in R2
        /\ k.prevr[k.nextr[x]] = x /\ k.nextr[k.prevr[x]] = x /\ k.nextr[x] = h.main
    BY <1>5, <1>d, <1>e
  <2> QED BY <1>2, <2>1, <2>2 DEF Ringed
<1>12. Uses(k, O, x) = {}
  <2>1. \A y \in O : h.rule[y] \in R \/ h.rule[y] = Null
    BY <1>1 DEF Named, Letter, Instance
  <2>2. \A y \in O : k.rule[y] = h.rule[y]
    BY <1>7
  <2>3. x # Null
    BY NullApart
  <2> QED BY <1>3, <2>1, <2>2, <2>3 DEF Uses
<1>13. Counted(k, R2, O)
  <2>1. \A y \in R : Uses(k, O, y) = Uses(h, O, y)
    BY <1>7 DEF Uses
  <2>2. \A y \in R : k.refcnt[y] = Cardinality(Uses(k, O, y))
    BY <1>1, <1>2, <1>3, <2>1 DEF Counted
  <2>3. k.refcnt[x] = Cardinality(Uses(k, O, x))
    BY <1>2, <1>3, <1>12, FS_EmptySet
  <2> QED BY <2>2, <2>3 DEF Counted
<1>14. \E m : Spared(k, R2, O, rank, m)
  <2>1. R2 \cup O = R \cup O \cup {Next0(h)} /\ Next0(h) \in Symbols
    BY <1>3
  <2>2. /\ k.num = (IF h.recycled # Null THEN h.num ELSE h.num + 1)
        /\ k.recycled = (IF h.recycled # Null THEN h.next[h.recycled] ELSE Null)
    BY DEF RuleMade
  <2>3. \A y \in Waiting(h, R, O) \ {Next0(h)} : k.next[y] = h.next[y]
    <3>1. \A y \in Waiting(h, R, O) : y \in Symbols
      <4>1. h.num \in 0 .. MaxSymbols /\ MaxSymbols \in Nat
        BY <1>1, SizesAssumption DEF Spared
      <4>2. \A y \in 0 .. h.num - 1 : y \in Symbols
        BY <4>1 DEF Symbols
      <4> QED BY <4>2 DEF Waiting
    <3> QED BY <1>2, <1>4, <3>1
  <2> HIDE DEF R2
  <2>4. Spared(h, R, O, rank, n) /\ h \in Storage
    BY <1>1
  <2> QED BY ONLY <2>1, <2>2, <2>3, <2>4, PoppedRest
<1>15. Bodied(k, R2, O, E \cup {x})
  BY <1>1, <1>7 DEF Bodied
<1>16. Tabled(k, O) /\ Entered(k) = Entered(h)
  <2>1. Served(h) /\ \A y \in Entered(h) : y \in O /\ h.next[y] \in O
    BY DEF Tabled
  <2>2. ASSUME NEW y \in Entered(h)
        PROVE  k.value[y] = h.value[y] /\ k.next[y] = h.next[y] /\ k.next[y] \in Symbols
               /\ k.value[k.next[y]] = h.value[h.next[y]]
    BY <1>3, <1>7, <2>1
  <2>3. Served(k) /\ Entered(k) = Entered(h)
    BY <1>1, <1>2, <2>1, <2>2, ServedSame
  <2> QED BY <2>1, <2>2, <2>3 DEF Tabled
<1> HIDE DEF R2
<1>17. PICK m : Spared(k, R2, O, rank, m)
  BY <1>14
<1>18. Sound(k, in, E \cup {x}, R2, O, own2, a2, z2, rank, m)
  BY <1>1, <1>2, <1>8, <1>9, <1>10, <1>11, <1>13, <1>15, <1>17 DEF Sound
<1> QED BY <1>12, <1>16, <1>18 DEF R2, own2, a2, z2, Founded

-----------------------------------------------------------------------------
(* The deletion of a symbol.                                               *)

Deleted(h, k, p, s, t) ==
  /\ k \in Storage /\ Served(k) /\ Entered(k) = Entered(h) \ {p, s} /\ k.fault = "none"
  /\ k.next = [h.next EXCEPT ![p] = t, ![s] = h.recycled] /\ k.prev = [h.prev EXCEPT ![t] = p]
  /\ k.value = h.value /\ k.rule = h.rule /\ k.nextr = h.nextr /\ k.prevr = h.prevr
  /\ k.num = h.num /\ k.recycled = s /\ k.nextvalue = h.nextvalue /\ k.main = h.main
  /\ \A y \in Symbols : k.refcnt[y] = IF y = h.rule[s] THEN h.refcnt[y] - 1 ELSE h.refcnt[y]

\* A symbol that the table does not need goes on the stack of those that wait (symbol.c:118-122).
LEMMA RecycleFields ==
  ASSUME NEW h \in Storage, Served(h), NEW s \in Symbols, s \notin Entered(h)
  PROVE  LET k == recycle_symbol(h, s) IN
         /\ k \in Storage /\ Served(k) /\ Entered(k) = Entered(h)
         /\ k.next = [h.next EXCEPT ![s] = h.recycled] /\ k.recycled = s
         /\ k.value = h.value /\ k.rule = h.rule /\ k.nextr = h.nextr /\ k.prevr = h.prevr
         /\ k.prev = h.prev /\ k.refcnt = h.refcnt /\ k.new = h.new /\ k.table = h.table
         /\ k.num = h.num /\ k.nextvalue = h.nextvalue /\ k.main = h.main /\ k.fault = h.fault
<1> DEFINE k == recycle_symbol(h, s)
<1>1. h.recycled \in Symbols \cup {Null}
  BY DEF Storage
<1>2. /\ k \in Storage
      /\ k.next = [h.next EXCEPT ![s] = h.recycled] /\ k.recycled = s
      /\ k.value = h.value /\ k.rule = h.rule /\ k.nextr = h.nextr /\ k.prevr = h.prevr
      /\ k.prev = h.prev /\ k.refcnt = h.refcnt /\ k.new = h.new /\ k.table = h.table
      /\ k.num = h.num /\ k.nextvalue = h.nextvalue /\ k.main = h.main /\ k.fault = h.fault
  BY <1>1 DEF recycle_symbol, Storage
<1> HIDE DEF k
<1>3. ASSUME NEW y \in Entered(h)
      PROVE  k.value[y] = h.value[y] /\ k.next[y] \in Symbols
             /\ k.value[k.next[y]] = h.value[h.next[y]]
  <2>1. y # s /\ y \in Symbols /\ h.next[y] \in Symbols
    BY DEF Served, Entered
  <2>2. k.next[y] = h.next[y]
    BY <1>2, <2>1 DEF Storage
  <2> QED BY <1>2, <2>1, <2>2
<1>4. Served(k) /\ Entered(k) = Entered(h)
  BY <1>2, <1>3, ServedSame
<1> QED BY <1>2, <1>4 DEF k

\* What delete_symbol does to the fields (sequitur.c:86-105).
LEMMA DeleteFields ==
  ASSUME NEW h \in Storage, h.fault = "none", Served(h), NEW p \in Symbols, NEW s \in Symbols,
         NEW t \in Symbols, h.prev[s] = p, h.next[s] = t, h.next[p] = s, p # s,
         ~ Triple(h, p), ~ Triple(h, t), h.rule[s] # s,
         h.value[s] >= FirstNonterminal => h.rule[s] \in Symbols /\ h.refcnt[h.rule[s]] > 0,
         h.value[s] < FirstNonterminal => h.rule[s] = Null
  PROVE  Deleted(h, delete_symbol(h, s), p, s, t)
<1> DEFINE e == join_symbols(h, p, t)
           f == digram_delete(e, s)
           u == IF IsNonterminal(f, s) THEN unref_rule(f, f.rule[s]) ELSE f
           k == recycle_symbol(u, s)
<1>1. delete_symbol(h, s) = k
  BY DEF delete_symbol, IsHead, Discard
<1>2. Joined(h, e, p, t)
  BY JoinCut
<1> HIDE DEF e
<1>3. e \in Storage /\ Served(e) /\ Entered(e) = Entered(h) \ {p} /\ e.next[s] = t
  BY <1>2 DEF Joined, Storage
<1>4. /\ f \in Storage /\ f = [e EXCEPT !.table = f.table]
      /\ Served(f) /\ Entered(f) = Entered(e) \ {s}
  BY <1>3, DeleteAny
<1> HIDE DEF f
<1>5. /\ f.next = e.next /\ f.prev = e.prev /\ f.value = e.value /\ f.refcnt = e.refcnt
      /\ f.rule = e.rule /\ f.nextr = e.nextr /\ f.prevr = e.prevr /\ f.new = e.new
      /\ f.num = e.num /\ f.recycled = e.recycled /\ f.nextvalue = e.nextvalue
      /\ f.main = e.main /\ f.fault = e.fault
  BY <1>3, <1>4 DEF Storage
<1>6. /\ u \in Storage /\ u.table = f.table
      /\ u.next = e.next /\ u.prev = e.prev /\ u.value = e.value
      /\ u.rule = e.rule /\ u.nextr = e.nextr /\ u.prevr = e.prevr
      /\ u.num = e.num /\ u.recycled = e.recycled /\ u.nextvalue = e.nextvalue
      /\ u.main = e.main /\ u.fault = e.fault
      /\ \A y \in Symbols : u.refcnt[y] = IF y = h.rule[s] THEN h.refcnt[y] - 1 ELSE h.refcnt[y]
  <2>1. f.value = h.value /\ f.rule = h.rule /\ f.refcnt = h.refcnt /\ e.next = [h.next EXCEPT ![p] = t]
        /\ h.value[s] \in Nat /\ FirstNonterminal \in Nat
    BY <1>2, <1>5, LettersAssumption DEF Joined, Storage
  <2>2. CASE h.value[s] >= FirstNonterminal
    <3> DEFINE r == h.rule[s]
               m == h.refcnt[r] - 1
    <3>1. r \in Symbols /\ h.refcnt \in [Symbols -> Nat] /\ h.refcnt[r] > 0
      BY <2>2 DEF Storage
    <3>2. m \in Nat /\ f.refcnt[r] # 0
      BY <2>1, <3>1
    <3>3. u = [f EXCEPT !.refcnt[r] = m]
      BY <2>1, <2>2, <3>2 DEF IsNonterminal, unref_rule
    <3> HIDE DEF r, m, u
    <3>4. u \in Storage /\ u.refcnt = [f.refcnt EXCEPT ![r] = m]
      BY <1>4, <3>1, <3>2, <3>3 DEF Storage
    <3>5. \A y \in Symbols : u.refcnt[y] = IF y = r THEN h.refcnt[y] - 1 ELSE h.refcnt[y]
      BY <2>1, <3>1, <3>4 DEF m
    <3>6. /\ u.table = f.table /\ u.next = f.next /\ u.prev = f.prev /\ u.value = f.value
          /\ u.rule = f.rule /\ u.nextr = f.nextr /\ u.prevr = f.prevr
          /\ u.num = f.num /\ u.recycled = f.recycled /\ u.nextvalue = f.nextvalue
          /\ u.main = f.main /\ u.fault = f.fault
      BY <1>4, <3>1, <3>2, <3>3 DEF Storage
    <3> QED BY <1>5, <2>1, <3>4, <3>5, <3>6 DEF r
  <2>3. CASE h.value[s] < FirstNonterminal
    <3>1. u = f
      BY <2>1, <2>3 DEF IsNonterminal
    <3>2. h.rule[s] \notin Symbols
      BY <2>3, NullApart
    <3> HIDE DEF u
    <3> QED BY <1>4, <1>5, <2>1, <3>1, <3>2
  <2> QED BY <2>1, <2>2, <2>3
<1> HIDE DEF u
<1>7. Served(u) /\ Entered(u) = Entered(h) \ {p, s}
  <2>1. Entered(f) = Entered(h) \ {p, s}
    BY <1>3, <1>4
  <2>2. \A y \in Entered(f) : u.value[y] = f.value[y] /\ u.next[y] \in Symbols
                              /\ u.value[u.next[y]] = f.value[f.next[y]]
    BY <1>4, <1>5, <1>6 DEF Served
  <2> QED BY <1>4, <1>6, <2>1, <2>2, ServedSame
<1>8. /\ k \in Storage /\ Served(k) /\ Entered(k) = Entered(u)
      /\ k.next = [u.next EXCEPT ![s] = u.recycled] /\ k.recycled = s
      /\ k.value = u.value /\ k.rule = u.rule /\ k.nextr = u.nextr /\ k.prevr = u.prevr
      /\ k.prev = u.prev /\ k.refcnt = u.refcnt
      /\ k.num = u.num /\ k.nextvalue = u.nextvalue /\ k.main = u.main /\ k.fault = u.fault
  <2>1. u \in Storage /\ Served(u) /\ s \notin Entered(u)
    BY <1>6, <1>7
  <2> QED BY <2>1, RecycleFields
<1> HIDE DEF k
<1>9. k.next = [h.next EXCEPT ![p] = t, ![s] = h.recycled] /\ k.prev = [h.prev EXCEPT ![t] = p]
  <2>1. k.next = [e.next EXCEPT ![s] = h.recycled] /\ e.next = [h.next EXCEPT ![p] = t]
        /\ k.prev = e.prev /\ e.prev = [h.prev EXCEPT ![t] = p]
    BY <1>2, <1>6, <1>8 DEF Joined
  <2> QED BY <2>1
<1> QED BY <1>1, <1>2, <1>6, <1>7, <1>8, <1>9 DEF Deleted, Joined

\* Neighbours have different values, so that no digram has to be put back.
LEMMA Apart ==
  ASSUME NEW h, NEW in, NEW E, NEW R, NEW O, NEW own, NEW a, NEW z, NEW rank, NEW n,
         Sound(h, in, E, R, O, own, a, z, rank, n), NoSquare(in),
         \A q \in E : q # h.main => Uses(h, O, q) = {},
         NEW y \in R \cup O
  PROVE  /\ h.next[y] # y => h.value[y] # h.value[h.next[y]]
         /\ h.prev[y] # y => h.value[y] # h.value[h.prev[y]] /\ h.next[y] # y
         /\ \A s \in O : h.value[s] # h.value[own[s]]
<1>1. Linked(h, R, O, own)
  BY DEF Sound
<1>2. \A s \in O : h.value[s] # h.value[own[s]]
  BY NoSelf
<1>3. ASSUME NEW u \in R \cup O, h.next[u] # u PROVE h.value[u] # h.value[h.next[u]]
  <2> DEFINE w == h.next[u]
  <2>1. w \in R \cup O /\ own[w] = own[u] /\ \A r \in R : own[r] = r
    BY <1>1 DEF Linked
  <2>2. CASE u \in O /\ w \in O
    BY <2>2, NoTwins
  <2>3. CASE u \in O /\ w \in R
    <3>1. w = own[u]
      BY <2>1, <2>3
    <3> QED BY <1>2, <2>3, <3>1
  <2>4. CASE u \in R /\ w \in O
    <3>1. u = own[w]
      BY <2>1, <2>4
    <3> QED BY <1>2, <2>4, <3>1
  <2>5. CASE u \in R /\ w \in R
    BY <1>3, <2>1, <2>5
  <2> QED BY <2>1, <2>2, <2>3, <2>4, <2>5
<1>4. h.prev[y] \in R \cup O /\ h.next[h.prev[y]] = y /\ h.prev[h.next[y]] = y
  BY <1>1 DEF Linked
<1>5. h.prev[y] # y => h.value[y] # h.value[h.prev[y]] /\ h.next[y] # y
  BY <1>3, <1>4
<1> QED BY <1>2, <1>3, <1>5

\* A digram and its neighbours.
LEMMA Around ==
  ASSUME NEW h, NEW in, NEW E, NEW R, NEW O, NEW own, NEW a, NEW z, NEW rank, NEW n,
         Sound(h, in, E, R, O, own, a, z, rank, n), NEW s \in O, h.next[s] \in O
  PROVE  LET p == h.prev[s]  t == h.next[s]  c == h.next[t] IN
         /\ p \in R \cup O /\ c \in R \cup O /\ h.next[p] = s /\ h.prev[t] = s /\ h.prev[c] = t
         /\ p # s /\ p # t /\ s # t /\ c # s /\ c # t /\ (p = c => p \in R)
         /\ own[p] = own[s] /\ own[t] = own[s] /\ own[c] = own[s]
         /\ a[s] < z[s] /\ z[s] = a[t] /\ a[t] < z[t] /\ z[p] = a[s] /\ z[t] = a[c]
         /\ a[s] \in Int /\ a[t] \in Int /\ z[t] \in Int
         /\ \A y \in R \cup O : (h.next[y] = s => y = p) /\ (h.next[y] = t => y = s)
                                /\ (h.next[y] = c => y = t)
<1> DEFINE p == h.prev[s]
           t == h.next[s]
           c == h.next[t]
<1>1. Linked(h, R, O, own) /\ Stretched(h, in, R, O, own, a, z)
  BY DEF Sound
<1>2. /\ p \in R \cup O /\ c \in R \cup O /\ h.next[p] = s /\ h.prev[t] = s /\ h.prev[c] = t
      /\ t \in O /\ R \cap O = {} /\ R \subseteq Symbols /\ O \subseteq Symbols
      /\ own[p] = own[s] /\ own[t] = own[s] /\ own[c] = own[s]
  BY <1>1 DEF Linked
<1>3. \A y \in R \cup O : (h.next[y] = s => y = p) /\ (h.next[y] = t => y = s)
                          /\ (h.next[y] = c => y = t)
  BY <1>1, <1>2 DEF Linked
<1>4. /\ a[s] < z[s] /\ z[s] = a[t] /\ a[t] < z[t] /\ z[p] = a[s] /\ z[t] = a[c]
      /\ a[s] \in Int /\ z[s] \in Int /\ a[t] \in Int /\ z[t] \in Int /\ (p \in O => a[p] < z[p])
      /\ a[p] \in Int /\ (c \in O => a[c] < z[c]) /\ z[c] \in Int /\ a[c] \in Int
  <2>1. /\ s \in Symbols /\ t \in Symbols /\ p \in Symbols /\ c \in Symbols
        /\ s \in O /\ t \in O /\ s \in R \cup O /\ t \in R \cup O
    BY <1>2
  <2>2. /\ \A x \in R \cup O : z[x] = a[h.next[x]]
        /\ \A x \in O : a[x] < z[x]
        /\ \A x \in Symbols : a[x] \in Int /\ z[x] \in Int
    BY <1>1 DEF Stretched
  <2> HIDE DEF p, t
  <2> QED BY <1>2, <2>1, <2>2 DEF t
<1> HIDE DEF p, t, c
<1>5. s # t /\ c # t
  <2>1. s # t
    BY <1>4
  <2> QED BY <1>2, <2>1
<1>6. c # s
  BY <1>4
<1>7. p # s /\ p # t
  <2>1. p = t => c = s
    BY <1>2 DEF c
  <2> QED BY <1>2, <1>5, <1>6, <2>1 DEF t
<1>8. p = c => p \in R
  <2> SUFFICES ASSUME p = c, p \in O PROVE FALSE
    BY <1>2
  <2> QED BY <1>4
<1> QED BY <1>2, <1>3, <1>4, <1>5, <1>6, <1>7, <1>8 DEF p, t, c

-----------------------------------------------------------------------------
(* A digram gives way to the nonterminal of a rule.                        *)

Replaced(h, k, R, p, s, t, c, r) ==
  /\ k \in Storage /\ Served(k) /\ Entered(k) = Entered(h) \ {p, s, t} /\ k.fault = "none"
  /\ k.next = [h.next EXCEPT ![p] = t, ![s] = h.recycled, ![t] = c]
  /\ k.prev = [h.prev EXCEPT ![t] = p, ![c] = t]
  /\ k.value = [h.value EXCEPT ![t] = h.value[r]] /\ k.rule = [h.rule EXCEPT ![t] = r]
  /\ k.nextr = [h.nextr EXCEPT ![t] = Null] /\ k.prevr = [h.prevr EXCEPT ![t] = Null]
  /\ \A y \in R : k.refcnt[y] = h.refcnt[y] - (IF y = h.rule[s] THEN 1 ELSE 0)
                                - (IF y = h.rule[t] THEN 1 ELSE 0) + (IF y = r THEN 1 ELSE 0)
  /\ k.num = h.num /\ k.recycled = s /\ k.nextvalue = h.nextvalue /\ k.main = h.main

\* The two deletions and the insertion of replace_digram (sequitur.c:161-180).
LEMMA ReplaceFields ==
  ASSUME NEW h, NEW in, NEW E, NEW R, NEW O, NEW own, NEW a, NEW z, NEW rank, NEW n,
         Sound(h, in, E, R, O, own, a, z, rank, n), NoSquare(in), Tabled(h, O),
         \A q \in E : q # h.main => Uses(h, O, q) = {},
         NEW s \in O, NEW t \in O, h.next[s] = t, NEW r \in R \ {h.main},
         NEW p, p = h.prev[s], NEW c, c = h.next[t], p = c => p = h.main
  PROVE  Replaced(h, InsertNonterminal(DeleteNext(DeleteNext(h, p), p), p, r), R, p, s, t, c, r)
<1>1. /\ h \in Storage /\ Linked(h, R, O, own) /\ Named(h, in, R, O, a, z) /\ Counted(h, R, O)
      /\ h.fault = "none" /\ Served(h) /\ \A y \in Entered(h) : y \in O /\ h.next[y] \in O
  BY DEF Sound, Tabled
<1>2. /\ p \in R \cup O /\ c \in R \cup O /\ h.next[p] = s /\ h.prev[t] = s /\ h.prev[c] = t
      /\ p # s /\ p # t /\ s # t /\ c # s /\ c # t
      /\ \A y \in R \cup O : (h.next[y] = s => y = p) /\ (h.next[y] = t => y = s)
  BY Around
<1>3. /\ p \in Symbols /\ s \in Symbols /\ t \in Symbols /\ c \in Symbols /\ r \in Symbols
      /\ r \in R /\ R \subseteq Symbols /\ O \subseteq Symbols /\ r # t /\ r # s
      /\ Null \notin Symbols /\ R \cap O = {} /\ h.main \in R
  BY <1>1, <1>2, NullApart DEF Linked, Named
<1>4. ASSUME NEW y \in O
      PROVE  /\ h.rule[y] # y
             /\ h.value[y] >= FirstNonterminal => h.rule[y] \in R /\ h.refcnt[h.rule[y]] > 0
             /\ h.value[y] < FirstNonterminal => h.rule[y] = Null
  <2>1. h.rule[y] # y
    BY Values
  <2>2. CASE h.value[y] < FirstNonterminal
    <3>1. Letter(h, in, a, z, y) /\ h.value[y] \in Nat
      BY <2>2, Values
    <3>2. ~(h.value[y] >= FirstNonterminal)
      BY <2>2, <3>1, LettersAssumption
    <3> QED BY <2>1, <3>1, <3>2 DEF Letter
  <2>3. CASE h.value[y] >= FirstNonterminal
    <3>1. Instance(h, in, R, a, z, y) /\ h.value[y] \in Nat
      BY <2>3, Values
    <3>2. ~(h.value[y] < FirstNonterminal) /\ h.rule[y] \in R
      BY <2>3, <3>1, LettersAssumption DEF Instance
    <3>3. y \in Uses(h, O, h.rule[y]) /\ Uses(h, O, h.rule[y]) \subseteq Symbols
      BY <1>3 DEF Uses
    <3>4. /\ IsFiniteSet(Uses(h, O, h.rule[y])) /\ Cardinality(Uses(h, O, h.rule[y])) \in Nat
          /\ Cardinality(Uses(h, O, h.rule[y])) # 0
      BY <3>3, NullApart, FS_Subset, FS_CardinalityType, FS_EmptySet
    <3> QED BY <1>1, <2>1, <3>2, <3>4 DEF Counted
  <2> QED
    <3>1. h.value[y] \in Nat /\ FirstNonterminal \in Nat
      BY Values, LettersAssumption
    <3> QED BY <2>2, <2>3, <3>1
<1>5. /\ h.value[s] # h.value[t] /\ (h.rule[s] # h.rule[t] \/ h.rule[t] = Null)
      /\ h.value[p] # h.value[s] /\ h.value[t] # h.value[c]
      /\ h.prev[p] # p /\ h.value[p] # h.value[h.prev[p]]
      /\ h.next[c] # c /\ h.value[c] # h.value[h.next[c]]
      /\ p = c => h.value[p] # h.value[t]
  <2>1. h.value[s] # h.value[t] /\ h.value[p] # h.value[s] /\ h.value[t] # h.value[c]
    BY <1>2, Apart
  <2>2. h.rule[s] # h.rule[t] \/ h.rule[t] = Null
    <3>1. Letter(h, in, a, z, t) \/ Instance(h, in, R, a, z, t)
      BY <1>1 DEF Named
    <3>2. Letter(h, in, a, z, s) \/ Instance(h, in, R, a, z, s)
      BY <1>1 DEF Named
    <3> QED BY <1>3, <2>1, <3>1, <3>2 DEF Letter, Instance
  <2>3. h.prev[p] # p /\ h.next[c] # c
    BY <1>1, <1>2 DEF Linked
  <2> QED BY <1>2, <2>1, <2>2, <2>3, Apart
<1> DEFINE h1 == delete_symbol(h, s)
           h2 == delete_symbol(h1, t)
           h3 == new_symbol(h2, h2.value[r], r)
           h4 == join_symbols(h3, t, c)
           k == join_symbols(h4, p, t)
<1>6. Deleted(h, h1, p, s, t)
  <2>1. ~ Triple(h, p) /\ ~ Triple(h, t)
    BY <1>2, <1>5 DEF Triple
  <2> QED BY <1>1, <1>2, <1>3, <1>4, <2>1, DeleteFields
<1> HIDE DEF h1
<1>7. /\ h1 \in Storage /\ h1.fault = "none" /\ Served(h1) /\ Entered(h1) = Entered(h) \ {p, s}
      /\ h1.next = [h.next EXCEPT ![p] = t, ![s] = h.recycled]
      /\ h1.prev = [h.prev EXCEPT ![t] = p] /\ h1.value = h.value /\ h1.rule = h.rule
  BY <1>6 DEF Deleted
<1>8. /\ h.next \in [Symbols -> Symbols \cup {Null}] /\ h.prev \in [Symbols -> Symbols \cup {Null}]
      /\ h.value \in [Symbols -> Nat] /\ h.rule \in [Symbols -> Symbols \cup {Null}]
      /\ h.refcnt \in [Symbols -> Nat]
  BY <1>1 DEF Storage
<1>9. h1.prev[t] = p /\ h1.next[t] = c /\ h1.next[p] = t
  BY <1>2, <1>3, <1>7, <1>8
<1>10. Deleted(h1, h2, p, t, c)
  <2>1. ~ Triple(h1, p)
    <3>1. h1.prev[p] = h.prev[p]
      BY <1>2, <1>3, <1>7, <1>8
    <3> QED BY <1>5, <1>7, <3>1 DEF Triple
  <2>2. ~ Triple(h1, c)
    <3>1. h1.next[c] = IF c = p THEN t ELSE h.next[c]
      BY <1>2, <1>3, <1>7, <1>8
    <3> QED BY <1>5, <1>7, <3>1 DEF Triple
  <2>3. h1.value[t] >= FirstNonterminal => h1.rule[t] \in Symbols /\ h1.refcnt[h1.rule[t]] > 0
    <3> SUFFICES ASSUME h.value[t] >= FirstNonterminal
                 PROVE  h.rule[t] \in Symbols /\ h1.refcnt[h.rule[t]] > 0
      BY <1>7
    <3>1. h.rule[t] \in R /\ h.refcnt[h.rule[t]] > 0
      BY <1>4
    <3>2. h.rule[t] # h.rule[s] /\ h.rule[t] \in Symbols
      BY <1>3, <1>5, <3>1
    <3> QED BY <1>6, <3>1, <3>2 DEF Deleted
  <2>4. h1.rule[t] # t /\ (h1.value[t] < FirstNonterminal => h1.rule[t] = Null)
    BY <1>4, <1>7
  <2> QED BY <1>2, <1>3, <1>7, <1>9, <2>1, <2>2, <2>3, <2>4, DeleteFields
<1> HIDE DEF h2
<1>11. /\ h2 \in Storage /\ h2.fault = "none" /\ Served(h2) /\ Entered(h2) = Entered(h) \ {p, s, t}
       /\ h2.next = [h1.next EXCEPT ![p] = c, ![t] = s] /\ h2.recycled = t
       /\ h2.prev = [h1.prev EXCEPT ![c] = p] /\ h2.value = h.value /\ h2.rule = h.rule
  <2>1. h1.recycled = s
    BY <1>6 DEF Deleted
  <2> QED BY <1>7, <1>10, <2>1 DEF Deleted
<1>12. Next0(h2) = t
  BY <1>3, <1>11 DEF Next0
<1>13. Created(h2, h3, t, h.value[r], r)
  <2>1. h.value[r] \in Nat /\ h.value[r] >= FirstNonterminal
    BY <1>1, <1>3, <1>8 DEF Named
  <2> QED BY <1>3, <1>11, <1>12, <2>1, NewSymbolFields
<1> HIDE DEF h3
<1>14. /\ h3 \in Storage /\ h3.fault = "none" /\ h3.new = t /\ h3.table = h2.table
       /\ h3.next = [h2.next EXCEPT ![t] = Null] /\ h3.prev = [h2.prev EXCEPT ![t] = Null]
       /\ h3.value = [h.value EXCEPT ![t] = h.value[r]]
  BY <1>11, <1>13 DEF Created
<1>15. h3.next[p] = c /\ h3.next[t] = Null
  BY <1>2, <1>3, <1>7, <1>8, <1>11, <1>14
<1>16. InsertNonterminal(DeleteNext(DeleteNext(h, p), p), p, r) = k
  <2>1. DeleteNext(h, p) = h1
    BY <1>1, <1>2 DEF DeleteNext, h1
  <2>2. DeleteNext(h1, p) = h2
    BY <1>7, <1>9 DEF DeleteNext, h2
  <2>3. InsertNonterminal(h2, p, r) = k
    <3>1. InsertNonterminal(h2, p, r) = InsertNew(h3, p)
      BY <1>11 DEF InsertNonterminal, h3
    <3>2. InsertNew(h3, p) = insert_after(h3, p, t)
      BY <1>14 DEF InsertNew
    <3> QED BY <1>15, <3>1, <3>2 DEF insert_after
  <2> QED BY <2>1, <2>2, <2>3
<1>17. h4 = [h3 EXCEPT !.next[t] = c, !.prev[c] = t]
  BY ONLY <1>15 DEF join_symbols
<1> HIDE DEF h4
<1>18. /\ h4 \in Storage /\ h4.table = h2.table
       /\ h4.next = [h3.next EXCEPT ![t] = c] /\ h4.prev = [h3.prev EXCEPT ![c] = t]
       /\ h4.value = h3.value /\ h4.refcnt = h3.refcnt /\ h4.rule = h3.rule
       /\ h4.nextr = h3.nextr /\ h4.prevr = h3.prevr /\ h4.num = h3.num
       /\ h4.recycled = h3.recycled /\ h4.nextvalue = h3.nextvalue /\ h4.main = h3.main
       /\ h4.fault = h3.fault
  BY <1>3, <1>14, <1>17 DEF Storage
<1>19. /\ h4.next = [h2.next EXCEPT ![t] = c]
       /\ h4.prev = [h2.prev EXCEPT ![t] = Null, ![c] = t]
  <2>1. h2.next \in [Symbols -> Symbols \cup {Null}] /\ h2.prev \in [Symbols -> Symbols \cup {Null}]
    BY <1>11 DEF Storage
  <2> QED BY <1>2, <1>3, <1>14, <1>18, <2>1
<1>20. Served(h4) /\ Entered(h4) = Entered(h2)
  <2>1. ASSUME NEW y \in Entered(h2)
        PROVE  /\ h4.value[y] = h2.value[y] /\ h4.next[y] \in Symbols
               /\ h4.value[h4.next[y]] = h2.value[h2.next[y]]
    <3>1. y \in O /\ h.next[y] \in O /\ y # p /\ y # s /\ y # t /\ h.next[y] # t
      BY <1>1, <1>2, <1>11
    <3>2. h2.next[y] = h.next[y] /\ h4.next[y] = h.next[y]
      BY <1>3, <1>7, <1>8, <1>11, <1>19, <3>1
    <3> QED BY <1>3, <1>8, <1>11, <1>14, <1>18, <3>1, <3>2
  <2> QED BY <1>11, <1>18, <2>1, ServedSame
<1>21. Joined(h4, k, p, t)
  <2>1. h4.prev[t] = Null
    BY <1>2, <1>3, <1>7, <1>8, <1>11, <1>19
  <2>2. h4.next[p] = c
    BY <1>15, <1>2, <1>3, <1>18, <1>14 DEF Storage
  <2>3. h4.value[p] = h.value[p] /\ h4.value[t] = h.value[r]
    BY <1>2, <1>3, <1>8, <1>14, <1>18
  <2>4. ~ Triple(h4, p)
    <3>1. CASE p = c
      <4>1. h4.prev[p] = t
        BY <1>2, <1>3, <1>7, <1>8, <1>11, <1>19, <3>1
      <4>2. h.value[p] # h.value[r]
        BY <1>1, <1>3, <3>1 DEF Named
      <4> QED BY <2>3, <4>1, <4>2 DEF Triple
    <3>2. CASE p # c
      <4>1. h4.prev[p] = h.prev[p]
        BY <1>2, <1>3, <1>7, <1>8, <1>11, <1>19, <3>2
      <4>2. h.prev[p] \in R \cup O /\ h.prev[p] # t
        BY <1>1, <1>2, <3>2 DEF Linked
      <4>3. h4.value[h.prev[p]] = h.value[h.prev[p]]
        BY <1>3, <1>8, <1>14, <1>18, <4>2
      <4> QED BY <1>5, <2>3, <4>1, <4>3 DEF Triple
    <3> QED BY <3>1, <3>2
  <2>5. ~ Triple(h4, t)
    BY <2>1 DEF Triple
  <2> QED BY <1>3, <1>18, <1>20, <2>2, <2>4, <2>5, JoinCut
<1> HIDE DEF k
<1>22. /\ k.next = [h.next EXCEPT ![p] = t, ![s] = h.recycled, ![t] = c]
       /\ k.prev = [h.prev EXCEPT ![t] = p, ![c] = t]
  <2>1. k.next = [h4.next EXCEPT ![p] = t] /\ k.prev = [h4.prev EXCEPT ![t] = p]
    BY <1>21 DEF Joined
  <2>2. h4.next = [[[h.next EXCEPT ![p] = t, ![s] = h.recycled] EXCEPT ![p] = c, ![t] = s] EXCEPT ![t] = c]
    BY <1>7, <1>11, <1>19
  <2>3. h4.prev = [[[h.prev EXCEPT ![t] = p] EXCEPT ![c] = p] EXCEPT ![t] = Null, ![c] = t]
    BY <1>7, <1>11, <1>19
  <2>4. k.next = [h.next EXCEPT ![p] = t, ![s] = h.recycled, ![t] = c]
    BY <1>2, <1>3, <1>8, <2>1, <2>2
  <2>5. k.prev = [h.prev EXCEPT ![t] = p, ![c] = t]
    BY <1>2, <1>3, <1>8, <2>1, <2>3
  <2> QED BY <2>4, <2>5
<1>23. ASSUME NEW y \in R
       PROVE  k.refcnt[y] = h.refcnt[y] - (IF y = h.rule[s] THEN 1 ELSE 0)
                            - (IF y = h.rule[t] THEN 1 ELSE 0) + (IF y = r THEN 1 ELSE 0)
  <2>1. k.refcnt[y] = h3.refcnt[y] /\ y \in Symbols /\ y # t /\ h.refcnt[y] \in Int
    BY <1>3, <1>8, <1>18, <1>21 DEF Joined
  <2>2. h3.refcnt[y] = IF y = r THEN h2.refcnt[y] + 1 ELSE h2.refcnt[y]
    BY <1>13, <2>1 DEF Created
  <2>3. h2.refcnt[y] = IF y = h.rule[t] THEN h1.refcnt[y] - 1 ELSE h1.refcnt[y]
    BY <1>7, <1>10, <2>1 DEF Deleted
  <2>4. h1.refcnt[y] = IF y = h.rule[s] THEN h.refcnt[y] - 1 ELSE h.refcnt[y]
    BY <1>6, <2>1 DEF Deleted
  <2> QED BY <2>1, <2>2, <2>3, <2>4
<1>24. /\ k.rule = [h.rule EXCEPT ![t] = r]
       /\ k.nextr = [h.nextr EXCEPT ![t] = Null] /\ k.prevr = [h.prevr EXCEPT ![t] = Null]
       /\ k.num = h.num /\ k.recycled = s /\ k.nextvalue = h.nextvalue /\ k.main = h.main
  <2>1. /\ k.rule = h3.rule /\ k.nextr = h3.nextr /\ k.prevr = h3.prevr /\ k.num = h3.num
        /\ k.recycled = h3.recycled /\ k.nextvalue = h3.nextvalue /\ k.main = h3.main
    BY <1>18, <1>21 DEF Joined
  <2>2. h2.next[t] = s /\ h2.recycled # Null
    BY <1>3, <1>7, <1>8, <1>11
  <2>3. /\ h3.rule = [h2.rule EXCEPT ![t] = r] /\ h3.nextr = [h2.nextr EXCEPT ![t] = Null]
        /\ h3.prevr = [h2.prevr EXCEPT ![t] = Null] /\ h3.num = h2.num /\ h3.recycled = s
        /\ h3.nextvalue = h2.nextvalue /\ h3.main = h2.main
    BY <1>11, <1>13, <2>2 DEF Created
  <2> QED BY <1>6, <1>10, <2>1, <2>3 DEF Deleted
<1>25. k \in Storage /\ Served(k) /\ Entered(k) = Entered(h) \ {p, s, t} /\ k.fault = "none"
       /\ k.value = [h.value EXCEPT ![t] = h.value[r]]
  BY <1>11, <1>14, <1>18, <1>20, <1>21 DEF Joined
<1> QED BY <1>16, <1>22, <1>23, <1>24, <1>25 DEF Replaced

\* One use less and one use more.
LEMMA CardRemove ==
  ASSUME NEW U, U \subseteq Symbols, NEW x
  PROVE  /\ IsFiniteSet(U) /\ Cardinality(U) \in Nat
         /\ Cardinality(U \ {x}) = Cardinality(U) - (IF x \in U THEN 1 ELSE 0)
         /\ Cardinality(U \cup {x}) = Cardinality(U) + (IF x \in U THEN 0 ELSE 1)
<1>1. IsFiniteSet(U) /\ Cardinality(U) \in Nat
  BY NullApart, FS_Subset, FS_CardinalityType
<1>2. x \notin U => U \ {x} = U
  OBVIOUS
<1>3. x \in U => U \cup {x} = U
  OBVIOUS
<1>4. x \in U => Cardinality(U \ {x}) = Cardinality(U) - 1
  BY <1>1, FS_RemoveElement
<1>5. x \notin U => Cardinality(U \cup {x}) = Cardinality(U) + 1
  BY <1>1, FS_AddElement
<1> QED BY <1>1, <1>2, <1>3, <1>4, <1>5

\* The nonterminal stands for what the digram stood for.
LEMMA ReplaceSound ==
  ASSUME NEW h, NEW in, NEW R, NEW O, NEW own, NEW a, NEW z, NEW rank, NEW n,
         Sound(h, in, {h.main}, R, O, own, a, z, rank, n), Tabled(h, O),
         NEW s \in O, NEW t \in O, h.next[s] = t, NEW r \in R \ {h.main},
         NEW p, p = h.prev[s], NEW c, c = h.next[t],
         own[s] = h.main \/ p \notin R \/ c \notin R,
         a[r] - z[r] = z[t] - a[s], SameText(in, a[s], z[r], z[t] - a[s]),
         NEW k, Replaced(h, k, R, p, s, t, c, r)
  PROVE  /\ \E rank2, m : Sound(k, in, {h.main}, R, O \ {s}, own, [a EXCEPT ![t] = a[s]], z, rank2, m)
         /\ Tabled(k, O \ {s})
<1> DEFINE O2 == O \ {s}
           a2 == [a EXCEPT ![t] = a[s]]
<1>1. /\ h \in Storage /\ Linked(h, R, O, own) /\ Stretched(h, in, R, O, own, a, z)
      /\ Named(h, in, R, O, a, z) /\ Ringed(h, R) /\ Counted(h, R, O) /\ in \in Seq(Letters)
      /\ Spared(h, R, O, rank, n) /\ Bodied(h, R, O, {h.main})
  BY DEF Sound
<1>2. /\ p \in R \cup O /\ c \in R \cup O /\ h.next[p] = s /\ h.prev[t] = s /\ h.prev[c] = t
      /\ p # s /\ p # t /\ s # t /\ c # s /\ c # t
      /\ own[p] = own[s] /\ own[t] = own[s] /\ own[c] = own[s]
      /\ a[s] < z[s] /\ z[s] = a[t] /\ a[t] < z[t] /\ z[p] = a[s] /\ z[t] = a[c]
      /\ a[s] \in Int /\ a[t] \in Int /\ z[t] \in Int
      /\ \A y \in R \cup O : (h.next[y] = s => y = p) /\ (h.next[y] = t => y = s)
                             /\ (h.next[y] = c => y = t)
  BY Around
<1>3. /\ p \in Symbols /\ s \in Symbols /\ t \in Symbols /\ c \in Symbols /\ r \in Symbols
      /\ r \in R /\ R \subseteq Symbols /\ O \subseteq Symbols /\ r # t /\ r # s
      /\ Null \notin Symbols /\ R \cap O = {} /\ h.main \in R /\ r # h.main
  <2>1. R \subseteq Symbols /\ O \subseteq Symbols /\ R \cap O = {} /\ h.main \in R
    BY <1>1 DEF Linked, Named
  <2> QED BY <1>2, <2>1, NullApart
<1>4. /\ h.next \in [Symbols -> Symbols \cup {Null}] /\ h.prev \in [Symbols -> Symbols \cup {Null}]
      /\ h.value \in [Symbols -> Nat] /\ h.rule \in [Symbols -> Symbols \cup {Null}]
      /\ h.nextr \in [Symbols -> Symbols \cup {Null}] /\ h.prevr \in [Symbols -> Symbols \cup {Null}]
      /\ own \in [Symbols -> Symbols] /\ a \in [Symbols -> Int] /\ z \in [Symbols -> Int]
      /\ h.refcnt \in [Symbols -> Nat]
  BY <1>1 DEF Storage, Linked, Stretched
<1>5. /\ k \in Storage /\ Served(k) /\ Entered(k) = Entered(h) \ {p, s, t} /\ k.fault = "none"
      /\ k.next = [h.next EXCEPT ![p] = t, ![s] = h.recycled, ![t] = c]
      /\ k.prev = [h.prev EXCEPT ![t] = p, ![c] = t]
      /\ k.value = [h.value EXCEPT ![t] = h.value[r]] /\ k.rule = [h.rule EXCEPT ![t] = r]
      /\ k.nextr = [h.nextr EXCEPT ![t] = Null] /\ k.prevr = [h.prevr EXCEPT ![t] = Null]
      /\ k.num = h.num /\ k.recycled = s /\ k.nextvalue = h.nextvalue /\ k.main = h.main
      /\ \A y \in R : k.refcnt[y] = h.refcnt[y] - (IF y = h.rule[s] THEN 1 ELSE 0)
                                    - (IF y = h.rule[t] THEN 1 ELSE 0) + (IF y = r THEN 1 ELSE 0)
  BY DEF Replaced
<1>6. /\ k.next[p] = t /\ k.next[t] = c /\ k.next[s] = h.recycled
      /\ \A y \in Symbols \ {p, s, t} : k.next[y] = h.next[y]
      /\ k.prev[t] = p /\ k.prev[c] = t /\ \A y \in Symbols \ {t, c} : k.prev[y] = h.prev[y]
  BY <1>2, <1>3, <1>4, <1>5
<1>7. /\ k.value[t] = h.value[r] /\ \A y \in Symbols \ {t} : k.value[y] = h.value[y]
      /\ k.rule[t] = r /\ \A y \in Symbols \ {t} : k.rule[y] = h.rule[y]
      /\ \A y \in R : k.nextr[y] = h.nextr[y] /\ k.prevr[y] = h.prevr[y]
      /\ a2 \in [Symbols -> Int] /\ a2[t] = a[s] /\ \A y \in Symbols \ {t} : a2[y] = a[y]
  BY <1>2, <1>3, <1>4, <1>5
<1> HIDE DEF a2
<1>8. Linked(k, R, O2, own)
  <2>1. ASSUME NEW y \in R \cup O2
        PROVE  /\ own[y] \in R /\ k.next[y] \in R \cup O2 /\ k.prev[y] \in R \cup O2
               /\ own[k.next[y]] = own[y]
               /\ k.prev[k.next[y]] = y /\ k.next[k.prev[y]] = y
    <3>1. /\ own[y] \in R /\ h.next[y] \in R \cup O /\ h.prev[y] \in R \cup O
          /\ own[h.next[y]] = own[y] /\ h.prev[h.next[y]] = y /\ h.next[h.prev[y]] = y
          /\ y \in Symbols /\ y # s /\ y \in R \cup O
      BY <1>1, <1>3 DEF Linked
    <3>2. k.next[y] \in R \cup O2 /\ own[k.next[y]] = own[y] /\ k.prev[k.next[y]] = y
      <4>1. CASE y = p \/ y = t
        BY <1>2, <1>3, <1>6, <4>1
      <4>2. CASE y # p /\ y # t
        <5>1. /\ k.next[y] = h.next[y] /\ h.next[y] # s /\ h.next[y] # t /\ h.next[y] # c
              /\ h.next[y] \in Symbols
          BY <1>2, <1>3, <1>6, <3>1, <4>2
        <5> QED BY <1>6, <3>1, <5>1
      <4> QED BY <4>1, <4>2
    <3>3. k.prev[y] \in R \cup O2 /\ k.next[k.prev[y]] = y
      <4>1. CASE y = c \/ y = t
        BY <1>2, <1>3, <1>6, <4>1
      <4>2. CASE y # c /\ y # t
        <5>1. /\ k.prev[y] = h.prev[y] /\ h.prev[y] # p /\ h.prev[y] # s /\ h.prev[y] # t
              /\ h.prev[y] \in Symbols
          BY <1>2, <1>3, <1>6, <3>1, <4>2
        <5> QED BY <1>6, <3>1, <5>1
      <4> QED BY <4>1, <4>2
    <3> QED BY <3>1, <3>2, <3>3
  <2>2. \A y \in R : own[y] = y
    BY <1>1 DEF Linked
  <2> QED BY <1>3, <1>4, <2>1, <2>2 DEF Linked
<1>9. Stretched(k, in, R, O2, own, a2, z)
  <2>1. ASSUME NEW y \in R \cup O2 PROVE z[y] = a2[k.next[y]]
    <3>1. z[y] = a[h.next[y]] /\ h.next[y] \in R \cup O /\ y \in R \cup O /\ y # s /\ y \in Symbols
      BY <1>1, <1>3, SMTT(20) DEF Stretched, Linked
    <3>2. CASE y = p
      BY <1>2, <1>6, <1>7, <3>2
    <3>3. CASE y = t
      BY <1>2, <1>3, <1>6, <1>7, <3>3
    <3>4. CASE y # p /\ y # t
      <4>1. k.next[y] = h.next[y] /\ h.next[y] # t /\ h.next[y] \in Symbols
        BY <1>2, <1>3, <1>6, <3>1, <3>4
      <4> QED BY <1>7, <3>1, <4>1
    <3> QED BY <3>2, <3>3, <3>4
  <2>2. \A y \in R : 0 <= z[y] /\ z[y] <= a2[y] /\ a2[y] <= Len(in)
    BY <1>1, <1>3, <1>7 DEF Stretched
  <2>3. ASSUME NEW y \in O2 PROVE a2[y] < z[y] /\ z[own[y]] <= a2[y] /\ z[y] <= a2[own[y]]
    <3>1. /\ a[y] < z[y] /\ z[own[y]] <= a[y] /\ z[y] <= a[own[y]] /\ own[y] \in R
          /\ own[y] # t /\ own[y] \in Symbols
      BY <1>1, <1>3 DEF Stretched, Linked
    <3>2. a2[own[y]] = a[own[y]]
      BY <1>7, <3>1
    <3>3. CASE y = t
      <4>1. z[own[s]] <= a[s]
        BY <1>1 DEF Stretched
      <4> QED BY <1>2, <1>7, <3>1, <3>2, <3>3, <4>1
    <3>4. CASE y # t
      <4>1. y \in Symbols \ {t}
        BY <1>3, <3>4
      <4> QED BY <1>7, <3>1, <3>2, <4>1
    <3> QED BY <3>3, <3>4
  <2> QED BY <1>4, <1>7, <2>1, <2>2, <2>3 DEF Stretched
<1>10. Named(k, in, R, O2, a2, z)
  <2>1. ASSUME NEW y \in R
        PROVE  k.rule[y] = h.rule[y] /\ k.value[y] = h.value[y] /\ a2[y] = a[y]
    BY <1>3, <1>7
  <2>2. ASSUME NEW y \in O2 PROVE Letter(k, in, a2, z, y) \/ Instance(k, in, R, a2, z, y)
    <3>1. CASE y = t
      <4>1. /\ k.rule[y] = r /\ k.value[y] = k.value[r] /\ a2[y] = a[s] /\ a2[r] = a[r]
            /\ k.main = h.main
        BY <1>3, <1>5, <1>7, <2>1, <3>1
      <4>2. z[y] - a2[y] = a2[r] - z[r] /\ SameText(in, a2[y], z[r], z[y] - a2[y])
        BY <3>1, <4>1
      <4> QED BY <1>3, <4>1, <4>2 DEF Instance
    <3>2. CASE y # t
      <4>1. /\ y \in O /\ k.rule[y] = h.rule[y] /\ k.value[y] = h.value[y] /\ a2[y] = a[y]
            /\ k.main = h.main
        BY <1>3, <1>5, <1>7, <3>2
      <4>2. CASE Letter(h, in, a, z, y)
        BY <4>1, <4>2 DEF Letter
      <4>3. CASE Instance(h, in, R, a, z, y)
        <5>1. h.rule[y] \in R
          BY <4>3 DEF Instance
        <5>2. a2[h.rule[y]] = a[h.rule[y]] /\ k.value[h.rule[y]] = h.value[h.rule[y]]
          BY <2>1, <5>1
        <5> QED BY <4>1, <4>3, <5>2 DEF Instance
      <4> QED BY <1>1, <4>1, <4>2, <4>3 DEF Named
    <3> QED BY <3>1, <3>2
  <2> QED BY <1>1, <1>5, <2>1, <2>2 DEF Named
<1>11. Ringed(k, R)
  <2>1. \A y \in R : /\ k.nextr[y] = h.nextr[y] /\ k.prevr[y] = h.prevr[y]
                     /\ k.value[y] = h.value[y]
    BY <1>3, <1>7
  <2> QED BY <1>1, <1>5, <2>1 DEF Ringed
<1>12. Counted(k, R, O2)
  <2> SUFFICES ASSUME NEW y \in R PROVE k.refcnt[y] = Cardinality(Uses(k, O2, y))
    BY DEF Counted
  <2> DEFINE U == Uses(h, O, y)
             U1 == U \ {s}
             U2 == U1 \ {t}
             U3 == U2 \cup {t}
  <2>1. U \subseteq Symbols /\ h.refcnt[y] = Cardinality(U)
    BY <1>1, <1>3 DEF Counted, Uses
  <2>2. (s \in U <=> y = h.rule[s]) /\ (t \in U1 <=> y = h.rule[t]) /\ t \notin U2
    BY <1>2 DEF Uses
  <2>3. Uses(k, O2, y) = IF y = r THEN U3 ELSE U2
    <3>1. \A x \in O2 : x # t => k.rule[x] = h.rule[x]
      BY <1>3, <1>7
    <3>2. k.rule[t] = r /\ t \in O2
      BY <1>2, <1>7
    <3> QED BY <3>1, <3>2 DEF Uses
  <2> HIDE DEF U
  <2>4. /\ Cardinality(U) \in Nat /\ Cardinality(U1) \in Nat /\ Cardinality(U2) \in Nat
        /\ Cardinality(U1) = Cardinality(U) - (IF s \in U THEN 1 ELSE 0)
        /\ Cardinality(U2) = Cardinality(U1) - (IF t \in U1 THEN 1 ELSE 0)
        /\ Cardinality(U3) = Cardinality(U2) + (IF t \in U2 THEN 0 ELSE 1)
    <3>1. U1 \subseteq Symbols /\ U2 \subseteq Symbols
      BY <2>1
    <3> HIDE DEF U1, U2
    <3>2. /\ Cardinality(U) \in Nat /\ Cardinality(U1) \in Nat /\ Cardinality(U2) \in Nat
      BY <2>1, <3>1, CardRemove
    <3>3. Cardinality(U1) = Cardinality(U) - (IF s \in U THEN 1 ELSE 0)
      BY <2>1, CardRemove DEF U1
    <3>4. Cardinality(U2) = Cardinality(U1) - (IF t \in U1 THEN 1 ELSE 0)
      BY <3>1, CardRemove DEF U2
    <3>5. Cardinality(U3) = Cardinality(U2) + (IF t \in U2 THEN 0 ELSE 1)
      BY <3>1, CardRemove
    <3> QED BY <3>2, <3>3, <3>4, <3>5
  <2> HIDE DEF U1, U2, U3
  <2>5. k.refcnt[y] = h.refcnt[y] - (IF y = h.rule[s] THEN 1 ELSE 0)
                      - (IF y = h.rule[t] THEN 1 ELSE 0) + (IF y = r THEN 1 ELSE 0)
    BY <1>5
  <2>6. CASE y = r
    BY <2>1, <2>2, <2>3, <2>4, <2>5, <2>6
  <2>7. CASE y # r
    BY <2>1, <2>2, <2>3, <2>4, <2>5, <2>7
  <2> QED BY <2>6, <2>7
<1>13. \E rank2, m : Spared(k, R, O2, rank2, m)
  <2>1. \A y \in Waiting(h, R, O) : k.next[y] = h.next[y]
    <3>1. h.num \in 0 .. MaxSymbols /\ MaxSymbols \in Nat
      BY <1>1, SizesAssumption DEF Spared
    <3>2. \A y \in 0 .. h.num - 1 : y \in Symbols
      BY <3>1 DEF Symbols
    <3>3. \A y \in Waiting(h, R, O) : y \in Symbols \ {p, s, t}
      BY <1>2, <3>2 DEF Waiting
    <3> QED BY <1>6, <3>3
  <2>2. /\ R \cup O2 = (R \cup O) \ {s} /\ s \in R \cup O /\ R \cup O \subseteq Symbols
        /\ k.num = h.num /\ k.recycled = s /\ k.next[s] = h.recycled
    BY <1>3, <1>5, <1>6
  <2> HIDE DEF O2
  <2>3. Spared(h, R, O, rank, n)
    BY <1>1
  <2> QED BY ONLY <2>1, <2>2, <2>3, Pushed
<1>14. Bodied(k, R, O2, {h.main})
  <2> SUFFICES ASSUME NEW y \in R \ {h.main} PROVE k.next[y] \in O2 /\ k.next[k.next[y]] \in O2
    BY DEF Bodied
  <2>1. /\ h.next[y] \in O /\ h.next[h.next[y]] \in O /\ y \in R \cup O /\ y # s /\ y # t
        /\ y \in Symbols /\ h.next[y] \in Symbols
    BY <1>1, <1>3 DEF Bodied
  <2>2. CASE y = p
    <3>1. own[s] = p
      BY <1>1, <1>2, <2>2 DEF Linked
    <3>2. c \in O2
      BY <1>2, <2>2, <3>1
    <3> QED BY <1>2, <1>6, <2>2, <3>2
  <2>3. CASE y # p
    <3>1. k.next[y] = h.next[y] /\ h.next[y] # s /\ h.next[y] # t
      BY <1>2, <1>6, <2>1, <2>3
    <3>2. CASE h.next[y] = p
      BY <1>2, <1>6, <2>1, <3>1, <3>2
    <3>3. CASE h.next[y] # p
      <4>1. k.next[h.next[y]] = h.next[h.next[y]] /\ h.next[h.next[y]] # s
        BY <1>2, <1>6, <2>1, <3>1, <3>3
      <4> QED BY <2>1, <3>1, <4>1
    <3> QED BY <3>2, <3>3
  <2> QED BY <2>2, <2>3
<1>15. Tabled(k, O2)
  <2> SUFFICES ASSUME NEW y \in Entered(k) PROVE y \in O2 /\ k.next[y] \in O2
    BY <1>5 DEF Tabled
  <2>1. y \in O /\ h.next[y] \in O /\ y # p /\ y # s /\ y # t
    BY <1>5 DEF Tabled
  <2>2. h.next[y] # s /\ k.next[y] = h.next[y]
    BY <1>2, <1>3, <1>6, <2>1
  <2> QED BY <2>1, <2>2
<1> HIDE DEF O2
<1>16. PICK rank2, m : Spared(k, R, O2, rank2, m)
  BY <1>13
<1>17. Sound(k, in, {h.main}, R, O2, own, a2, z, rank2, m)
  BY <1>1, <1>5, <1>8, <1>9, <1>10, <1>11, <1>12, <1>14, <1>16 DEF Sound
<1> QED BY <1>15, <1>17 DEF O2, a2

-----------------------------------------------------------------------------
(* The only instance of a rule gives way to its body.                      *)

Spliced(h, k, p, s, c, r) ==
  /\ k \in Storage /\ Served(k) /\ Entered(k) = Entered(h) \ {p, s} /\ k.fault = "none"
  /\ k.next = [h.next EXCEPT ![p] = h.next[r], ![h.prev[r]] = c, ![s] = h.recycled, ![r] = s]
  /\ k.prev = [h.prev EXCEPT ![h.next[r]] = p, ![c] = h.prev[r], ![r] = Null]
  /\ k.value = h.value /\ k.rule = h.rule
  /\ k.nextr = [h.nextr EXCEPT ![h.prevr[r]] = h.nextr[r]]
  /\ k.prevr = [h.prevr EXCEPT ![h.nextr[r]] = h.prevr[r]]
  /\ \A y \in Symbols \ {r} : k.refcnt[y] = h.refcnt[y]
  /\ k.num = h.num /\ k.recycled = r /\ k.nextvalue = h.nextvalue /\ k.main = h.main

\* A symbol and its neighbours.
LEMMA Beside ==
  ASSUME NEW h, NEW in, NEW E, NEW R, NEW O, NEW own, NEW a, NEW z, NEW rank, NEW n,
         Sound(h, in, E, R, O, own, a, z, rank, n), NEW s \in O
  PROVE  LET p == h.prev[s]  c == h.next[s] IN
         /\ p \in R \cup O /\ c \in R \cup O /\ h.next[p] = s /\ h.prev[c] = s
         /\ p # s /\ c # s /\ own[p] = own[s] /\ own[c] = own[s]
         /\ a[s] < z[s] /\ z[p] = a[s] /\ z[s] = a[c]
         /\ a[s] \in Int /\ z[s] \in Int
         /\ \A y \in R \cup O : (h.next[y] = s => y = p) /\ (h.next[y] = c => y = s)
<1> DEFINE p == h.prev[s]
           c == h.next[s]
<1>1. Linked(h, R, O, own) /\ Stretched(h, in, R, O, own, a, z)
  BY DEF Sound
<1>2. /\ p \in R \cup O /\ c \in R \cup O /\ h.next[p] = s /\ h.prev[c] = s
      /\ own[p] = own[s] /\ own[c] = own[s] /\ s \in Symbols
  BY <1>1 DEF Linked
<1>3. \A y \in R \cup O : (h.next[y] = s => y = p) /\ (h.next[y] = c => y = s)
  BY <1>1, <1>2 DEF Linked
<1>4. a[s] < z[s] /\ z[p] = a[s] /\ z[s] = a[c] /\ a[s] \in Int /\ z[s] \in Int
  BY <1>1, <1>2 DEF Stretched
<1>5. p # s /\ c # s
  BY <1>4
<1> QED BY <1>2, <1>3, <1>4, <1>5

\* expand_instance (sequitur.c:30-60).
LEMMA ExpandFields ==
  ASSUME NEW h, NEW in, NEW R, NEW O, NEW own, NEW a, NEW z, NEW rank, NEW n,
         Sound(h, in, {h.main}, R, O, own, a, z, rank, n), NoSquare(in), Tabled(h, O),
         NEW s \in O, NEW r \in R \ {h.main}, h.rule[s] = r, h.refcnt[r] = 1,
         NEW p, p = h.prev[s], NEW c, c = h.next[s]
  PROVE  Spliced(h, expand_instance(h, s), p, s, c, r)
<1> DEFINE f == h.next[r]
           l == h.prev[r]
<1>1. /\ h \in Storage /\ Linked(h, R, O, own) /\ Named(h, in, R, O, a, z) /\ Ringed(h, R)
      /\ h.fault = "none" /\ Served(h) /\ \A y \in Entered(h) : y \in O /\ h.next[y] \in O
      /\ Bodied(h, R, O, {h.main})
  BY DEF Sound, Tabled
<1>2. /\ p \in R \cup O /\ c \in R \cup O /\ h.next[p] = s /\ h.prev[c] = s
      /\ p # s /\ c # s /\ own[p] = own[s] /\ own[c] = own[s]
      /\ \A y \in R \cup O : h.next[y] = s => y = p
  BY Beside
<1>3. \A q \in {h.main} : q # h.main => Uses(h, O, q) = {}
  OBVIOUS
<1>4. /\ f \in O /\ l \in O /\ own[f] = r /\ own[l] = r /\ own[s] # r /\ own[r] = r
      /\ h.next[l] = r /\ h.prev[f] = r
  <2>1. f \in O /\ l \in R \cup O /\ own[f] = r /\ own[l] = r /\ own[r] = r
        /\ h.next[l] = r /\ h.prev[f] = r
    BY <1>1 DEF Linked, Bodied
  <2>2. l \in O
    <3>1. l \in R => l = r
      BY <1>1, <2>1 DEF Linked
    <3>2. r \notin O
      BY <1>1 DEF Linked
    <3> QED BY <2>1, <3>1, <3>2
  <2>3. own[s] # r
    BY <1>3, NoSelf
  <2> QED BY <2>1, <2>2, <2>3
<1>5. /\ p \in Symbols /\ s \in Symbols /\ c \in Symbols /\ r \in Symbols /\ f \in Symbols
      /\ l \in Symbols /\ R \cap O = {} /\ r \notin O /\ r # s /\ r \in R
      /\ p # l /\ p # f /\ c # f /\ c # l /\ p # r /\ c # r /\ s # f /\ s # l /\ Null \notin Symbols
  <2>1. R \subseteq Symbols /\ O \subseteq Symbols /\ R \cap O = {}
    BY <1>1 DEF Linked
  <2> QED BY <1>2, <1>4, <2>1, NullApart
<1>6. /\ h.next \in [Symbols -> Symbols \cup {Null}] /\ h.prev \in [Symbols -> Symbols \cup {Null}]
      /\ h.refcnt \in [Symbols -> Nat]
  BY <1>1 DEF Storage
<1>7. /\ h.value[p] # h.value[s] /\ h.value[f] # h.value[r] /\ h.value[l] # h.value[r]
      /\ h.value[c] # h.value[s]
  <2>1. h.value[p] # h.value[s] /\ h.value[c] # h.value[s]
    BY <1>2, <1>3, Apart
  <2>2. h.value[f] # h.value[r] /\ h.value[l] # h.value[r]
    BY <1>3, <1>4, NoSelf
  <2> QED BY <2>1, <2>2
<1> HIDE DEF f, l
<1> DEFINE h1 == digram_delete(h, s)
           h2 == join_symbols(h1, p, f)
           h3 == join_symbols(h2, l, c)
           h4 == [h3 EXCEPT !.next[r] = Null, !.prev[r] = Null]
           h5 == recycle_symbol(h4, s)
           zero == 0
           h6 == [h5 EXCEPT !.refcnt[r] = zero]
           h7 == [h6 EXCEPT !.nextr[h6.prevr[r]] = h6.nextr[r], !.prevr[h6.nextr[r]] = h6.prevr[r]]
           k == recycle_symbol(h7, r)
<1>8. /\ h1 \in Storage /\ h1 = [h EXCEPT !.table = h1.table]
      /\ Served(h1) /\ Entered(h1) = Entered(h) \ {s}
  BY <1>1, <1>5, <1>2, DeleteAny
<1> HIDE DEF h1
<1>9. /\ h1.next = h.next /\ h1.prev = h.prev /\ h1.value = h.value /\ h1.refcnt = h.refcnt
      /\ h1.rule = h.rule /\ h1.nextr = h.nextr /\ h1.prevr = h.prevr
      /\ h1.num = h.num /\ h1.recycled = h.recycled /\ h1.nextvalue = h.nextvalue
      /\ h1.main = h.main /\ h1.fault = h.fault
  BY <1>1, <1>8 DEF Storage
<1>10. Joined(h1, h2, p, f)
  <2>1. ~ Triple(h1, p) /\ ~ Triple(h1, f)
    BY <1>2, <1>4, <1>7, <1>9 DEF Triple
  <2> QED BY <1>2, <1>5, <1>8, <1>9, <2>1, JoinCut
<1> HIDE DEF h2
<1>11. /\ h2 \in Storage /\ Served(h2) /\ Entered(h2) = Entered(h) \ {p, s}
       /\ h2.next = [h.next EXCEPT ![p] = f] /\ h2.prev = [h.prev EXCEPT ![f] = p]
       /\ h2.value = h.value
  BY <1>8, <1>9, <1>10 DEF Joined
<1>12. Joined(h2, h3, l, c)
  <2>1. h2.next[l] = r /\ h2.prev[c] = s
    BY <1>2, <1>4, <1>5, <1>6, <1>11
  <2>2. ~ Triple(h2, l) /\ ~ Triple(h2, c)
    BY <1>7, <1>11, <2>1 DEF Triple
  <2> QED BY <1>5, <1>11, <2>1, <2>2, JoinCut
<1> HIDE DEF h3
<1>13. /\ h3 \in Storage /\ Served(h3) /\ Entered(h3) = Entered(h) \ {p, s}
       /\ h3.next = [h.next EXCEPT ![p] = f, ![l] = c] /\ h3.prev = [h.prev EXCEPT ![f] = p, ![c] = l]
       /\ h3.value = h.value
  <2>1. l \notin Entered(h)
    BY <1>1, <1>4, <1>5
  <2>2. h3.next = [h2.next EXCEPT ![l] = c] /\ h3.prev = [h2.prev EXCEPT ![c] = l]
    BY <1>12 DEF Joined
  <2>3. h3.next = [h.next EXCEPT ![p] = f, ![l] = c] /\ h3.prev = [h.prev EXCEPT ![f] = p, ![c] = l]
    BY <1>6, <1>11, <2>2
  <2> QED BY <1>11, <1>12, <2>1, <2>3 DEF Joined
<1>14. /\ h3.refcnt = h.refcnt
       /\ h3.rule = h.rule /\ h3.nextr = h.nextr /\ h3.prevr = h.prevr
       /\ h3.num = h.num /\ h3.recycled = h.recycled /\ h3.nextvalue = h.nextvalue
       /\ h3.main = h.main /\ h3.fault = "none"
  BY <1>1, <1>9, <1>10, <1>12 DEF Joined
<1>15. /\ h4 \in Storage /\ h4.table = h3.table
       /\ h4.next = [h3.next EXCEPT ![r] = Null] /\ h4.prev = [h3.prev EXCEPT ![r] = Null]
       /\ h4.value = h3.value /\ h4.refcnt = h3.refcnt
       /\ h4.rule = h3.rule /\ h4.nextr = h3.nextr /\ h4.prevr = h3.prevr
       /\ h4.num = h3.num /\ h4.recycled = h3.recycled /\ h4.nextvalue = h3.nextvalue
       /\ h4.main = h3.main /\ h4.fault = h3.fault
  BY <1>5, <1>13 DEF Storage
<1> HIDE DEF h4
<1>16. Served(h4) /\ Entered(h4) = Entered(h) \ {p, s}
  <2>1. ASSUME NEW y \in Entered(h3)
        PROVE  /\ h4.value[y] = h3.value[y] /\ h4.next[y] \in Symbols
               /\ h4.value[h4.next[y]] = h3.value[h3.next[y]]
    <3>1. y \in O /\ y # r /\ y \in Symbols /\ h3.next[y] \in Symbols
      BY <1>1, <1>5, <1>13 DEF Served, Linked
    <3>2. h4.next[y] = h3.next[y]
      BY <1>13, <1>15, <3>1 DEF Storage
    <3> QED BY <1>15, <3>1, <3>2
  <2>2. h3 \in Storage /\ h4 \in Storage /\ Served(h3) /\ h4.table = h3.table
    BY <1>13, <1>15
  <2>3. Served(h4) /\ Entered(h4) = Entered(h3)
    BY ONLY <2>1, <2>2, ServedSame
  <2> QED BY <1>13, <2>3
<1>17. /\ h5 \in Storage /\ Served(h5) /\ Entered(h5) = Entered(h) \ {p, s}
       /\ h5.next = [h4.next EXCEPT ![s] = h4.recycled] /\ h5.recycled = s
       /\ h5.value = h4.value /\ h5.rule = h4.rule /\ h5.nextr = h4.nextr /\ h5.prevr = h4.prevr
       /\ h5.prev = h4.prev /\ h5.refcnt = h4.refcnt
       /\ h5.num = h4.num /\ h5.nextvalue = h4.nextvalue /\ h5.main = h4.main /\ h5.fault = h4.fault
  <2>1. s \notin Entered(h4)
    BY <1>16
  <2> QED BY <1>5, <1>15, <1>16, <2>1, RecycleFields
<1> HIDE DEF h5
<1>18. zero \in Nat
  OBVIOUS
<1> HIDE DEF zero
<1>19. /\ h6 \in Storage /\ h6.table = h5.table /\ h6.refcnt = [h.refcnt EXCEPT ![r] = zero]
       /\ h6.next = h5.next /\ h6.prev = h5.prev /\ h6.value = h5.value /\ h6.rule = h5.rule
       /\ h6.nextr = h5.nextr /\ h6.prevr = h5.prevr /\ h6.num = h5.num
       /\ h6.recycled = h5.recycled /\ h6.nextvalue = h5.nextvalue /\ h6.main = h5.main
       /\ h6.fault = h5.fault
  <2>1. h5 \in Storage /\ h5.refcnt = h.refcnt
    BY <1>14, <1>15, <1>17
  <2> QED BY <1>5, <1>18, <2>1 DEF Storage
<1>20. h.nextr[r] \in R /\ h.prevr[r] \in R /\ h.nextr[r] \in Symbols /\ h.prevr[r] \in Symbols
       /\ h.nextr[r] \in Symbols \cup {Null} /\ h.prevr[r] \in Symbols \cup {Null}
       /\ h6.nextr = h.nextr /\ h6.prevr = h.prevr
  BY <1>1, <1>14, <1>15, <1>17, <1>19 DEF Ringed, Linked
<1>21. h7 = [h6 EXCEPT !.nextr[h.prevr[r]] = h.nextr[r], !.prevr[h.nextr[r]] = h.prevr[r]]
  BY <1>20
<1>22. expand_instance(h, s) = k
  <2>1. expand_instance(h, s) = Expanded(h3, s, r)
    BY <1>5 DEF expand_instance, h3, h2, h1, f, l
  <2>2. Expanded(h3, s, r) = delete_rule(unref_rule(h5, r), r)
    BY DEF Expanded, h5, h4
  <2>3. unref_rule(h5, r) = h6
    <3>1. h5.refcnt[r] = 1
      BY <1>14, <1>15, <1>17
    <3>2. h5.refcnt[r] # 0 /\ h5.refcnt[r] - 1 = zero
      BY <3>1 DEF zero
    <3> QED BY <3>2 DEF unref_rule
  <2>4. h6.refcnt[r] = zero
    BY <1>5, <1>6, <1>19
  <2> HIDE DEF h6
  <2>5. h7 \in Storage /\ h7.refcnt[r] = 0
    BY <1>19, <1>20, <1>21, <2>4 DEF Storage, zero
  <2> HIDE DEF k
  <2>6. delete_rule(h6, r) = recycle_symbol(h7, r)
    BY <2>5 DEF delete_rule
  <2> QED BY <2>1, <2>2, <2>3, <2>6 DEF k
<1> HIDE DEF h6
<1>23. /\ h7 \in Storage /\ h7.table = h6.table
       /\ h7.nextr = [h.nextr EXCEPT ![h.prevr[r]] = h.nextr[r]]
       /\ h7.prevr = [h.prevr EXCEPT ![h.nextr[r]] = h.prevr[r]]
       /\ h7.next = h6.next /\ h7.prev = h6.prev /\ h7.value = h6.value /\ h7.rule = h6.rule
       /\ h7.refcnt = h6.refcnt /\ h7.num = h6.num /\ h7.recycled = h6.recycled
       /\ h7.nextvalue = h6.nextvalue /\ h7.main = h6.main /\ h7.fault = h6.fault
  BY <1>19, <1>20, <1>21 DEF Storage
<1> HIDE DEF h7
<1>24. Served(h7) /\ Entered(h7) = Entered(h) \ {p, s}
  <2>1. h7.table = h5.table /\ \A y \in Entered(h5) :
            /\ h7.value[y] = h5.value[y] /\ h7.next[y] \in Symbols
            /\ h7.value[h7.next[y]] = h5.value[h5.next[y]]
    BY <1>17, <1>19, <1>23 DEF Served
  <2>2. h5 \in Storage /\ h7 \in Storage /\ Served(h5)
    BY <1>17, <1>23
  <2>3. Served(h7) /\ Entered(h7) = Entered(h5)
    BY ONLY <2>1, <2>2, ServedSame
  <2> QED BY <1>17, <2>3
<1>25. /\ k \in Storage /\ Served(k) /\ Entered(k) = Entered(h) \ {p, s}
       /\ k.next = [h7.next EXCEPT ![r] = h7.recycled] /\ k.recycled = r
       /\ k.value = h7.value /\ k.rule = h7.rule /\ k.nextr = h7.nextr /\ k.prevr = h7.prevr
       /\ k.prev = h7.prev /\ k.refcnt = h7.refcnt
       /\ k.num = h7.num /\ k.nextvalue = h7.nextvalue /\ k.main = h7.main /\ k.fault = h7.fault
  <2>1. r \notin Entered(h7)
    BY <1>1, <1>5, <1>24
  <2>2. h7 \in Storage /\ Served(h7) /\ r \in Symbols /\ Entered(h7) = Entered(h) \ {p, s}
    BY <1>5, <1>23, <1>24
  <2> QED BY <2>1, <2>2, RecycleFields
<1> HIDE DEF k
<1>26. /\ k.next = [h.next EXCEPT ![p] = f, ![l] = c, ![s] = h.recycled, ![r] = s]
       /\ k.prev = [h.prev EXCEPT ![f] = p, ![c] = l, ![r] = Null]
  <2>1. k.next = [[[h3.next EXCEPT ![r] = Null] EXCEPT ![s] = h.recycled] EXCEPT ![r] = s]
    BY <1>14, <1>15, <1>17, <1>19, <1>23, <1>25
  <2>2. k.prev = [h3.prev EXCEPT ![r] = Null]
    BY <1>15, <1>17, <1>19, <1>23, <1>25
  <2>3. k.next = [h.next EXCEPT ![p] = f, ![l] = c, ![s] = h.recycled, ![r] = s]
    BY <1>5, <1>6, <1>13, <2>1
  <2> QED BY <1>6, <1>13, <2>2, <2>3
<1>27. \A y \in Symbols \ {r} : k.refcnt[y] = h.refcnt[y]
  BY <1>6, <1>19, <1>23, <1>25
<1> QED BY <1>13, <1>14, <1>15, <1>17, <1>19, <1>22, <1>23, <1>25, <1>26, <1>27 DEF Spliced, f, l

\* The body of r, moved to where s stands.
Moved(own, a, z, own2, a2, z2, s, r) ==
  /\ own2 = [y \in Symbols |-> IF own[y] = r THEN own[s] ELSE own[y]]
  /\ a2 = [y \in Symbols |-> IF own[y] = r THEN a[y] + (a[s] - z[r]) ELSE a[y]]
  /\ z2 = [y \in Symbols |-> IF own[y] = r THEN z[y] + (a[s] - z[r]) ELSE z[y]]

Regrown(k, in, E, R, O, own, a, z) == \E rank, n : Sound(k, in, E, R, O, own, a, z, rank, n)

\* The body of the rule stands for what the nonterminal stood for.
LEMMA ExpandSound ==
  ASSUME NEW h, NEW in, NEW R, NEW O, NEW own, NEW a, NEW z, NEW rank, NEW n,
         Sound(h, in, {h.main}, R, O, own, a, z, rank, n), Tabled(h, O),
         NEW s \in O, NEW r \in R \ {h.main}, Uses(h, O, r) = {s},
         NEW p, p = h.prev[s], NEW c, c = h.next[s],
         NEW k, Spliced(h, k, p, s, c, r),
         NEW own2, NEW a2, NEW z2, Moved(own, a, z, own2, a2, z2, s, r)
  PROVE  Regrown(k, in, {h.main}, R \ {r}, O \ {s}, own2, a2, z2) /\ Tabled(k, O \ {s})
<1> DEFINE R2 == R \ {r}
           O2 == O \ {s}
           f == h.next[r]
           l == h.prev[r]
<1>1. /\ h \in Storage /\ Linked(h, R, O, own) /\ Stretched(h, in, R, O, own, a, z)
      /\ Named(h, in, R, O, a, z) /\ Ringed(h, R) /\ Counted(h, R, O) /\ in \in Seq(Letters)
      /\ Spared(h, R, O, rank, n) /\ Bodied(h, R, O, {h.main})
  BY DEF Sound
<1>0. /\ own2 = [y \in Symbols |-> IF own[y] = r THEN own[s] ELSE own[y]]
      /\ a2 = [y \in Symbols |-> IF own[y] = r THEN a[y] + (a[s] - z[r]) ELSE a[y]]
      /\ z2 = [y \in Symbols |-> IF own[y] = r THEN z[y] + (a[s] - z[r]) ELSE z[y]]
  BY DEF Moved
<1>2. /\ p \in R \cup O /\ c \in R \cup O /\ h.next[p] = s /\ h.prev[c] = s
      /\ p # s /\ c # s /\ own[p] = own[s] /\ own[c] = own[s]
      /\ a[s] < z[s] /\ z[p] = a[s] /\ z[s] = a[c] /\ a[s] \in Int /\ z[s] \in Int
      /\ \A y \in R \cup O : (h.next[y] = s => y = p) /\ (h.next[y] = c => y = s)
  BY Beside
<1>3. /\ f \in O /\ l \in O /\ own[f] = r /\ own[l] = r /\ own[s] # r /\ own[r] = r
      /\ h.next[l] = r /\ h.prev[f] = r /\ own[s] \in R /\ s \in O /\ h.rule[s] = r
      /\ \A y \in O : own[y] = r => h.rule[y] # r
      /\ \A y \in O : y # s => h.rule[y] # r
      /\ \A y \in R \cup O : (h.next[y] = r => y = l) /\ (h.next[y] = f => y = r)
                             /\ (h.prev[y] = r => y = f) /\ (h.prev[y] = l => y = r)
                             /\ (h.prev[y] = s => y = c) /\ (h.prev[y] = p => y = s)
  <2>1. f \in O /\ l \in R \cup O /\ own[f] = r /\ own[l] = r /\ own[r] = r
        /\ h.next[l] = r /\ h.prev[f] = r
    BY <1>1 DEF Linked, Bodied
  <2>2. l \in O
    <3>1. l \in R => l = r
      BY <1>1, <2>1 DEF Linked
    <3>2. r \notin O
      BY <1>1 DEF Linked
    <3> QED BY <2>1, <3>1, <3>2
  <2>3. \A q \in {h.main} : q # h.main => Uses(h, O, q) = {}
    OBVIOUS
  <2>4. \A y \in O : h.rule[y] # own[y] /\ own[y] \in R
    BY <1>1, <2>3, NoSelf DEF Linked
  <2>5. h.rule[s] = r /\ \A y \in O : y # s => h.rule[y] # r
    BY DEF Uses
  <2>6. \A y \in R \cup O : (h.next[y] = r => y = l) /\ (h.next[y] = f => y = r)
                            /\ (h.prev[y] = r => y = f) /\ (h.prev[y] = l => y = r)
                            /\ (h.prev[y] = s => y = c) /\ (h.prev[y] = p => y = s)
    BY <1>1, <1>2, <2>1 DEF Linked
  <2> QED BY <2>1, <2>2, <2>4, <2>5, <2>6
<1> HIDE DEF f, l
<1>4. /\ p \in Symbols /\ s \in Symbols /\ c \in Symbols /\ r \in Symbols /\ f \in Symbols
      /\ l \in Symbols /\ R \cap O = {} /\ r \notin O /\ r # s /\ r \in R
      /\ p # l /\ p # f /\ c # f /\ c # l /\ p # r /\ c # r /\ s # f /\ s # l /\ Null \notin Symbols
      /\ R \subseteq Symbols /\ O \subseteq Symbols /\ h.main \in R /\ r # h.main
  <2>1. R \subseteq Symbols /\ O \subseteq Symbols /\ R \cap O = {} /\ h.main \in R
    BY <1>1 DEF Linked, Named
  <2> QED BY <1>2, <1>3, <2>1, NullApart
<1>5. /\ h.next \in [Symbols -> Symbols \cup {Null}] /\ h.prev \in [Symbols -> Symbols \cup {Null}]
      /\ h.nextr \in [Symbols -> Symbols \cup {Null}] /\ h.prevr \in [Symbols -> Symbols \cup {Null}]
      /\ own \in [Symbols -> Symbols] /\ a \in [Symbols -> Int] /\ z \in [Symbols -> Int]
      /\ h.value \in [Symbols -> Nat]
  BY <1>1 DEF Storage, Linked, Stretched
<1>6. /\ k \in Storage /\ Served(k) /\ Entered(k) = Entered(h) \ {p, s} /\ k.fault = "none"
      /\ k.next = [h.next EXCEPT ![p] = f, ![l] = c, ![s] = h.recycled, ![r] = s]
      /\ k.prev = [h.prev EXCEPT ![f] = p, ![c] = l, ![r] = Null]
      /\ k.value = h.value /\ k.rule = h.rule
      /\ k.nextr = [h.nextr EXCEPT ![h.prevr[r]] = h.nextr[r]]
      /\ k.prevr = [h.prevr EXCEPT ![h.nextr[r]] = h.prevr[r]]
      /\ \A y \in Symbols \ {r} : k.refcnt[y] = h.refcnt[y]
      /\ k.num = h.num /\ k.recycled = r /\ k.nextvalue = h.nextvalue /\ k.main = h.main
  BY DEF Spliced, f, l
<1>7. /\ k.next[p] = f /\ k.next[l] = c /\ k.next[s] = h.recycled /\ k.next[r] = s
      /\ \A y \in Symbols \ {p, l, s, r} : k.next[y] = h.next[y]
      /\ k.prev[f] = p /\ k.prev[c] = l /\ \A y \in Symbols \ {f, c, r} : k.prev[y] = h.prev[y]
  BY <1>4, <1>5, <1>6
<1>8. /\ own2 \in [Symbols -> Symbols]
      /\ \A y \in Symbols : own2[y] = IF own[y] = r THEN own[s] ELSE own[y]
  BY <1>0, <1>4, <1>5
<1>9. /\ z[r] \in Int /\ a[r] \in Int /\ a[s] - z[r] \in Int
      /\ a2 \in [Symbols -> Int] /\ z2 \in [Symbols -> Int]
      /\ \A y \in Symbols : a2[y] = IF own[y] = r THEN a[y] + (a[s] - z[r]) ELSE a[y]
      /\ \A y \in Symbols : z2[y] = IF own[y] = r THEN z[y] + (a[s] - z[r]) ELSE z[y]
  <2>1. z[r] \in Int /\ a[r] \in Int /\ a[s] - z[r] \in Int
    BY <1>2, <1>4, <1>5
  <2> QED BY <1>0, <1>5, <2>1
<1>10. /\ z[r] = a[f] /\ z[l] = a[r] /\ z[s] - a[s] = a[r] - z[r]
       /\ SameText(in, a[s], z[r], z[s] - a[s])
  <2>1. z[r] = a[f] /\ z[l] = a[r]
    BY <1>1, <1>3, <1>4 DEF Stretched, f
  <2>2. Instance(h, in, R, a, z, s)
    <3>1. h.rule[s] # Null
      BY <1>3, <1>4
    <3> QED BY <1>1, <3>1 DEF Named, Letter
  <2> QED BY <1>3, <2>1, <2>2 DEF Instance
<1>11. Linked(k, R2, O2, own2)
  <2>1. ASSUME NEW y \in R2 \cup O2
        PROVE  /\ own2[y] \in R2 /\ k.next[y] \in R2 \cup O2 /\ k.prev[y] \in R2 \cup O2
               /\ own2[k.next[y]] = own2[y]
               /\ k.prev[k.next[y]] = y /\ k.next[k.prev[y]] = y
    <3>1. /\ own[y] \in R /\ h.next[y] \in R \cup O /\ h.prev[y] \in R \cup O
          /\ own[h.next[y]] = own[y] /\ h.prev[h.next[y]] = y /\ h.next[h.prev[y]] = y
          /\ y \in Symbols /\ y # s /\ y # r /\ y \in R \cup O
      BY <1>1, <1>4 DEF Linked
    <3>2. own2[y] \in R2
      BY <1>3, <1>8, <3>1
    <3>3. k.next[y] \in R2 \cup O2 /\ own2[k.next[y]] = own2[y] /\ k.prev[k.next[y]] = y
      <4>1. CASE y = p
        BY <1>2, <1>3, <1>4, <1>7, <1>8, <4>1
      <4>2. CASE y = l
        BY <1>2, <1>3, <1>4, <1>7, <1>8, <4>2
      <4>3. CASE y # p /\ y # l
        <5>1. /\ k.next[y] = h.next[y] /\ h.next[y] # s /\ h.next[y] # c /\ h.next[y] # f
              /\ h.next[y] # r /\ h.next[y] \in Symbols
          BY <1>2, <1>3, <1>4, <1>7, <3>1, <4>3
        <5> QED BY <1>7, <1>8, <3>1, <5>1
      <4> QED BY <4>1, <4>2, <4>3
    <3>4. k.prev[y] \in R2 \cup O2 /\ k.next[k.prev[y]] = y
      <4>1. CASE y = f
        BY <1>2, <1>4, <1>7, <4>1
      <4>2. CASE y = c
        BY <1>3, <1>4, <1>7, <4>2
      <4>3. CASE y # f /\ y # c
        <5>1. /\ k.prev[y] = h.prev[y] /\ h.prev[y] # p /\ h.prev[y] # l /\ h.prev[y] # s
              /\ h.prev[y] # r /\ h.prev[y] \in Symbols
          BY <1>2, <1>3, <1>4, <1>7, <3>1, <4>3
        <5> QED BY <1>7, <3>1, <5>1
      <4> QED BY <4>1, <4>2, <4>3
    <3> QED BY <3>2, <3>3, <3>4
  <2>2. \A y \in R2 : own2[y] = y
    BY <1>1, <1>4, <1>8 DEF Linked
  <2>3. R2 \subseteq Symbols /\ O2 \subseteq Symbols /\ R2 \cap O2 = {}
    BY <1>4
  <2> HIDE DEF R2, O2
  <2> QED BY <1>8, <2>1, <2>2, <2>3 DEF Linked
<1>12. Stretched(k, in, R2, O2, own2, a2, z2)
  <2>1. ASSUME NEW y \in R2 \cup O2 PROVE z2[y] = a2[k.next[y]]
    <3>1. /\ z[y] = a[h.next[y]] /\ h.next[y] \in R \cup O /\ y \in R \cup O /\ y # s /\ y # r
          /\ y \in Symbols /\ own[h.next[y]] = own[y] /\ a[h.next[y]] \in Int /\ z[y] \in Int
          /\ h.next[y] \in Symbols
      <4>1. y \in R \cup O /\ y # s /\ y # r /\ y \in Symbols
        BY <1>4
      <4>2. /\ h.next[y] \in R \cup O /\ own[h.next[y]] = own[y] /\ h.next[y] \in Symbols
        BY <1>1, <1>4, <4>1 DEF Linked
      <4>3. z[y] = a[h.next[y]]
        BY <1>1, <4>1 DEF Stretched
      <4> QED BY <1>5, <4>1, <4>2, <4>3
    <3>2. CASE y = p
      BY <1>2, <1>3, <1>4, <1>7, <1>9, <1>10, <3>2
    <3>3. CASE y = l
      <4>1. z2[l] = z[l] + (a[s] - z[r]) /\ k.next[l] = c /\ a2[c] = a[c]
        BY <1>2, <1>3, <1>4, <1>7, <1>9
      <4>2. z[l] = a[r] /\ z[s] = a[c] /\ z[s] - a[s] = a[r] - z[r] /\ z[s] \in Int /\ a[s] \in Int
            /\ a[r] \in Int /\ z[r] \in Int
        BY <1>2, <1>9, <1>10
      <4> QED BY <3>3, <4>1, <4>2
    <3>4. CASE y # p /\ y # l
      <4>1. k.next[y] = h.next[y]
        BY <1>7, <3>1, <3>4
      <4> QED BY <1>9, <3>1, <4>1
    <3> QED BY <3>2, <3>3, <3>4
  <2>2. ASSUME NEW y \in R2 PROVE 0 <= z2[y] /\ z2[y] <= a2[y] /\ a2[y] <= Len(in)
    <3>1. own[y] = y /\ y # r /\ y \in Symbols /\ 0 <= z[y] /\ z[y] <= a[y] /\ a[y] <= Len(in)
      BY <1>1, <1>4 DEF Stretched, Linked
    <3> QED BY <1>9, <3>1
  <2>3. ASSUME NEW y \in O2 PROVE a2[y] < z2[y] /\ z2[own2[y]] <= a2[y] /\ z2[y] <= a2[own2[y]]
    <3>1. /\ a[y] < z[y] /\ z[own[y]] <= a[y] /\ z[y] <= a[own[y]] /\ own[y] \in R /\ y \in Symbols
          /\ own[own[y]] = own[y] /\ a[y] \in Int /\ z[y] \in Int
      <4>1. y \in O /\ y \in Symbols
        BY <1>4
      <4>2. own[y] \in R /\ own[own[y]] = own[y]
        BY <1>1, <4>1 DEF Linked
      <4>3. a[y] < z[y] /\ z[own[y]] <= a[y] /\ z[y] <= a[own[y]]
        BY <1>1, <4>1 DEF Stretched
      <4> QED BY <1>5, <4>1, <4>2, <4>3
    <3>2. CASE own[y] = r
      <4>1. own2[y] = own[s] /\ own[own[s]] = own[s] /\ own[s] # r /\ own[s] \in Symbols
        BY <1>1, <1>3, <1>4, <1>8, <3>1, <3>2 DEF Linked
      <4>2. z2[own[s]] = z[own[s]] /\ a2[own[s]] = a[own[s]]
        BY <1>9, <4>1
      <4>3. z[own[s]] <= a[s] /\ z[s] <= a[own[s]] /\ z[own[s]] \in Int /\ a[own[s]] \in Int
        BY <1>1, <1>3, <4>1 DEF Stretched
      <4>4. a2[y] = a[y] + (a[s] - z[r]) /\ z2[y] = z[y] + (a[s] - z[r]) /\ z[r] <= a[y] /\ z[y] <= a[r]
        BY <1>9, <3>1, <3>2
      <4> QED BY <1>2, <1>9, <1>10, <3>1, <4>1, <4>2, <4>3, <4>4
    <3>3. CASE own[y] # r
      <4>1. own2[y] = own[y] /\ own[y] \in Symbols
        BY <1>4, <1>8, <3>1, <3>3
      <4> QED BY <1>9, <3>1, <3>3, <4>1
    <3> QED BY <3>2, <3>3
  <2> QED BY <1>9, <2>1, <2>2, <2>3 DEF Stretched
<1>13. Named(k, in, R2, O2, a2, z2)
  <2>1. ASSUME NEW y \in R2 PROVE a2[y] = a[y] /\ z2[y] = z[y]
    <3>1. own[y] = y /\ y # r /\ y \in Symbols
      BY <1>1, <1>4 DEF Linked
    <3> QED BY <1>9, <3>1
  <2>2. ASSUME NEW y \in O2 PROVE Letter(k, in, a2, z2, y) \/ Instance(k, in, R2, a2, z2, y)
    <3>1. /\ y \in O /\ y \in Symbols /\ h.rule[y] # r /\ a[y] \in Int /\ z[y] \in Int /\ a[y] < z[y]
          /\ z[own[y]] <= a[y] /\ z[y] <= a[own[y]]
      BY <1>1, <1>3, <1>4 DEF Stretched
    <3>2. CASE own[y] # r
      <4>1. a2[y] = a[y] /\ z2[y] = z[y]
        BY <1>9, <3>1, <3>2
      <4>2. CASE Letter(h, in, a, z, y)
        BY <1>6, <4>1, <4>2 DEF Letter
      <4>3. CASE Instance(h, in, R, a, z, y)
        <5>1. h.rule[y] \in R2
          BY <3>1, <4>3 DEF Instance
        <5> QED BY <1>6, <2>1, <4>1, <4>3, <5>1 DEF Instance
      <4> QED BY <1>1, <3>1, <4>2, <4>3 DEF Named
    <3>3. CASE own[y] = r
      <4> DEFINE e == a[s] - z[r]
      <4>1. a2[y] = a[y] + e /\ z2[y] = z[y] + e /\ e \in Int /\ z[r] <= a[y] /\ z[y] <= a[r]
        BY <1>9, <3>1, <3>3
      <4>2. ASSUME NEW i \in Int, z[r] < i, i <= a[r] PROVE in[i + e] = in[i]
        <5>1. i - z[r] \in 1 .. z[s] - a[s]
          BY <1>2, <1>9, <1>10, <4>2
        <5>2. in[a[s] + (i - z[r])] = in[z[r] + (i - z[r])]
          BY <1>10, <5>1 DEF SameText
        <5>3. a[s] + (i - z[r]) = i + e /\ z[r] + (i - z[r]) = i
          BY <1>2, <1>9, <4>2
        <5> QED BY <5>2, <5>3
      <4> HIDE DEF e
      <4>3. CASE Letter(h, in, a, z, y)
        <5>1. h.rule[y] = Null /\ h.value[y] < FirstNonterminal /\ z[y] = a[y] + 1 /\ in[z[y]] = h.value[y]
          BY <4>3 DEF Letter
        <5>2. in[z[y] + e] = in[z[y]]
          BY <1>9, <3>1, <4>1, <4>2, <5>1
        <5>3. z2[y] = a2[y] + 1 /\ in[z2[y]] = h.value[y]
          BY <3>1, <4>1, <5>1, <5>2
        <5> QED BY <1>6, <5>1, <5>3 DEF Letter
      <4>4. CASE Instance(h, in, R, a, z, y)
        <5> DEFINE q == h.rule[y]
        <5>1. /\ q \in R2 /\ q # h.main /\ h.value[y] = h.value[q] /\ z[y] - a[y] = a[q] - z[q]
              /\ SameText(in, a[y], z[q], z[y] - a[y])
          BY <3>1, <4>4 DEF Instance
        <5>2. a2[q] = a[q] /\ z2[q] = z[q] /\ z2[y] - a2[y] = z[y] - a[y]
          BY <2>1, <3>1, <4>1, <5>1
        <5>3. ASSUME NEW i \in 1 .. z[y] - a[y] PROVE in[a2[y] + i] = in[z[q] + i]
          <6>1. in[a[y] + i] = in[z[q] + i]
            BY <5>1 DEF SameText
          <6>2. a[y] + i \in Int /\ z[r] < a[y] + i /\ a[y] + i <= a[r]
            BY <1>9, <3>1, <4>1
          <6>3. in[(a[y] + i) + e] = in[a[y] + i]
            BY <4>2, <6>2
          <6>4. (a[y] + i) + e = a2[y] + i
            BY <3>1, <4>1
          <6> QED BY <6>1, <6>3, <6>4
        <5>4. SameText(in, a2[y], z2[q], z2[y] - a2[y])
          BY <5>2, <5>3 DEF SameText
        <5> QED BY <1>6, <5>1, <5>2, <5>4 DEF Instance
      <4> QED BY <1>1, <3>1, <4>3, <4>4 DEF Named
    <3> QED BY <3>2, <3>3
  <2>3. k.main \in R2 /\ \A y \in R2 : k.rule[y] = y /\ k.value[y] >= FirstNonterminal
                                         /\ k.value[y] < k.nextvalue
    BY <1>1, <1>4, <1>6 DEF Named
  <2>4. \A y, u \in R2 : k.value[y] = k.value[u] => y = u
    BY <1>1, <1>6 DEF Named
  <2> HIDE DEF R2, O2
  <2> QED BY <2>2, <2>3, <2>4 DEF Named
<1>14. Ringed(k, R2)
  <2> DEFINE u == h.prevr[r]
             w == h.nextr[r]
  <2>1. /\ u \in R /\ w \in R /\ h.nextr[u] = r /\ h.prevr[w] = r
        /\ \A y \in R : (h.nextr[y] = r => y = u) /\ (h.prevr[y] = r => y = w)
        /\ \A y \in R : (h.nextr[y] = w => y = r) /\ (h.prevr[y] = u => y = r)
        /\ (w = h.main \/ h.value[w] > h.value[r]) /\ h.value[r] > h.value[u]
    BY <1>1, <1>4 DEF Ringed
  <2>2. u # r /\ w # r /\ h.value[u] \in Nat /\ h.value[r] \in Nat /\ h.value[w] \in Nat
    <3>1. h.value[u] \in Nat /\ h.value[r] \in Nat /\ h.value[w] \in Nat
      BY <1>4, <1>5, <2>1
    <3>2. u # r
      BY <2>1, <3>1
    <3> QED BY <2>1, <3>1, <3>2
  <2> HIDE DEF u, w
  <2>3. /\ k.nextr[u] = w /\ \A y \in Symbols \ {u} : k.nextr[y] = h.nextr[y]
        /\ k.prevr[w] = u /\ \A y \in Symbols \ {w} : k.prevr[y] = h.prevr[y]
    BY <1>4, <1>5, <1>6, <2>1 DEF u, w
  <2>4. ASSUME NEW y \in R2
        PROVE  /\ k.nextr[y] \in R2 /\ k.prevr[y] \in R2
               /\ k.prevr[k.nextr[y]] = y /\ k.nextr[k.prevr[y]] = y
               /\ (k.nextr[y] = h.main \/ h.value[k.nextr[y]] > h.value[y])
    <3>1. /\ h.nextr[y] \in R /\ h.prevr[y] \in R /\ h.prevr[h.nextr[y]] = y
          /\ h.nextr[h.prevr[y]] = y /\ (h.nextr[y] = h.main \/ h.value[h.nextr[y]] > h.value[y])
          /\ y \in Symbols
      BY <1>1, <1>4 DEF Ringed
    <3>2. k.nextr[y] \in R2 /\ k.prevr[k.nextr[y]] = y
          /\ (k.nextr[y] = h.main \/ h.value[k.nextr[y]] > h.value[y])
      <4>1. CASE y = u
        BY <2>1, <2>2, <2>3, <4>1
      <4>2. CASE y # u
        <5>1. k.nextr[y] = h.nextr[y] /\ h.nextr[y] # r /\ h.nextr[y] # w /\ h.nextr[y] \in Symbols
          BY <1>4, <2>1, <2>3, <3>1, <4>2
        <5> QED BY <2>3, <3>1, <5>1
      <4> QED BY <4>1, <4>2
    <3>3. k.prevr[y] \in R2 /\ k.nextr[k.prevr[y]] = y
      <4>1. CASE y = w
        BY <2>1, <2>2, <2>3, <4>1
      <4>2. CASE y # w
        <5>1. k.prevr[y] = h.prevr[y] /\ h.prevr[y] # r /\ h.prevr[y] # u /\ h.prevr[y] \in Symbols
          BY <1>4, <2>1, <2>3, <3>1, <4>2
        <5> QED BY <2>3, <3>1, <5>1
      <4> QED BY <4>1, <4>2
    <3> QED BY <3>2, <3>3
  <2> QED BY <1>6, <2>4 DEF Ringed
<1>15. Counted(k, R2, O2)
  <2> SUFFICES ASSUME NEW y \in R2 PROVE k.refcnt[y] = Cardinality(Uses(k, O2, y))
    BY DEF Counted
  <2>1. Uses(k, O2, y) = Uses(h, O, y)
    BY <1>3, <1>6 DEF Uses
  <2> QED BY <1>1, <1>4, <1>6, <2>1 DEF Counted
<1>16. \E rank2, m : Spared(k, R2, O2, rank2, m)
  <2> DEFINE i == [num |-> h.num, recycled |-> s, next |-> [h.next EXCEPT ![s] = h.recycled]]
  <2>1. /\ i.num = h.num /\ i.recycled = s /\ i.next[s] = h.recycled
        /\ \A y \in Symbols \ {s} : i.next[y] = h.next[y]
    BY <1>4, <1>5
  <2> HIDE DEF i
  <2>2. \A y \in 0 .. h.num - 1 : y \in Symbols
    <3>1. h.num \in 0 .. MaxSymbols /\ MaxSymbols \in Nat
      BY <1>1, SizesAssumption DEF Spared
    <3> QED BY <3>1 DEF Symbols
  <2>3. \E rank2, m : Spared(i, R, O2, rank2, m)
    <3>1. \A y \in Waiting(h, R, O) : i.next[y] = h.next[y]
      BY <1>3, <2>1, <2>2 DEF Waiting
    <3>2. /\ R \cup O2 = (R \cup O) \ {s} /\ s \in R \cup O /\ R \cup O \subseteq Symbols
      BY <1>3, <1>4
    <3>3. Spared(h, R, O, rank, n) /\ i.num = h.num /\ i.recycled = s /\ i.next[s] = h.recycled
      BY <1>1, <2>1
    <3> HIDE DEF O2
    <3> QED BY ONLY <3>1, <3>2, <3>3, Pushed
  <2>4. PICK rank1, m1 : Spared(i, R, O2, rank1, m1)
    BY <2>3
  <2>5. \A y \in Waiting(i, R, O2) : k.next[y] = i.next[y]
    <3>1. \A y \in Waiting(i, R, O2) : y \in Symbols /\ y # p /\ y # l /\ y # r
      BY <1>2, <1>3, <1>4, <2>1, <2>2 DEF Waiting
    <3>2. k.next[s] = i.next[s] /\ \A y \in Symbols \ {p, l, s, r} : k.next[y] = i.next[y]
      BY <1>7, <2>1
    <3> QED BY <3>1, <3>2
  <2>6. /\ R2 \cup O2 = (R \cup O2) \ {r} /\ r \in R \cup O2 /\ R \cup O2 \subseteq Symbols
        /\ k.num = i.num /\ k.recycled = r /\ k.next[r] = i.recycled
    BY <1>4, <1>6, <1>7, <2>1
  <2> HIDE DEF O2, R2
  <2> QED BY ONLY <2>4, <2>5, <2>6, Pushed
<1>17. Bodied(k, R2, O2, {h.main})
  <2> SUFFICES ASSUME NEW y \in R2 \ {h.main} PROVE k.next[y] \in O2 /\ k.next[k.next[y]] \in O2
    BY DEF Bodied
  <2>1. /\ h.next[y] \in O /\ h.next[h.next[y]] \in O /\ y \in R \cup O /\ y # s /\ y # r /\ y # l
        /\ y \in Symbols /\ h.next[y] \in Symbols /\ own[h.next[y]] = y /\ h.next[y] # l /\ h.next[y] # r
    <3>1. /\ h.next[y] \in O /\ h.next[h.next[y]] \in O /\ y \in R \cup O /\ y # s /\ y # r
          /\ own[h.next[y]] = y /\ y \notin O
      BY <1>1, <1>4 DEF Bodied, Linked
    <3> QED BY <1>3, <1>4, <3>1
  <2>2. h.next[f] \in O /\ f # l /\ own[h.next[f]] = r
    BY <1>1, <1>3, <1>4 DEF Bodied, Linked, f
  <2>3. k.next[f] \in O2
    BY <1>3, <1>4, <1>7, <2>2
  <2>4. CASE y = p
    BY <1>3, <1>4, <1>7, <2>3, <2>4
  <2>5. CASE y # p
    <3>1. k.next[y] = h.next[y] /\ h.next[y] # s
      BY <1>2, <1>7, <2>1, <2>5
    <3>2. CASE h.next[y] = p
      BY <1>3, <1>4, <1>7, <2>1, <3>1, <3>2
    <3>3. CASE h.next[y] # p
      <4>1. k.next[h.next[y]] = h.next[h.next[y]] /\ h.next[h.next[y]] # s
        BY <1>2, <1>7, <2>1, <3>1, <3>3
      <4> QED BY <2>1, <3>1, <4>1
    <3> QED BY <3>2, <3>3
  <2> QED BY <2>4, <2>5
<1>18. Tabled(k, O2)
  <2> SUFFICES ASSUME NEW y \in Entered(k) PROVE y \in O2 /\ k.next[y] \in O2
    BY <1>6 DEF Tabled
  <2>1. y \in O /\ h.next[y] \in O /\ y # p /\ y # s /\ y \in Symbols
    BY <1>4, <1>6 DEF Tabled
  <2>2. y # l /\ y # r /\ h.next[y] # s
    BY <1>2, <1>3, <1>4, <2>1
  <2> QED BY <1>7, <2>1, <2>2
<1> HIDE DEF O2, R2
<1>19. PICK rank2, m : Spared(k, R2, O2, rank2, m)
  BY <1>16
<1>20. Sound(k, in, {h.main}, R2, O2, own2, a2, z2, rank2, m)
  BY <1>1, <1>6, <1>11, <1>12, <1>13, <1>14, <1>15, <1>17, <1>19 DEF Sound
<1>21. Regrown(k, in, {h.main}, R2, O2, own2, a2, z2)
  BY <1>20 DEF Regrown
<1> QED BY <1>18, <1>21 DEF O2, R2


-----------------------------------------------------------------------------
(* Sequences put one after the other.                                      *)

\* Two sequences are equal when their elements are.
LEMMA SameSeq ==
  ASSUME NEW T, NEW C \in Seq(T), NEW D \in Seq(T), Len(C) = Len(D),
         \A i \in 1 .. Len(C) : C[i] = D[i]
  PROVE  C = D
OBVIOUS

\* c gives what the first sequences of ss make together.
Joining(ss, c) == c[0] = <<>> /\ \A i \in 1 .. Len(ss) : c[i] = c[i - 1] \o ss[i]

\* FlattenSeq joins its sequences.
LEMMA FlatJoins ==
  ASSUME NEW S, NEW ss \in Seq(Seq(S))
  PROVE  \E c : /\ Joining(ss, c) /\ FlattenSeq(ss) = c[Len(ss)]
                /\ \A i \in 0 .. Len(ss) : c[i] \in Seq(S)
<1> DEFINE m == Len(ss)
           More(t, i) == IF i = 1 THEN ss[i] ELSE t \o ss[i]
           To(n, f) == f = [i \in 1 .. n |-> More(f[i - 1], i)]
           Has(n) == \E f : To(n, f)
           T == {n \in Nat : ~ Has(n)}
           e == CHOOSE f : To(m, f)
<1>1. Has(0)
  <2> DEFINE f == [i \in 1 .. 0 |-> <<>>]
  <2> HIDE DEF More
  <2>1. f = [i \in 1 .. 0 |-> More(f[i - 1], i)]
    OBVIOUS
  <2> QED BY <2>1
<1>2. ASSUME NEW n \in Nat, Has(n) PROVE Has(n + 1)
  <2>1. PICK f : f = [i \in 1 .. n |-> More(f[i - 1], i)]
    BY <1>2
  <2> DEFINE k == [i \in 1 .. n + 1 |-> IF i = n + 1 THEN More(f[n], n + 1) ELSE f[i]]
  <2>2. ASSUME NEW i \in 1 .. n + 1 PROVE k[i] = More(k[i - 1], i)
    <3>1. CASE i = 1
      <4>1. \A t, u : More(t, 1) = More(u, 1)
        OBVIOUS
      <4> HIDE DEF More
      <4>2. CASE n = 0
        <5>1. k[1] = More(f[n], 1)
          BY <4>2
        <5> HIDE DEF k
        <5> QED BY <3>1, <4>1, <5>1
      <4>3. CASE n # 0
        <5>1. 1 \in 1 .. n /\ 1 # n + 1
          BY <4>3
        <5>2. k[1] = f[1]
          BY <5>1
        <5>3. f[1] = More(f[1 - 1], 1)
          BY <2>1, <5>1
        <5> HIDE DEF k
        <5> QED BY <3>1, <4>1, <5>2, <5>3
      <4> QED BY <4>2, <4>3
    <3> HIDE DEF More
    <3>2. CASE i = n + 1 /\ i # 1
      <4>1. k[i] = More(f[n], n + 1) /\ i - 1 = n /\ n \in 1 .. n + 1 /\ n # n + 1
        BY <3>2
      <4>2. k[i - 1] = f[n]
        BY <4>1
      <4> HIDE DEF k
      <4> QED BY <3>2, <4>1, <4>2
    <3>3. CASE i # 1 /\ i # n + 1
      <4>1. i \in 1 .. n /\ i - 1 \in 1 .. n /\ i - 1 # n + 1 /\ i - 1 \in 1 .. n + 1
        BY <3>3
      <4>2. k[i] = f[i] /\ k[i - 1] = f[i - 1]
        BY <3>3, <4>1
      <4>3. f[i] = More(f[i - 1], i)
        BY <2>1, <4>1
      <4> HIDE DEF k
      <4> QED BY <4>2, <4>3
    <3> QED BY <3>1, <3>2, <3>3
  <2> HIDE DEF More
  <2>3. To(n + 1, k)
    <3>1. k = [i \in 1 .. n + 1 |-> k[i]]
      OBVIOUS
    <3> HIDE DEF k
    <3>2. k = [i \in 1 .. n + 1 |-> More(k[i - 1], i)]
      BY <2>2, <3>1
    <3> QED BY <3>2
  <2> HIDE DEF To
  <2> QED BY <2>3
<1> HIDE DEF Has
<1>3. T = {}
  <2> SUFFICES ASSUME T # {} PROVE FALSE
    OBVIOUS
  <2>1. PICK k \in T : \A j \in T : k <= j
    <3>1. T \subseteq Nat
      OBVIOUS
    <3> HIDE DEF T
    <3> QED BY <3>1, LeastNat
  <2>2. k \in Nat /\ ~ Has(k)
    OBVIOUS
  <2>3. k - 1 \in Nat /\ k - 1 \notin T /\ (k - 1) + 1 = k
    <3>1. k # 0
      BY <1>1, <2>2
    <3>2. k - 1 \in Nat /\ ~ (k <= k - 1) /\ (k - 1) + 1 = k
      BY <2>2, <3>1
    <3> HIDE DEF T
    <3> QED BY <2>1, <3>2
  <2>4. Has(k - 1)
    BY <2>3
  <2>5. Has((k - 1) + 1)
    BY <1>2, <2>3, <2>4
  <2> QED BY <2>2, <2>3, <2>5
<1>4. m \in Nat /\ \A i \in 1 .. m : ss[i] \in Seq(S)
  OBVIOUS
<1>5. To(m, e)
  <2>1. Has(m)
    BY <1>3, <1>4
  <2> QED BY <2>1 DEF Has
<1> DEFINE c == [i \in 0 .. m |-> IF i = 0 THEN <<>> ELSE e[i]]
<1>6. FlattenSeq(ss) = c[m]
  <2>1. CASE m = 0
    <3>1. ss = <<>> /\ c[m] = <<>>
      BY <2>1
    <3> HIDE DEF c
    <3> QED BY <3>1 DEF FlattenSeq
  <2>2. CASE m # 0
    <3>1. c[m] = e[m]
      BY <1>4, <2>2
    <3>2. FlattenSeq(ss) = (CHOOSE f : f = [i \in 1 .. m |-> IF i = 1 THEN ss[i] ELSE f[i - 1] \o ss[i]])[m]
      BY <2>2 DEF FlattenSeq
    <3>3. FlattenSeq(ss) = e[m]
      BY <3>2
    <3> HIDE DEF c, e
    <3> QED BY <3>1, <3>3
  <2> QED BY <2>1, <2>2
<1> HIDE DEF e
<1>7. \A i \in 1 .. m : e[i] = IF i = 1 THEN ss[i] ELSE e[i - 1] \o ss[i]
  BY <1>5
<1>8. c[0] = <<>> /\ \A i \in 1 .. m : c[i] = IF i = 1 THEN ss[i] ELSE c[i - 1] \o ss[i]
  <2>1. c[0] = <<>>
    <3>1. 0 \in 0 .. m
      BY <1>4
    <3> QED BY <3>1
  <2>2. ASSUME NEW i \in 1 .. m PROVE c[i] = IF i = 1 THEN ss[i] ELSE c[i - 1] \o ss[i]
    <3>1. i \in 0 .. m /\ i # 0 /\ c[i] = e[i]
      BY <1>4
    <3>2. CASE i = 1
      BY <1>7, <3>1, <3>2
    <3>3. CASE i # 1
      <4>1. i - 1 \in 0 .. m /\ i - 1 # 0
        BY <1>4, <3>3
      <4>2. c[i - 1] = e[i - 1]
        BY <4>1
      <4> HIDE DEF c
      <4> QED BY <1>7, <3>1, <3>3, <4>2
    <3> QED BY <3>2, <3>3
  <2> QED BY <2>1, <2>2
<1> HIDE DEF c
<1> DEFINE G(i) == c[i] \in Seq(S)
           U == {i \in Nat : i <= m /\ ~ G(i)}
<1>9. G(0)
  BY <1>8
<1>10. ASSUME NEW i \in 1 .. m, G(i - 1) PROVE G(i)
  <2>1. c[i - 1] \in Seq(S) /\ ss[i] \in Seq(S)
    BY <1>4, <1>10
  <2>2. c[i - 1] \o ss[i] \in Seq(S)
    BY <2>1
  <2>3. c[i] = ss[i] \/ c[i] = c[i - 1] \o ss[i]
    BY <1>8
  <2> QED BY <2>1, <2>2, <2>3
<1> HIDE DEF G
<1>11. U = {}
  <2> SUFFICES ASSUME U # {} PROVE FALSE
    OBVIOUS
  <2>1. PICK k \in U : \A j \in U : k <= j
    <3>1. U \subseteq Nat
      OBVIOUS
    <3> HIDE DEF U
    <3> QED BY <3>1, LeastNat
  <2>2. k \in Nat /\ k <= m /\ ~ G(k)
    OBVIOUS
  <2>3. k \in 1 .. m /\ k - 1 \in Nat /\ k - 1 <= m /\ ~ (k <= k - 1)
    <3>1. k # 0
      BY <1>9, <2>2
    <3> QED BY <1>4, <2>2, <3>1
  <2>4. k - 1 \notin U
    <3> HIDE DEF U
    <3> QED BY <2>1, <2>3
  <2>5. G(k - 1)
    BY <2>3, <2>4
  <2> QED BY <1>10, <2>2, <2>3, <2>5
<1>12. \A i \in 0 .. m : c[i] \in Seq(S)
  BY <1>4, <1>11 DEF G
<1>13. ASSUME NEW i \in 1 .. m PROVE c[i] = c[i - 1] \o ss[i]
  <2>1. CASE i = 1
    <3>1. c[1] = ss[1] /\ c[1 - 1] = <<>> /\ ss[1] \in Seq(S)
      BY <1>4, <1>8, <2>1
    <3> QED BY <2>1, <3>1
  <2>2. CASE i # 1
    BY <1>8, <2>2
  <2> QED BY <2>1, <2>2
<1>14. Joining(ss, c)
  BY <1>8, <1>13 DEF Joining
<1> QED BY <1>6, <1>12, <1>14


\* Two sequences make one that is as long as both.
LEMMA Cats ==
  ASSUME NEW S, NEW u \in Seq(S), NEW w \in Seq(S)
  PROVE  u \o w \in Seq(S) /\ Len(u \o w) = Len(u) + Len(w) /\ Len(u) \in Nat /\ Len(w) \in Nat
OBVIOUS

\* w stands in f, after p others.
Stands(f, p, w) == p \in Nat /\ p + Len(w) <= Len(f) /\ \A i \in 1 .. Len(w) : f[p + i] = w[i]

\* One value at its place.
LEMMA StandsOne ==
  ASSUME NEW f, NEW p, NEW v
  PROVE  Stands(f, p, <<v>>) <=> p \in Nat /\ p + 1 <= Len(f) /\ f[p + 1] = v
<1>1. Len(<<v>>) = 1 /\ <<v>>[1] = v
  OBVIOUS
<1> DEFINE w == <<v>>
<1> HIDE DEF w
<1>2. 1 .. 1 = {1}
  OBVIOUS
<1>3. Stands(f, p, w) <=> p \in Nat /\ p + 1 <= Len(f) /\ \A i \in {1} : f[p + i] = w[i]
  BY <1>1, <1>2 DEF Stands, w
<1> QED BY <1>1, <1>3 DEF w

\* What stands somewhere in two pieces.
LEMMA StandsSplit ==
  ASSUME NEW S, NEW f, NEW u \in Seq(S), NEW w \in Seq(S), NEW p, Stands(f, p, u \o w), Len(f) \in Nat
  PROVE  Stands(f, p, u) /\ Stands(f, p + Len(u), w)
<1>1. /\ Len(u \o w) = Len(u) + Len(w) /\ Len(u) \in Nat /\ Len(w) \in Nat
      /\ \A i \in 1 .. Len(u) : (u \o w)[i] = u[i]
      /\ \A i \in 1 .. Len(w) : (u \o w)[Len(u) + i] = w[i]
  OBVIOUS
<1> DEFINE v == u \o w
<1> HIDE DEF v
<1>2. /\ p \in Nat /\ p + Len(v) <= Len(f) /\ \A i \in 1 .. Len(v) : f[p + i] = v[i]
      /\ Len(v) = Len(u) + Len(w)
      /\ \A i \in 1 .. Len(u) : v[i] = u[i]
      /\ \A i \in 1 .. Len(w) : v[Len(u) + i] = w[i]
  BY <1>1 DEF Stands, v
<1>3. Stands(f, p, u)
  <2>1. p + Len(u) <= Len(f)
    BY <1>1, <1>2
  <2>2. ASSUME NEW i \in 1 .. Len(u) PROVE f[p + i] = u[i]
    <3>1. i \in 1 .. Len(v)
      BY <1>1, <1>2
    <3> QED BY <1>2, <3>1
  <2> QED BY <1>2, <2>1, <2>2 DEF Stands
<1>4. Stands(f, p + Len(u), w)
  <2>1. p + Len(u) \in Nat /\ (p + Len(u)) + Len(w) <= Len(f)
    BY <1>1, <1>2
  <2>2. ASSUME NEW i \in 1 .. Len(w) PROVE f[(p + Len(u)) + i] = w[i]
    <3> DEFINE k == Len(u) + i
    <3>1. k \in 1 .. Len(v) /\ (p + Len(u)) + i = p + k
      BY <1>1, <1>2
    <3>2. v[k] = w[i]
      BY <1>2
    <3> HIDE DEF k
    <3>3. f[p + k] = v[k]
      BY <1>2, <3>1
    <3> QED BY <3>1, <3>2, <3>3
  <2> QED BY <2>1, <2>2 DEF Stands
<1> QED BY <1>3, <1>4

\* Where each of the sequences stands that FlattenSeq has joined.
LEMMA StandsEach ==
  ASSUME NEW S, NEW ss \in Seq(Seq(S)), NEW c, Joining(ss, c), \A i \in 0 .. Len(ss) : c[i] \in Seq(S),
         NEW f, Len(f) \in Nat, NEW p, Stands(f, p, c[Len(ss)])
  PROVE  /\ \A i \in 0 .. Len(ss) : Stands(f, p, c[i])
         /\ \A i \in 1 .. Len(ss) : /\ Stands(f, p + Len(c[i - 1]), ss[i])
                                    /\ Len(c[i]) = Len(c[i - 1]) + Len(ss[i])
<1> DEFINE m == Len(ss)
           G(i) == Stands(f, p, c[m - i])
           U == {i \in Nat : i <= m /\ ~ G(i)}
<1>1. m \in Nat /\ \A i \in 1 .. m : ss[i] \in Seq(S) /\ c[i - 1] \in Seq(S) /\ c[i] = c[i - 1] \o ss[i]
  <2>1. m \in Nat /\ \A i \in 1 .. m : ss[i] \in Seq(S)
    OBVIOUS
  <2>2. ASSUME NEW i \in 1 .. m PROVE c[i - 1] \in Seq(S)
    <3>1. i - 1 \in 0 .. m
      BY <2>1
    <3> QED BY <3>1
  <2> QED BY <2>1, <2>2 DEF Joining
<1>2. ASSUME NEW i \in 1 .. m, Stands(f, p, c[i])
      PROVE  Stands(f, p, c[i - 1]) /\ Stands(f, p + Len(c[i - 1]), ss[i])
  BY <1>1, <1>2, StandsSplit
<1>3. G(0)
  <2>1. m - 0 = m
    BY <1>1
  <2> QED BY <2>1
<1>4. ASSUME NEW i \in 1 .. m, G(i - 1) PROVE G(i)
  <2>1. m - (i - 1) \in 1 .. m /\ (m - (i - 1)) - 1 = m - i
    BY <1>1
  <2> QED BY <1>2, <1>4, <2>1
<1> HIDE DEF G
<1>5. U = {}
  <2> SUFFICES ASSUME U # {} PROVE FALSE
    OBVIOUS
  <2>1. PICK k \in U : \A j \in U : k <= j
    <3>1. U \subseteq Nat
      OBVIOUS
    <3> HIDE DEF U
    <3> QED BY <3>1, LeastNat
  <2>2. k \in Nat /\ k <= m /\ ~ G(k)
    OBVIOUS
  <2>3. k \in 1 .. m /\ k - 1 \in Nat /\ k - 1 <= m /\ ~ (k <= k - 1)
    <3>1. k # 0
      BY <1>3, <2>2
    <3> QED BY <1>1, <2>2, <3>1
  <2>4. k - 1 \notin U
    <3> HIDE DEF U
    <3> QED BY <2>1, <2>3
  <2>5. G(k - 1)
    BY <2>3, <2>4
  <2> QED BY <1>4, <2>2, <2>3, <2>5
<1>6. ASSUME NEW i \in 0 .. m PROVE Stands(f, p, c[i])
  <2>1. m - i \in Nat /\ m - i <= m /\ m - (m - i) = i
    BY <1>1
  <2>2. G(m - i)
    BY <1>5, <2>1
  <2> QED BY <2>1, <2>2 DEF G
<1>7. ASSUME NEW i \in 1 .. m
      PROVE  Stands(f, p + Len(c[i - 1]), ss[i]) /\ Len(c[i]) = Len(c[i - 1]) + Len(ss[i])
  <2>1. i \in 0 .. m
    BY <1>1
  <2>2. Len(c[i]) = Len(c[i - 1]) + Len(ss[i])
    <3>1. c[i] = c[i - 1] \o ss[i] /\ c[i - 1] \in Seq(S) /\ ss[i] \in Seq(S)
      BY <1>1
    <3>2. Len(c[i - 1] \o ss[i]) = Len(c[i - 1]) + Len(ss[i])
      BY ONLY <3>1
    <3> QED BY <3>1, <3>2
  <2> QED BY <1>2, <1>6, <2>1, <2>2
<1> QED BY <1>6, <1>7

\* What stands in a sequence stands in a longer one, and so does what is appended.
LEMMA StandsLonger ==
  ASSUME NEW S, NEW f \in Seq(S), NEW u \in Seq(S), NEW p, NEW w, Len(w) \in Nat
  PROVE  /\ Stands(f, p, w) => Stands(f \o u, p, w)
         /\ Stands(f \o u, Len(f), u)
<1>1. /\ Len(f \o u) = Len(f) + Len(u) /\ Len(u) \in Nat /\ Len(f) \in Nat
      /\ \A i \in 1 .. Len(f) : (f \o u)[i] = f[i]
      /\ \A i \in 1 .. Len(u) : (f \o u)[Len(f) + i] = u[i]
  OBVIOUS
<1> DEFINE v == f \o u
<1>2. /\ Len(v) = Len(f) + Len(u)
      /\ \A i \in 1 .. Len(f) : v[i] = f[i]
      /\ \A i \in 1 .. Len(u) : v[Len(f) + i] = u[i]
  BY <1>1
<1> HIDE DEF v
<1>3. ASSUME Stands(f, p, w) PROVE Stands(v, p, w)
  <2>1. p \in Nat /\ p + Len(w) <= Len(f) /\ \A i \in 1 .. Len(w) : f[p + i] = w[i]
    BY <1>3 DEF Stands
  <2>2. ASSUME NEW i \in 1 .. Len(w) PROVE v[p + i] = w[i]
    <3>1. p + i \in 1 .. Len(f)
      BY <1>1, <2>1
    <3> QED BY <1>2, <2>1, <3>1
  <2>3. p + Len(w) <= Len(v)
    BY <1>1, <1>2, <2>1
  <2> QED BY <2>1, <2>2, <2>3 DEF Stands
<1>4. Stands(v, Len(f), u)
  <2>1. Len(f) \in Nat /\ Len(f) + Len(u) <= Len(v)
    BY <1>1, <1>2
  <2> QED BY <1>2, <2>1 DEF Stands
<1> QED BY <1>3, <1>4 DEF v

-----------------------------------------------------------------------------
(* A block in the file, as the values of the symbols of its rules.         *)

\* get_encoded writes bytes, one to three of them.
LEMMA EncodedBytes ==
  ASSUME NEW v \in Nat, v <= 65535
  PROVE  get_encoded(v) \in Seq(Nat) /\ Len(get_encoded(v)) \in 1 .. 3
<1>1. CASE v < 128
  <2>1. get_encoded(v) = <<v>>
    BY <1>1, EncodedForms, SMT
  <2> QED BY <2>1, SMT
<1>2. CASE v > 127 /\ v < 2048
  <2>1. get_encoded(v) = <<192 + (v \div 64), 128 + (v % 64)>>
    BY <1>2, EncodedForms, SMT
  <2>2. 192 + (v \div 64) \in Nat /\ 128 + (v % 64) \in Nat
    BY SMT
  <2> QED BY <2>1, <2>2, SMT
<1>3. CASE v > 2047
  <2>1. get_encoded(v) = <<224 + (v \div 4096), 128 + ((v \div 64) % 64), 128 + (v % 64)>>
    BY <1>3, EncodedForms, SMT
  <2>2. 224 + (v \div 4096) \in Nat /\ 128 + ((v \div 64) % 64) \in Nat /\ 128 + (v % 64) \in Nat
    BY SMT
  <2> QED BY <2>1, <2>2, SMT
<1> QED BY <1>1, <1>2, <1>3, SMT

\* The values that get_encoded writes.
Fits == {v \in Nat : v <= 65535}

\* They are the numbers that fit into two bytes.
LEMMA FitsIs ==
  /\ \A v \in Fits : v \in Nat /\ v <= 65535
  /\ \A v \in Nat : v <= 65535 => v \in Fits
BY DEF Fits

\* L has the heads and the symbols of the rules, all of which fit into a symbol.
Listed(L) ==
  /\ L \in Seq(Seq(Nat)) /\ Len(L) >= 1
  /\ \A j \in 1 .. Len(L) : Len(L[j]) >= 1 /\ \A k \in 1 .. Len(L[j]) : L[j][k] \in Fits
  /\ \A i, j \in 1 .. Len(L) : L[i][1] = L[j][1] => i = j

\* The bytes of a block.
Coded(w) == [k \in DOMAIN w |-> get_encoded(w[k])]
Delimited(j, w) == (IF j = 1 THEN <<>> ELSE <<RD>>) \o w
Pieces(L) == [j \in DOMAIN L |-> Delimited(j, FlattenSeq(Coded(L[j])))]
Block(L) == <<SOB>> \o FlattenSeq(Pieces(L)) \o <<EOB>>

\* at[j][k] bytes of f come before the end of the k-th symbol of rule j.
RulePlaced(f, L, at, j) ==
  /\ \A k \in 0 .. Len(L[j]) : at[j][k] \in Nat
  /\ \A k \in 1 .. Len(L[j]) : /\ Stands(f, at[j][k - 1], get_encoded(L[j][k]))
                               /\ at[j][k] = at[j][k - 1] + Len(get_encoded(L[j][k]))
EndPlaced(f, p, L, at, j) ==
  LET q == at[j][Len(L[j])] + 1 IN
  /\ q <= Len(f)
  /\ IF j = Len(L) THEN q = p + Len(Block(L)) /\ f[q] = EOB ELSE f[q] = RD /\ at[j + 1][0] = q
Placed(f, p, L, at) ==
  /\ p \in Nat /\ p + 1 <= Len(f) /\ f[p + 1] = SOB /\ at[1][0] = p + 1
  /\ \A j \in 1 .. Len(L) : RulePlaced(f, L, at, j) /\ EndPlaced(f, p, L, at, j)

\* What FlattenSeq has put together.
Joint(ss) ==
  CHOOSE c : /\ Joining(ss, c) /\ FlattenSeq(ss) = c[Len(ss)]
             /\ \A i \in 0 .. Len(ss) : c[i] \in Seq(Nat)

\* The joint of sequences of numbers.
LEMMA JointJoins ==
  ASSUME NEW ss \in Seq(Seq(Nat))
  PROVE  /\ Joining(ss, Joint(ss)) /\ FlattenSeq(ss) = Joint(ss)[Len(ss)]
         /\ \A i \in 0 .. Len(ss) : Joint(ss)[i] \in Seq(Nat)
         /\ FlattenSeq(ss) \in Seq(Nat)
<1>1. \E c : /\ Joining(ss, c) /\ FlattenSeq(ss) = c[Len(ss)]
             /\ \A i \in 0 .. Len(ss) : c[i] \in Seq(Nat)
  BY FlatJoins
<1>2. /\ Joining(ss, Joint(ss)) /\ FlattenSeq(ss) = Joint(ss)[Len(ss)]
      /\ \A i \in 0 .. Len(ss) : Joint(ss)[i] \in Seq(Nat)
  BY <1>1 DEF Joint
<1>3. Len(ss) \in 0 .. Len(ss)
  OBVIOUS
<1> QED BY <1>2, <1>3

\* The codes of a rule, and the pieces of a block, are sequences of numbers.
LEMMA PiecesTyped ==
  ASSUME NEW L, Listed(L)
  PROVE  /\ \A j \in 1 .. Len(L) : /\ Coded(L[j]) \in Seq(Seq(Nat)) /\ Len(Coded(L[j])) = Len(L[j])
                                   /\ \A k \in 1 .. Len(L[j]) : Coded(L[j])[k] = get_encoded(L[j][k])
         /\ Pieces(L) \in Seq(Seq(Nat)) /\ Len(Pieces(L)) = Len(L)
         /\ \A j \in 1 .. Len(L) : Pieces(L)[j] = Delimited(j, FlattenSeq(Coded(L[j])))
<1>1. /\ L \in Seq(Seq(Nat)) /\ Len(L) \in Nat /\ DOMAIN L = 1 .. Len(L)
      /\ \A j \in 1 .. Len(L) : L[j] \in Seq(Nat) /\ \A k \in 1 .. Len(L[j]) : L[j][k] \in Fits
  BY DEF Listed
<1>2. ASSUME NEW j \in 1 .. Len(L)
      PROVE  /\ Coded(L[j]) \in Seq(Seq(Nat)) /\ Len(Coded(L[j])) = Len(L[j])
             /\ \A k \in 1 .. Len(L[j]) : Coded(L[j])[k] = get_encoded(L[j][k])
  <2> DEFINE w == L[j]
  <2>1. w \in Seq(Nat) /\ Len(w) \in Nat /\ DOMAIN w = 1 .. Len(w)
    BY <1>1
  <2>2. \A k \in 1 .. Len(w) : w[k] \in Nat /\ w[k] <= 65535
    <3>1. \A k \in 1 .. Len(w) : w[k] \in Fits
      BY <1>1
    <3> HIDE DEF w
    <3> QED BY <3>1, FitsIs
  <2> HIDE DEF w
  <2>3. \A k \in 1 .. Len(w) : get_encoded(w[k]) \in Seq(Nat)
    BY <2>2, EncodedBytes
  <2>4. Coded(w) = [k \in 1 .. Len(w) |-> get_encoded(w[k])]
    BY <2>1 DEF Coded
  <2>5. /\ Coded(w) \in Seq(Seq(Nat)) /\ Len(Coded(w)) = Len(w)
        /\ \A k \in 1 .. Len(w) : Coded(w)[k] = get_encoded(w[k])
    BY <2>1, <2>3, <2>4
  <2> QED BY <2>5 DEF w
<1>3. ASSUME NEW j \in 1 .. Len(L) PROVE Delimited(j, FlattenSeq(Coded(L[j]))) \in Seq(Nat)
  <2>1. FlattenSeq(Coded(L[j])) \in Seq(Nat)
    BY <1>2, JointJoins
  <2>2. <<>> \in Seq(Nat) /\ <<RD>> \in Seq(Nat)
    BY SMT DEF RD
  <2> QED BY <2>1, <2>2 DEF Delimited
<1>4. Pieces(L) = [j \in 1 .. Len(L) |-> Delimited(j, FlattenSeq(Coded(L[j])))]
  BY <1>1 DEF Pieces
<1>5. /\ Pieces(L) \in Seq(Seq(Nat)) /\ Len(Pieces(L)) = Len(L)
      /\ \A j \in 1 .. Len(L) : Pieces(L)[j] = Delimited(j, FlattenSeq(Coded(L[j])))
  BY <1>1, <1>3, <1>4
<1> QED BY <1>2, <1>5

\* Every symbol and mark of a block has its place.
LEMMA Places ==
  ASSUME NEW L, Listed(L), NEW f, Len(f) \in Nat, NEW p, Stands(f, p, Block(L))
  PROVE  \E at : Placed(f, p, L, at)
<1> DEFINE m == Len(L)
           C == Joint(Pieces(L))
           first(j) == p + 1 + Len(C[j - 1]) + (IF j = 1 THEN 0 ELSE 1)
           K(j) == Joint(Coded(L[j]))
           at == [j \in 1 .. m |-> [k \in 0 .. Len(L[j]) |-> first(j) + Len(K(j)[k])]]
<1>1. /\ m \in Nat /\ m >= 1 /\ \A j \in 1 .. m : Len(L[j]) \in Nat
      /\ Pieces(L) \in Seq(Seq(Nat)) /\ Len(Pieces(L)) = m
      /\ \A j \in 1 .. m : Pieces(L)[j] = Delimited(j, FlattenSeq(Coded(L[j])))
      /\ \A j \in 1 .. m : /\ Coded(L[j]) \in Seq(Seq(Nat)) /\ Len(Coded(L[j])) = Len(L[j])
                           /\ \A k \in 1 .. Len(L[j]) : Coded(L[j])[k] = get_encoded(L[j][k])
  <2>1. L \in Seq(Seq(Nat)) /\ m >= 1
    BY DEF Listed
  <2>2. m \in Nat /\ \A j \in 1 .. m : Len(L[j]) \in Nat
    BY <2>1
  <2>3. /\ Pieces(L) \in Seq(Seq(Nat)) /\ Len(Pieces(L)) = m
        /\ \A j \in 1 .. m : Pieces(L)[j] = Delimited(j, FlattenSeq(Coded(L[j])))
        /\ \A j \in 1 .. m : /\ Coded(L[j]) \in Seq(Seq(Nat)) /\ Len(Coded(L[j])) = Len(L[j])
                             /\ \A k \in 1 .. Len(L[j]) : Coded(L[j])[k] = get_encoded(L[j][k])
    BY PiecesTyped
  <2> QED BY <2>1, <2>2, <2>3
<1>2. /\ Joining(Pieces(L), C) /\ FlattenSeq(Pieces(L)) = C[m] /\ FlattenSeq(Pieces(L)) \in Seq(Nat)
      /\ \A i \in 0 .. m : C[i] \in Seq(Nat)
  BY <1>1, JointJoins
<1> HIDE DEF C
<1>3. ASSUME NEW j \in 1 .. m
      PROVE  /\ Joining(Coded(L[j]), K(j)) /\ FlattenSeq(Coded(L[j])) = K(j)[Len(L[j])]
             /\ FlattenSeq(Coded(L[j])) \in Seq(Nat)
             /\ \A k \in 0 .. Len(L[j]) : K(j)[k] \in Seq(Nat)
  BY <1>1, JointJoins
<1> HIDE DEF K
<1>4. /\ p \in Nat /\ Stands(f, p, <<SOB>>) /\ Stands(f, p + 1, C[m]) /\ Stands(f, p + 1 + Len(C[m]), <<EOB>>)
      /\ Len(Block(L)) = 1 + Len(C[m]) + 1
  <2> DEFINE u == <<SOB>>
             w == <<EOB>>
  <2>1. u \in Seq(Nat) /\ w \in Seq(Nat) /\ Len(u) = 1 /\ Len(w) = 1 /\ C[m] \in Seq(Nat)
    BY <1>2, SMT DEF SOB, EOB
  <2>2. Stands(f, p, (u \o C[m]) \o w)
    BY <1>2 DEF Block
  <2>3. Len(Block(L)) = Len((u \o C[m]) \o w)
    BY <1>2 DEF Block
  <2> HIDE DEF u, w
  <2>4. /\ u \o C[m] \in Seq(Nat) /\ Len(u \o C[m]) = Len(u) + Len(C[m]) /\ Len(C[m]) \in Nat
        /\ Len((u \o C[m]) \o w) = Len(u \o C[m]) + Len(w)
    BY <2>1, Cats
  <2>5. Stands(f, p, u \o C[m]) /\ Stands(f, p + Len(u \o C[m]), w)
    BY <2>1, <2>2, <2>4, StandsSplit
  <2>6. Stands(f, p, u) /\ Stands(f, p + Len(u), C[m])
    BY <2>1, <2>5, StandsSplit
  <2>7. p \in Nat
    BY <2>5 DEF Stands
  <2>8. p + Len(u \o C[m]) = p + 1 + Len(C[m]) /\ Len(C[m]) \in Nat
    <3> DEFINE y == Len(C[m])
               t == Len(u \o C[m])
    <3>1. t = 1 + y /\ y \in Nat
      BY <2>1, <2>4
    <3> HIDE DEF y, t
    <3>2. p + t = p + 1 + y
      BY ONLY <2>7, <3>1
    <3> QED BY <3>1, <3>2 DEF y, t
  <2>9. Len((u \o C[m]) \o w) = 1 + Len(C[m]) + 1
    BY <2>1, <2>4
  <2> QED BY <2>1, <2>3, <2>5, <2>6, <2>7, <2>8, <2>9 DEF u, w
<1>5. ASSUME NEW j \in 1 .. m
      PROVE  /\ Stands(f, p + 1 + Len(C[j - 1]), Pieces(L)[j])
             /\ Len(C[j]) = Len(C[j - 1]) + Len(Pieces(L)[j])
             /\ Len(C[j - 1]) \in Nat /\ Len(C[j]) \in Nat
  <2>1. j - 1 \in 0 .. m /\ j \in 0 .. m
    BY <1>1
  <2>2. Len(C[j - 1]) \in Nat /\ Len(C[j]) \in Nat
    BY <1>2, <2>1
  <2>3. Stands(f, p + 1 + Len(C[j - 1]), Pieces(L)[j]) /\ Len(C[j]) = Len(C[j - 1]) + Len(Pieces(L)[j])
    <3> DEFINE ss == Pieces(L)
    <3>1. /\ ss \in Seq(Seq(Nat)) /\ Joining(ss, C) /\ \A i \in 0 .. Len(ss) : C[i] \in Seq(Nat)
          /\ Stands(f, p + 1, C[Len(ss)]) /\ Len(ss) = m
      BY <1>1, <1>2, <1>4
    <3> HIDE DEF ss
    <3>2. \A i \in 1 .. Len(ss) : /\ Stands(f, (p + 1) + Len(C[i - 1]), ss[i])
                                  /\ Len(C[i]) = Len(C[i - 1]) + Len(ss[i])
      BY <3>1, StandsEach
    <3> QED BY <3>1, <3>2 DEF ss
  <2> QED BY <2>2, <2>3
<1>6. ASSUME NEW j \in 1 .. m
      PROVE  /\ Stands(f, first(j), K(j)[Len(L[j])]) /\ first(j) \in Nat
             /\ j # 1 => Stands(f, first(j) - 1, <<RD>>) /\ first(j) - 1 = p + 1 + Len(C[j - 1])
             /\ first(j) + Len(K(j)[Len(L[j])]) = p + 1 + Len(C[j])
  <2> DEFINE u == IF j = 1 THEN <<>> ELSE <<RD>>
             w == K(j)[Len(L[j])]
             l == IF j = 1 THEN 0 ELSE 1
  <2>1. u \in Seq(Nat) /\ w \in Seq(Nat) /\ Len(u) = l
    <3>1. <<>> \in Seq(Nat) /\ <<RD>> \in Seq(Nat) /\ Len(<<>>) = 0 /\ Len(<<RD>>) = 1
      BY SMT DEF RD
    <3> QED BY <1>3, <3>1
  <2>2. Pieces(L)[j] = u \o w
    BY <1>1, <1>3 DEF Delimited
  <2>3. l \in {0, 1} /\ (j # 1 => l = 1 /\ u = <<RD>>)
    OBVIOUS
  <2>4. first(j) = p + 1 + Len(C[j - 1]) + l
    OBVIOUS
  <2> HIDE DEF u, w, l, first
  <2>5. Stands(f, p + 1 + Len(C[j - 1]), u) /\ Stands(f, p + 1 + Len(C[j - 1]) + Len(u), w)
    BY <1>5, <2>1, <2>2, StandsSplit
  <2>6. Len(u \o w) = Len(u) + Len(w) /\ Len(w) \in Nat
    BY <2>1
  <2>7. p \in Nat /\ Len(C[j - 1]) \in Nat /\ Len(C[j]) = Len(C[j - 1]) + (l + Len(w))
    BY <1>4, <1>5, <2>1, <2>2, <2>6
  <2>8. first(j) \in Nat /\ first(j) + Len(w) = p + 1 + Len(C[j])
    <3> DEFINE e == Len(C[j - 1])
               k == Len(w)
    <3>1. first(j) = p + 1 + e + l /\ e \in Nat /\ k \in Nat /\ Len(C[j]) = e + (l + k) /\ l \in Nat
      BY <2>3, <2>4, <2>6, <2>7
    <3> HIDE DEF e, k
    <3> DEFINE x == first(j)
               y == Len(C[j])
    <3>2. x = p + 1 + e + l /\ e \in Nat /\ k \in Nat /\ y = e + (l + k) /\ l \in Nat /\ p \in Nat
      BY <2>7, <3>1
    <3> HIDE DEF x, y
    <3>3. x \in Nat /\ x + k = p + 1 + y
      BY ONLY <3>2
    <3> QED BY <3>3 DEF k, x, y
  <2>9. j # 1 => first(j) - 1 = p + 1 + Len(C[j - 1])
    BY <2>3, <2>4, <2>7
  <2> QED BY <2>1, <2>3, <2>4, <2>5, <2>8, <2>9 DEF w
<1> HIDE DEF first
<1>7. ASSUME NEW j \in 1 .. m
      PROVE  \A k \in 0 .. Len(L[j]) : at[j][k] = first(j) + Len(K(j)[k]) /\ at[j][k] \in Nat
  BY <1>3, <1>6
<1> HIDE DEF at
<1>8. ASSUME NEW j \in 1 .. m PROVE RulePlaced(f, L, at, j)
  <2> DEFINE ss == Coded(L[j])
             n == Len(L[j])
  <2>1. /\ ss \in Seq(Seq(Nat)) /\ Joining(ss, K(j)) /\ \A i \in 0 .. Len(ss) : K(j)[i] \in Seq(Nat)
        /\ Stands(f, first(j), K(j)[Len(ss)]) /\ Len(ss) = n /\ n \in Nat
        /\ \A k \in 1 .. n : ss[k] = get_encoded(L[j][k])
    BY <1>1, <1>3, <1>6
  <2> HIDE DEF ss
  <2>2. \A i \in 1 .. Len(ss) : /\ Stands(f, first(j) + Len(K(j)[i - 1]), ss[i])
                                /\ Len(K(j)[i]) = Len(K(j)[i - 1]) + Len(ss[i])
    BY <2>1, StandsEach
  <2>3. ASSUME NEW k \in 1 .. n
        PROVE  /\ Stands(f, at[j][k - 1], get_encoded(L[j][k]))
               /\ at[j][k] = at[j][k - 1] + Len(get_encoded(L[j][k]))
    <3>1. k - 1 \in 0 .. n /\ k \in 0 .. n
      BY <2>1
    <3>2. at[j][k - 1] = first(j) + Len(K(j)[k - 1]) /\ at[j][k] = first(j) + Len(K(j)[k])
      BY <1>7, <3>1
    <3>3. ss[k] = get_encoded(L[j][k]) /\ K(j)[k - 1] \in Seq(Nat) /\ ss[k] \in Seq(Nat) /\ first(j) \in Nat
      <4>1. k \in 1 .. Len(ss) /\ k - 1 \in 0 .. Len(ss)
        BY <2>1, <3>1
      <4>2. ss[k] \in Seq(Nat)
        BY <2>1, <4>1
      <4>3. K(j)[k - 1] \in Seq(Nat)
        BY <2>1, <4>1
      <4> QED BY <1>6, <2>1, <4>2, <4>3
    <3>4. Stands(f, first(j) + Len(K(j)[k - 1]), ss[k]) /\ Len(K(j)[k]) = Len(K(j)[k - 1]) + Len(ss[k])
      BY <2>1, <2>2
    <3>5. Len(K(j)[k - 1]) \in Nat /\ Len(ss[k]) \in Nat
      BY <3>3, Cats
    <3>6. first(j) + (Len(K(j)[k - 1]) + Len(ss[k])) = (first(j) + Len(K(j)[k - 1])) + Len(ss[k])
      <4> DEFINE x == first(j)
                 y == Len(K(j)[k - 1])
                 t == Len(ss[k])
      <4>1. x \in Nat /\ y \in Nat /\ t \in Nat
        BY <3>3, <3>5
      <4> HIDE DEF x, y, t
      <4>2. x + (y + t) = (x + y) + t
        BY <4>1
      <4> QED BY <4>2 DEF x, y, t
    <3> QED BY <3>2, <3>3, <3>4, <3>6
  <2> QED BY <1>7, <2>3 DEF RulePlaced
<1>9. ASSUME NEW j \in 1 .. m PROVE EndPlaced(f, p, L, at, j)
  <2> DEFINE q == at[j][Len(L[j])] + 1
  <2>1. Len(L[j]) \in 0 .. Len(L[j])
    BY <1>1
  <2>2. q = p + 1 + Len(C[j]) + 1 /\ p \in Nat /\ Len(C[j]) \in Nat
    <3>1. at[j][Len(L[j])] = p + 1 + Len(C[j])
      BY <1>6, <1>7, <2>1
    <3> QED BY <1>4, <1>5, <3>1
  <2> HIDE DEF q
  <2>3. CASE j = m
    <3>1. Stands(f, p + 1 + Len(C[j]), <<EOB>>)
      BY <1>4, <2>3
    <3>2. (p + 1 + Len(C[j])) + 1 <= Len(f) /\ f[(p + 1 + Len(C[j])) + 1] = EOB
      BY <3>1, StandsOne
    <3>3. q = p + Len(Block(L))
      <4> DEFINE y == Len(C[j])
      <4>1. q = p + 1 + y + 1 /\ Len(Block(L)) = 1 + y + 1 /\ p \in Nat /\ y \in Nat
        BY <1>4, <2>2, <2>3
      <4> HIDE DEF y
      <4> QED BY ONLY <4>1
    <3> QED BY <2>2, <2>3, <3>2, <3>3 DEF EndPlaced, q
  <2>4. CASE j # m
    <3>1. j + 1 \in 1 .. m /\ j + 1 # 1 /\ (j + 1) - 1 = j
      BY <1>1, <2>4
    <3>2. Stands(f, first(j + 1) - 1, <<RD>>) /\ first(j + 1) - 1 = p + 1 + Len(C[j]) /\ first(j + 1) \in Nat
      BY <1>6, <3>1
    <3>3. (p + 1 + Len(C[j])) + 1 <= Len(f) /\ f[(p + 1 + Len(C[j])) + 1] = RD
      BY <3>2, StandsOne
    <3>4. at[j + 1][0] = q
      <4>1. 0 \in 0 .. Len(L[j + 1])
        BY <1>1, <3>1
      <4>2. at[j + 1][0] = first(j + 1) + Len(K(j + 1)[0])
        BY <1>7, <3>1, <4>1
      <4>3. K(j + 1)[0] = <<>>
        BY <1>3, <3>1 DEF Joining
      <4>4. Len(K(j + 1)[0]) = 0
        <5>1. Len(<<>>) = 0
          OBVIOUS
        <5> QED BY <4>3, <5>1
      <4> DEFINE x == first(j + 1)
                 y == Len(C[j])
                 t == at[j + 1][0]
      <4>5. t = x + 0 /\ x \in Nat /\ x - 1 = p + 1 + y /\ q = p + 1 + y + 1 /\ p \in Nat /\ y \in Nat
        BY <2>2, <3>2, <4>2, <4>4
      <4> HIDE DEF x, y, t
      <4>6. t = q
        BY ONLY <4>5
      <4> QED BY <4>6 DEF t
    <3> QED BY <2>2, <2>4, <3>3, <3>4 DEF EndPlaced, q
  <2> QED BY <2>3, <2>4
<1>10. at[1][0] = p + 1
  <2>1. 1 \in 1 .. m /\ 0 \in 0 .. Len(L[1]) /\ 1 - 1 = 0
    BY <1>1
  <2>2. C[0] = <<>> /\ K(1)[0] = <<>>
    BY <1>2, <1>3, <2>1 DEF Joining
  <2>3. Len(C[0]) = 0 /\ Len(K(1)[0]) = 0
    <3>1. Len(<<>>) = 0
      OBVIOUS
    <3> QED BY <2>2, <3>1
  <2>4. first(1) = p + 1 + Len(C[0]) + 0
    BY <2>1 DEF first
  <2>5. at[1][0] = first(1) + Len(K(1)[0])
    BY <1>7, <2>1
  <2> QED BY <1>4, <2>3, <2>4, <2>5
<1>11. p + 1 <= Len(f) /\ f[p + 1] = SOB
  BY <1>4, StandsOne
<1> QED BY <1>4, <1>8, <1>9, <1>10, <1>11 DEF Placed

-----------------------------------------------------------------------------
(* The reader inside a block.                                              *)

RuleRecords == [head : Nat \cup {Null}, body : Seq(Nat)]
RuleMaps == UNION {[V -> Seq(Nat)] : V \in SUBSET Nat}
Readers == [pos : Nat, prev : Nat, curr_rule : RuleRecords, main_rule : RuleRecords,
            rule_map : RuleMaps, out : Seq(Letters)]

\* The states that a reader of f is in n bytes after x, if it has only moved or met a delimiter.
Advanced(f, x, n) == [x EXCEPT !.pos = x.pos + n, !.prev = f[x.pos]]
Parted(f, x) ==
  [Mapped(Advanced(f, x, 1)) EXCEPT !.curr_rule = NoRule,
     !.main_rule = IF @ = NoRule THEN x.curr_rule ELSE @]

\* A turn of the loop of decompress inside a block leads from x to y.
Marked(f, x, y) == f[x.pos] \in {SOT, EOB} /\ y = Advanced(f, x, 1)
Parting(f, x, y) == f[x.pos] = RD /\ x.curr_rule # NoRule /\ y = Parted(f, x)
Taking(f, x, y) ==
  \E v \in Fits : /\ Stands(f, x.pos - 1, get_encoded(v))
                        /\ y = Taken(Advanced(f, x, Len(get_encoded(v))), v)
InnerTurn(f, x, y) ==
  x.pos \in 1 .. Len(f) /\ (Marked(f, x, y) \/ Parting(f, x, y) \/ Taking(f, x, y))

\* What the reader has of the rules of L.
RuleOf(w) == [head |-> w[1], body |-> Tail(w)]
MapHas(m, L, i) ==
  /\ DOMAIN m = {L[q][1] : q \in 1 .. i}
  /\ \A q \in 1 .. i : m[L[q][1]] = Tail(L[q])
Holds(L, x, j) ==
  x.main_rule = (IF j = 1 THEN NoRule ELSE RuleOf(L[1])) /\ MapHas(x.rule_map, L, j - 1)

\* The reader has taken k symbols of rule j,
Within(L, at, x, j, k) ==
  /\ x.pos = at[j][k] + 1 /\ Holds(L, x, j)
  /\ x.curr_rule = IF k = 0 THEN NoRule ELSE [head |-> L[j][1], body |-> SubSeq(L[j], 2, k)]

\* or it has read the block, q bytes of the file in all.
Behind(L, q, x) ==
  x.pos = q + 1 /\ x.prev = EOB /\ Holds(L, x, Len(L)) /\ x.curr_rule = RuleOf(L[Len(L)])

\* The body of a rule grows to its tail.
LEMMA Bodies ==
  ASSUME NEW w \in Seq(Nat), Len(w) >= 1
  PROVE  /\ SubSeq(w, 2, 1) = <<>>
         /\ \A k \in 1 .. Len(w) : SubSeq(w, 2, k) \in Seq(Nat)
         /\ \A k \in 1 .. Len(w) - 1 : Append(SubSeq(w, 2, k), w[k + 1]) = SubSeq(w, 2, k + 1)
         /\ SubSeq(w, 2, Len(w)) = Tail(w)
<1>1. Len(w) \in Nat /\ \A k \in 1 .. Len(w) : w[k] \in Nat
  OBVIOUS
<1>2. ASSUME NEW k \in 1 .. Len(w)
      PROVE  /\ SubSeq(w, 2, k) \in Seq(Nat) /\ Len(SubSeq(w, 2, k)) = k - 1
             /\ \A i \in 1 .. k - 1 : SubSeq(w, 2, k)[i] = w[i + 1]
  <2>1. \A i \in 2 .. k : w[i] \in Nat
    BY <1>1
  <2>2. SubSeq(w, 2, k) \in Seq(Nat)
    BY <2>1
  <2>3. Len(SubSeq(w, 2, k)) = k - 1
    BY <1>1
  <2>4. ASSUME NEW i \in 1 .. k - 1 PROVE SubSeq(w, 2, k)[i] = w[i + 1]
    <3>1. SubSeq(w, 2, k)[i] = w[2 + i - 1] /\ 2 + i - 1 = i + 1
      BY <1>1
    <3> QED BY <3>1
  <2> QED BY <2>2, <2>3, <2>4
<1>3. SubSeq(w, 2, 1) = <<>>
  <2>1. SubSeq(w, 2, 1) \in Seq(Nat) /\ Len(SubSeq(w, 2, 1)) = 0
    BY <1>1, <1>2
  <2> QED BY <2>1
<1>4. ASSUME NEW k \in 1 .. Len(w) - 1 PROVE Append(SubSeq(w, 2, k), w[k + 1]) = SubSeq(w, 2, k + 1)
  <2> DEFINE u == SubSeq(w, 2, k)
             t == SubSeq(w, 2, k + 1)
  <2>1. k \in 1 .. Len(w) /\ k + 1 \in 1 .. Len(w) /\ (k + 1) - 1 = k
    BY <1>1
  <2>2. /\ u \in Seq(Nat) /\ Len(u) = k - 1 /\ \A i \in 1 .. k - 1 : u[i] = w[i + 1]
        /\ t \in Seq(Nat) /\ Len(t) = k /\ \A i \in 1 .. k : t[i] = w[i + 1]
    BY <1>2, <2>1
  <2> HIDE DEF u, t
  <2> DEFINE v == w[k + 1]
  <2>3. v \in Nat /\ t[k] = v
    <3>1. k \in 1 .. k
      OBVIOUS
    <3> QED BY <1>1, <2>1, <2>2, <3>1
  <2> HIDE DEF v
  <2> DEFINE a == Append(u, v)
  <2>4. /\ a \in Seq(Nat) /\ Len(a) = k /\ a[k] = v
        /\ \A i \in 1 .. k - 1 : a[i] = u[i]
    BY <2>2, <2>3
  <2> HIDE DEF a
  <2>5. ASSUME NEW i \in 1 .. k PROVE a[i] = t[i]
    <3>1. CASE i = k
      BY <2>3, <2>4, <3>1
    <3>2. CASE i # k
      <4>1. i \in 1 .. k - 1
        BY <3>2
      <4>2. a[i] = u[i] /\ u[i] = w[i + 1] /\ t[i] = w[i + 1]
        BY <2>2, <2>4, <4>1
      <4> QED BY <4>2
    <3> QED BY <3>1, <3>2
  <2>6. a = t
    BY <2>2, <2>4, <2>5, SameSeq
  <2> QED BY <2>6 DEF a, u, t, v
<1>5. SubSeq(w, 2, Len(w)) = Tail(w)
  <2> DEFINE u == SubSeq(w, 2, Len(w))
             t == Tail(w)
  <2>1. Len(w) \in 1 .. Len(w) /\ w # <<>>
    BY <1>1
  <2>2. u \in Seq(Nat) /\ Len(u) = Len(w) - 1 /\ \A i \in 1 .. Len(w) - 1 : u[i] = w[i + 1]
    BY <1>2, <2>1
  <2>3. t \in Seq(Nat) /\ Len(t) = Len(w) - 1 /\ \A i \in 1 .. Len(w) - 1 : t[i] = w[i + 1]
    BY <2>1
  <2> HIDE DEF u, t
  <2>4. u = t
    BY <2>2, <2>3, SameSeq
  <2> QED BY <2>4 DEF u, t
<1> QED BY <1>2, <1>3, <1>4, <1>5

\* A rule enters the map.
Adding(m, v, b) == [q \in DOMAIN m \cup {v} |-> IF q = v THEN b ELSE m[q]]
Added(m, v, b, n) ==
  /\ n \in RuleMaps /\ DOMAIN n = {v} \cup DOMAIN m /\ n[v] = b
  /\ \A q \in DOMAIN m : q # v => n[q] = m[q]

\* The map that a rule has entered.
LEMMA MapAdds ==
  ASSUME NEW m \in RuleMaps, NEW v \in Nat, NEW b \in Seq(Nat), NEW n, n = Adding(m, v, b)
  PROVE  Added(m, v, b, n)
<1>1. PICK V \in SUBSET Nat : m \in [V -> Seq(Nat)]
  BY DEF RuleMaps
<1>2. n = [q \in V \cup {v} |-> IF q = v THEN b ELSE m[q]]
  BY <1>1 DEF Adding
<1>3. DOMAIN n = {v} \cup V /\ n[v] = b /\ \A q \in V : q # v => n[q] = m[q]
  BY <1>2
<1>4. \A q \in {v} \cup V : n[q] \in Seq(Nat)
  BY <1>1, <1>3
<1>5. n \in [{v} \cup V -> Seq(Nat)]
  <2>1. n = [q \in {v} \cup V |-> n[q]]
    BY <1>2, <1>3
  <2> QED BY <1>4, <2>1
<1>6. {v} \cup V \in SUBSET Nat
  BY <1>1
<1>7. n \in RuleMaps
  BY <1>5, <1>6 DEF RuleMaps
<1> QED BY <1>1, <1>3, <1>7 DEF Added

MovedOn(x, y, n, v) ==
  /\ y \in Readers /\ y.pos = x.pos + n /\ y.prev = v /\ y.curr_rule = x.curr_rule
  /\ y.main_rule = x.main_rule /\ y.rule_map = x.rule_map /\ y.out = x.out
DelimitedAt(x, y, v) ==
  /\ y \in Readers /\ y.pos = x.pos + 1 /\ y.prev = v /\ y.curr_rule = NoRule
  /\ y.main_rule = (IF x.main_rule = NoRule THEN x.curr_rule ELSE x.main_rule) /\ y.out = x.out
  /\ DOMAIN y.rule_map = {x.curr_rule.head} \cup DOMAIN x.rule_map
  /\ y.rule_map[x.curr_rule.head] = x.curr_rule.body
  /\ \A q \in DOMAIN x.rule_map : q # x.curr_rule.head => y.rule_map[q] = x.rule_map[q]

\* The fields of the states that a turn leads to.
LEMMA AdvancedFields ==
  ASSUME NEW f, NEW x \in Readers, NEW v \in Nat, f[x.pos] = v, NEW n \in Nat, NEW y, y = Advanced(f, x, n)
  PROVE  MovedOn(x, y, n, v)
<1>1. x.pos + n \in Nat
  BY DEF Readers
<1> QED BY <1>1 DEF Advanced, Readers, MovedOn

\* What a symbol changes in the state of the reader.
LEMMA TakenFields ==
  ASSUME NEW x \in Readers, NEW v \in Nat, NEW y, y = Taken(x, v)
  PROVE  /\ y \in Readers /\ y.pos = x.pos /\ y.prev = x.prev
         /\ y.curr_rule = (IF x.curr_rule = NoRule THEN [head |-> v, body |-> <<>>]
                           ELSE [head |-> x.curr_rule.head, body |-> Append(x.curr_rule.body, v)])
         /\ y.main_rule = x.main_rule /\ y.rule_map = x.rule_map /\ y.out = x.out
<1>1. /\ x.curr_rule \in RuleRecords /\ x.curr_rule.head \in Nat \cup {Null} /\ x.curr_rule.body \in Seq(Nat)
      /\ x.curr_rule = [head |-> x.curr_rule.head, body |-> x.curr_rule.body]
  BY DEF Readers, RuleRecords
<1>2. CASE x.curr_rule = NoRule
  <2>1. y = [x EXCEPT !.curr_rule = [x.curr_rule EXCEPT !.head = v]]
    BY <1>2 DEF Taken
  <2>2. [x.curr_rule EXCEPT !.head = v] = [head |-> v, body |-> <<>>]
    BY <1>2 DEF NoRule
  <2>3. y = [x EXCEPT !.curr_rule = [head |-> v, body |-> <<>>]]
    BY <2>1, <2>2
  <2>4. [head |-> v, body |-> <<>>] \in RuleRecords
    BY DEF RuleRecords
  <2> QED BY <1>2, <2>3, <2>4 DEF Readers
<1>3. CASE x.curr_rule # NoRule
  <2> DEFINE r == [head |-> x.curr_rule.head, body |-> Append(x.curr_rule.body, v)]
  <2>1. y = [x EXCEPT !.curr_rule = [x.curr_rule EXCEPT !.body = Append(x.curr_rule.body, v)]]
    <3>1. y = [x EXCEPT !.curr_rule.body = Append(@, v)]
      BY <1>3 DEF Taken
    <3> QED BY <3>1
  <2>2. [x.curr_rule EXCEPT !.body = Append(x.curr_rule.body, v)] = r
    <3>1. \A c \in RuleRecords : \A b : [c EXCEPT !.body = b] = [head |-> c.head, body |-> b]
      BY DEF RuleRecords
    <3> QED BY <1>1, <3>1
  <2>3. y = [x EXCEPT !.curr_rule = r]
    BY <2>1, <2>2
  <2>4. r \in RuleRecords
    BY <1>1 DEF RuleRecords
  <2> HIDE DEF r
  <2>5. /\ y \in Readers /\ y.pos = x.pos /\ y.prev = x.prev /\ y.curr_rule = r
        /\ y.main_rule = x.main_rule /\ y.rule_map = x.rule_map /\ y.out = x.out
    BY <2>3, <2>4 DEF Readers
  <2> QED BY <1>3, <2>5 DEF r
<1> QED BY <1>2, <1>3

\* What the map of a reader holds once its rule has entered it.
LEMMA MappedFields ==
  ASSUME NEW x \in Readers, x.curr_rule.head \in Nat, NEW y, y = Mapped(x)
  PROVE  /\ y \in Readers /\ y.pos = x.pos /\ y.prev = x.prev /\ y.curr_rule = x.curr_rule
         /\ y.main_rule = x.main_rule /\ y.out = x.out
         /\ DOMAIN y.rule_map = {x.curr_rule.head} \cup DOMAIN x.rule_map
         /\ y.rule_map[x.curr_rule.head] = x.curr_rule.body
         /\ \A q \in DOMAIN x.rule_map : q # x.curr_rule.head => y.rule_map[q] = x.rule_map[q]
<1> DEFINE v == x.curr_rule.head
           b == x.curr_rule.body
           m == x.rule_map
           n == Adding(m, v, b)
<1>1. v \in Nat /\ b \in Seq(Nat) /\ m \in RuleMaps
  BY DEF Readers, RuleRecords
<1>2. y = [x EXCEPT !.rule_map = n]
  <2>1. y = [x EXCEPT !.rule_map = [q \in DOMAIN @ \cup {v} |-> IF q = v THEN b ELSE @[q]]]
    BY DEF Mapped
  <2>2. [q \in DOMAIN x.rule_map \cup {v} |-> IF q = v THEN b ELSE x.rule_map[q]] = n
    BY DEF Adding
  <2> QED BY <2>1, <2>2
<1> HIDE DEF v, b
<1> HIDE DEF m
<1>0. n = Adding(m, v, b)
  OBVIOUS
<1> HIDE DEF n
<1>3. /\ n \in RuleMaps /\ DOMAIN n = {v} \cup DOMAIN m /\ n[v] = b
      /\ \A q \in DOMAIN m : q # v => n[q] = m[q]
  <2>1. Added(m, v, b, n)
    BY <1>0, <1>1, MapAdds
  <2> QED BY <2>1 DEF Added
<1>4. /\ y \in Readers /\ y.pos = x.pos /\ y.prev = x.prev /\ y.curr_rule = x.curr_rule
      /\ y.main_rule = x.main_rule /\ y.out = x.out /\ y.rule_map = n
  BY <1>2, <1>3 DEF Readers
<1> QED BY <1>3, <1>4 DEF v, b, m

\* What a delimiter changes in the state of the reader.
LEMMA PartedFields ==
  ASSUME NEW f, NEW x \in Readers, NEW v \in Nat, f[x.pos] = v, x.curr_rule.head \in Nat,
         NEW y, y = Parted(f, x)
  PROVE  DelimitedAt(x, y, v)
<1> DEFINE u == Advanced(f, x, 1)
           t == Mapped(u)
           r == IF x.main_rule = NoRule THEN x.curr_rule ELSE x.main_rule
<1>1. /\ u \in Readers /\ u.pos = x.pos + 1 /\ u.prev = f[x.pos] /\ u.curr_rule = x.curr_rule
      /\ u.main_rule = x.main_rule /\ u.rule_map = x.rule_map /\ u.out = x.out
  BY AdvancedFields DEF MovedOn
<1>2. y = [t EXCEPT !.curr_rule = NoRule, !.main_rule = IF t.main_rule = NoRule THEN x.curr_rule ELSE t.main_rule]
  BY DEF Parted
<1> HIDE DEF u
<1>3. /\ t \in Readers /\ t.pos = u.pos /\ t.prev = u.prev /\ t.curr_rule = u.curr_rule
      /\ t.main_rule = u.main_rule /\ t.out = u.out
      /\ DOMAIN t.rule_map = {u.curr_rule.head} \cup DOMAIN u.rule_map
      /\ t.rule_map[u.curr_rule.head] = u.curr_rule.body
      /\ \A q \in DOMAIN u.rule_map : q # u.curr_rule.head => t.rule_map[q] = u.rule_map[q]
  BY <1>1, MappedFields
<1> HIDE DEF t
<1>4. y = [t EXCEPT !.curr_rule = NoRule, !.main_rule = r]
  BY <1>1, <1>2, <1>3
<1>5. r \in RuleRecords /\ NoRule \in RuleRecords
  BY DEF Readers, RuleRecords, NoRule
<1>6. /\ y \in Readers /\ y.pos = t.pos /\ y.prev = t.prev /\ y.curr_rule = NoRule
      /\ y.main_rule = r /\ y.out = t.out /\ y.rule_map = t.rule_map
  <2> HIDE DEF r
  <2> QED BY <1>3, <1>4, <1>5 DEF Readers
<1> QED BY <1>1, <1>3, <1>6 DEF DelimitedAt

\* The values of a list.
LEMMA ListedValues ==
  ASSUME NEW L, Listed(L), NEW j \in 1 .. Len(L)
  PROVE  /\ L[j] \in Seq(Nat) /\ Len(L[j]) \in Nat /\ Len(L[j]) >= 1 /\ Len(L) \in Nat
         /\ \A k \in 1 .. Len(L[j]) : L[j][k] \in Fits
         /\ L[j][1] \in Nat /\ Tail(L[j]) \in Seq(Nat)
         /\ SubSeq(L[j], 2, Len(L[j])) = Tail(L[j])
<1>1. L \in Seq(Seq(Nat)) /\ Len(L[j]) >= 1 /\ \A k \in 1 .. Len(L[j]) : L[j][k] \in Fits
  BY DEF Listed
<1> DEFINE w == L[j]
<1>2. w \in Seq(Nat) /\ Len(L) \in Nat
  BY <1>1
<1>3. Len(w) >= 1 /\ \A k \in 1 .. Len(w) : w[k] \in Fits
  BY <1>1
<1> HIDE DEF w
<1>4. Len(w) \in Nat /\ \A k \in 1 .. Len(w) : w[k] \in Nat
  BY <1>2
<1>6. w[1] \in Nat
  BY <1>3, <1>4
<1>7. SubSeq(w, 2, Len(w)) \in Seq(Nat) /\ SubSeq(w, 2, Len(w)) = Tail(w)
  <2>1. Len(w) \in 1 .. Len(w)
    BY <1>3, <1>4
  <2> QED BY <1>2, <1>3, <2>1, Bodies
<1> QED BY <1>2, <1>3, <1>4, <1>6, <1>7 DEF w

\* The reader takes the next symbol of a rule,
LEMMA TakesNext ==
  ASSUME NEW L, Listed(L), NEW f \in Seq(Nat), NEW p, NEW at, Placed(f, p, L, at),
         NEW x \in Readers, NEW j \in 1 .. Len(L), NEW k \in 0 .. Len(L[j]) - 1, Within(L, at, x, j, k)
  PROVE  \E y \in Readers : InnerTurn(f, x, y) /\ y.out = x.out /\ Within(L, at, y, j, k + 1)
<1> DEFINE w == L[j]
           v == w[k + 1]
           n == Len(get_encoded(v))
           u == Advanced(f, x, n)
           y == Taken(u, v)
<1>1. /\ w \in Seq(Nat) /\ Len(w) \in Nat /\ Len(w) >= 1
      /\ k + 1 \in 1 .. Len(w) /\ k \in 0 .. Len(w) /\ k + 1 \in 0 .. Len(w) /\ (k + 1) - 1 = k
      /\ v \in Fits
  <2>1. /\ w \in Seq(Nat) /\ Len(w) \in Nat /\ Len(w) >= 1 /\ \A i \in 1 .. Len(w) : w[i] \in Fits
    BY ListedValues
  <2>2. k + 1 \in 1 .. Len(w) /\ k \in 0 .. Len(w) /\ k + 1 \in 0 .. Len(w) /\ (k + 1) - 1 = k
    BY <2>1
  <2> QED BY <2>1, <2>2
<1>2. /\ at[j][k] \in Nat /\ Stands(f, at[j][k], get_encoded(v)) /\ at[j][k + 1] = at[j][k] + n
  BY <1>1 DEF Placed, RulePlaced
<1>3. /\ x.pos = at[j][k] + 1 /\ Holds(L, x, j)
      /\ x.curr_rule = IF k = 0 THEN NoRule ELSE [head |-> w[1], body |-> SubSeq(w, 2, k)]
  BY DEF Within
<1> HIDE DEF w
<1>4. v \in Nat /\ n \in 1 .. 3 /\ n \in Nat
  <2> HIDE DEF v
  <2>1. v \in Nat /\ v <= 65535
    BY <1>1, SMT DEF Fits
  <2>2. Len(get_encoded(v)) \in 1 .. 3
    BY <2>1, EncodedBytes
  <2> QED BY <2>1, <2>2
<1> HIDE DEF v, n
<1>5. x.pos \in 1 .. Len(f) /\ f[x.pos] \in Nat /\ x.pos - 1 = at[j][k]
  <2>1. at[j][k] + n <= Len(f) /\ Len(f) \in Nat
    BY <1>2 DEF Stands, n
  <2>2. x.pos \in 1 .. Len(f) /\ x.pos - 1 = at[j][k]
    <3> DEFINE b == at[j][k]
    <3>1. b \in Nat /\ b + n <= Len(f) /\ Len(f) \in Nat /\ x.pos = b + 1
      BY <1>2, <1>3, <2>1
    <3> HIDE DEF b
    <3>2. x.pos \in 1 .. Len(f) /\ x.pos - 1 = b
      BY <1>4, <3>1
    <3> QED BY <3>2 DEF b
  <2> QED BY <2>2
<1>6. /\ u \in Readers /\ u.pos = x.pos + n /\ u.curr_rule = x.curr_rule
      /\ u.main_rule = x.main_rule /\ u.rule_map = x.rule_map /\ u.out = x.out
  <2>1. n \in Nat /\ f[x.pos] \in Nat
    BY <1>4, <1>5
  <2>2. u = Advanced(f, x, n)
    OBVIOUS
  <2> HIDE DEF u
  <2>3. MovedOn(x, u, n, f[x.pos])
    BY <2>1, <2>2, AdvancedFields
  <2> QED BY <2>3 DEF MovedOn
<1>7. u = Advanced(f, x, n)
  OBVIOUS
<1> HIDE DEF u
<1>8. /\ y \in Readers /\ y.pos = u.pos
      /\ y.curr_rule = (IF u.curr_rule = NoRule THEN [head |-> v, body |-> <<>>]
                        ELSE [head |-> u.curr_rule.head, body |-> Append(u.curr_rule.body, v)])
      /\ y.main_rule = u.main_rule /\ y.rule_map = u.rule_map /\ y.out = u.out
  BY <1>4, <1>6, TakenFields
<1>9. InnerTurn(f, x, y)
  <2>1. Taking(f, x, y)
    BY <1>1, <1>2, <1>5, <1>7 DEF Taking, n
  <2> QED BY <1>5, <2>1 DEF InnerTurn
<1> HIDE DEF y
<1>10. y.pos = at[j][k + 1] + 1
  <2> DEFINE b == at[j][k]
  <2>1. y.pos = (b + 1) + n /\ at[j][k + 1] = b + n /\ b \in Nat
    BY <1>2, <1>3, <1>6, <1>8
  <2> HIDE DEF b
  <2> QED BY <1>4, <2>1
<1>11. y.curr_rule = [head |-> w[1], body |-> SubSeq(w, 2, k + 1)]
  <2>1. CASE k = 0
    <3>1. x.curr_rule = NoRule
      BY <1>3, <2>1
    <3>2. y.curr_rule = [head |-> v, body |-> <<>>]
      BY <1>6, <1>8, <3>1
    <3>3. v = w[1] /\ SubSeq(w, 2, k + 1) = <<>>
      BY <1>1, <2>1, Bodies DEF v
    <3> QED BY <3>2, <3>3
  <2>2. CASE k # 0
    <3> DEFINE b == SubSeq(w, 2, k)
    <3>1. x.curr_rule = [head |-> w[1], body |-> b]
      BY <1>3, <2>2
    <3>2. w[1] \in Nat
      BY <1>1
    <3>3. Append(b, v) = SubSeq(w, 2, k + 1)
      <4>1. k \in 1 .. Len(w) - 1
        BY <1>1, <2>2
      <4> QED BY <1>1, <4>1, Bodies DEF v
    <3> HIDE DEF b
    <3>4. x.curr_rule # NoRule /\ x.curr_rule.head = w[1] /\ x.curr_rule.body = b
      <4>1. x.curr_rule.head = w[1] /\ x.curr_rule.body = b
        BY <3>1
      <4>2. NoRule.head = Null /\ Null \notin Nat
        BY DEF NoRule, Null
      <4> QED BY <3>2, <4>1, <4>2
    <3> QED BY <1>6, <1>8, <3>3, <3>4
  <2> QED BY <2>1, <2>2
<1>12. Within(L, at, y, j, k + 1)
  <2>1. Holds(L, y, j)
    BY <1>3, <1>6, <1>8 DEF Holds
  <2>2. k + 1 # 0
    BY <1>1
  <2> QED BY <1>10, <1>11, <2>1, <2>2 DEF Within, w
<1> QED BY <1>6, <1>8, <1>9, <1>12

Completed(L, r, j) ==
  /\ r = RuleOf(L[j]) /\ r # NoRule /\ r.head = L[j][1] /\ r.head \in Nat /\ r.body = Tail(L[j])

\* What the reader has when a rule is complete.
LEMMA RuleComplete ==
  ASSUME NEW L, Listed(L), NEW at, NEW x, NEW j \in 1 .. Len(L), Within(L, at, x, j, Len(L[j]))
  PROVE  Completed(L, x.curr_rule, j)
<1> DEFINE w == L[j]
<1>1. w \in Seq(Nat) /\ Len(w) \in Nat /\ Len(w) >= 1 /\ w[1] \in Nat /\ SubSeq(w, 2, Len(w)) = Tail(w)
  BY ListedValues
<1>2. x.curr_rule = [head |-> w[1], body |-> SubSeq(w, 2, Len(w))]
  BY <1>1 DEF Within
<1> HIDE DEF w
<1>3. x.curr_rule = [head |-> w[1], body |-> Tail(w)]
  BY <1>1, <1>2
<1>4. x.curr_rule.head = w[1] /\ x.curr_rule.body = Tail(w)
  BY <1>3
<1>5. x.curr_rule # NoRule
  <2>1. NoRule.head = Null /\ Null \notin Nat
    BY DEF NoRule, Null
  <2> QED BY <1>1, <1>4, <2>1
<1> QED BY <1>1, <1>3, <1>4, <1>5 DEF RuleOf, w, Completed

\* goes on with the next rule,
LEMMA TakesDelimiter ==
  ASSUME NEW L, Listed(L), NEW f \in Seq(Nat), NEW p, NEW at, Placed(f, p, L, at),
         NEW x \in Readers, NEW j \in 1 .. Len(L), j # Len(L), Within(L, at, x, j, Len(L[j]))
  PROVE  \E y \in Readers : InnerTurn(f, x, y) /\ y.out = x.out /\ Within(L, at, y, j + 1, 0)
<1> DEFINE n == Len(L[j])
           y == Parted(f, x)
           r == x.curr_rule
<1>1. /\ r = RuleOf(L[j]) /\ r # NoRule /\ r.head = L[j][1] /\ r.head \in Nat /\ r.body = Tail(L[j])
  <2>1. Completed(L, r, j)
    BY RuleComplete
  <2> QED BY <2>1 DEF Completed
<1>2. n \in Nat /\ Len(L) \in Nat /\ j + 1 \in 1 .. Len(L) /\ (j + 1) - 1 = j
  <2>1. n \in Nat /\ Len(L) \in Nat
    BY ListedValues
  <2> QED BY <2>1
<1>3. /\ at[j][n] \in Nat /\ at[j][n] + 1 <= Len(f) /\ f[at[j][n] + 1] = RD /\ at[j + 1][0] = at[j][n] + 1
  BY <1>2 DEF Placed, RulePlaced, EndPlaced
<1>4. x.pos = at[j][n] + 1 /\ Holds(L, x, j)
  BY DEF Within
<1>5. x.pos \in 1 .. Len(f) /\ f[x.pos] = RD /\ f[x.pos] \in Nat /\ x.pos = at[j + 1][0] /\ x.pos \in Nat
  <2>1. Len(f) \in Nat
    OBVIOUS
  <2>2. x.pos \in 1 .. Len(f) /\ x.pos \in Nat
    BY <1>3, <1>4, <2>1
  <2>3. f[x.pos] \in Nat
    BY <2>2
  <2> QED BY <1>3, <1>4, <2>2, <2>3
<1>6. InnerTurn(f, x, y)
  BY <1>1, <1>5 DEF InnerTurn, Parting
<1>7. /\ y \in Readers /\ y.pos = x.pos + 1 /\ y.curr_rule = NoRule
      /\ y.main_rule = (IF x.main_rule = NoRule THEN r ELSE x.main_rule) /\ y.out = x.out
      /\ DOMAIN y.rule_map = {r.head} \cup DOMAIN x.rule_map
      /\ y.rule_map[r.head] = r.body
      /\ \A q \in DOMAIN x.rule_map : q # r.head => y.rule_map[q] = x.rule_map[q]
  <2>1. f[x.pos] \in Nat /\ x.curr_rule.head \in Nat
    BY <1>1, <1>5
  <2>2. y = Parted(f, x)
    OBVIOUS
  <2> HIDE DEF y
  <2>3. DelimitedAt(x, y, f[x.pos])
    <3> DEFINE v == f[x.pos]
    <3>1. f[x.pos] = v /\ v \in Nat
      BY <2>1
    <3> HIDE DEF v
    <3>2. DelimitedAt(x, y, v)
      BY <2>1, <2>2, <3>1, PartedFields
    <3> QED BY <3>2 DEF v
  <2> QED BY <2>3 DEF DelimitedAt
<1> HIDE DEF y
<1>8. y.main_rule = RuleOf(L[1])
  <2>1. CASE j = 1
    <3>1. x.main_rule = NoRule
      BY <1>4, <2>1 DEF Holds
    <3> QED BY <1>1, <1>7, <2>1, <3>1
  <2>2. CASE j # 1
    <3>1. x.main_rule = RuleOf(L[1])
      BY <1>4, <2>2 DEF Holds
    <3>2. RuleOf(L[1]) # NoRule
      <4>1. RuleOf(L[1]).head = L[1][1] /\ NoRule.head = Null /\ Null \notin Nat
        BY DEF RuleOf, NoRule, Null
      <4>2. L[1][1] \in Nat
        <5>1. 1 \in 1 .. Len(L)
          BY <1>2
        <5> QED BY <5>1, ListedValues
      <4> QED BY <4>1, <4>2
    <3> QED BY <1>7, <3>1, <3>2
  <2> QED BY <2>1, <2>2
<1>9. MapHas(y.rule_map, L, j)
  <2> DEFINE m == y.rule_map
  <2>1. /\ DOMAIN x.rule_map = {L[q][1] : q \in 1 .. j - 1}
        /\ \A q \in 1 .. j - 1 : x.rule_map[L[q][1]] = Tail(L[q])
    BY <1>4 DEF Holds, MapHas
  <2>2. DOMAIN m = {L[q][1] : q \in 1 .. j}
    <3>1. DOMAIN m = {L[j][1]} \cup {L[q][1] : q \in 1 .. j - 1}
      BY <1>1, <1>7, <2>1
    <3>2. \A q : q \in 1 .. j <=> q = j \/ q \in 1 .. j - 1
      OBVIOUS
    <3> HIDE DEF m
    <3>3. {L[q][1] : q \in 1 .. j} = {L[j][1]} \cup {L[q][1] : q \in 1 .. j - 1}
      BY ONLY <3>2
    <3> QED BY <3>1, <3>3
  <2>3. ASSUME NEW q \in 1 .. j PROVE m[L[q][1]] = Tail(L[q])
    <3>1. CASE q = j
      BY <1>1, <1>7, <3>1
    <3>2. CASE q # j
      <4>1. q \in 1 .. j - 1 /\ q \in 1 .. Len(L)
        BY <1>2, <3>2
      <4>2. L[q][1] # L[j][1]
        BY <3>2, <4>1 DEF Listed
      <4>3. L[q][1] \in DOMAIN x.rule_map
        BY <2>1, <4>1
      <4>4. m[L[q][1]] = x.rule_map[L[q][1]]
        BY <1>1, <1>7, <4>2, <4>3
      <4> QED BY <2>1, <4>1, <4>4
    <3> QED BY <3>1, <3>2
  <2> QED BY <2>2, <2>3 DEF MapHas
<1>10. Within(L, at, y, j + 1, 0)
  <2>1. Holds(L, y, j + 1)
    BY <1>2, <1>8, <1>9 DEF Holds
  <2>2. y.pos = at[j + 1][0] + 1
    BY <1>5, <1>7
  <2> QED BY <1>7, <2>1, <2>2 DEF Within
<1> QED BY <1>6, <1>7, <1>10

\* and gets to the end of the block.
LEMMA TakesEnd ==
  ASSUME NEW L, Listed(L), NEW f \in Seq(Nat), NEW p, NEW at, Placed(f, p, L, at),
         NEW x \in Readers, Within(L, at, x, Len(L), Len(L[Len(L)]))
  PROVE  \E y \in Readers : InnerTurn(f, x, y) /\ y.out = x.out /\ Behind(L, p + Len(Block(L)), y)
<1> DEFINE j == Len(L)
           n == Len(L[j])
           y == Advanced(f, x, 1)
<1>1. j \in 1 .. Len(L)
  <2>1. L \in Seq(Seq(Nat)) /\ Len(L) >= 1
    BY DEF Listed
  <2>2. Len(L) \in Nat
    BY <2>1
  <2> QED BY <2>1, <2>2
<1>2. x.curr_rule = RuleOf(L[j]) /\ n \in Nat
  <2>1. Within(L, at, x, j, Len(L[j]))
    OBVIOUS
  <2> HIDE DEF j
  <2>2. x.curr_rule = RuleOf(L[j])
    BY <1>1, <2>1, RuleComplete DEF Completed
  <2>3. Len(L[j]) \in Nat
    BY <1>1, ListedValues
  <2> QED BY <2>2, <2>3
<1>3. /\ at[j][n] \in Nat /\ at[j][n] + 1 <= Len(f) /\ f[at[j][n] + 1] = EOB
      /\ at[j][n] + 1 = p + Len(Block(L))
  BY <1>1, <1>2 DEF Placed, RulePlaced, EndPlaced
<1>4. x.pos = at[j][n] + 1 /\ Holds(L, x, j)
  BY DEF Within
<1> HIDE DEF j
<1>5. x.pos \in 1 .. Len(f) /\ f[x.pos] = EOB /\ f[x.pos] \in Nat /\ x.pos = p + Len(Block(L))
  <2>1. Len(f) \in Nat
    OBVIOUS
  <2>2. x.pos \in 1 .. Len(f) /\ x.pos \in Nat
    <3> DEFINE b == at[j][n]
    <3>1. b \in Nat /\ b + 1 <= Len(f) /\ x.pos = b + 1
      BY <1>3, <1>4
    <3> HIDE DEF b
    <3> QED BY <2>1, <3>1
  <2>3. f[x.pos] \in Nat
    BY <2>2
  <2> QED BY <1>3, <1>4, <2>2, <2>3
<1>6. InnerTurn(f, x, y)
  BY <1>5 DEF InnerTurn, Marked
<1>7. /\ y \in Readers /\ y.pos = x.pos + 1 /\ y.prev = f[x.pos] /\ y.curr_rule = x.curr_rule
      /\ y.main_rule = x.main_rule /\ y.rule_map = x.rule_map /\ y.out = x.out
  <2>1. f[x.pos] \in Nat /\ 1 \in Nat
    BY <1>5
  <2>2. y = Advanced(f, x, 1)
    OBVIOUS
  <2> HIDE DEF y
  <2>3. MovedOn(x, y, 1, f[x.pos])
    BY <2>1, <2>2, AdvancedFields
  <2> QED BY <2>3 DEF MovedOn
<1> HIDE DEF y
<1>8. Holds(L, y, j)
  BY <1>4, <1>7 DEF Holds
<1>9. Behind(L, p + Len(Block(L)), y)
  BY <1>2, <1>5, <1>7, <1>8 DEF Behind, j
<1> QED BY <1>6, <1>7, <1>9

\* The reader is at a new block, behind the first q bytes of the file.
Began(x, q) ==
  x.pos = q + 1 /\ x.curr_rule = NoRule /\ x.main_rule = NoRule /\ x.rule_map = NoRules

\* The states of B lead from the begin of a block, after p bytes, to its end after q.
Reads(f, p, q, L, O, B) ==
  /\ B \subseteq Readers
  /\ \A x \in Readers : Began(x, p + 1) /\ x.out \in O => x \in B
  /\ \A x \in B : x.out \in O /\ (Behind(L, q, x) \/ \E y \in B : InnerTurn(f, x, y))

\* At the begin of a block there are no rules yet.
LEMMA BeganWithin ==
  ASSUME NEW L, Listed(L), NEW f, NEW p, NEW at, Placed(f, p, L, at),
         NEW x \in Readers, Began(x, p + 1)
  PROVE  Within(L, at, x, 1, 0)
<1>1. at[1][0] = p + 1 /\ p \in Nat
  BY DEF Placed
<1>2. x.pos = (p + 1) + 1 /\ x.curr_rule = NoRule /\ x.main_rule = NoRule /\ x.rule_map = NoRules
  BY DEF Began
<1>3. DOMAIN NoRules = {}
  BY SMT DEF NoRules
<1>4. 1 .. 0 = {} /\ 1 - 1 = 0
  BY SMT
<1>5. DOMAIN NoRules = {L[q][1] : q \in 1 .. 0}
  BY <1>3, <1>4
<1>6. MapHas(NoRules, L, 0)
  BY <1>4, <1>5 DEF MapHas
<1>7. Holds(L, x, 1)
  BY <1>2, <1>4, <1>6 DEF Holds
<1> QED BY <1>1, <1>2, <1>7 DEF Within

\* The reader reads a block to its end.
LEMMA BlockReads ==
  ASSUME NEW L, Listed(L), NEW f \in Seq(Nat), NEW p, Stands(f, p, Block(L)), NEW O
  PROVE  \E B : Reads(f, p, p + Len(Block(L)), L, O, B)
<1> DEFINE q == p + Len(Block(L))
<1>1. Len(f) \in Nat
  BY SMT
<1>2. PICK at : Placed(f, p, L, at)
  BY <1>1, Places
<1> DEFINE Amid(x) == \E j \in 1 .. Len(L) : \E k \in 0 .. Len(L[j]) : Within(L, at, x, j, k)
           B == {x \in Readers : x.out \in O /\ (Amid(x) \/ Behind(L, q, x))}
<1> HIDE DEF q
<1>3. Len(L) \in Nat /\ Len(L) >= 1 /\ \A j \in 1 .. Len(L) : Len(L[j]) \in Nat
  <2>1. Len(L) \in Nat /\ Len(L) >= 1
    BY SMT DEF Listed
  <2>2. \A j \in 1 .. Len(L) : Len(L[j]) \in Nat
    BY ListedValues
  <2> QED BY <2>1, <2>2
<1>4. ASSUME NEW x \in Readers, Began(x, p + 1), x.out \in O PROVE x \in B
  <2>1. Within(L, at, x, 1, 0)
    BY <1>2, <1>4, BeganWithin
  <2>2. 1 \in 1 .. Len(L)
    BY <1>3, SMT
  <2>3. 0 \in 0 .. Len(L[1])
    <3>1. Len(L[1]) \in Nat
      BY <1>3, <2>2
    <3> QED BY <3>1, SMT
  <2>4. Amid(x)
    BY <2>1, <2>2, <2>3
  <2> QED BY <1>4, <2>4
<1>5. ASSUME NEW x \in Readers, x.out \in O, NEW j \in 1 .. Len(L), NEW k \in 0 .. Len(L[j]),
             Within(L, at, x, j, k)
      PROVE  \E y \in B : InnerTurn(f, x, y)
  <2>1. Len(L[j]) \in Nat
    BY <1>3
  <2>2. CASE k # Len(L[j])
    <3>1. k \in 0 .. Len(L[j]) - 1 /\ k + 1 \in 0 .. Len(L[j])
      BY <2>1, <2>2, SMT
    <3>2. PICK y \in Readers : InnerTurn(f, x, y) /\ y.out = x.out /\ Within(L, at, y, j, k + 1)
      BY <1>2, <1>5, <3>1, TakesNext
    <3>3. Amid(y)
      BY <3>1, <3>2
    <3>4. y \in B
      BY <1>5, <3>2, <3>3
    <3> QED BY <3>2, <3>4
  <2>3. CASE k = Len(L[j]) /\ j # Len(L)
    <3>1. Within(L, at, x, j, Len(L[j]))
      BY <1>5, <2>3
    <3>2. PICK y \in Readers : InnerTurn(f, x, y) /\ y.out = x.out /\ Within(L, at, y, j + 1, 0)
      BY <1>2, <2>3, <3>1, TakesDelimiter
    <3>3. j + 1 \in 1 .. Len(L)
      BY <1>3, <2>3, SMT
    <3>4. Len(L[j + 1]) \in Nat
      BY <1>3, <3>3
    <3>5. 0 \in 0 .. Len(L[j + 1])
      BY <3>4, SMT
    <3>6. Amid(y)
      BY <3>2, <3>3, <3>5
    <3>7. y \in B
      BY <1>5, <3>2, <3>6
    <3> QED BY <3>2, <3>7
  <2>4. CASE k = Len(L[j]) /\ j = Len(L)
    <3>1. Within(L, at, x, Len(L), Len(L[Len(L)]))
      BY <1>5, <2>4
    <3>2. PICK y \in Readers : InnerTurn(f, x, y) /\ y.out = x.out /\ Behind(L, q, y)
      BY <1>2, <3>1, TakesEnd DEF q
    <3>3. y \in B
      BY <1>5, <3>2
    <3> QED BY <3>2, <3>3
  <2> QED BY <2>2, <2>3, <2>4
<1>6. ASSUME NEW x \in B PROVE x.out \in O /\ (Behind(L, q, x) \/ \E y \in B : InnerTurn(f, x, y))
  <2>1. x \in Readers /\ x.out \in O /\ (Amid(x) \/ Behind(L, q, x))
    BY <1>6
  <2>2. CASE Amid(x)
    BY <1>5, <2>1, <2>2
  <2> QED BY <2>1, <2>2
<1>7. Reads(f, p, q, L, O, B)
  BY <1>4, <1>6 DEF Reads
<1> QED BY <1>7 DEF q

-----------------------------------------------------------------------------
(* The text that decompress puts together from a grammar.                  *)

\* Expansion's functions.
Texted(v, below) ==
  IF v < FirstNonterminal THEN <<v>> ELSE IF v \in DOMAIN below THEN below[v] ELSE <<Null>>
LineIn(body, below) == FlattenSeq([k \in DOMAIN body |-> Texted(body[k], below)])
LinesIn(map, below) == [v \in DOMAIN map |-> LineIn(map[v], below)]
Levels(map, m, f) == f = [i \in 0 .. m |-> LinesIn(map, IF i = 0 THEN NoRules ELSE f[i - 1])]
Level(map, m) == CHOOSE f : Levels(map, m, f)

\* An expansion, as any function that satisfies its equations gives it.
LEMMA ExpansionIs ==
  ASSUME NEW x
  PROVE  Expansion(x) = LineIn(x.main_rule.body,
                               Level(x.rule_map, Cardinality(DOMAIN x.rule_map))[Cardinality(DOMAIN x.rule_map)])
BY DEF Expansion, LineIn, Level, Levels, LinesIn, Texted

\* The levels of a map.
LEMMA LevelsMade ==
  ASSUME NEW map, NEW m \in Nat
  PROVE  LET c == Level(map, m) IN
         /\ c[0] = LinesIn(map, NoRules)
         /\ \A i \in 1 .. m : c[i] = LinesIn(map, c[i - 1])
<1> DEFINE More(t) == LinesIn(map, t)
           none == NoRules
           To(n, f) == f = [i \in 0 .. n |-> More(IF i = 0 THEN none ELSE f[i - 1])]
           Has(n) == \E f : To(n, f)
           T == {n \in Nat : ~ Has(n)}
           c == CHOOSE f : Levels(map, m, f)
<1> HIDE DEF More, none
<1>1. Has(0)
  <2> DEFINE f == [i \in 0 .. 0 |-> More(none)]
  <2>1. f = [i \in 0 .. 0 |-> More(IF i = 0 THEN none ELSE f[i - 1])]
    OBVIOUS
  <2> QED BY <2>1
<1>2. ASSUME NEW n \in Nat, Has(n) PROVE Has(n + 1)
  <2>1. PICK f : f = [i \in 0 .. n |-> More(IF i = 0 THEN none ELSE f[i - 1])]
    BY <1>2
  <2> DEFINE e == [i \in 0 .. n + 1 |-> IF i = n + 1 THEN More(f[n]) ELSE f[i]]
  <2>2. ASSUME NEW i \in 0 .. n + 1
        PROVE  e[i] = More(IF i = 0 THEN none ELSE e[i - 1])
    <3>1. CASE i = 0
      <4>1. e[i] = f[0] /\ 0 \in 0 .. n
        BY <3>1
      <4> HIDE DEF e
      <4> QED BY <2>1, <3>1, <4>1
    <3>2. CASE i = n + 1
      <4>1. e[i] = More(f[n]) /\ e[i - 1] = f[n] /\ i # 0
        BY <3>2
      <4> HIDE DEF e
      <4> QED BY <3>2, <4>1
    <3>3. CASE i # 0 /\ i # n + 1
      <4>1. i \in 0 .. n /\ i - 1 \in 0 .. n /\ i - 1 # n + 1 /\ i - 1 \in 0 .. n + 1
        BY <3>3
      <4>2. e[i] = f[i] /\ e[i - 1] = f[i - 1]
        BY <3>3, <4>1
      <4>3. f[i] = More(f[i - 1])
        BY <2>1, <3>3, <4>1
      <4> HIDE DEF e
      <4> QED BY <3>3, <4>2, <4>3
    <3> QED BY <3>1, <3>2, <3>3
  <2>3. To(n + 1, e)
    <3>1. e = [i \in 0 .. n + 1 |-> e[i]]
      OBVIOUS
    <3> HIDE DEF e
    <3>2. e = [i \in 0 .. n + 1 |-> More(IF i = 0 THEN none ELSE e[i - 1])]
      BY <2>2, <3>1
    <3> QED BY <3>2
  <2> HIDE DEF To
  <2> QED BY <2>3
<1> HIDE DEF Has
<1>3. T = {}
  <2> SUFFICES ASSUME T # {} PROVE FALSE
    OBVIOUS
  <2>1. PICK k \in T : \A j \in T : k <= j
    <3>1. T \subseteq Nat
      OBVIOUS
    <3> HIDE DEF T
    <3> QED BY <3>1, LeastNat
  <2>2. k \in Nat /\ ~ Has(k)
    OBVIOUS
  <2>3. k - 1 \in Nat /\ k - 1 \notin T /\ (k - 1) + 1 = k
    <3>1. k # 0
      BY <1>1, <2>2
    <3>2. k - 1 \in Nat /\ ~ (k <= k - 1) /\ (k - 1) + 1 = k
      BY <2>2, <3>1
    <3> HIDE DEF T
    <3> QED BY <2>1, <3>2
  <2>4. Has(k - 1)
    BY <2>3
  <2>5. Has((k - 1) + 1)
    BY <1>2, <2>3, <2>4
  <2> QED BY <2>2, <2>3, <2>5
<1>4. \E f : Levels(map, m, f)
  <2>1. Has(m)
    BY <1>3
  <2> QED BY <2>1 DEF Has, Levels, More, none
<1>5. Levels(map, m, c)
  BY <1>4
<1> HIDE DEF c
<1>6. c = [i \in 0 .. m |-> More(IF i = 0 THEN none ELSE c[i - 1])]
  BY <1>5 DEF Levels, More, none
<1>7. c[0] = More(none)
  <2>1. 0 \in 0 .. m
    OBVIOUS
  <2> QED BY <1>6, <2>1
<1>8. ASSUME NEW i \in 1 .. m PROVE c[i] = More(c[i - 1])
  <2>1. i \in 0 .. m /\ i # 0
    OBVIOUS
  <2> QED BY <1>6, <2>1
<1> QED BY <1>7, <1>8 DEF More, none, c, Level
=============================================================================
