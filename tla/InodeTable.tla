----------------------------- MODULE InodeTable -----------------------------
(* The hash table that keeps vtree from counting an inode twice             *)
(* (src/hw2/src/hash.c), as operators on a record t:                        *)
(*   tables   the tables, one per device, in the order of their creation    *)
(*   tablep   the table of the last call, 0 before the first                *)
(*   clears   hash_clears: the addresses that main frees before it exits    *)
(*   live     the addresses that are allocated                              *)
(*   allocs   the number of addresses handed out so far                     *)
(* Element i + 1 of a bucket's `keys` is keys[i] of the code.  hash_clears   *)
(* has CLEARS elements, 257 * 50 in the code, and is written unchecked:     *)
(* what is noted past its end overwrites what lies behind it (Overrun).     *)
(* Allocation never fails here, and there are at most TABLES devices.       *)
EXTENDS Integers, FiniteSets, SequencesExt, Functions

CONSTANTS BUCKETS, EXTEND, CLEARS

ASSUME TableAssumption == BUCKETS \in Nat \ {0} /\ EXTEND \in Nat \ {0} /\ CLEARS \in Nat

NoBucket == [at |-> 0, length |-> 0, keys |-> <<>>]
EmptyTable == [tables |-> <<>>, tablep |-> 0, clears |-> <<>>, live |-> {}, allocs |-> 0]

\* keys[0] is never written: the number of keys is one less than the elements in use.
Filled(b) == IF b.length = 0 THEN 0 ELSE Len(b.keys) - 1

\* Seen, had it stopped before the last key, where the search loop stops.
SeenShort(b, ino) ==
  \E i \in 1 .. Filled(b) - 1 : b.keys[i + 1] = ino /\ b.keys[1] # ino

\* The search begins at keys[0], which only calloc has written; a key equal to that ends it
\* there, and counts as not found.
Seen(b, ino) == \E i \in 1 .. Filled(b) : b.keys[i + 1] = ino /\ b.keys[1] # ino

\* malloc of a table: a new address, which main is to free.
NewTable(t, dev) ==
  [tables |-> Append(t.tables, [device |-> dev,
                                buckets |-> [k \in 0 .. BUCKETS - 1 |-> NoBucket]]),
   tablep |-> Len(t.tables) + 1,
   clears |-> Append(t.clears, t.allocs + 1),
   live   |-> t.live \cup {t.allocs + 1},
   allocs |-> t.allocs + 1]

\* The tables of the device: one, or none.
TablesOf(t, dev) == {i \in DOMAIN t.tables : t.tables[i].device = dev}

FindTable(t, dev) ==
  IF t.tablep # 0 /\ t.tables[t.tablep].device = dev THEN t
  ELSE IF TablesOf(t, dev) # {} THEN [t EXCEPT !.tablep = CHOOSE i \in TablesOf(t, dev) : TRUE]
  ELSE NewTable(t, dev)

\* Remembered, had only the address from calloc been noted.
RememberedOnce(t, b, at) == IF b.length = 0 THEN Append(t.clears, at) ELSE t.clears

\* The address of bucket b's keys is noted, after calloc and again after each realloc.
Remembered(t, b, at) == Append(t.clears, at)

\* Bucket k of the current table grows by EXTEND: calloc the first time, realloc later,
\* which moves the keys or not.  realloc copies the whole chunk, with the
\* key behind the array that the chunk has room for.
Extend(t, k, moves) ==
  LET b == t.tables[t.tablep].buckets[k]
      fresh == b.length = 0 \/ moves
      at == IF fresh THEN t.allocs + 1 ELSE b.at
  IN  [t EXCEPT !.tables[t.tablep].buckets[k] =
                    [at |-> at, length |-> b.length + EXTEND,
                     keys |-> IF b.length = 0 THEN <<0>> ELSE b.keys],
                !.clears = Remembered(t, b, at),
                !.live = (@ \ {b.at}) \cup {at},
                !.allocs = IF fresh THEN @ + 1 ELSE @]

\* bucketp->keys[++filled] = ino
PushKey(t, k, ino) == [t EXCEPT !.tables[t.tablep].buckets[k].keys = Append(@, ino)]

EnterKey(t, k, ino, moves) ==
  LET b == t.tables[t.tablep].buckets[k] IN
  IF Seen(b, ino) THEN [table |-> t, answer |-> "OLD"]
  ELSE [table |-> PushKey(IF Filled(b) = b.length THEN Extend(t, k, moves) ELSE t, k, ino),
        answer |-> "NEW"]

h_enter(t, dev, ino, moves) == EnterKey(FindTable(t, dev), ino % BUCKETS, ino, moves)

-----------------------------------------------------------------------------
(* main frees every remembered address (vtree.c:679-681).                   *)

\* An address has been noted behind hash_clears.
Overrun(t) == Len(t.clears) > CLEARS

\* The loop of main reads the element after the last one noted, too, and finds NULL there,
\* or what lies behind hash_clears.
ReadsBeyond(t) == Len(t.clears) >= CLEARS

FreesWell(t) == IsInjective(t.clears) /\ Range(t.clears) \subseteq t.live
Grown(t) == \E i \in DOMAIN t.tables : \E k \in 0 .. BUCKETS - 1 :
               t.tables[i].buckets[k].length > EXTEND
=============================================================================
