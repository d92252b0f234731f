----------------------------- MODULE VtreeProofs ----------------------------
(* Proofs about InodeTable and Vtree: what h_enter answers, what main frees *)
(* by hash_clears and when that is long enough, and where columns end.      *)
EXTENDS Vtree, SequenceTheorems, FiniteSetTheorems, WellFoundedInduction, TLAPS

Slots == 0 .. BUCKETS - 1
Devices == {Inode[n].dev : n \in Nodes}
Buckets == [at : Nat, length : Nat, keys : Seq(Nat)]
DeviceTables == [device : Devices, buckets : [Slots -> Buckets]]
InodeTables == [tables : Seq(DeviceTables), tablep : Nat, clears : Seq(Nat),
                live : SUBSET Nat, allocs : Nat]

\* A bucket has an address and room for EXTEND keys once it has been used at all, and the
\* zero of calloc where its search begins.
BucketSound(b, allocs) ==
  /\ b.at <= allocs
  /\ b.length = 0 => b.at = 0 /\ b.keys = <<>>
  /\ b.length # 0 => b.at # 0 /\ b.length >= EXTEND /\ Len(b.keys) > 0 /\ b.keys[1] = 0

BucketsSound(t) ==
  \A i \in DOMAIN t.tables : \A k \in Slots :
    BucketSound(t.tables[i].buckets[k], t.allocs)

OnePerDevice(t) ==
  /\ t.tablep <= Len(t.tables)
  /\ \A i, j \in DOMAIN t.tables : t.tables[i].device = t.tables[j].device => i = j

\* What is allocated is remembered; what is remembered has been allocated, and until a
\* bucket grows it is allocated still, and remembered once.
Accounted(t) ==
  /\ \A i \in DOMAIN t.clears : t.clears[i] \in 1 .. t.allocs
  /\ t.live \subseteq Range(t.clears)
  /\ Grown(t) \/ FreesWell(t)

TableSound(t) ==
  t \in InodeTables /\ BucketsSound(t) /\ OnePerDevice(t) /\ Accounted(t)

\* What the table knows: the inodes it has been asked for.
Has(t, dev, ino) ==
  \E i \in DOMAIN t.tables :
    t.tables[i].device = dev /\ Seen(t.tables[i].buckets[ino % BUCKETS], ino)

\* The addresses of keys among those remembered, and the devices that have a table.
KeyNotes(t) == Len(t.clears) - Len(t.tables)
DeviceSet(t) == {t.tables[i].device : i \in DOMAIN t.tables}

-----------------------------------------------------------------------------
(* h_enter.                                                                *)

\* The types of what a table is made of.
LEMMA BucketsTyped ==
  ASSUME NEW t \in InodeTables, NEW i \in DOMAIN t.tables
  PROVE  /\ t.tables[i] \in DeviceTables
         /\ t.tables[i].buckets \in [Slots -> Buckets]
         /\ \A k \in Slots : t.tables[i].buckets[k] \in Buckets
  <1>1. t.tables \in Seq(DeviceTables)
    BY DEF InodeTables
  <1>2. t.tables[i] \in DeviceTables
    BY <1>1
  <1>3. t.tables[i].buckets \in [Slots -> Buckets]
    BY <1>2 DEF DeviceTables
  <1> QED BY <1>2, <1>3

\* The table vtree starts with (hash.c:24-30).
LEMMA EmptySound == TableSound(EmptyTable)
  <1>1. EmptyTable \in InodeTables
    BY DEF EmptyTable, InodeTables
  <1>2. BucketsSound(EmptyTable) /\ OnePerDevice(EmptyTable)
    BY DEF EmptyTable, BucketsSound, OnePerDevice
  <1>3. Accounted(EmptyTable)
    BY DEF EmptyTable, Accounted, FreesWell, Grown, IsInjective, Range
  <1> QED BY <1>1, <1>2, <1>3 DEF TableSound

\* hash.c:62-81: a new table is allocated and remembered; the others stay.
LEMMA NewTableSound ==
  ASSUME NEW t, TableSound(t), NEW dev \in Devices, TablesOf(t, dev) = {}
  PROVE  LET u == NewTable(t, dev) IN
         /\ TableSound(u)
         /\ u.tablep \in DOMAIN u.tables /\ u.tables[u.tablep].device = dev
         /\ Grown(t) => Grown(u)
         /\ \A d, n : n \in Nat => (Has(u, d, n) <=> Has(t, d, n))
         /\ KeyNotes(u) = KeyNotes(t) /\ DeviceSet(u) \subseteq DeviceSet(t) \cup {dev}
  <1> DEFINE u == NewTable(t, dev)
             new == [device |-> dev, buckets |-> [k \in Slots |-> NoBucket]]
  <1>0. t \in InodeTables /\ BucketsSound(t) /\ OnePerDevice(t) /\ Accounted(t)
    BY DEF TableSound
  <1>1. BUCKETS \in Nat \ {0} /\ EXTEND \in Nat \ {0}
    BY TableAssumption
  <1>2. new \in DeviceTables
    BY DEF DeviceTables, Buckets, NoBucket
  <1>3. /\ u = [tables |-> Append(t.tables, new), tablep |-> Len(t.tables) + 1,
                clears |-> Append(t.clears, t.allocs + 1),
                live |-> t.live \cup {t.allocs + 1}, allocs |-> t.allocs + 1]
        /\ t.tables \in Seq(DeviceTables) /\ t.clears \in Seq(Nat)
        /\ t.live \in SUBSET Nat /\ t.allocs \in Nat
    BY <1>0 DEF NewTable, InodeTables, Slots
  <1> HIDE DEF u, new
  <1>4. /\ Len(u.tables) = Len(t.tables) + 1
        /\ DOMAIN u.tables = 1 .. Len(t.tables) + 1
        /\ DOMAIN t.tables = 1 .. Len(t.tables) /\ Len(t.tables) \in Nat
        /\ \A i \in DOMAIN t.tables : u.tables[i] = t.tables[i]
        /\ u.tables[Len(t.tables) + 1] = new
        /\ u.allocs = t.allocs + 1 /\ u.tablep = Len(t.tables) + 1
    BY <1>2, <1>3
  <1>5. /\ DOMAIN u.clears = 1 .. Len(t.clears) + 1
        /\ DOMAIN t.clears = 1 .. Len(t.clears) /\ Len(t.clears) \in Nat
        /\ \A i \in DOMAIN t.clears : u.clears[i] = t.clears[i]
        /\ u.clears[Len(t.clears) + 1] = t.allocs + 1
        /\ u.live = t.live \cup {t.allocs + 1}
    BY <1>3
  <1>6. u \in InodeTables
    BY <1>2, <1>3 DEF InodeTables
  <1>7. /\ new.device = dev
        /\ \A k \in Slots : new.buckets[k] = NoBucket
    BY DEF new
  <1>8. BucketsSound(u)
    <2> SUFFICES ASSUME NEW i \in DOMAIN u.tables, NEW k \in Slots
                 PROVE  BucketSound(u.tables[i].buckets[k], u.allocs)
      BY DEF BucketsSound
    <2>1. CASE i \in DOMAIN t.tables
      <3>1. BucketSound(t.tables[i].buckets[k], t.allocs)
        BY <1>0, <2>1 DEF BucketsSound
      <3>2. t.tables[i].buckets[k].at \in Nat
        BY <1>0, <2>1, BucketsTyped DEF Buckets
      <3>3. u.tables[i].buckets[k] = t.tables[i].buckets[k]
        BY <1>4, <2>1
      <3>4. t.tables[i].buckets[k].at <= u.allocs
        <4>1. t.allocs \in Nat /\ u.allocs = t.allocs + 1
          BY <1>3, <1>4
        <4>2. t.tables[i].buckets[k].at <= t.allocs
          BY <3>1 DEF BucketSound
        <4> QED BY <3>2, <4>1, <4>2
      <3> QED BY <3>1, <3>3, <3>4 DEF BucketSound
    <2>2. CASE i = Len(t.tables) + 1
      <3>1. u.tables[i].buckets[k] = NoBucket
        BY <1>4, <1>7, <2>2
      <3>2. u.allocs \in Nat
        BY <1>3, <1>4
      <3>3. BucketSound(NoBucket, u.allocs)
        BY <3>2 DEF BucketSound, NoBucket
      <3> QED BY <3>1, <3>3
    <2> QED BY <1>4, <2>1, <2>2
  <1>9. OnePerDevice(u)
    <2>1. \A i \in DOMAIN t.tables : t.tables[i].device # dev
      BY DEF TablesOf
    <2>2. u.tablep <= Len(u.tables)
      BY <1>4
    <2>3. ASSUME NEW i \in DOMAIN u.tables, NEW j \in DOMAIN u.tables,
                 u.tables[i].device = u.tables[j].device
          PROVE  i = j
      <3>1. \A x \in DOMAIN u.tables : x \in DOMAIN t.tables \/ x = Len(t.tables) + 1
        BY <1>4
      <3>2. CASE i \in DOMAIN t.tables /\ j \in DOMAIN t.tables
        BY <1>0, <1>4, <2>3, <3>2 DEF OnePerDevice
      <3>3. CASE i \in DOMAIN t.tables /\ j = Len(t.tables) + 1
        BY <1>4, <1>7, <2>1, <2>3, <3>3
      <3>4. CASE i = Len(t.tables) + 1 /\ j \in DOMAIN t.tables
        BY <1>4, <1>7, <2>1, <2>3, <3>4
      <3> QED BY <3>1, <3>2, <3>3, <3>4
    <2> QED BY <2>2, <2>3 DEF OnePerDevice
  <1>10. Grown(t) <=> Grown(u)
    <2>1. ASSUME NEW k \in 0 .. BUCKETS - 1
          PROVE  ~(new.buckets[k].length > EXTEND)
      BY <1>1, <1>7 DEF NoBucket, Slots
    <2>2. ASSUME NEW i \in DOMAIN t.tables
          PROVE  i \in DOMAIN u.tables /\ u.tables[i] = t.tables[i]
      BY <1>4
    <2>3. ASSUME NEW i \in DOMAIN u.tables, i \notin DOMAIN t.tables
          PROVE  u.tables[i] = new
      BY <1>4, <2>3
    <2> QED BY <2>1, <2>2, <2>3 DEF Grown
  <1>11. Accounted(u)
    <2>0. /\ \A i \in DOMAIN t.clears : t.clears[i] \in 1 .. t.allocs
          /\ \A i \in DOMAIN u.clears : i \in DOMAIN t.clears \/ i = Len(t.clears) + 1
          /\ t.allocs \in Nat
      BY <1>0, <1>3, <1>5 DEF Accounted
    <2>1. ASSUME NEW i \in DOMAIN u.clears PROVE u.clears[i] \in 1 .. u.allocs
      <3>1. CASE i \in DOMAIN t.clears
        BY <1>4, <1>5, <2>0, <3>1, SMTT(30)
      <3>2. CASE i = Len(t.clears) + 1
        BY <1>4, <1>5, <2>0, <3>2
      <3> QED BY <2>0, <3>1, <3>2
    <2>2. u.live \subseteq Range(u.clears)
      BY <1>0, <1>5 DEF Accounted, Range
    <2>3. ASSUME FreesWell(t) PROVE FreesWell(u)
      <3>0. \A i \in DOMAIN t.clears : u.clears[i] = t.clears[i] /\ u.clears[i] # t.allocs + 1
        BY <1>5, <2>0
      <3>1. IsInjective(u.clears)
        BY <1>5, <2>0, <2>3, <3>0 DEF FreesWell, IsInjective
      <3>2. Range(u.clears) \subseteq u.live
        BY <1>5, <2>3 DEF FreesWell, Range
      <3> QED BY <3>1, <3>2 DEF FreesWell
    <2> QED BY <1>0, <1>10, <2>1, <2>2, <2>3 DEF Accounted
  <1>12. ASSUME NEW d, NEW n \in Nat
         PROVE  Has(u, d, n) <=> Has(t, d, n)
    <2>1. n % BUCKETS \in Slots
      BY <1>1 DEF Slots
    <2>2. ~Seen(new.buckets[n % BUCKETS], n)
      BY <1>7, <2>1 DEF Seen, Filled, NoBucket
    <2>3. ASSUME NEW i \in DOMAIN t.tables
          PROVE  i \in DOMAIN u.tables /\ u.tables[i] = t.tables[i]
      BY <1>4
    <2>4. ASSUME NEW i \in DOMAIN u.tables, i \notin DOMAIN t.tables
          PROVE  u.tables[i] = new
      BY <1>4, <2>4
    <2> QED BY <2>2, <2>3, <2>4 DEF Has
  <1>13. KeyNotes(u) = KeyNotes(t)
    <2>1. Len(u.clears) = Len(t.clears) + 1
      BY <1>3
    <2> QED BY <1>4, <1>5, <2>1 DEF KeyNotes
  <1>14. DeviceSet(u) \subseteq DeviceSet(t) \cup {dev}
    <2> SUFFICES ASSUME NEW i \in DOMAIN u.tables
                 PROVE  u.tables[i].device \in DeviceSet(t) \cup {dev}
      BY DEF DeviceSet
    <2>1. i \in DOMAIN t.tables \/ i = Len(t.tables) + 1
      BY <1>4
    <2> QED BY <1>4, <1>7, <2>1 DEF DeviceSet
  <1> QED BY <1>4, <1>6, <1>7, <1>8, <1>9, <1>10, <1>11, <1>12, <1>13, <1>14
          DEF TableSound, u

\* hash.c:62-81: afterwards the current table is the device's.
LEMMA FindTableSound ==
  ASSUME NEW t, TableSound(t), NEW dev \in Devices
  PROVE  LET u == FindTable(t, dev) IN
         /\ TableSound(u)
         /\ u.tablep \in DOMAIN u.tables /\ u.tables[u.tablep].device = dev
         /\ Grown(t) => Grown(u)
         /\ \A d, n : n \in Nat => (Has(u, d, n) <=> Has(t, d, n))
         /\ KeyNotes(u) = KeyNotes(t) /\ DeviceSet(u) \subseteq DeviceSet(t) \cup {dev}
  <1>0. t \in InodeTables /\ BucketsSound(t) /\ OnePerDevice(t) /\ Accounted(t)
    BY DEF TableSound
  <1>1. t.tables \in Seq(DeviceTables) /\ t.tablep \in Nat
    BY <1>0 DEF InodeTables
  <1>2. CASE t.tablep # 0 /\ t.tables[t.tablep].device = dev
    <2>1. FindTable(t, dev) = t
      BY <1>2 DEF FindTable
    <2>2. t.tablep \in DOMAIN t.tables
      BY <1>0, <1>1, <1>2 DEF OnePerDevice
    <2> QED BY <1>2, <2>1, <2>2
  <1>3. CASE /\ ~(t.tablep # 0 /\ t.tables[t.tablep].device = dev)
             /\ TablesOf(t, dev) # {}
    <2>1. PICK i \in TablesOf(t, dev) : FindTable(t, dev) = [t EXCEPT !.tablep = i]
      BY <1>3 DEF FindTable
    <2> DEFINE u == [t EXCEPT !.tablep = i]
    <2>2. i \in DOMAIN t.tables /\ t.tables[i].device = dev
      BY <2>1 DEF TablesOf
    <2>3. i \in 1 .. Len(t.tables) /\ i \in Nat
      BY <1>1, <2>2
    <2>4. /\ u \in InodeTables /\ u.tables = t.tables /\ u.tablep = i
          /\ u.clears = t.clears /\ u.live = t.live /\ u.allocs = t.allocs
      BY <1>0, <2>3 DEF InodeTables
    <2> HIDE DEF u
    <2>5. BucketsSound(u) /\ OnePerDevice(u)
      BY <1>0, <1>1, <2>3, <2>4 DEF BucketsSound, OnePerDevice
    <2>6. (Grown(u) <=> Grown(t)) /\ (FreesWell(u) <=> FreesWell(t))
      BY <2>4 DEF Grown, FreesWell
    <2>7. Accounted(u)
      BY <1>0, <2>4, <2>6 DEF Accounted
    <2>8. /\ \A d, n : Has(u, d, n) <=> Has(t, d, n)
          /\ KeyNotes(u) = KeyNotes(t) /\ DeviceSet(u) = DeviceSet(t)
      BY <2>4 DEF Has, KeyNotes, DeviceSet
    <2> QED BY <2>1, <2>2, <2>4, <2>5, <2>6, <2>7, <2>8 DEF TableSound, u
  <1>4. CASE /\ ~(t.tablep # 0 /\ t.tables[t.tablep].device = dev)
             /\ TablesOf(t, dev) = {}
    BY <1>4, NewTableSound DEF FindTable
  <1> QED BY <1>2, <1>3, <1>4

\* One bucket is replaced by another.
LEMMA BucketReplaced ==
  ASSUME NEW t \in InodeTables, NEW p \in DOMAIN t.tables, NEW k \in Slots,
         NEW b \in Buckets
  PROVE  LET s == [t.tables EXCEPT ![p].buckets[k] = b] IN
         /\ s \in Seq(DeviceTables) /\ Len(s) = Len(t.tables)
         /\ DOMAIN s = DOMAIN t.tables
         /\ \A i \in DOMAIN s : s[i].device = t.tables[i].device
         /\ s[p].buckets[k] = b
         /\ \A i \in DOMAIN s : \A j \in Slots :
              ~(i = p /\ j = k) => s[i].buckets[j] = t.tables[i].buckets[j]
  <1> DEFINE s == [t.tables EXCEPT ![p].buckets[k] = b]
             new == [t.tables[p] EXCEPT !.buckets[k] = b]
  <1>1. t.tables \in Seq(DeviceTables)
    BY DEF InodeTables
  <1>2. t.tables[p] \in DeviceTables /\ t.tables[p].buckets \in [Slots -> Buckets]
    BY BucketsTyped
  <1>3. /\ new \in DeviceTables /\ new.device = t.tables[p].device
        /\ new.buckets[k] = b
        /\ \A j \in Slots : j # k => new.buckets[j] = t.tables[p].buckets[j]
    BY <1>2 DEF DeviceTables
  <1>4. s = [t.tables EXCEPT ![p] = new]
    OBVIOUS
  <1> HIDE DEF new, s
  <1>5. s \in Seq(DeviceTables) /\ Len(s) = Len(t.tables) /\ DOMAIN s = DOMAIN t.tables
    BY <1>1, <1>3, <1>4
  <1>6. s[p] = new /\ \A i \in DOMAIN s : i # p => s[i] = t.tables[i]
    BY <1>1, <1>4
  <1> QED BY <1>3, <1>5, <1>6 DEF s

\* hash.c:107-128: the bucket gets longer and keeps its keys.  Main learns the address; if
\* the keys did not move, or have left one that is remembered, the table has grown.
LEMMA ExtendSound ==
  ASSUME NEW t, TableSound(t), t.tablep \in DOMAIN t.tables,
         NEW k \in Slots, NEW moves \in BOOLEAN
  PROVE  LET u == Extend(t, k, moves) IN
         /\ TableSound(u)
         /\ u.tablep = t.tablep /\ DOMAIN u.tables = DOMAIN t.tables
         /\ \A i \in DOMAIN t.tables : u.tables[i].device = t.tables[i].device
         /\ u.tables[u.tablep].buckets[k].length # 0
         /\ Grown(t) => Grown(u)
         /\ \A d, n : n \in Nat => (Has(u, d, n) <=> Has(t, d, n))
         /\ KeyNotes(u) = KeyNotes(t) + 1 /\ DeviceSet(u) = DeviceSet(t)
  <1> DEFINE u == Extend(t, k, moves)
             p == t.tablep
             b == t.tables[p].buckets[k]
             fresh == b.length = 0 \/ moves
             at == IF fresh THEN t.allocs + 1 ELSE b.at
             new == [at |-> at, length |-> b.length + EXTEND,
                     keys |-> IF b.length = 0 THEN <<0>> ELSE b.keys]
             s == [t.tables EXCEPT ![p].buckets[k] = new]
  <1>0. t \in InodeTables /\ BucketsSound(t) /\ OnePerDevice(t) /\ Accounted(t)
    BY DEF TableSound
  <1>1. BUCKETS \in Nat \ {0} /\ EXTEND \in Nat \ {0}
    BY TableAssumption
  <1>2. /\ t.tables \in Seq(DeviceTables) /\ t.clears \in Seq(Nat) /\ t.tablep \in Nat
        /\ t.live \in SUBSET Nat /\ t.allocs \in Nat
    BY <1>0 DEF InodeTables
  <1>3. b \in Buckets /\ BucketSound(b, t.allocs)
    BY <1>0, BucketsTyped DEF BucketsSound
  <1>4. b.at \in Nat /\ b.length \in Nat /\ b.keys \in Seq(Nat)
    BY <1>3 DEF Buckets
  <1> HIDE DEF b
  <1>5. at \in Nat /\ at # 0 /\ at <= t.allocs + 1
    BY <1>2, <1>3, <1>4 DEF BucketSound
  <1>6. /\ new \in Buckets /\ new.length = b.length + EXTEND /\ new.at = at
        /\ b.length = 0 => new.keys = <<0>>
        /\ b.length # 0 => new.keys = b.keys
    BY <1>1, <1>4, <1>5 DEF Buckets
  <1>7. u = [tables |-> s, tablep |-> t.tablep, clears |-> Append(t.clears, at),
             live |-> (t.live \ {b.at}) \cup {at},
             allocs |-> IF fresh THEN t.allocs + 1 ELSE t.allocs]
    <2>1. u = [t EXCEPT !.tables = s, !.clears = Append(t.clears, at),
                        !.live = (t.live \ {b.at}) \cup {at},
                        !.allocs = IF fresh THEN t.allocs + 1 ELSE t.allocs]
      BY <1>0 DEF Extend, InodeTables, Remembered, b
    <2> HIDE DEF u, s, at, fresh
    <2> QED BY <1>0, <2>1 DEF InodeTables
  <1> HIDE DEF fresh, at, new, s, u
  <1>8. /\ s \in Seq(DeviceTables) /\ Len(s) = Len(t.tables)
        /\ DOMAIN s = DOMAIN t.tables
        /\ \A i \in DOMAIN s : s[i].device = t.tables[i].device
        /\ s[p].buckets[k] = new
        /\ \A i \in DOMAIN s : \A j \in Slots :
             ~(i = p /\ j = k) => s[i].buckets[j] = t.tables[i].buckets[j]
    <2>1. t \in InodeTables /\ p \in DOMAIN t.tables /\ new \in Buckets
      BY <1>0, <1>6
    <2> HIDE DEF p
    <2> QED BY <2>1, BucketReplaced DEF s
  <1>9. /\ u.tables = s /\ u.tablep = p /\ u.clears = Append(t.clears, at)
        /\ u.live = (t.live \ {b.at}) \cup {at}
        /\ u.allocs = IF fresh THEN t.allocs + 1 ELSE t.allocs
    BY <1>7
  <1>10. u.allocs \in Nat /\ t.allocs <= u.allocs /\ at <= u.allocs
    <2>1. CASE fresh
      <3>1. at = t.allocs + 1
        BY <2>1 DEF at
      <3> QED BY <1>2, <1>9, <2>1, <3>1
    <2>2. CASE ~fresh
      <3>1. at = b.at /\ b.at <= t.allocs
        BY <1>3, <2>2 DEF at, BucketSound
      <3> QED BY <1>2, <1>9, <2>2, <3>1
    <2> QED BY <2>1, <2>2
  <1>11. u \in InodeTables
    BY <1>2, <1>5, <1>7, <1>8, <1>9, <1>10 DEF InodeTables
  <1>12. BucketsSound(u)
    <2> SUFFICES ASSUME NEW i \in DOMAIN t.tables, NEW j \in Slots
                 PROVE  BucketSound(u.tables[i].buckets[j], u.allocs)
      BY <1>8, <1>9 DEF BucketsSound
    <2>1. CASE i = p /\ j = k
      <3>1. new.length # 0 /\ new.length >= EXTEND
        BY <1>1, <1>4, <1>6
      <3>2. Len(new.keys) > 0 /\ new.keys[1] = 0
        <4>1. CASE b.length = 0
          <5>1. new.keys = <<0>>
            BY <1>6, <4>1
          <5>2. Len(<<0>>) > 0 /\ <<0>>[1] = 0
            OBVIOUS
          <5> QED BY <5>1, <5>2
        <4>2. CASE b.length # 0
          BY <1>3, <1>6, <4>2 DEF BucketSound
        <4> QED BY <4>1, <4>2
      <3>3. BucketSound(new, u.allocs)
        BY <1>5, <1>6, <1>10, <3>1, <3>2 DEF BucketSound
      <3> QED BY <1>8, <1>9, <2>1, <3>3
    <2>2. CASE ~(i = p /\ j = k)
      <3>1. BucketSound(t.tables[i].buckets[j], t.allocs)
        BY <1>0 DEF BucketsSound
      <3>2. t.tables[i].buckets[j].at \in Nat
        BY <1>0, BucketsTyped DEF Buckets
      <3>3. u.tables[i].buckets[j] = t.tables[i].buckets[j]
        BY <1>8, <1>9, <2>2
      <3> QED BY <1>2, <1>10, <3>1, <3>2, <3>3 DEF BucketSound
    <2> QED BY <2>1, <2>2
  <1>13. OnePerDevice(u)
    BY <1>0, <1>8, <1>9 DEF OnePerDevice
  <1>14. Grown(t) => Grown(u)
    <2> SUFFICES ASSUME NEW i \in DOMAIN t.tables, NEW j \in Slots,
                        t.tables[i].buckets[j].length > EXTEND
                 PROVE  u.tables[i].buckets[j].length > EXTEND
      BY <1>8, <1>9 DEF Grown, Slots
    <2>1. CASE i = p /\ j = k
      <3>1. b.length > EXTEND
        BY <2>1 DEF b
      <3>2. new.length > EXTEND
        BY <1>1, <1>4, <1>6, <3>1
      <3> QED BY <1>8, <1>9, <2>1, <3>2
    <2>2. CASE ~(i = p /\ j = k)
      BY <1>8, <1>9, <2>2
    <2> QED BY <2>1, <2>2
  <1>15. b.length # 0 => Grown(u)
    <2>1. ASSUME b.length # 0
          PROVE  u.tables[p].buckets[k].length > EXTEND
      BY <1>1, <1>4, <1>6, <1>8, <1>9, <2>1
    <2> QED BY <1>8, <1>9, <2>1 DEF Grown, Slots
  <1>16. /\ DOMAIN u.clears = 1 .. Len(t.clears) + 1
         /\ DOMAIN t.clears = 1 .. Len(t.clears) /\ Len(t.clears) \in Nat
         /\ \A i \in DOMAIN t.clears : u.clears[i] = t.clears[i]
         /\ u.clears[Len(t.clears) + 1] = at
    BY <1>2, <1>5, <1>9, SMTT(30)
  <1>17. Accounted(u)
    <2>1. \A i \in DOMAIN u.clears : u.clears[i] \in 1 .. u.allocs
      <3>1. \A i \in DOMAIN t.clears : t.clears[i] \in 1 .. t.allocs
        BY <1>0 DEF Accounted
      <3>2. ASSUME NEW i \in DOMAIN t.clears
            PROVE  u.clears[i] \in 1 .. u.allocs
        <4>1. u.clears[i] = t.clears[i] /\ t.clears[i] \in 1 .. t.allocs
          BY <1>16, <3>1
        <4> QED BY <1>2, <1>10, <4>1
      <3>3. at \in 1 .. u.allocs
        BY <1>5, <1>10
      <3> QED BY <1>16, <3>2, <3>3
    <2>2. u.live \subseteq Range(u.clears)
      BY <1>0, <1>9, <1>16 DEF Accounted, Range
    <2>3. ASSUME FreesWell(t), b.length = 0 PROVE FreesWell(u)
      <3>1. at = t.allocs + 1 /\ b.at = 0
        BY <1>3, <2>3 DEF at, fresh, BucketSound
      <3>2. \A i \in DOMAIN t.clears : t.clears[i] # at /\ t.clears[i] # 0
        BY <1>0, <1>2, <3>1 DEF Accounted
      <3>3. IsInjective(u.clears)
        BY <1>16, <2>3, <3>2 DEF FreesWell, IsInjective
      <3>4. Range(u.clears) \subseteq u.live
        BY <1>9, <1>16, <2>3, <3>1, <3>2 DEF FreesWell, Range
      <3> QED BY <3>3, <3>4 DEF FreesWell
    <2> QED BY <1>0, <1>14, <1>15, <2>1, <2>2, <2>3 DEF Accounted
  <1>18. ASSUME NEW d, NEW n \in Nat
         PROVE  Has(u, d, n) <=> Has(t, d, n)
    <2>1. n % BUCKETS \in Slots
      BY <1>1 DEF Slots
    <2>2. Seen(new, n) <=> Seen(b, n)
      <3>1. CASE b.length = 0
        BY <1>1, <1>4, <1>6, <3>1, SMTT(30) DEF Seen, Filled
      <3>2. CASE b.length # 0
        BY <1>1, <1>4, <1>6, <3>2, SMTT(30) DEF Seen, Filled
      <3> QED BY <3>1, <3>2
    <2>3. ASSUME NEW i \in DOMAIN t.tables
          PROVE  Seen(u.tables[i].buckets[n % BUCKETS], n)
                   <=> Seen(t.tables[i].buckets[n % BUCKETS], n)
      BY <1>8, <1>9, <2>1, <2>2 DEF b
    <2> QED BY <1>8, <1>9, <2>3 DEF Has
  <1>19. u.tables[u.tablep].buckets[k].length # 0
    BY <1>1, <1>4, <1>6, <1>8, <1>9
  <1>20. KeyNotes(u) = KeyNotes(t) + 1 /\ DeviceSet(u) = DeviceSet(t)
    <2>1. Len(u.clears) = Len(t.clears) + 1 /\ Len(u.tables) = Len(t.tables)
      BY <1>2, <1>5, <1>8, <1>9
    <2>2. Len(t.clears) \in Nat /\ Len(t.tables) \in Nat
      BY <1>2
    <2>3. KeyNotes(u) = KeyNotes(t) + 1
      BY <2>1, <2>2 DEF KeyNotes
    <2>4. /\ DOMAIN u.tables = DOMAIN t.tables
          /\ \A i \in DOMAIN t.tables : u.tables[i].device = t.tables[i].device
      BY <1>8, <1>9
    <2>5. DeviceSet(u) = DeviceSet(t)
      BY <2>4 DEF DeviceSet
    <2> QED BY <2>3, <2>5
  <1> QED BY <1>8, <1>9, <1>11, <1>12, <1>13, <1>14, <1>17, <1>18, <1>19, <1>20
          DEF TableSound, u

\* hash.c:130-131: the key goes behind the others of its bucket, and is found from then on
\* unless it is 0.
LEMMA PushKeySound ==
  ASSUME NEW t, TableSound(t), t.tablep \in DOMAIN t.tables,
         NEW ino \in Nat,
         t.tables[t.tablep].buckets[ino % BUCKETS].length # 0
  PROVE  LET u == PushKey(t, ino % BUCKETS, ino) IN
         /\ TableSound(u)
         /\ Grown(t) => Grown(u)
         /\ \A d, n : n \in Nat =>
              (Has(u, d, n) <=> \/ Has(t, d, n)
                                \/ d = t.tables[t.tablep].device /\ n = ino /\ n # 0)
         /\ KeyNotes(u) = KeyNotes(t) /\ DeviceSet(u) = DeviceSet(t)
  <1> DEFINE p == t.tablep
             k == ino % BUCKETS
             b == t.tables[p].buckets[k]
             new == [b EXCEPT !.keys = Append(b.keys, ino)]
             s == [t.tables EXCEPT ![p].buckets[k] = new]
             u == PushKey(t, k, ino)
  <1>0. t \in InodeTables /\ BucketsSound(t) /\ OnePerDevice(t) /\ Accounted(t)
    BY DEF TableSound
  <1>1. BUCKETS \in Nat \ {0} /\ EXTEND \in Nat \ {0} /\ k \in Slots
    BY TableAssumption DEF Slots
  <1>2. t.tables \in Seq(DeviceTables) /\ t.tablep \in Nat /\ p \in DOMAIN t.tables
    BY <1>0 DEF InodeTables
  <1> HIDE DEF k
  <1>3. b \in Buckets /\ BucketSound(b, t.allocs) /\ b.length # 0
    BY <1>0, <1>1, <1>2, BucketsTyped DEF BucketsSound, k
  <1> HIDE DEF b
  <1>4. b.at \in Nat /\ b.length \in Nat /\ b.keys \in Seq(Nat) /\ Len(b.keys) > 0
    BY <1>3 DEF Buckets, BucketSound
  <1>5. /\ new \in Buckets /\ new.length = b.length /\ new.at = b.at
        /\ new.keys = Append(b.keys, ino)
    <2>1. Append(b.keys, ino) \in Seq(Nat)
      BY <1>4
    <2> QED BY <1>3, <2>1 DEF Buckets
  <1>6. u = [t EXCEPT !.tables = s]
    BY <1>0 DEF PushKey, InodeTables, b
  <1> HIDE DEF new, s, u
  <1>7. /\ s \in Seq(DeviceTables) /\ Len(s) = Len(t.tables)
        /\ DOMAIN s = DOMAIN t.tables
        /\ \A i \in DOMAIN s : s[i].device = t.tables[i].device
        /\ s[p].buckets[k] = new
        /\ \A i \in DOMAIN s : \A j \in Slots :
             ~(i = p /\ j = k) => s[i].buckets[j] = t.tables[i].buckets[j]
    <2>1. t \in InodeTables /\ k \in Slots /\ p \in DOMAIN t.tables /\ new \in Buckets
      BY <1>0, <1>1, <1>2, <1>5
    <2> HIDE DEF p
    <2> QED BY <2>1, BucketReplaced, SMTT(30) DEF s
  <1>8. /\ u \in InodeTables /\ u.tables = s /\ u.tablep = p
        /\ u.clears = t.clears /\ u.live = t.live /\ u.allocs = t.allocs
    BY <1>0, <1>6, <1>7 DEF InodeTables
  <1>9. BucketsSound(u)
    <2>1. BucketSound(new, t.allocs)
      <3>1. Len(new.keys) > 0 /\ new.keys[1] = b.keys[1]
        BY <1>4, <1>5
      <3> QED BY <1>3, <1>5, <3>1 DEF BucketSound
    <2> QED BY <1>0, <1>7, <1>8, <2>1 DEF BucketsSound
  <1>10. OnePerDevice(u)
    BY <1>0, <1>7, <1>8 DEF OnePerDevice
  <1>11. \A i \in DOMAIN t.tables : \A j \in Slots :
           u.tables[i].buckets[j].length = t.tables[i].buckets[j].length
    <2> SUFFICES ASSUME NEW i \in DOMAIN t.tables, NEW j \in Slots
                 PROVE  u.tables[i].buckets[j].length = t.tables[i].buckets[j].length
      OBVIOUS
    <2>1. CASE i = p /\ j = k
      BY <1>5, <1>7, <1>8, <2>1 DEF b
    <2>2. CASE ~(i = p /\ j = k)
      BY <1>7, <1>8, <2>2
    <2> QED BY <2>1, <2>2
  <1>12. Grown(u) <=> Grown(t)
    BY <1>7, <1>8, <1>11, SMTT(30) DEF Grown, Slots
  <1>13. Accounted(u)
    BY <1>0, <1>8, <1>12 DEF Accounted, FreesWell
  <1>14. ASSUME NEW n \in Nat
         PROVE  Seen(new, n) <=> Seen(b, n) \/ (n = ino /\ n # 0)
    <2>1. /\ Filled(b) = Len(b.keys) - 1 /\ Filled(new) = Len(b.keys)
          /\ Len(b.keys) \in Nat
      BY <1>3, <1>4, <1>5 DEF Filled
    <2>2. /\ \A i \in 1 .. Len(b.keys) - 1 : new.keys[i + 1] = b.keys[i + 1]
          /\ new.keys[Len(b.keys) + 1] = ino
      BY <1>4, <1>5
    <2>3. b.keys[1] = 0 /\ new.keys[1] = 0
      BY <1>3, <1>4, <1>5 DEF BucketSound
    <2>4. ASSUME Seen(new, n) PROVE Seen(b, n) \/ (n = ino /\ n # 0)
      <3>1. PICK i \in 1 .. Len(b.keys) : new.keys[i + 1] = n /\ new.keys[1] # n
        BY <2>1, <2>4 DEF Seen
      <3>2. CASE i = Len(b.keys)
        BY <2>2, <2>3, <3>1, <3>2
      <3>3. CASE i \in 1 .. Len(b.keys) - 1
        BY <2>1, <2>2, <2>3, <3>1, <3>3 DEF Seen
      <3> QED BY <2>1, <3>2, <3>3
    <2>5. ASSUME Seen(b, n) PROVE Seen(new, n)
      <3>1. PICK i \in 1 .. Len(b.keys) - 1 : b.keys[i + 1] = n /\ b.keys[1] # n
        BY <2>1, <2>5 DEF Seen
      <3>2. i \in 1 .. Len(b.keys) /\ new.keys[i + 1] = n
        BY <2>1, <2>2, <3>1
      <3> QED BY <2>1, <2>3, <3>1, <3>2 DEF Seen
    <2>6. ASSUME n = ino, n # 0 PROVE Seen(new, n)
      <3>1. Len(b.keys) \in 1 .. Len(b.keys)
        BY <1>4, <2>1
      <3> QED BY <2>1, <2>2, <2>3, <2>6, <3>1 DEF Seen
    <2> QED BY <2>4, <2>5, <2>6
  <1>15. ASSUME NEW d, NEW n \in Nat
         PROVE  Has(u, d, n) <=> \/ Has(t, d, n)
                                 \/ d = t.tables[t.tablep].device /\ n = ino /\ n # 0
    <2>1. n % BUCKETS \in Slots
      BY <1>1 DEF Slots
    <2>2. ASSUME NEW i \in DOMAIN t.tables
          PROVE  Seen(u.tables[i].buckets[n % BUCKETS], n)
                   <=> \/ Seen(t.tables[i].buckets[n % BUCKETS], n)
                       \/ i = p /\ n = ino /\ n # 0
      <3>1. CASE i = p /\ n % BUCKETS = k
        BY <1>7, <1>8, <1>14, <3>1 DEF b
      <3>2. CASE ~(i = p /\ n % BUCKETS = k)
        BY <1>7, <1>8, <2>1, <3>2 DEF k
      <3> QED BY <3>1, <3>2
    <2>3. DOMAIN u.tables = DOMAIN t.tables
            /\ \A i \in DOMAIN t.tables : u.tables[i].device = t.tables[i].device
      BY <1>7, <1>8
    <2> QED BY <1>2, <2>2, <2>3 DEF Has
  <1>16. KeyNotes(u) = KeyNotes(t) /\ DeviceSet(u) = DeviceSet(t)
    <2>1. /\ DOMAIN u.tables = DOMAIN t.tables
          /\ \A i \in DOMAIN t.tables : u.tables[i].device = t.tables[i].device
      BY <1>7, <1>8
    <2>2. DeviceSet(u) = DeviceSet(t)
      BY <2>1 DEF DeviceSet
    <2>3. KeyNotes(u) = KeyNotes(t)
      BY <1>7, <1>8 DEF KeyNotes
    <2> QED BY <2>2, <2>3
  <1> QED BY <1>8, <1>9, <1>10, <1>12, <1>13, <1>15, <1>16 DEF TableSound, u, k

-----------------------------------------------------------------------------
\* h_enter answers whether it has been asked for this inode of this device before, and
\* remembers that it has, unless the inode is 0, which is never found; nothing else changes
\* what it knows.  Nothing allocated is forgotten, wherever realloc puts the keys, and an
\* address of keys is noted only with a new inode (hash.c:48-132).
THEOREM EnterRemembers ==
  ASSUME NEW t, TableSound(t), NEW dev \in Devices, NEW ino \in Nat, NEW moves \in BOOLEAN
  PROVE  LET r == h_enter(t, dev, ino, moves) IN
         /\ TableSound(r.table)
         /\ Grown(t) => Grown(r.table)
         /\ r.answer = IF Has(t, dev, ino) THEN "OLD" ELSE "NEW"
         /\ \A d, n : n \in Nat =>
              (Has(r.table, d, n) <=> Has(t, d, n) \/ (d = dev /\ n = ino /\ n # 0))
         /\ KeyNotes(r.table) <= KeyNotes(t) + (IF Has(t, dev, ino) THEN 0 ELSE 1)
         /\ DeviceSet(r.table) \subseteq DeviceSet(t) \cup {dev}
  <1> DEFINE f == FindTable(t, dev)
             k == ino % BUCKETS
             b == f.tables[f.tablep].buckets[k]
             e == IF Filled(b) = b.length THEN Extend(f, k, moves) ELSE f
             r == h_enter(t, dev, ino, moves)
  <1>1. /\ TableSound(f) /\ f.tablep \in DOMAIN f.tables
        /\ f.tables[f.tablep].device = dev
        /\ Grown(t) => Grown(f)
        /\ \A d, n : n \in Nat => (Has(f, d, n) <=> Has(t, d, n))
        /\ KeyNotes(f) = KeyNotes(t) /\ DeviceSet(f) \subseteq DeviceSet(t) \cup {dev}
    BY FindTableSound
  <1>0. KeyNotes(t) \in Int
    BY DEF TableSound, InodeTables, KeyNotes
  <1>2. r = IF Seen(b, ino) THEN [table |-> f, answer |-> "OLD"]
            ELSE [table |-> PushKey(e, k, ino), answer |-> "NEW"]
    BY DEF h_enter, EnterKey
  <1>3. BUCKETS \in Nat \ {0} /\ EXTEND \in Nat \ {0} /\ k \in Slots
    BY TableAssumption DEF Slots
  <1> HIDE DEF f, k, r
  <1>4. Seen(b, ino) <=> Has(t, dev, ino)
    <2>1. \A i \in DOMAIN f.tables : f.tables[i].device = dev <=> i = f.tablep
      BY <1>1 DEF TableSound, OnePerDevice
    <2> QED BY <1>1, <2>1, SMTT(30) DEF Has, k
  <1> HIDE DEF b, e
  <1>5. CASE Seen(b, ino)
    <2>1. r.table = f /\ r.answer = "OLD"
      BY <1>2, <1>5
    <2>2. Has(t, dev, ino)
      BY <1>4, <1>5
    <2>3. /\ TableSound(r.table) /\ (Grown(t) => Grown(r.table))
          /\ r.answer = IF Has(t, dev, ino) THEN "OLD" ELSE "NEW"
          /\ KeyNotes(r.table) <= KeyNotes(t) + (IF Has(t, dev, ino) THEN 0 ELSE 1)
          /\ DeviceSet(r.table) \subseteq DeviceSet(t) \cup {dev}
      BY <1>0, <1>1, <2>1, <2>2
    <2>4. \A d, n : n \in Nat =>
            (Has(r.table, d, n) <=> Has(t, d, n) \/ (d = dev /\ n = ino /\ n # 0))
      BY <1>1, <2>1, <2>2
    <2> QED BY <2>3, <2>4 DEF r
  <1>6. CASE ~Seen(b, ino)
    <2>1. r.table = PushKey(e, k, ino) /\ r.answer = "NEW"
      BY <1>2, <1>6
    <2>2. /\ TableSound(e) /\ e.tablep \in DOMAIN e.tables
          /\ e.tables[e.tablep].device = dev
          /\ e.tables[e.tablep].buckets[k].length # 0
          /\ Grown(f) => Grown(e)
          /\ \A d, n : n \in Nat => (Has(e, d, n) <=> Has(f, d, n))
          /\ KeyNotes(e) <= KeyNotes(f) + 1 /\ DeviceSet(e) = DeviceSet(f)
      <3>1. CASE Filled(b) = b.length
        BY <1>0, <1>1, <1>3, <3>1, ExtendSound DEF e
      <3>2. CASE Filled(b) # b.length
        <4>1. b.length # 0
          BY <3>2 DEF Filled
        <4> QED BY <1>0, <1>1, <3>2, <4>1 DEF e, b
      <3> QED BY <3>1, <3>2
    <2>3. /\ TableSound(PushKey(e, k, ino))
          /\ Grown(e) => Grown(PushKey(e, k, ino))
          /\ \A d, n : n \in Nat =>
               (Has(PushKey(e, k, ino), d, n)
                  <=> Has(e, d, n) \/ (d = dev /\ n = ino /\ n # 0))
          /\ KeyNotes(PushKey(e, k, ino)) = KeyNotes(e)
          /\ DeviceSet(PushKey(e, k, ino)) = DeviceSet(e)
      BY <2>2, PushKeySound DEF k
    <2>4. r.answer = IF Has(t, dev, ino) THEN "OLD" ELSE "NEW"
      BY <1>4, <1>6, <2>1
    <2>5. TableSound(r.table) /\ (Grown(t) => Grown(r.table))
      <3>1. (Grown(t) => Grown(f)) /\ (Grown(f) => Grown(e))
        BY <1>1, <2>2
      <3>2. (Grown(e) => Grown(r.table)) /\ TableSound(r.table)
        BY <2>1, <2>3
      <3> QED BY <3>1, <3>2
    <2>6. ASSUME NEW d, NEW n \in Nat
          PROVE  Has(r.table, d, n) <=> Has(t, d, n) \/ (d = dev /\ n = ino /\ n # 0)
      BY <1>1, <2>1, <2>2, <2>3
    <2>7. /\ KeyNotes(r.table) <= KeyNotes(t) + (IF Has(t, dev, ino) THEN 0 ELSE 1)
          /\ DeviceSet(r.table) \subseteq DeviceSet(t) \cup {dev}
      BY <1>1, <1>4, <1>6, <2>1, <2>2, <2>3
    <2> QED BY <2>4, <2>5, <2>6, <2>7 DEF r
  <1> QED BY <1>5, <1>6

-----------------------------------------------------------------------------
(* The walk.                                                               *)

Frames(N) == [names : N, pos : Nat, home : Dirs,
              phase : IF Counting THEN {"files", "dirs"} ELSE {"dirs"}]

\* What a name can lead to.
Present == Dirs \cup Linked

\* down stands in a directory, comes back to one, and counts nothing that is not there.
Here ==
  /\ tree \in Trees /\ cwd \in Dirs
  /\ \E N : stack \in Seq(Frames(N))
  /\ Counting /\ stack # <<>> => stb \in Present

AbortGrown == status = "abort" => Grown(table)

\* The inodes a table knows are inodes of the tree, and each has cost one note at most.
Known(t) == {q \in Devices \X Nat : Has(t, q[1], q[2])}
NotesAccounted(t) ==
  /\ Known(t) \subseteq LinkedInodes /\ DeviceSet(t) \subseteq LinkedDevices
  /\ KeyNotes(t) <= Cardinality(Known(t))

Bounded ==
  /\ status # "overrun" => ~Overrun(table)
  /\ FewInodes => status # "overrun"

WalkInv ==
  Here /\ TableSound(table) /\ AbortGrown /\ NotesAccounted(table) /\ Bounded

\* The entries of a directory have their types.
LEMMA EntryTyped ==
  ASSUME tree \in Trees, NEW d \in Dirs, NEW i \in DOMAIN tree[d]
  PROVE  i \in Nat \ {0} /\ tree[d][i].name \in Nat /\ tree[d][i].node \in Nodes \cup {Gone}
  <1>1. tree[d] \in Seq([name : Nat, node : Nodes \cup {Gone}])
    BY VtreeAssumption
  <1>2. i \in 1 .. Len(tree[d]) /\ Len(tree[d]) \in Nat
    BY <1>1
  <1>3. tree[d][i] \in [name : Nat, node : Nodes \cup {Gone}]
    BY <1>1, <1>2, ElementOfSeq
  <1> QED BY <1>2, <1>3

\* A name leads to something of the tree, or nowhere.
LEMMA LookupTyped ==
  ASSUME tree \in Trees, NEW d \in Dirs, NEW name
  PROVE  Lookup(d, name) \in Present \cup {Gone}
  <1> DEFINE found == {e \in Range(tree[d]) : e.name = name}
  <1>1. ASSUME NEW e \in found PROVE e.node \in Present \cup {Gone}
    <2>1. e.node \in Dirs \cup Files \cup {Gone}
      BY EntryTyped DEF Range, Nodes
    <2>2. e \in UNION {Range(tree[x]) : x \in Dirs}
      OBVIOUS
    <2>3. e.node \in Files => e.node \in Linked
      BY <2>2 DEF Linked
    <2> QED BY <2>1, <2>3 DEF Present
  <1>2. CASE found = {}
    BY <1>2 DEF Lookup
  <1>3. CASE found # {}
    <2>1. (CHOOSE e \in found : TRUE) \in found
      BY <1>3
    <2> QED BY <1>1, <1>3, <2>1 DEF Lookup
  <1> QED BY <1>2, <1>3

\* A stack that is not empty has a last frame, and others below it.
LEMMA TopFrame ==
  ASSUME NEW N, stack \in Seq(Frames(N)), stack # <<>>
  PROVE  /\ cur_depth \in DOMAIN stack
         /\ Frame \in Frames(N)
         /\ Front(stack) \in Seq(Frames(N))
  <1>1. Len(stack) \in Nat /\ Len(stack) # 0 /\ DOMAIN stack = 1 .. Len(stack)
    BY EmptySeq
  <1>2. cur_depth \in DOMAIN stack
    BY <1>1 DEF cur_depth
  <1>3. Frame \in Frames(N)
    BY <1>2 DEF Frame
  <1>4. Front(stack) \in Seq(Frames(N))
    BY <1>1, SubSeqProperties DEF Front
  <1> QED BY <1>2, <1>3, <1>4

\* The last frame gives way to another, as when down goes on to the next entry.
LEMMA FrameReplaced ==
  ASSUME NEW N, stack \in Seq(Frames(N)), stack # <<>>, NEW f \in Frames(N)
  PROVE  /\ [stack EXCEPT ![cur_depth] = f] \in Seq(Frames(N))
         /\ [stack EXCEPT ![cur_depth] = f] # <<>>
  <1>1. cur_depth \in 1 .. Len(stack)
    BY TopFrame
  <1>2. /\ [stack EXCEPT ![cur_depth] = f] \in Seq(Frames(N))
        /\ Len([stack EXCEPT ![cur_depth] = f]) = Len(stack)
    BY <1>1, ExceptSeq
  <1>3. Len(stack) # 0
    BY EmptySeq
  <1> QED BY <1>2, <1>3, EmptySeq

\* The stack stays typed when the walk reads on in a directory.
LEMMA AdvancedTyped ==
  ASSUME NEW N, stack \in Seq(Frames(N)), stack # <<>>
  PROVE  Advanced \in Seq(Frames(N)) /\ Advanced # <<>>
  <1> DEFINE f == [Frame EXCEPT !.pos = @ + 1]
  <1>1. Frame \in Frames(N)
    BY TopFrame
  <1>2. f \in Frames(N)
    BY <1>1 DEF Frames
  <1>3. Advanced = [stack EXCEPT ![cur_depth] = f]
    BY DEF Advanced, Frame
  <1> QED BY <1>2, <1>3, FrameReplaced

\* Going into a directory, or not (vtree.c:259-371, 488-499): `below` is the stack of the
\* caller, who calls for the first time or stands in a directory.
LEMMA WalkKeepsHere ==
  ASSUME Here, NEW N, NEW below \in Seq(Frames(N)), NEW name, NEW here \in Dirs,
         NEW columns, NEW count,
         Counting /\ below # <<>> => stb \in Present,
         Walk(name, here, below, columns, count),
         UNCHANGED <<tree, opt>>
  PROVE  Here'
  <1> DEFINE found == Stat(here, name, stb)
             d == Lookup(here, name)
  <1>1. Counting' = Counting /\ Present' = Present
    BY DEF Counting, Present, Linked
  <1>2. \A M : Frames(M)' = Frames(M)
    BY <1>1 DEF Frames
  <1>3. d \in Present \cup {Gone}
    BY LookupTyped DEF Here
  <1>4. Counting /\ below # <<>> => found \in Present
    BY <1>3 DEF Stat
  <1> HIDE DEF found, d
  <1>5. CASE /\ stb' = found /\ cwd' = here /\ stack' = below
    BY <1>1, <1>2, <1>4, <1>5 DEF Here
  <1>6. CASE Open(d, here, below, columns, found) /\ found \in Dirs /\ d \in Readable
    <2> DEFINE there == IF d \in Searchable THEN d ELSE here
               list == Listing(d, there, found)
               after == IF Counting THEN found ELSE StbAfter(d, there, found, Len(tree[d]))
               f == [names |-> Sorted(d, list), pos |-> 1, home |-> here,
                     phase |-> IF Counting THEN "files" ELSE "dirs"]
    <2>1. there \in Dirs
      BY <1>6, VtreeAssumption
    <2>2. cwd' = there /\ stb' = after /\ stack' = Append(below, f)
      BY <1>6 DEF Open
    <2>3. Counting => after = found
      OBVIOUS
    <2> DEFINE M == N \cup {Sorted(d, list)}
    <2>4. f \in Frames(M)
      BY DEF Frames
    <2> HIDE DEF f, M, list, there, after
    <2>5. below \in Seq(Frames(M))
      <3>1. Frames(N) \subseteq Frames(M)
        BY DEF Frames, M
      <3> QED BY <3>1, SeqMonotonic
    <2>6. Append(below, f) \in Seq(Frames(M))
      BY <2>4, <2>5, AppendProperties
    <2>7. Counting => after \in Present
      BY <1>6, <2>3 DEF Present
    <2> QED BY <1>1, <1>2, <2>1, <2>2, <2>6, <2>7 DEF Here
  <1>7. QED BY <1>5, <1>6 DEF Walk, found, d

-----------------------------------------------------------------------------
\* The devices and inodes of a tree are finitely many, and no more addresses are noted.
LEMMA NotesBounded ==
  ASSUME NEW t, TableSound(t), NotesAccounted(t)
  PROVE  /\ IsFiniteSet(Known(t))
         /\ Cardinality(LinkedDevices) \in Nat /\ Cardinality(LinkedInodes) \in Nat
         /\ Len(t.clears) <= Cardinality(LinkedDevices) + Cardinality(LinkedInodes)
  <1> DEFINE inode == [f \in Linked |-> <<Inode[f].dev, Inode[f].ino>>]
             device == [f \in Linked |-> Inode[f].dev]
             I == 1 .. Len(t.tables)
             of == [i \in I |-> t.tables[i].device]
  <1>1. IsFiniteSet(Linked)
    <2>1. Linked \in SUBSET Files
      BY DEF Linked
    <2> QED BY <2>1, FS_Subset, VtreeAssumption
  <1>2. IsFiniteSet(LinkedInodes)
    <2>1. inode \in Surjection(Linked, LinkedInodes)
      BY DEF Surjection, LinkedInodes
    <2> QED BY <1>1, <2>1, FS_Surjection
  <1>3. IsFiniteSet(LinkedDevices)
    <2>1. device \in Surjection(Linked, LinkedDevices)
      BY DEF Surjection, LinkedDevices
    <2> QED BY <1>1, <2>1, FS_Surjection
  <1>4. IsFiniteSet(Known(t)) /\ Cardinality(Known(t)) <= Cardinality(LinkedInodes)
    BY <1>2, FS_Subset DEF NotesAccounted
  <1>5. /\ t.tables \in Seq(DeviceTables) /\ Len(t.tables) \in Nat /\ Len(t.clears) \in Nat
        /\ DOMAIN t.tables = 1 .. Len(t.tables)
    BY DEF TableSound, InodeTables
  <1>6. Len(t.tables) <= Cardinality(LinkedDevices)
    <2>1. of \in [I -> LinkedDevices]
      BY <1>5 DEF NotesAccounted, DeviceSet
    <2>2. \A i, j \in I : of[i] = of[j] => i = j
      BY <1>5 DEF TableSound, OnePerDevice
    <2> HIDE DEF of
    <2>3. of \in Injection(I, LinkedDevices)
      BY <2>1, <2>2 DEF Injection, IsInjective
    <2>4. Cardinality(I) = Len(t.tables)
      BY <1>5, FS_Interval
    <2>5. Cardinality(I) <= Cardinality(LinkedDevices)
      BY <1>3, <2>3, FS_Injection
    <2> QED BY <2>4, <2>5
  <1>7. /\ Cardinality(LinkedDevices) \in Nat /\ Cardinality(LinkedInodes) \in Nat
        /\ Cardinality(Known(t)) \in Nat
    BY <1>2, <1>3, <1>4, FS_CardinalityType
  <1>8. Len(t.clears) - Len(t.tables) <= Cardinality(Known(t))
    BY DEF NotesAccounted, KeyNotes
  <1> DEFINE c == Len(t.clears)
             n == Len(t.tables)
             D == Cardinality(LinkedDevices)
             K == Cardinality(Known(t))
             L == Cardinality(LinkedInodes)
  <1>9. /\ c \in Nat /\ n \in Nat /\ D \in Nat /\ K \in Nat /\ L \in Nat
        /\ c - n <= K /\ n <= D /\ K <= L
    BY <1>4, <1>5, <1>6, <1>7, <1>8
  <1> HIDE DEF c, n, D, K, L
  <1>10. c <= D + L
    BY ONLY <1>9
  <1> QED BY <1>4, <1>7, <1>10 DEF c, D, L

\* A question about a file of the tree costs at most one note, if the file is new.
LEMMA EnterAccounted ==
  ASSUME NEW t, TableSound(t), NotesAccounted(t), NEW f \in Linked, NEW moves \in BOOLEAN
  PROVE  NotesAccounted(h_enter(t, Inode[f].dev, Inode[f].ino, moves).table)
  <1> DEFINE dev == Inode[f].dev
             ino == Inode[f].ino
             u == h_enter(t, dev, ino, moves).table
  <1>1. dev \in Devices /\ ino \in Nat /\ ino # 0
    BY VtreeAssumption DEF Devices, Linked, Nodes
  <1>2. dev \in LinkedDevices /\ <<dev, ino>> \in LinkedInodes
    BY DEF LinkedDevices, LinkedInodes
  <1> HIDE DEF dev, ino
  <1>3. /\ TableSound(u)
        /\ \A d, n : n \in Nat =>
             (Has(u, d, n) <=> Has(t, d, n) \/ (d = dev /\ n = ino /\ n # 0))
        /\ KeyNotes(u) <= KeyNotes(t) + (IF Has(t, dev, ino) THEN 0 ELSE 1)
        /\ DeviceSet(u) \subseteq DeviceSet(t) \cup {dev}
    BY <1>1, EnterRemembers
  <1> HIDE DEF u
  <1>4. Known(u) = Known(t) \cup {<<dev, ino>>}
    <2>1. ASSUME NEW q \in Devices \X Nat
          PROVE  Has(u, q[1], q[2]) <=> Has(t, q[1], q[2]) \/ q = <<dev, ino>>
      BY <1>1, <1>3
    <2> QED BY <1>1, <2>1 DEF Known
  <1>5. <<dev, ino>> \in Known(t) <=> Has(t, dev, ino)
    BY <1>1 DEF Known
  <1>6. /\ IsFiniteSet(Known(t)) /\ Cardinality(Known(t)) \in Nat
        /\ Cardinality(Known(u)) = Cardinality(Known(t)) + (IF Has(t, dev, ino) THEN 0 ELSE 1)
    <2> DEFINE K == Known(t)
    <2>1. IsFiniteSet(K)
      BY NotesBounded
    <2> HIDE DEF K
    <2>2. /\ Cardinality(K) \in Nat
          /\ Cardinality(K \cup {<<dev, ino>>})
               = IF <<dev, ino>> \in K THEN Cardinality(K) ELSE Cardinality(K) + 1
      BY <2>1, FS_AddElement, FS_CardinalityType
    <2>3. Known(u) = K \cup {<<dev, ino>>} /\ (<<dev, ino>> \in K <=> Has(t, dev, ino))
      BY <1>4, <1>5 DEF K
    <2>4. Cardinality(Known(u)) = Cardinality(K) + (IF Has(t, dev, ino) THEN 0 ELSE 1)
      BY <2>2, <2>3
    <2> QED BY <2>1, <2>2, <2>4 DEF K
  <1>7. KeyNotes(t) \in Int /\ KeyNotes(u) \in Int
    BY <1>3 DEF KeyNotes, TableSound, InodeTables
  <1>8. KeyNotes(u) <= Cardinality(Known(u))
    BY <1>3, <1>6, <1>7 DEF NotesAccounted
  <1>9. Known(u) \subseteq LinkedInodes /\ DeviceSet(u) \subseteq LinkedDevices
    BY <1>2, <1>3, <1>4 DEF NotesAccounted
  <1> QED BY <1>8, <1>9 DEF NotesAccounted, u, dev, ino

\* vtree starts in the top directory, with an empty table.
LEMMA WalkStarts == Init => WalkInv
  <1> SUFFICES ASSUME Init PROVE WalkInv
    OBVIOUS
  <1>1. /\ tree \in Trees /\ cwd = TopDir /\ stack = <<>> /\ table = EmptyTable
        /\ status = "run"
    BY DEF Init
  <1>2. Here
    <2>1. <<>> \in Seq(Frames({}))
      OBVIOUS
    <2> QED BY <1>1, <2>1, VtreeAssumption DEF Here
  <1>3. NotesAccounted(table)
    <2>1. Known(table) = {} /\ DeviceSet(table) = {} /\ KeyNotes(table) = 0
      BY <1>1 DEF EmptyTable, Known, Has, DeviceSet, KeyNotes
    <2> QED BY <2>1, FS_EmptySet DEF NotesAccounted
  <1>4. Bounded
    BY <1>1, TableAssumption DEF Bounded, EmptyTable, Overrun
  <1> QED BY <1>1, <1>2, <1>3, <1>4, EmptySound DEF WalkInv, AbortGrown

\* What is met is looked up in the table; only that changes it.
LEMMA CountFileStep ==
  ASSUME WalkInv, CountFile
  PROVE  /\ WalkInv'
         /\ \A d, n : n \in Nat /\ Has(table, d, n) => Has(table', d, n)
         /\ stb' \in Nodes
         /\ stb' \notin Dirs =>
              /\ Has(table', Inode[stb'].dev, Inode[stb'].ino)
              /\ inodes' = IF Has(table, Inode[stb'].dev, Inode[stb'].ino) /\ ~opt.dup_new
                           THEN inodes ELSE inodes + 1
  <1>0. /\ Here /\ TableSound(table) /\ AbortGrown /\ NotesAccounted(table) /\ Bounded
    BY DEF WalkInv
  <1>1. /\ stack # <<>> /\ Frame.phase = "files" /\ stb' = Stat(cwd, Name, stb)
        /\ GetData(stb') /\ stack' = Advanced /\ status = "run"
        /\ status' = IF Overrun(table') THEN "overrun" ELSE status
        /\ UNCHANGED <<tree, opt, cwd>>
    BY DEF CountFile
  <1>2. PICK N : stack \in Seq(Frames(N))
    BY <1>0 DEF Here
  <1>3. Counting
    <2>1. Frame \in Frames(N)
      BY <1>1, <1>2, TopFrame
    <2> QED BY <1>1, <2>1 DEF Frames
  <1>4. stb' \in Present
    <2>1. stb \in Present
      BY <1>0, <1>1, <1>3 DEF Here
    <2>2. Lookup(cwd, Name) \in Present \cup {Gone}
      BY <1>0, LookupTyped DEF Here
    <2> QED BY <1>1, <2>1, <2>2 DEF Stat
  <1>5. Here'
    <2>1. Counting' = Counting /\ Present' = Present
      BY <1>1 DEF Counting, Present, Linked
    <2>2. Frames(N)' = Frames(N)
      BY <2>1 DEF Frames
    <2>3. stack' \in Seq(Frames(N))
      BY <1>1, <1>2, AdvancedTyped
    <2> QED BY <1>0, <1>1, <1>4, <2>1, <2>2, <2>3 DEF Here
  <1>6. stb' \in Nodes
    BY <1>4 DEF Present, Linked, Nodes
  <1>7. LinkedInodes' = LinkedInodes /\ LinkedDevices' = LinkedDevices
    BY <1>1 DEF LinkedInodes, LinkedDevices, Linked
  <1>8. ASSUME TableSound(table'), NotesAccounted(table') PROVE Bounded'
    <2>1. FewInodes' = FewInodes
      BY <1>7 DEF FewInodes
    <2>2. FewInodes => ~Overrun(table')
      <3>1. /\ Cardinality(LinkedDevices) \in Nat /\ Cardinality(LinkedInodes) \in Nat
            /\ Len(table'.clears) <= Cardinality(LinkedDevices) + Cardinality(LinkedInodes)
        BY <1>8, NotesBounded
      <3>2. CLEARS \in Nat /\ Len(table'.clears) \in Nat
        BY <1>8, TableAssumption DEF TableSound, InodeTables
      <3> QED BY <3>1, <3>2 DEF FewInodes, Overrun
    <2>3. Overrun(table)' = Overrun(table')
      BY DEF Overrun
    <2> QED BY <1>1, <2>1, <2>2, <2>3 DEF Bounded
  <1>9. ASSUME TableSound(table'), NotesAccounted(table'), Grown(table) => Grown(table')
        PROVE  WalkInv'
    <2>1. TableSound(table)'
      BY <1>9 DEF TableSound, BucketsSound, OnePerDevice, Accounted, Grown, FreesWell
    <2>2. NotesAccounted(table)'
      BY <1>7, <1>9 DEF NotesAccounted, Known, Has, DeviceSet, KeyNotes
    <2>3. AbortGrown'
      BY <1>1 DEF AbortGrown
    <2> QED BY <1>5, <1>8, <1>9, <2>1, <2>2, <2>3 DEF WalkInv
  <1> DEFINE dev == Inode[stb'].dev
             ino == Inode[stb'].ino
  <1>10. dev \in Devices /\ ino \in Nat /\ ino # 0
    BY <1>6, VtreeAssumption DEF Devices
  <1>11. CASE stb' \in Dirs
    <2>1. table' = table
      BY <1>1, <1>11 DEF GetData
    <2>2. WalkInv'
      BY <1>0, <1>9, <2>1
    <2> QED BY <1>6, <1>11, <2>1, <2>2
  <1>12. CASE stb' \notin Dirs
    <2>1. PICK moves \in BOOLEAN :
            /\ table' = h_enter(table, dev, ino, moves).table
            /\ inodes' = IF h_enter(table, dev, ino, moves).answer = "OLD" /\ ~opt.dup_new
                         THEN inodes ELSE inodes + 1
      BY <1>1, <1>12 DEF GetData
    <2>2. NotesAccounted(table')
      <3>1. stb' \in Linked
        BY <1>4, <1>12 DEF Present
      <3> QED BY <1>0, <2>1, <3>1, EnterAccounted
    <2> HIDE DEF dev, ino
    <2>3. /\ TableSound(table') /\ (Grown(table) => Grown(table'))
          /\ h_enter(table, dev, ino, moves).answer
               = IF Has(table, dev, ino) THEN "OLD" ELSE "NEW"
          /\ \A d, n : n \in Nat =>
               (Has(table', d, n) <=> Has(table, d, n) \/ (d = dev /\ n = ino /\ n # 0))
      BY <1>0, <1>10, <2>1, EnterRemembers
    <2>4. WalkInv'
      BY <1>9, <2>2, <2>3
    <2>5. inodes' = IF Has(table, dev, ino) /\ ~opt.dup_new THEN inodes ELSE inodes + 1
      BY <2>1, <2>3
    <2>6. Has(table', dev, ino)
      BY <1>10, <2>3
    <2> QED BY <1>6, <2>3, <2>4, <2>5, <2>6 DEF dev, ino
  <1> QED BY <1>11, <1>12

\* The other steps leave the table alone and keep down in the directories of the tree.
LEMMA OtherSteps ==
  ASSUME WalkInv, [Next]_vars, ~CountFile
  PROVE  WalkInv' /\ table' = table
  <1>0. Here /\ TableSound(table) /\ AbortGrown /\ NotesAccounted(table) /\ Bounded
    BY DEF WalkInv
  <1>1. PICK N : stack \in Seq(Frames(N))
    BY <1>0 DEF Here
  <1>2. ASSUME UNCHANGED <<tree, opt>>
        PROVE  Frames(N)' = Frames(N) /\ Counting' = Counting /\ Present' = Present
    BY <1>2 DEF Frames, Counting, Present, Linked
  <1>3. ASSUME Here', UNCHANGED <<tree, table>>, AbortGrown', Bounded'
        PROVE  WalkInv' /\ table' = table
    <2>1. LinkedInodes' = LinkedInodes /\ LinkedDevices' = LinkedDevices
      BY <1>3 DEF LinkedInodes, LinkedDevices, Linked
    <2>2. NotesAccounted(table)'
      BY <1>0, <1>3, <2>1 DEF NotesAccounted, Known, Has, DeviceSet, KeyNotes
    <2> QED BY <1>0, <1>3, <2>2 DEF WalkInv
  <1>12. ASSUME UNCHANGED <<tree, table>> PROVE FewInodes' = FewInodes
    BY <1>12 DEF FewInodes, LinkedInodes, LinkedDevices, Linked
  <1>13. ASSUME Here', UNCHANGED <<tree, table, status>>
         PROVE  WalkInv' /\ table' = table
    <2>1. AbortGrown' /\ Bounded'
      BY <1>0, <1>12, <1>13 DEF AbortGrown, Bounded
    <2> QED BY <1>3, <1>13, <2>1
  <1>4. CASE Argument
    <2>1. <<>> \in Seq(Frames(N))
      OBVIOUS
    <2>2. TopDir \in Dirs
      BY VtreeAssumption
    <2>3. /\ Walk(names[arg], TopDir, <<>>, sub_dirs, 0)
          /\ UNCHANGED <<tree, opt, table, status>>
      BY <1>4 DEF Argument
    <2>4. Here'
      BY <1>0, <2>1, <2>2, <2>3, WalkKeepsHere
    <2> QED BY <1>13, <2>3, <2>4
  <1>5. CASE ArgumentDone
    <2>1. UNCHANGED <<tree, opt, stack, cwd, stb, table, status>>
      BY <1>5 DEF ArgumentDone
    <2>2. Here'
      BY <1>0, <1>1, <1>2, <2>1 DEF Here
    <2> QED BY <1>13, <2>1, <2>2
  <1>6. CASE Exit
    <2>1. /\ UNCHANGED <<tree, opt, stack, cwd, stb, table>> /\ status = "run"
          /\ \/ ReadsBeyond(table) /\ status' = "overrun"
             \/ ~ReadsBeyond(table) /\ status' = "exit"
             \/ ~ReadsBeyond(table) /\ ~FreesWell(table) /\ status' = "abort"
      BY <1>6 DEF Exit
    <2>2. Here'
      BY <1>0, <1>1, <1>2, <2>1 DEF Here
    <2>3. status' = "abort" => Grown(table)
      BY <1>0, <2>1 DEF TableSound, Accounted
    <2>4. FewInodes => ~ReadsBeyond(table)
      <3>1. /\ Cardinality(LinkedDevices) \in Nat /\ Cardinality(LinkedInodes) \in Nat
            /\ Len(table.clears) <= Cardinality(LinkedDevices) + Cardinality(LinkedInodes)
        BY <1>0, NotesBounded
      <3>2. CLEARS \in Nat /\ Len(table.clears) \in Nat
        BY <1>0, TableAssumption DEF TableSound, InodeTables
      <3> QED BY <3>1, <3>2 DEF FewInodes, ReadsBeyond
    <2>5. AbortGrown' /\ Bounded'
      BY <1>0, <1>12, <2>1, <2>3, <2>4 DEF AbortGrown, Bounded
    <2> QED BY <1>3, <2>1, <2>2, <2>5
  <1>7. CASE FilesDone
    <2> DEFINE f == [Frame EXCEPT !.phase = "dirs", !.pos = 1]
    <2>1. /\ UNCHANGED <<tree, opt, cwd, stb, table, status>> /\ stack # <<>>
          /\ stack' = [stack EXCEPT ![cur_depth] = f]
      BY <1>7 DEF FilesDone, Frame
    <2>2. f \in Frames(N)
      <3>1. Frame \in Frames(N)
        BY <1>1, <2>1, TopFrame
      <3> QED BY <3>1 DEF Frames
    <2> HIDE DEF f
    <2>3. stack' \in Seq(Frames(N)) /\ stack' # <<>>
      BY <1>1, <2>1, <2>2, FrameReplaced
    <2>4. Here'
      BY <1>0, <1>2, <2>1, <2>3 DEF Here
    <2> QED BY <1>13, <2>1, <2>4
  <1>8. CASE SkipDot
    <2>1. /\ UNCHANGED <<tree, opt, cwd, stb, table, status>> /\ stack # <<>>
          /\ stack' = Advanced
      BY <1>8 DEF SkipDot
    <2>2. stack' \in Seq(Frames(N)) /\ stack' # <<>>
      BY <1>1, <2>1, AdvancedTyped
    <2>3. Here'
      BY <1>0, <1>2, <2>1, <2>2 DEF Here
    <2> QED BY <1>13, <2>1, <2>3
  <1>9. CASE WalkSub
    <2>1. PICK columns : /\ Walk(Name, cwd, Advanced, columns, inodes) /\ stack # <<>>
                         /\ UNCHANGED <<tree, opt, table, status>>
      BY <1>9 DEF WalkSub
    <2>2. Advanced \in Seq(Frames(N))
      BY <1>1, <2>1, AdvancedTyped
    <2>3. cwd \in Dirs /\ (Counting => stb \in Present)
      BY <1>0, <2>1 DEF Here
    <2>4. Here'
      BY <1>0, <2>1, <2>2, <2>3, WalkKeepsHere
    <2> QED BY <1>13, <2>1, <2>4
  <1>10. CASE Leave
    <2>1. /\ UNCHANGED <<tree, opt, stb, table, status>> /\ stack # <<>>
          /\ stack' = Front(stack) /\ cwd' = Frame.home
      BY <1>10 DEF Leave
    <2>2. Frame.home \in Dirs /\ Front(stack) \in Seq(Frames(N))
      <3>1. Frame \in Frames(N) /\ Front(stack) \in Seq(Frames(N))
        BY <1>1, <2>1, TopFrame
      <3> QED BY <3>1 DEF Frames
    <2>3. Here'
      BY <1>0, <1>2, <2>1, <2>2 DEF Here
    <2> QED BY <1>13, <2>1, <2>3
  <1>11. CASE UNCHANGED vars
    <2>1. UNCHANGED <<tree, opt, stack, cwd, stb, table, status>>
      BY <1>11 DEF vars
    <2>2. Here'
      BY <1>0, <1>1, <1>2, <2>1 DEF Here
    <2> QED BY <1>13, <2>1, <2>2
  <1> QED BY <1>4, <1>5, <1>6, <1>7, <1>8, <1>9, <1>10, <1>11 DEF Next, Step, Ended

\* The invariant holds all along: a sound table, a walk that stays in the tree.
THEOREM WalkInductive == Spec => []WalkInv
  <1>1. Init => WalkInv
    BY WalkStarts
  <1>2. WalkInv /\ [Next]_vars => WalkInv'
    BY CountFileStep, OtherSteps
  <1> QED BY <1>1, <1>2, PTL DEF Spec

\* The clean-up of main (hash.c:30, 66-124, vtree.c:679-680): where the devices and inodes
\* of the tree do not fill hash_clears, nothing is noted or read behind it; where it has
\* not been overrun, all that the table allocated is freed, and only a bucket that grew can
\* make the process die in doing so.
THEOREM CleanUpIsSound == Spec => []ClearsSound
  <1>1. WalkInv => ClearsSound
    BY DEF WalkInv, TableSound, Accounted, AbortGrown, Bounded, ClearsSound
  <1> QED BY <1>1, WalkInductive, PTL

\* vtree.c:500-514 with hash.c:48-132: what get_data counts, it counts once.  A name that
\* is not a directory adds one to `inodes` unless its inode has been met before, and one
\* that has been met is never forgotten; with -d every name counts.  (Of the step that
\* overruns hash_clears nothing is said.)
THEOREM EachInodeOnce ==
  Spec => [][status' # "overrun" =>
               /\ \A d, n : n \in Nat /\ Has(table, d, n) => Has(table', d, n)
               /\ CountFile /\ stb' \notin Dirs =>
                    /\ Has(table', Inode[stb'].dev, Inode[stb'].ino)
                    /\ inodes' = IF Has(table, Inode[stb'].dev, Inode[stb'].ino)
                                     /\ ~opt.dup_new
                                 THEN inodes ELSE inodes + 1]_vars
  <1> DEFINE Counts == status' # "overrun" =>
                         /\ \A d, n : n \in Nat /\ Has(table, d, n) => Has(table', d, n)
                         /\ CountFile /\ stb' \notin Dirs =>
                              /\ Has(table', Inode[stb'].dev, Inode[stb'].ino)
                              /\ inodes' = IF Has(table, Inode[stb'].dev, Inode[stb'].ino)
                                               /\ ~opt.dup_new
                                           THEN inodes ELSE inodes + 1
  <1>1. WalkInv /\ [Next]_vars => [Counts]_vars
    <2> SUFFICES ASSUME WalkInv, [Next]_vars PROVE Counts
      OBVIOUS
    <2>1. CASE CountFile
      BY <2>1, CountFileStep
    <2>2. CASE ~CountFile
      BY <2>2, OtherSteps
    <2> QED BY <2>1, <2>2
  <1> HIDE DEF Counts
  <1>2. Spec => [][Counts]_vars
    BY <1>1, WalkInductive, PTL DEF Spec
  <1> QED BY <1>2 DEF Counts

-----------------------------------------------------------------------------
(* The listing of a directory.                                             *)

\* Counting the smaller ones numbers the elements of a finite set.
LEMMA Ranked ==
  ASSUME NEW S \in SUBSET Nat, IsFiniteSet(S), NEW k \in 1 .. Cardinality(S)
  PROVE  \E n \in S : Cardinality({m \in S : m <= n}) = k
  <1> DEFINE Upto(n) == {m \in S : m <= n}
             rank == [n \in S |-> Cardinality(Upto(n))]
             C == Cardinality(S)
  <1>1. C \in Nat
    BY FS_CardinalityType
  <1>2. ASSUME NEW n \in S
        PROVE  /\ n \in Upto(n) /\ Upto(n) \in SUBSET S /\ IsFiniteSet(Upto(n))
               /\ Cardinality(Upto(n)) \in 1 .. C
    <2>1. n \in Upto(n) /\ Upto(n) \in SUBSET S
      OBVIOUS
    <2>2. IsFiniteSet(Upto(n)) /\ Cardinality(Upto(n)) <= C
      BY <2>1, FS_Subset
    <2>3. Cardinality(Upto(n)) \in Nat /\ Cardinality(Upto(n)) # 0
      BY <2>1, <2>2, FS_CardinalityType, FS_EmptySet
    <2> QED BY <1>1, <2>1, <2>2, <2>3
  <1>3. ASSUME NEW a \in S, NEW b \in S, a < b
        PROVE  Cardinality(Upto(a)) # Cardinality(Upto(b))
    <2>1. \A m \in S : m \in Nat
      OBVIOUS
    <2>2. Upto(a) \in SUBSET Upto(b) /\ b \in Upto(b) /\ b \notin Upto(a)
      <3>1. ASSUME NEW m \in S, m <= a PROVE m <= b
        BY <1>3, <2>1, <3>1
      <3>2. b <= b /\ ~(b <= a)
        BY <1>3, <2>1
      <3> QED BY <3>1, <3>2
    <2>3. IsFiniteSet(Upto(b))
      BY <1>2
    <2> HIDE DEF Upto
    <2> QED BY <2>2, <2>3, FS_Subset
  <1>4. rank \in Injection(S, 1 .. C)
    <2>1. rank \in [S -> 1 .. C]
      BY <1>2
    <2>2. ASSUME NEW a \in S, NEW b \in S, rank[a] = rank[b] PROVE a = b
      BY <1>3, <2>2
    <2> HIDE DEF rank
    <2> QED BY <2>1, <2>2 DEF Injection, IsInjective
  <1>5. IsFiniteSet(1 .. C) /\ Cardinality(1 .. C) = C
    BY <1>1, FS_Interval
  <1>6. rank \in Surjection(S, 1 .. C)
    BY <1>4, <1>5, FS_Injection
  <1>7. PICK n \in S : rank[n] = k
    BY <1>6 DEF Surjection
  <1> QED BY <1>7

\* InOrder lists a finite set of numbers, all of it in length.
LEMMA InOrderSound ==
  ASSUME NEW S \in SUBSET Nat, IsFiniteSet(S)
  PROVE  /\ Cardinality(S) \in Nat
         /\ InOrder(S) \in Seq(S) /\ Len(InOrder(S)) = Cardinality(S)
  <1>1. Cardinality(S) \in Nat
    BY FS_CardinalityType
  <1>2. ASSUME NEW k \in 1 .. Cardinality(S)
        PROVE  (CHOOSE n \in S : Cardinality({m \in S : m <= n}) = k) \in S
    BY Ranked
  <1>3. InOrder(S) \in [1 .. Cardinality(S) -> S]
    BY <1>2 DEF InOrder
  <1> QED BY <1>1, <1>3, SeqDef

\* The list that down goes through has the names of the entries that were kept, as many as
\* there are (vtree.c:276-313).
LEMMA SortedSound ==
  ASSUME tree \in Trees, NEW d \in Dirs, NEW list \in SUBSET DOMAIN tree[d]
  PROVE  /\ Cardinality(list) \in Nat
         /\ Sorted(d, list) \in Seq({tree[d][i].name : i \in list})
         /\ Len(Sorted(d, list)) = Cardinality(list)
  <1> DEFINE N == {tree[d][i].name : i \in list}
             f == [i \in list |-> tree[d][i].name]
  <1>1. /\ tree[d] \in Seq([name : Nat, node : Nodes \cup {Gone}])
        /\ \A i, j \in DOMAIN tree[d] : tree[d][i].name = tree[d][j].name => i = j
    BY VtreeAssumption
  <1>2. DOMAIN tree[d] = 1 .. Len(tree[d]) /\ Len(tree[d]) \in Nat
    BY <1>1
  <1>3. list \in SUBSET Nat /\ IsFiniteSet(list)
    <2>1. IsFiniteSet(DOMAIN tree[d])
      BY <1>2, FS_Interval
    <2> QED BY <1>2, <2>1, FS_Subset
  <1>4. \A i \in list : tree[d][i].name \in Nat
    BY EntryTyped
  <1>5. f \in Bijection(list, N)
    <2>1. f \in [list -> N] /\ \A n \in N : \E i \in list : f[i] = n
      OBVIOUS
    <2>2. \A i, j \in list : f[i] = f[j] => i = j
      BY <1>1
    <2> HIDE DEF f, N
    <2> QED BY <2>1, <2>2 DEF Bijection, Injection, Surjection, IsInjective
  <1>6. N \in SUBSET Nat /\ IsFiniteSet(N) /\ Cardinality(N) = Cardinality(list)
    <2>1. ExistsBijection(list, N)
      BY <1>5 DEF ExistsBijection
    <2>2. N \in SUBSET Nat
      BY <1>4
    <2> HIDE DEF N
    <2> QED BY <1>3, <2>1, <2>2, FS_Bijection
  <1>7. CASE opt.sort
    <2>1. Sorted(d, list) = InOrder(N)
      BY <1>7 DEF Sorted
    <2> HIDE DEF N
    <2>2. Sorted(d, list) \in Seq(N) /\ Len(Sorted(d, list)) = Cardinality(list)
          /\ Cardinality(list) \in Nat
      BY <1>6, <2>1, InOrderSound
    <2> QED BY <2>2 DEF N
  <1>8. CASE ~opt.sort
    <2> DEFINE s == [k \in 1 .. Cardinality(list) |-> tree[d][InOrder(list)[k]].name]
    <2>1. Sorted(d, list) = s
      BY <1>8 DEF Sorted
    <2>2. /\ Cardinality(list) \in Nat /\ InOrder(list) \in Seq(list)
          /\ Len(InOrder(list)) = Cardinality(list)
      BY <1>3, InOrderSound
    <2>3. \A k \in 1 .. Cardinality(list) : InOrder(list)[k] \in list
      BY <2>2
    <2>4. s \in [1 .. Cardinality(list) -> N]
      BY <2>3
    <2> HIDE DEF N
    <2>5. s \in Seq(N) /\ Len(s) = Cardinality(list)
      BY <2>2, <2>4, SeqDef
    <2> HIDE DEF s
    <2>6. Sorted(d, list) \in Seq(N) /\ Len(Sorted(d, list)) = Cardinality(list)
      BY <2>1, <2>5
    <2> QED BY <2>2, <2>6 DEF N
  <1> QED BY <1>7, <1>8

\* The names in d that lead to directories, as down looks them up.
Subs(d) == {n \in Nat \ {Dot} : Lookup(d, n) \in Dirs}

NoneGone == \A d \in Dirs : \A e \in Range(tree[d]) : e.node # Gone

\* chk_4_dir is right in a directory that has been entered and has no dead names.
LEMMA ListingSound ==
  ASSUME tree \in Trees, NoneGone, ~Counting, NEW d \in Dirs, NEW before
  PROVE  /\ Listing(d, d, before) \in SUBSET DOMAIN tree[d]
         /\ \A i \in Listing(d, d, before) : tree[d][i].name \in Subs(d)
  <1> SUFFICES ASSUME NEW i \in Listing(d, d, before)
               PROVE  i \in DOMAIN tree[d] /\ tree[d][i].name \in Subs(d)
    OBVIOUS
  <1> DEFINE n == tree[d][i].name
             found == {j \in 1 .. i : tree[d][j].name # Dot
                                      /\ Lookup(d, tree[d][j].name) # Gone}
  <1>1. i \in DOMAIN tree[d] /\ n # Dot /\ StbAfter(d, d, before, i) \in Dirs
    BY DEF Listing
  <1>2. i \in Nat \ {0} /\ n \in Nat
    BY <1>1, EntryTyped
  <1>3. Lookup(d, n) # Gone
    <2> DEFINE at == {e \in Range(tree[d]) : e.name = n}
    <2>1. tree[d][i] \in at
      BY <1>1 DEF Range
    <2>2. (CHOOSE e \in at : TRUE) \in at
      BY <2>1
    <2>3. (CHOOSE e \in at : TRUE).node # Gone
      BY <2>2 DEF NoneGone
    <2> QED BY <2>1, <2>3 DEF Lookup
  <1>4. i \in found /\ \A j \in found : i >= j
    BY <1>1, <1>2, <1>3
  <1>5. Max(found) = i
    <2>1. found \subseteq Nat
      BY <1>2
    <2> HIDE DEF found
    <2>2. \E x \in found : \A y \in found : x >= y
      BY <1>4
    <2>3. Max(found) \in found /\ \A y \in found : Max(found) >= y
      BY <2>2 DEF Max
    <2>4. Max(found) \in Nat /\ i >= Max(found) /\ Max(found) >= i
      BY <1>4, <2>1, <2>3
    <2> QED BY <1>2, <2>4
  <1>6. StbAfter(d, d, before, i) = Lookup(d, n)
    BY <1>4, <1>5 DEF StbAfter
  <1> QED BY <1>1, <1>2, <1>6 DEF Subs

\* A name that leads to a directory is one of the entries.
LEMMA SubIsEntry ==
  ASSUME NEW d, NEW n \in Subs(d)
  PROVE  \E e \in Entries(d) : e.node = Lookup(d, n)
  <1> DEFINE at == {e \in Range(tree[d]) : e.name = n}
  <1>1. at # {}
    BY VtreeAssumption DEF Subs, Lookup, Nodes
  <1>2. (CHOOSE e \in at : TRUE) \in at
    BY <1>1
  <1>3. Lookup(d, n) = (CHOOSE e \in at : TRUE).node
    BY <1>1 DEF Lookup
  <1>4. (CHOOSE e \in at : TRUE) \in Entries(d)
    BY <1>2 DEF Entries, Subs
  <1> QED BY <1>3, <1>4

-----------------------------------------------------------------------------
(* Levels.                                                                 *)

\* Every nonempty set of natural numbers has a least element.
LEMMA LeastNat ==
  ASSUME NEW T, T \subseteq Nat, T # {}
  PROVE  \E x \in T : \A y \in T : x <= y
  <1> DEFINE R == OpToRel(<, Nat)
  <1>1. IsWellFoundedOn(R, Nat)
    BY NatLessThanWellFounded
  <1>2. \A x, y \in Nat : x < y => <<x, y>> \in R
    BY DEF OpToRel
  <1> HIDE DEF R
  <1>3. PICK x \in T : \A y \in T : ~ (<<y, x>> \in R)
    BY <1>1, WFMin
  <1>4. ASSUME NEW y \in T PROVE x <= y
    <2>1. x \in Nat /\ y \in Nat
      OBVIOUS
    <2>2. ~(y < x)
      BY <1>2, <1>3, <2>1
    <2> QED BY <2>1, <2>2
  <1> QED BY <1>4

\* A function that gives every level up to m its directories exists: there is no least m
\* for which it does not.
LEMMA DirsAtExists ==
  ASSUME NEW n \in Nat
  PROVE  \E f \in [0 .. n -> SUBSET Dirs] :
           /\ f[0] = DirsNamed
           /\ \A k \in 1 .. n : f[k] = DirsBelow(f[k - 1], k - 1)
  <1> DEFINE Fits(m, f) == /\ f[0] = DirsNamed
                           /\ \A k \in 1 .. m : f[k] = DirsBelow(f[k - 1], k - 1)
             Bad == {m \in Nat : ~ \E f \in [0 .. m -> SUBSET Dirs] : Fits(m, f)}
  <1>1. ASSUME Bad # {} PROVE FALSE
    <2>1. PICK m \in Bad : \A k \in Bad : m <= k
      BY <1>1, LeastNat
    <2>2. CASE m = 0
      <3>1. [k \in 0 .. 0 |-> DirsNamed] \in [0 .. 0 -> SUBSET Dirs]
        BY DEF DirsNamed
      <3>2. Fits(0, [k \in 0 .. 0 |-> DirsNamed])
        OBVIOUS
      <3> QED BY <2>2, <3>1, <3>2
    <2>3. CASE m # 0
      <3>1. m - 1 \in Nat /\ m - 1 \notin Bad
        <4>1. m \in Nat
          OBVIOUS
        <4> HIDE DEF Bad
        <4> QED BY <2>1, <2>3, <4>1
      <3>2. PICK f \in [0 .. m - 1 -> SUBSET Dirs] : Fits(m - 1, f)
        BY <3>1
      <3> DEFINE below == DirsBelow(f[m - 1], m - 1)
                 g == [k \in 0 .. m |-> IF k = m THEN below ELSE f[k]]
      <3>3. below \in SUBSET Dirs
        BY DEF DirsBelow
      <3> HIDE DEF below
      <3>4. g \in [0 .. m -> SUBSET Dirs]
        BY <2>1, <2>3, <3>3
      <3>5. g[0] = DirsNamed
        BY <2>1, <2>3, <3>2
      <3>6. ASSUME NEW k \in 1 .. m PROVE g[k] = DirsBelow(g[k - 1], k - 1)
        <4>1. CASE k = m
          <5>1. m \in 0 .. m /\ m - 1 \in 0 .. m /\ m - 1 # m
            BY <2>1, <2>3
          <5>2. g[m] = below /\ g[m - 1] = f[m - 1]
            BY <5>1
          <5> QED BY <4>1, <5>2 DEF below
        <4>2. CASE k # m
          <5>1. k \in 1 .. m - 1 /\ k \in 0 .. m /\ k - 1 \in 0 .. m /\ k - 1 # m
            BY <2>1, <4>2
          <5>2. g[k] = f[k] /\ g[k - 1] = f[k - 1]
            BY <5>1, <4>2
          <5>3. f[k] = DirsBelow(f[k - 1], k - 1)
            BY <3>2, <5>1
          <5> QED BY <5>2, <5>3
        <4> QED BY <4>1, <4>2
      <3> HIDE DEF g
      <3>7. Fits(m, g)
        BY <3>5, <3>6
      <3> QED BY <2>1, <3>4, <3>7
    <2> QED BY <2>2, <2>3
  <1> QED BY <1>1

\* The directories of a level are the named ones, or those below the level above it.
LEMMA DirsAtSound ==
  /\ DirsAt[0] = DirsNamed
  /\ \A level \in 1 .. FdLimit : DirsAt[level] = DirsBelow(DirsAt[level - 1], level - 1)
  <1>1. FdLimit \in Nat
    BY VtreeAssumption
  <1>2. PICK f \in [0 .. FdLimit -> SUBSET Dirs] :
          /\ f[0] = DirsNamed
          /\ \A k \in 1 .. FdLimit : f[k] = DirsBelow(f[k - 1], k - 1)
    BY <1>1, DirsAtExists
  <1>3. f = [level \in 0 .. FdLimit |-> IF level = 0 THEN DirsNamed
                                        ELSE DirsBelow(f[level - 1], level - 1)]
    <2>1. ASSUME NEW k \in 0 .. FdLimit, k # 0
          PROVE  f[k] = DirsBelow(f[k - 1], k - 1)
      <3>1. k \in 1 .. FdLimit
        BY <1>1, <2>1
      <3> QED BY <1>2, <3>1
    <2> QED BY <1>2, <2>1
  <1>4. DirsAt = [level \in 0 .. FdLimit |-> IF level = 0 THEN DirsNamed
                                             ELSE DirsBelow(DirsAt[level - 1], level - 1)]
    BY <1>3 DEF DirsAt
  <1> HIDE DEF DirsAt
  <1>5. DirsAt[0] = DirsNamed
    BY <1>1, <1>4
  <1>6. ASSUME NEW level \in 1 .. FdLimit
        PROVE  DirsAt[level] = DirsBelow(DirsAt[level - 1], level - 1)
    <2>1. level \in 0 .. FdLimit /\ level # 0
      BY <1>1
    <2> QED BY <1>4, <2>1
  <1> QED BY <1>5, <1>6

\* The directory that activation k of the stack s stands in, if the last one stands in top.
DirIn(s, top, k) == IF k = Len(s) THEN top ELSE s[k + 1].home

\* An activation of down in the visual display: it is in a directory that it was to enter,
\* and goes through names of directories.
FrameSound(s, top, k) ==
  /\ s[k].names \in Seq(Subs(DirIn(s, top, k)))
  /\ s[k].pos \in 1 .. Len(s[k].names) + 1
  /\ DirIn(s, top, k) \in DirsAt[k - 1]
  /\ EnteredAt(DirIn(s, top, k), k - 1)

ToCome(s, level) == IF level <= Len(s) THEN Len(s[level].names) + 1 - s[level].pos ELSE 0

Columns(s, top, c) ==
  /\ \A k \in 1 .. Len(s) : FrameSound(s, top, k)
  /\ \A level \in 1 .. FdLimit : c[level] = ToCome(s, level)

\* The condition of CornersRight.
Clear == opt.visual /\ AllEntered /\ NoneGone

\* There is a level of sub_dirs for every activation, as each holds a descriptor.
Levels ==
  /\ phase = "next" => stack = <<>>
  /\ arg \in Nat \ {0} /\ names \in Seq(Nat)
  /\ fds \in Nat /\ cur_depth <= fds /\ fds <= FdLimit
  /\ sub_dirs \in [1 .. FdLimit -> Int]

ColumnsInv == WalkInv /\ Levels /\ (Clear => Columns(stack, cwd, sub_dirs))

\* What depends on what vtree was started on stays as it is.
LEMMA SameTree ==
  ASSUME UNCHANGED <<tree, opt, names>>
  PROVE  /\ Clear' <=> Clear
         /\ \A s, top, c : Columns(s, top, c)' <=> Columns(s, top, c)
  <1>1. DirsAt' = DirsAt
    BY DEF DirsAt, DirsNamed, DirsBelow, EnteredAt, Entries, Lookup
  <1>2. \A d, level : EnteredAt(d, level)' <=> EnteredAt(d, level)
    BY DEF EnteredAt
  <1>3. \A d : Subs(d)' = Subs(d)
    BY DEF Subs, Lookup
  <1> HIDE DEF DirsAt
  <1>4. AllEntered' <=> AllEntered
    BY <1>1, <1>2 DEF AllEntered
  <1>5. Clear' <=> Clear
    BY <1>4 DEF Clear, NoneGone
  <1>6. ASSUME NEW s, NEW top, NEW k
        PROVE  FrameSound(s, top, k)' <=> FrameSound(s, top, k)
    BY <1>1, <1>2, <1>3 DEF FrameSound, DirIn
  <1>7. ASSUME NEW s, NEW top, NEW c
        PROVE  Columns(s, top, c)' <=> Columns(s, top, c)
    BY <1>6 DEF Columns, ToCome
  <1> QED BY <1>5, <1>7

\* One more activation goes on top of the others.
LEMMA Pushed ==
  ASSUME NEW T, NEW s \in Seq(T), NEW f
  PROVE  /\ Len(s) \in Nat /\ Len(Append(s, f)) = Len(s) + 1
         /\ Append(s, f)[Len(s) + 1] = f
         /\ \A k \in 1 .. Len(s) : Append(s, f)[k] = s[k]
  <1>1. s \in Seq(T \cup {f}) /\ f \in T \cup {f}
    BY SeqMonotonic
  <1> QED BY <1>1, AppendProperties

\* get_data opens a directory only while there are descriptors, which are fewer than the
\* levels of sub_dirs (vtree.c:259, 315-328).
LEMMA WalkKeepsLevels ==
  ASSUME tree \in Trees, NEW T, NEW below \in Seq(T), NEW name, NEW here \in Dirs,
         NEW columns \in [1 .. FdLimit -> Int], NEW count,
         fds \in Nat, Len(below) <= fds, fds <= FdLimit,
         Walk(name, here, below, columns, count)
  PROVE  /\ fds' \in Nat /\ Len(stack') <= fds' /\ fds' <= FdLimit
         /\ sub_dirs' \in [1 .. FdLimit -> Int]
  <1> DEFINE found == Stat(here, name, stb)
             d == Lookup(here, name)
  <1>0. FdLimit \in Nat /\ Len(below) \in Nat
    BY VtreeAssumption
  <1>1. CASE stack' = below /\ sub_dirs' = columns /\ UNCHANGED fds
    BY <1>1
  <1>2. CASE Open(d, here, below, columns, found) /\ d \in Readable /\ fds < FdLimit
    <2> HIDE DEF found, d
    <2> DEFINE there == IF d \in Searchable THEN d ELSE here
               list == Listing(d, there, found)
               f == [names |-> Sorted(d, list), pos |-> 1, home |-> here,
                     phase |-> IF Counting THEN "files" ELSE "dirs"]
    <2>1. /\ fds' = fds + 1 /\ stack' = Append(below, f)
          /\ sub_dirs' = IF opt.visual
                         THEN [columns EXCEPT ![Len(below) + 1] = @ + Cardinality(list)]
                         ELSE columns
      BY <1>2 DEF Open
    <2>2. Cardinality(list) \in Nat
      <3>1. d \in Dirs
        BY <1>2, VtreeAssumption
      <3>2. list \in SUBSET DOMAIN tree[d]
        BY DEF Listing
      <3> HIDE DEF list
      <3> QED BY <3>1, <3>2, SortedSound
    <2> HIDE DEF f, list
    <2>3. Len(stack') = Len(below) + 1
      BY <2>1, Pushed
    <2>4. sub_dirs' \in [1 .. FdLimit -> Int]
      <3>1. Len(below) + 1 \in 1 .. FdLimit
        BY <1>0, <1>2
      <3>2. columns[Len(below) + 1] + Cardinality(list) \in Int
        BY <2>2, <3>1
      <3> QED BY <2>1, <3>2
    <2> QED BY <1>0, <1>2, <2>1, <2>3, <2>4
  <1> QED BY <1>1, <1>2 DEF Walk

\* In the visual display a directory that is opened is entered, and its column says how
\* many of its subdirectories are to come (vtree.c:259-328, 488-499).
LEMMA WalkKeepsColumns ==
  ASSUME tree \in Trees, Clear, NEW T, NEW below \in Seq(T), NEW name, NEW here \in Dirs,
         NEW columns \in [1 .. FdLimit -> Int], NEW count,
         fds \in Nat, Len(below) <= fds,
         Columns(below, here, columns),
         Lookup(here, name) \in Dirs /\ Len(below) <= FdLimit
           => Lookup(here, name) \in DirsAt[Len(below)],
         Walk(name, here, below, columns, count)
  PROVE  Columns(stack', cwd', sub_dirs')
  <1> DEFINE found == Stat(here, name, stb)
             d == Lookup(here, name)
             n == Len(below)
  <1>0. FdLimit \in Nat /\ n \in Nat /\ ~Counting /\ opt.visual /\ AllEntered /\ NoneGone
    BY VtreeAssumption DEF Clear, Counting
  <1>1. CASE stack' = below /\ sub_dirs' = columns /\ cwd' = here
    BY <1>1
  <1>2. CASE /\ Open(d, here, below, columns, found) /\ d \in Readable
             /\ fds < FdLimit /\ (opt.depth # n \/ opt.sum)
    <2>1. d \in Dirs /\ n <= FdLimit /\ n + 1 \in 1 .. FdLimit
      BY <1>0, <1>2, VtreeAssumption
    <2>2. d \in DirsAt[n] /\ EnteredAt(d, n) /\ d \in Searchable
      <3>1. d \in DirsAt[n] /\ EnteredAt(d, n)
        BY <1>2, <2>1 DEF EnteredAt
      <3>2. n \in 0 .. FdLimit
        BY <1>0, <2>1
      <3> HIDE DEF d, n
      <3> QED BY <1>0, <3>1, <3>2 DEF AllEntered
    <2> HIDE DEF found, d
    <2> DEFINE list == Listing(d, d, found)
               f == [names |-> Sorted(d, list), pos |-> 1, home |-> here, phase |-> "dirs"]
               s == Append(below, f)
    <2>3. /\ stack' = s /\ cwd' = d
          /\ sub_dirs' = [columns EXCEPT ![n + 1] = @ + Cardinality(list)]
      BY <1>0, <1>2, <2>2 DEF Open
    <2>4. /\ Cardinality(list) \in Nat /\ f.names \in Seq(Subs(d))
          /\ Len(f.names) = Cardinality(list) /\ f.pos = 1 /\ f.home = here
      <3>1. list \in SUBSET DOMAIN tree[d] /\ \A i \in list : tree[d][i].name \in Subs(d)
        BY <1>0, <2>1, ListingSound
      <3> HIDE DEF list
      <3>2. {tree[d][i].name : i \in list} \subseteq Subs(d)
        BY <3>1
      <3>3. /\ Cardinality(list) \in Nat /\ Len(Sorted(d, list)) = Cardinality(list)
            /\ Sorted(d, list) \in Seq({tree[d][i].name : i \in list})
        BY <2>1, <3>1, SortedSound
      <3>4. Sorted(d, list) \in Seq(Subs(d))
        BY <3>2, <3>3, SeqMonotonic
      <3> QED BY <3>3, <3>4
    <2> HIDE DEF f, list
    <2>5. Len(s) = n + 1 /\ s[n + 1] = f /\ \A k \in 1 .. n : s[k] = below[k]
      BY Pushed
    <2> HIDE DEF s, n
    <2>6. ASSUME NEW k \in 1 .. n PROVE FrameSound(s, d, k)
      <3>1. FrameSound(below, here, k)
        BY DEF Columns, n
      <3>2. s[k] = below[k] /\ k # n + 1
        BY <1>0, <2>5
      <3>3. DirIn(s, d, k) = DirIn(below, here, k)
        <4>1. CASE k = n
          BY <1>0, <2>4, <2>5, <3>2, <4>1 DEF DirIn, n
        <4>2. CASE k # n
          <5>1. k + 1 \in 1 .. n
            BY <1>0, <4>2
          <5>2. s[k + 1] = below[k + 1]
            BY <2>5, <5>1
          <5> QED BY <2>5, <3>2, <4>2, <5>2 DEF DirIn, n
        <4> QED BY <4>1, <4>2
      <3> QED BY <3>1, <3>2, <3>3 DEF FrameSound
    <2>7. ASSUME NEW k, k = n + 1 PROVE FrameSound(s, d, k)
      <3>1. DirIn(s, d, k) = d
        BY <2>5, <2>7 DEF DirIn
      <3>2. k - 1 = n
        BY <1>0, <2>7
      <3>3. s[k] = f
        BY <2>5, <2>7
      <3>4. s[k].pos \in 1 .. Len(s[k].names) + 1
        BY <2>4, <3>3
      <3> QED BY <2>2, <2>4, <3>1, <3>2, <3>3, <3>4 DEF FrameSound
    <2>8. ASSUME NEW level \in 1 .. FdLimit PROVE sub_dirs'[level] = ToCome(s, level)
      <3>1. columns[level] = ToCome(below, level)
        BY DEF Columns
      <3>2. CASE level = n + 1
        <4>1. columns[level] = 0
          BY <1>0, <3>1, <3>2 DEF ToCome, n
        <4>2. sub_dirs'[level] = Cardinality(list)
          BY <2>1, <2>3, <2>4, <3>2, <4>1
        <4>3. ToCome(s, level) = Len(f.names) + 1 - 1
          BY <1>0, <2>4, <2>5, <3>2 DEF ToCome
        <4> QED BY <2>4, <4>2, <4>3
      <3>3. CASE level < n + 1
        <4>1. level \in 1 .. n /\ level # n + 1 /\ level <= n + 1
          BY <1>0, <3>3
        <4> QED BY <2>3, <2>5, <3>1, <4>1 DEF ToCome, n
      <3>4. CASE level > n + 1
        <4>1. ~(level <= n) /\ level # n + 1 /\ ~(level <= n + 1)
          BY <1>0, <3>4
        <4> QED BY <2>3, <2>5, <3>1, <4>1 DEF ToCome, n
      <3> QED BY <1>0, <3>2, <3>3, <3>4
    <2>9. \A k \in 1 .. Len(s) : FrameSound(s, d, k)
      <3>1. \A k \in 1 .. n + 1 : k \in 1 .. n \/ k = n + 1
        BY <1>0
      <3> QED BY <2>5, <2>6, <2>7, <3>1
    <2> QED BY <2>3, <2>8, <2>9 DEF Columns
  <1> QED BY <1>1, <1>2 DEF Walk

-----------------------------------------------------------------------------
\* vtree starts outside all directories, with a clean column for every level.
LEMMA ColumnsStart == Init => ColumnsInv
  <1> SUFFICES ASSUME Init PROVE ColumnsInv
    OBVIOUS
  <1>1. /\ arg = 1 /\ phase = "next" /\ stack = <<>> /\ fds = 0
        /\ sub_dirs = [level \in 1 .. FdLimit |-> 0]
    BY DEF Init
  <1>2. WalkInv /\ FdLimit \in Nat
    BY WalkStarts, VtreeAssumption
  <1>3. names \in Seq(Nat)
    <2>1. PICK c \in CommandLines : names = IF c.names = <<>> THEN <<Dot>> ELSE c.names
      BY DEF Init
    <2>2. c.names \in Seq(Nat)
      BY VtreeAssumption
    <2>3. <<Dot>> \in Seq(Nat)
      BY DEF Dot
    <2> QED BY <2>1, <2>2, <2>3
  <1>4. Len(stack) = 0
    BY <1>1
  <1>5. Levels
    BY <1>1, <1>2, <1>3, <1>4 DEF Levels, cur_depth
  <1>6. Columns(stack, cwd, sub_dirs)
    BY <1>1, <1>2, <1>4 DEF Columns, ToCome
  <1> QED BY <1>2, <1>5, <1>6 DEF ColumnsInv

\* No step gets deeper than sub_dirs has levels.
LEMMA LevelsStep ==
  ASSUME WalkInv, Levels, [Next]_vars
  PROVE  Levels'
  <1>0. /\ phase = "next" => stack = <<>>
        /\ arg \in Nat \ {0} /\ names \in Seq(Nat)
        /\ fds \in Nat /\ Len(stack) <= fds /\ fds <= FdLimit
        /\ sub_dirs \in [1 .. FdLimit -> Int] /\ FdLimit \in Nat
        /\ tree \in Trees /\ cwd \in Dirs
    BY VtreeAssumption DEF Levels, WalkInv, Here, cur_depth
  <1>1. PICK N : stack \in Seq(Frames(N))
    BY DEF WalkInv, Here
  <1>2. SUFFICES /\ phase' = "next" => stack' = <<>>
                 /\ arg' \in Nat \ {0} /\ names' \in Seq(Nat)
                 /\ fds' \in Nat /\ Len(stack') <= fds' /\ fds' <= FdLimit
                 /\ sub_dirs' \in [1 .. FdLimit -> Int]
    BY DEF Levels, cur_depth
  <1>3. ASSUME stack # <<>>
        PROVE  /\ cur_depth \in 1 .. FdLimit /\ Len(Advanced) = Len(stack)
               /\ Advanced \in Seq(Frames(N)) /\ Len(Front(stack)) = Len(stack) - 1
    <2>1. cur_depth \in DOMAIN stack /\ cur_depth = Len(stack) /\ Len(stack) \in Nat
      BY <1>1, <1>3, TopFrame DEF cur_depth
    <2>2. Len(Advanced) = Len(stack)
      BY <2>1 DEF Advanced
    <2>3. Len(Front(stack)) = Len(stack) - 1
      BY <2>1 DEF Front
    <2> QED BY <1>0, <1>1, <1>3, <2>1, <2>2, <2>3, AdvancedTyped
  <1>4. CASE Argument
    <2>1. /\ phase' = "walk" /\ UNCHANGED <<arg, names>>
          /\ Walk(names[arg], TopDir, <<>>, sub_dirs, 0)
      BY <1>4 DEF Argument
    <2>2. <<>> \in Seq(Frames(N)) /\ Len(<<>>) <= fds /\ TopDir \in Dirs
      BY <1>0, VtreeAssumption
    <2>3. /\ fds' \in Nat /\ Len(stack') <= fds' /\ fds' <= FdLimit
          /\ sub_dirs' \in [1 .. FdLimit -> Int]
      BY <1>0, <2>1, <2>2, WalkKeepsLevels
    <2> QED BY <1>0, <2>1, <2>3
  <1>5. CASE ArgumentDone
    <2>1. /\ stack = <<>> /\ stack' = stack /\ arg' = arg + 1
          /\ UNCHANGED <<names, fds, sub_dirs>>
      BY <1>5 DEF ArgumentDone
    <2>2. arg + 1 \in Nat \ {0}
      BY <1>0
    <2> QED BY <1>0, <2>1, <2>2
  <1>6. CASE WalkSub
    <2> DEFINE columns == IF Stat(cwd, Name, stb) \in Dirs
                          THEN [sub_dirs EXCEPT ![cur_depth] = @ - 1] ELSE sub_dirs
    <2>1. /\ stack # <<>> /\ UNCHANGED <<arg, names, phase>>
          /\ Walk(Name, cwd, Advanced, columns, inodes)
      BY <1>6 DEF WalkSub
    <2>2. columns \in [1 .. FdLimit -> Int]
      <3>1. sub_dirs[cur_depth] - 1 \in Int
        BY <1>0, <1>3, <2>1
      <3> QED BY <1>0, <3>1
    <2> HIDE DEF columns
    <2>3. Advanced \in Seq(Frames(N)) /\ Len(Advanced) <= fds
      BY <1>0, <1>3, <2>1
    <2>4. /\ fds' \in Nat /\ Len(stack') <= fds' /\ fds' <= FdLimit
          /\ sub_dirs' \in [1 .. FdLimit -> Int]
      BY <1>0, <2>1, <2>2, <2>3, WalkKeepsLevels
    <2> QED BY <1>0, <2>1, <2>4
  <1>7. CASE Leave
    <2>1. /\ stack # <<>> /\ UNCHANGED <<arg, names, phase, fds>>
          /\ sub_dirs' = [sub_dirs EXCEPT ![cur_depth] = 0] /\ stack' = Front(stack)
      BY <1>7 DEF Leave
    <2>2. Len(stack') <= fds
      <3>1. Len(stack) \in Nat
        BY <1>1
      <3> QED BY <1>0, <1>3, <2>1, <3>1
    <2>3. sub_dirs' \in [1 .. FdLimit -> Int]
      <3> DEFINE columns == [sub_dirs EXCEPT ![cur_depth] = 0]
      <3>1. columns \in [1 .. FdLimit -> Int]
        <4>1. 0 \in Int /\ sub_dirs \in [1 .. FdLimit -> Int]
          BY <1>0
        <4> QED BY <4>1, Zenon
      <3> QED BY <2>1, <3>1
    <2> QED BY <1>0, <2>1, <2>2, <2>3
  <1>8. CASE CountFile \/ SkipDot
    <2>1. /\ stack # <<>> /\ UNCHANGED <<arg, names, phase, fds, sub_dirs>>
          /\ stack' = Advanced
      BY <1>8 DEF CountFile, SkipDot
    <2> QED BY <1>0, <1>3, <2>1
  <1>9. CASE FilesDone
    <2>1. /\ stack # <<>> /\ UNCHANGED <<arg, names, phase, fds, sub_dirs>>
          /\ stack' = [stack EXCEPT ![cur_depth].phase = "dirs", ![cur_depth].pos = 1]
      BY <1>9 DEF FilesDone
    <2>2. Len(stack') = Len(stack)
      BY <1>1, <2>1
    <2> QED BY <1>0, <2>1, <2>2
  <1>10. CASE Exit \/ UNCHANGED vars
    <2>1. UNCHANGED <<arg, names, phase, stack, fds, sub_dirs>>
      BY <1>10 DEF Exit, vars
    <2> QED BY <1>0, <2>1
  <1> QED BY <1>4, <1>5, <1>6, <1>7, <1>8, <1>9, <1>10 DEF Next, Step, Ended

\* In a directory that down goes through, the next name leads to a directory of the level
\* below.
LEMMA TopSound ==
  ASSUME NEW N, stack \in Seq(Frames(N)), stack # <<>>, cur_depth <= FdLimit, Clear,
         Columns(stack, cwd, sub_dirs)
  PROVE  /\ Frame.phase = "dirs" /\ Frame.names \in Seq(Subs(cwd))
         /\ Frame.pos \in 1 .. Len(Frame.names) + 1
         /\ ~AtEnd => /\ Frame.pos \in 1 .. Len(Frame.names) /\ Name # Dot
                      /\ Lookup(cwd, Name) \in Dirs
                      /\ Lookup(cwd, Name) \in DirsAt[cur_depth]
  <1> DEFINE n == cur_depth
  <1>0. /\ n \in 1 .. FdLimit /\ n \in 1 .. Len(stack) /\ n = Len(stack)
        /\ FdLimit \in Nat /\ n \in Nat
    BY TopFrame, VtreeAssumption DEF cur_depth
  <1>1. Frame.phase = "dirs"
    <2>1. Frame \in Frames(N) /\ ~Counting
      BY TopFrame DEF Clear, Counting
    <2> QED BY <2>1 DEF Frames
  <1>2. FrameSound(stack, cwd, n) /\ DirIn(stack, cwd, n) = cwd
    BY <1>0 DEF Columns, DirIn
  <1>3. /\ Frame.names \in Seq(Subs(cwd)) /\ Frame.pos \in 1 .. Len(Frame.names) + 1
        /\ cwd \in DirsAt[n - 1] /\ EnteredAt(cwd, n - 1)
    BY <1>2 DEF FrameSound, Frame
  <1>4. ASSUME ~AtEnd
        PROVE  Frame.pos \in 1 .. Len(Frame.names) /\ Name \in Subs(cwd)
    <2>1. Len(Frame.names) \in Nat /\ Frame.pos \in 1 .. Len(Frame.names)
      BY <1>3, <1>4 DEF AtEnd
    <2> QED BY <1>3, <2>1, ElementOfSeq DEF Name
  <1>5. ASSUME ~AtEnd PROVE Lookup(cwd, Name) \in DirsAt[n]
    <2>1. PICK e \in Entries(cwd) : e.node = Lookup(cwd, Name)
      BY <1>4, <1>5, SubIsEntry
    <2>2. DirsAt[n] = DirsBelow(DirsAt[n - 1], n - 1)
      BY <1>0, DirsAtSound
    <2>3. Lookup(cwd, Name) \in Dirs
      BY <1>4, <1>5 DEF Subs
    <2> HIDE DEF n
    <2> QED BY <1>3, <2>1, <2>2, <2>3 DEF DirsBelow
  <1> QED BY <1>1, <1>3, <1>4, <1>5 DEF Subs

\* Going on to the next name takes one off the column.
LEMMA AdvancedSound ==
  ASSUME NEW N, stack \in Seq(Frames(N)), stack # <<>>, cur_depth <= FdLimit, Clear,
         sub_dirs \in [1 .. FdLimit -> Int], Columns(stack, cwd, sub_dirs), ~AtEnd
  PROVE  Columns(Advanced, cwd, [sub_dirs EXCEPT ![cur_depth] = @ - 1])
  <1> DEFINE n == cur_depth
             s == Advanced
  <1>0. /\ n \in 1 .. FdLimit /\ n \in 1 .. Len(stack) /\ n = Len(stack)
        /\ FdLimit \in Nat /\ n \in Nat /\ Frame \in Frames(N)
    BY TopFrame, VtreeAssumption DEF cur_depth
  <1>1. /\ Frame.pos \in 1 .. Len(Frame.names) /\ Len(Frame.names) \in Nat
    BY TopSound
  <1>2. Len(s) = n /\ \A k \in 1 .. n : k # n => s[k] = stack[k]
    BY <1>0 DEF Advanced
  <1>3. s[n] = [Frame EXCEPT !.pos = @ + 1]
    BY <1>0 DEF Advanced, Frame
  <1>4. s[n].pos = Frame.pos + 1 /\ s[n].names = Frame.names /\ s[n].home = Frame.home
    BY <1>0, <1>3 DEF Frames
  <1> HIDE DEF s
  <1>5. ASSUME NEW k \in 1 .. n
        PROVE  s[k].names = stack[k].names /\ s[k].home = stack[k].home
    BY <1>2, <1>4 DEF Frame
  <1>6. ASSUME NEW k \in 1 .. n PROVE FrameSound(s, cwd, k)
    <2>1. FrameSound(stack, cwd, k)
      BY <1>0 DEF Columns
    <2>2. DirIn(s, cwd, k) = DirIn(stack, cwd, k)
      <3>1. k # n => k + 1 \in 1 .. n
        BY <1>0
      <3> QED BY <1>0, <1>2, <1>5, <3>1 DEF DirIn
    <2>3. s[k].pos \in 1 .. Len(s[k].names) + 1
      <3>1. CASE k = n
        BY <1>1, <1>4, <3>1
      <3>2. CASE k # n
        BY <1>2, <2>1, <3>2 DEF FrameSound
      <3> QED BY <3>1, <3>2
    <2> QED BY <1>5, <2>1, <2>2, <2>3 DEF FrameSound
  <1>7. ASSUME NEW level \in 1 .. FdLimit
        PROVE  [sub_dirs EXCEPT ![n] = @ - 1][level] = ToCome(s, level)
    <2>1. sub_dirs[level] = ToCome(stack, level)
      BY DEF Columns
    <2>2. CASE level = n
      <3>1. sub_dirs[level] = Len(Frame.names) + 1 - Frame.pos
        BY <1>0, <2>1, <2>2 DEF ToCome, Frame
      <3>2. ToCome(s, level) = Len(Frame.names) + 1 - (Frame.pos + 1)
        BY <1>0, <1>2, <1>4, <2>2 DEF ToCome
      <3>3. [sub_dirs EXCEPT ![n] = @ - 1][level] = sub_dirs[level] - 1
        BY <2>2
      <3> DEFINE q == Frame.pos
                 c == Len(Frame.names)
      <3>4. q \in Int /\ c \in Int
        BY <1>1
      <3> HIDE DEF q, c
      <3>5. (c + 1 - q) - 1 = c + 1 - (q + 1)
        BY <3>4
      <3> QED BY <2>2, <3>1, <3>2, <3>3, <3>5 DEF q, c
    <2>3. CASE level # n
      <3>1. ToCome(s, level) = ToCome(stack, level)
        <4>1. level <= n => level \in 1 .. n
          BY <1>0
        <4> QED BY <1>0, <1>2, <2>3, <4>1 DEF ToCome
      <3>2. [sub_dirs EXCEPT ![n] = @ - 1][level] = sub_dirs[level]
        BY <2>3
      <3> QED BY <2>1, <3>1, <3>2
    <2> QED BY <2>2, <2>3
  <1> QED BY <1>2, <1>6, <1>7 DEF Columns, s

\* Coming back from a directory leaves its level clean and the others as they were.
LEMMA LeaveSound ==
  ASSUME NEW N, stack \in Seq(Frames(N)), stack # <<>>, cur_depth <= FdLimit,
         sub_dirs \in [1 .. FdLimit -> Int], Columns(stack, cwd, sub_dirs)
  PROVE  Columns(Front(stack), Frame.home, [sub_dirs EXCEPT ![cur_depth] = 0])
  <1> DEFINE n == cur_depth
             s == Front(stack)
  <1>0. /\ n \in 1 .. FdLimit /\ n = Len(stack) /\ FdLimit \in Nat /\ n \in Nat /\ n # 0
    BY TopFrame, VtreeAssumption DEF cur_depth
  <1>1. Len(s) = n - 1 /\ \A k \in 1 .. n - 1 : s[k] = stack[k]
    BY <1>0 DEF Front
  <1> HIDE DEF s
  <1>2. ASSUME NEW k \in 1 .. n - 1 PROVE FrameSound(s, Frame.home, k)
    <2>1. FrameSound(stack, cwd, k) /\ k # n
      BY <1>0 DEF Columns
    <2>2. DirIn(s, Frame.home, k) = DirIn(stack, cwd, k)
      <3>1. CASE k = n - 1
        <4>1. k + 1 = n
          BY <1>0, <3>1
        <4> QED BY <1>0, <1>1, <2>1, <3>1, <4>1 DEF DirIn, Frame
      <3>2. CASE k # n - 1
        <4>1. k + 1 \in 1 .. n - 1
          BY <1>0, <3>2
        <4> QED BY <1>0, <1>1, <2>1, <3>2, <4>1 DEF DirIn
      <3> QED BY <3>1, <3>2
    <2> QED BY <1>1, <2>1, <2>2 DEF FrameSound
  <1>3. ASSUME NEW level \in 1 .. FdLimit
        PROVE  [sub_dirs EXCEPT ![n] = 0][level] = ToCome(s, level)
    <2>1. sub_dirs[level] = ToCome(stack, level)
      BY DEF Columns
    <2>2. CASE level = n
      <3>1. ~(level <= n - 1)
        BY <1>0, <2>2
      <3> QED BY <1>1, <2>2, <3>1 DEF ToCome
    <2>3. CASE level # n
      <3>1. level <= n - 1 <=> level <= n
        BY <1>0, <2>3
      <3>2. level <= n - 1 => level \in 1 .. n - 1
        BY <1>0
      <3>3. ToCome(s, level) = ToCome(stack, level)
        BY <1>0, <1>1, <3>1, <3>2 DEF ToCome
      <3>4. [sub_dirs EXCEPT ![n] = 0][level] = sub_dirs[level]
        BY <2>3
      <3> QED BY <2>1, <3>3, <3>4
    <2> QED BY <2>2, <2>3
  <1> QED BY <1>1, <1>2, <1>3 DEF Columns, s

\* Every step keeps the columns right.
LEMMA ColumnsStep ==
  ASSUME WalkInv, Levels, Clear, Columns(stack, cwd, sub_dirs), [Next]_vars
  PROVE  Columns(stack', cwd', sub_dirs')
  <1>0. /\ phase = "next" => stack = <<>>
        /\ arg \in Nat \ {0} /\ names \in Seq(Nat)
        /\ fds \in Nat /\ Len(stack) <= fds /\ fds <= FdLimit /\ cur_depth = Len(stack)
        /\ sub_dirs \in [1 .. FdLimit -> Int] /\ FdLimit \in Nat
        /\ tree \in Trees /\ cwd \in Dirs
    BY VtreeAssumption DEF Levels, WalkInv, Here, cur_depth
  <1>1. PICK N : stack \in Seq(Frames(N))
    BY DEF WalkInv, Here
  <1>2. Len(stack) \in Nat /\ cur_depth <= FdLimit
    BY <1>0, <1>1
  <1>3. CASE Argument
    <2>1. /\ stack = <<>> /\ arg <= Len(names) /\ Walk(names[arg], TopDir, <<>>, sub_dirs, 0)
      BY <1>0, <1>3 DEF Argument
    <2>2. <<>> \in Seq(Frames(N)) /\ Len(<<>>) = 0 /\ TopDir \in Dirs
      BY VtreeAssumption
    <2>3. Columns(<<>>, TopDir, sub_dirs)
      <3>1. \A level \in 1 .. FdLimit : sub_dirs[level] = ToCome(<<>>, level)
        BY <2>1 DEF Columns
      <3> QED BY <2>2, <3>1 DEF Columns
    <2>4. Lookup(TopDir, names[arg]) \in Dirs => Lookup(TopDir, names[arg]) \in DirsAt[0]
      <3>1. arg \in DOMAIN names
        BY <1>0, <2>1
      <3> QED BY <3>1, DirsAtSound DEF DirsNamed
    <2> QED BY <1>0, <2>1, <2>2, <2>3, <2>4, WalkKeepsColumns
  <1>4. CASE WalkSub
    <2> DEFINE columns == [sub_dirs EXCEPT ![cur_depth] = @ - 1]
    <2>1. /\ stack # <<>> /\ ~AtEnd
          /\ Walk(Name, cwd, Advanced,
                  IF Stat(cwd, Name, stb) \in Dirs THEN columns ELSE sub_dirs, inodes)
      BY <1>4 DEF WalkSub
    <2>2. Lookup(cwd, Name) \in Dirs /\ Lookup(cwd, Name) \in DirsAt[cur_depth]
      BY <1>1, <1>2, <2>1, TopSound
    <2>3. Stat(cwd, Name, stb) \in Dirs
      BY <2>2, VtreeAssumption DEF Stat, Nodes
    <2>4. Columns(Advanced, cwd, columns)
      BY <1>0, <1>1, <1>2, <2>1, AdvancedSound
    <2>5. Advanced \in Seq(Frames(N)) /\ Len(Advanced) = cur_depth
      <3>1. Len(Advanced) = Len(stack)
        BY <1>1 DEF Advanced
      <3> QED BY <1>0, <1>1, <2>1, <3>1, AdvancedTyped
    <2>6. columns \in [1 .. FdLimit -> Int]
      <3>1. cur_depth \in 1 .. FdLimit
        BY <1>0, <1>1, <1>2, <2>1, TopFrame
      <3>2. sub_dirs[cur_depth] - 1 \in Int
        BY <1>0, <3>1
      <3> QED BY <1>0, <3>2
    <2> HIDE DEF columns
    <2>7. Walk(Name, cwd, Advanced, columns, inodes)
      BY <2>1, <2>3
    <2> QED BY <1>0, <2>2, <2>4, <2>5, <2>6, <2>7, WalkKeepsColumns
  <1>5. CASE Leave
    <2>1. /\ stack # <<>> /\ stack' = Front(stack) /\ cwd' = Frame.home
          /\ sub_dirs' = [sub_dirs EXCEPT ![cur_depth] = 0]
      BY <1>5 DEF Leave
    <2> QED BY <1>0, <1>1, <1>2, <2>1, LeaveSound
  <1>6. CASE CountFile \/ FilesDone \/ SkipDot
    <2>1. \/ stack # <<>> /\ Frame.phase = "files"
          \/ stack # <<>> /\ ~AtEnd /\ Name = Dot
      BY <1>6 DEF CountFile, FilesDone, SkipDot
    <2>2. stack # <<>>
      BY <2>1
    <2> QED BY <1>1, <1>2, <2>1, <2>2, TopSound
  <1>7. CASE ArgumentDone \/ Exit \/ UNCHANGED vars
    <2>1. UNCHANGED <<stack, cwd, sub_dirs>>
      BY <1>7 DEF ArgumentDone, Exit, vars
    <2> QED BY <2>1
  <1> QED BY <1>3, <1>4, <1>5, <1>6, <1>7 DEF Next, Step, Ended

\* The invariant behind CornersRight: the levels fit, and every frame of down stands in a
\* directory of its level that it has entered.
THEOREM ColumnsInductive == Spec => []ColumnsInv
  <1>1. Init => ColumnsInv
    BY ColumnsStart
  <1>2. ColumnsInv /\ [Next]_vars => ColumnsInv'
    <2> SUFFICES ASSUME ColumnsInv, [Next]_vars PROVE ColumnsInv'
      OBVIOUS
    <2>1. WalkInv /\ Levels /\ (Clear => Columns(stack, cwd, sub_dirs))
      BY DEF ColumnsInv
    <2>2. WalkInv'
      BY <2>1, CountFileStep, OtherSteps
    <2>3. Levels'
      BY <2>1, LevelsStep
    <2>4. UNCHANGED <<tree, opt, names>>
      BY DEF Next, Step, Ended, vars, Argument, ArgumentDone, Exit, CountFile, FilesDone,
             SkipDot, WalkSub, Leave
    <2>5. ASSUME Clear' PROVE Columns(stack, cwd, sub_dirs)'
      <3>1. Clear
        BY <2>4, <2>5, SameTree
      <3>2. Columns(stack', cwd', sub_dirs')
        BY <2>1, <3>1, ColumnsStep
      <3> QED BY <2>4, <3>2, SameTree
    <2> QED BY <2>2, <2>3, <2>5 DEF ColumnsInv
  <1> QED BY <1>1, <1>2, PTL DEF Spec

\* vtree.c:205-209, 315-328, 366: wherever down stands, on every tree without dead names
\* whose directories can be entered, sub_dirs says of every open level how many
\* subdirectories are to come and is clean below, so that each column ends at its corner.
THEOREM CornersEndColumns == Spec => []CornersRight
  <1>1. ColumnsInv => CornersRight
    <2> SUFFICES ASSUME ColumnsInv, opt.visual, AllEntered, NoneGone
                 PROVE  \A level \in DOMAIN sub_dirs :
                          sub_dirs[level] = IF level <= cur_depth
                                            THEN Len(stack[level].names) + 1
                                                   - stack[level].pos
                                            ELSE 0
      BY DEF CornersRight, NoneGone
    <2>1. Columns(stack, cwd, sub_dirs) /\ DOMAIN sub_dirs = 1 .. FdLimit
      BY DEF ColumnsInv, Clear, Levels
    <2> QED BY <2>1 DEF Columns, ToCome, cur_depth
  <1> QED BY <1>1, ColumnsInductive, PTL
=============================================================================
