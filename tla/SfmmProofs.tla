----------------------------- MODULE SfmmProofs -----------------------------
(* Proofs about Sfmm: for careful clients, whatever they ask for and        *)
(* however large the pages are, the heap is a row of blocks, the client's   *)
(* ones, at most one free one among them, and the wilderness behind.        *)
EXTENDS Sfmm, WellFoundedInduction, TLAPS

HeapType ==
  [hdr : [Positions -> Int], foot : [Positions -> Int],
   next : [Nodes -> Nodes \cup {Null}], prev : [Nodes -> Nodes \cup {Null}],
   pages : 0 .. MaxPages, ret : Positions, fault : {"none", "abort", "wild"}]

Held(l) == {p \in Positions : l[p] >= 0}

-----------------------------------------------------------------------------
(* Numbers and addresses.                                                  *)

\* Every nonempty set of natural numbers has a least element.
LEMMA LeastNat ==
  ASSUME NEW T, T \subseteq Nat, T # {}
  PROVE  \E x \in T : \A y \in T : x <= y
  <1> DEFINE R == OpToRel(<, Nat)
  <1>1. IsWellFoundedOn(R, Nat)
    BY NatLessThanWellFounded
  <1>2. \A x, y \in Nat : x < y => <<x, y>> \in R
    BY DEF OpToRel
  <1> HIDE DEF R
  <1>3. PICK x \in T : \A y \in T : ~ (<<y, x>> \in R)
    BY <1>1, WFMin
  <1>4. ASSUME NEW y \in T PROVE x <= y
    <2>1. x \in Nat /\ y \in Nat
      OBVIOUS
    <2>2. ~(y < x)
      BY <1>2, <1>3, <2>1
    <2> QED BY <2>1, <2>2
  <1> QED BY <1>4

\* A function can be applied as often as one likes, and what is applied stays in its domain.
Iterates(f, S, F, a, n) ==
  f \in [0 .. n -> S] /\ f[0] = a /\ \A k \in 1 .. n : f[k] = F[f[k - 1]]

\* A function can be applied any number of times over.
LEMMA Iterated ==
  ASSUME NEW S, NEW F \in [S -> S], NEW a \in S, NEW n \in Nat
  PROVE  \E f : Iterates(f, S, F, a, n)
  <1> DEFINE Fits(m, f) == f[0] = a /\ \A k \in 1 .. m : f[k] = F[f[k - 1]]
             Bad == {m \in Nat : ~ \E f \in [0 .. m -> S] : Fits(m, f)}
  <1>1. ASSUME Bad # {} PROVE FALSE
    <2>1. PICK m \in Bad : \A k \in Bad : m <= k
      BY <1>1, LeastNat
    <2>2. CASE m = 0
      <3>1. [k \in 0 .. 0 |-> a] \in [0 .. 0 -> S] /\ Fits(0, [k \in 0 .. 0 |-> a])
        OBVIOUS
      <3> QED BY <2>2, <3>1
    <2>3. CASE m # 0
      <3>1. m \in Nat /\ m - 1 \in Nat /\ m - 1 \notin Bad
        <4>1. m \in Nat
          OBVIOUS
        <4> HIDE DEF Bad
        <4> QED BY <2>1, <2>3, <4>1
      <3>2. PICK f \in [0 .. m - 1 -> S] : Fits(m - 1, f)
        BY <3>1
      <3> DEFINE g == [k \in 0 .. m |-> IF k = m THEN F[f[m - 1]] ELSE f[k]]
      <3>3. F[f[m - 1]] \in S
        BY <3>1
      <3>4. g \in [0 .. m -> S] /\ g[0] = a /\ g[m] = F[f[m - 1]]
        BY <2>3, <3>1, <3>2, <3>3
      <3>5. ASSUME NEW k \in 1 .. m PROVE g[k] = F[g[k - 1]]
        <4>1. k - 1 \in 0 .. m /\ k - 1 # m /\ g[k - 1] = f[k - 1]
          BY <3>1
        <4>2. CASE k = m
          BY <3>4, <4>1, <4>2
        <4>3. CASE k # m
          <5>1. k \in 1 .. m - 1 /\ k \in 0 .. m
            BY <3>1, <4>3
          <5> QED BY <3>2, <4>1, <4>3, <5>1
        <4> QED BY <4>2, <4>3
      <3> HIDE DEF g
      <3>6. Fits(m, g)
        BY <3>4, <3>5
      <3> QED BY <2>1, <3>4, <3>6
    <2> QED BY <2>2, <2>3
  <1>2. PICK f \in [0 .. n -> S] : Fits(n, f)
    BY <1>1
  <1> QED BY <1>2 DEF Iterates

\* What each application keeps, all keep.
LEMMA IteratedIn ==
  ASSUME NEW S, NEW n \in Nat, NEW f, f[0] \in S,
         \A k \in 1 .. n : f[k - 1] \in S => f[k] \in S
  PROVE  \A k \in 0 .. n : f[k] \in S
  <1> DEFINE Bad == {k \in 0 .. n : f[k] \notin S}
  <1>1. ASSUME Bad # {} PROVE FALSE
    <2>1. PICK m \in Bad : \A k \in Bad : m <= k
      <3>1. Bad \subseteq Nat
        OBVIOUS
      <3> HIDE DEF Bad
      <3> QED BY <1>1, <3>1, LeastNat
    <2>2. m \in 0 .. n /\ f[m] \notin S /\ m # 0
      OBVIOUS
    <2>3. m \in 1 .. n /\ m - 1 \in 0 .. n /\ m - 1 < m
      BY <2>2
    <2>4. m - 1 \notin Bad
      <3> HIDE DEF Bad
      <3> QED BY <2>1, <2>3
    <2> QED BY <2>2, <2>3, <2>4
  <1> QED BY <1>1

\* Division with remainder.
Divides(D, a, r) == r \in 0 .. D - 1 /\ \E q \in Int : a = D * q + r

\* The remainder is what division leaves.
LEMMA Remainder ==
  ASSUME NEW D \in Nat \ {0}, NEW a \in Int
  PROVE  Divides(D, a, a % D)
  <1> DEFINE q == a \div D
             r == a % D
  <1>1. r = a - D * q
    BY Z3
  <1>2. r \in 0 .. D - 1 /\ q \in Int
    <2>1. r \in 0 .. D - 1
      OBVIOUS
    <2>2. q \in Int
      OBVIOUS
    <2> QED BY <2>1, <2>2
  <1> HIDE DEF q, r
  <1>3. r \in Int
    BY <1>2
  <1>4. a = D * q + r
    BY <1>1, <1>2, <1>3
  <1>5. Divides(D, a, r)
    BY <1>2, <1>4 DEF Divides
  <1> QED BY <1>5 DEF r

\* A remainder is determined by what it leaves.
LEMMA RemainderOf ==
  ASSUME NEW D \in Nat \ {0}, NEW q \in Int, NEW r \in 0 .. D - 1
  PROVE  (D * q + r) % D = r
  OBVIOUS

\* Sums of multiples of D are multiples of D.
LEMMA MultiplesAdd ==
  ASSUME NEW D \in Nat \ {0}, NEW a \in Int, NEW b \in Int, a % D = 0, b % D = 0
  PROVE  (a + b) % D = 0
  <1> DEFINE z == 0
  <1>1. Divides(D, a, z) /\ Divides(D, b, z)
    BY Remainder
  <1>2. PICK i \in Int : a = D * i + z
    BY <1>1 DEF Divides
  <1>3. PICK j \in Int : b = D * j + z
    BY <1>1 DEF Divides
  <1> DEFINE s == i + j
  <1>4. a + b = D * s + z /\ s \in Int /\ z \in 0 .. D - 1
    BY <1>2, <1>3
  <1> HIDE DEF s, z
  <1>5. (D * s + z) % D = z
    BY <1>4, RemainderOf
  <1> QED BY <1>4, <1>5 DEF z

\* A multiple of D that does not exceed a number exceeds it less its remainder no more.
LEMMA MultiplesBelow ==
  ASSUME NEW D \in Nat \ {0}, NEW a \in Int, NEW c \in Int, a % D = 0, c % D >= 2, a <= c
  PROVE  a <= c - 2
  <1> DEFINE r == c % D
             z == 0
  <1>1. Divides(D, a, z) /\ Divides(D, c, r) /\ r >= 2
    BY Remainder
  <1> HIDE DEF r, z
  <1>2. PICK i \in Int : a = D * i + z
    BY <1>1 DEF Divides
  <1>3. PICK j \in Int : c = D * j + r
    BY <1>1 DEF Divides
  <1>4. r \in 2 .. D - 1 /\ z = 0
    BY <1>1 DEF Divides, z
  <1>5. i <= j
    <2>1. i > j => D * i >= D * j + D
      <3>1. i > j => D * i >= D * (j + 1)
        BY <1>2, <1>3
      <3>2. D * (j + 1) = D * j + D
        BY <1>3
      <3> QED BY <3>1, <3>2
    <2> QED BY <1>2, <1>3, <1>4, <2>1
  <1>6. D * i <= D * j
    BY <1>5
  <1> QED BY <1>2, <1>3, <1>4, <1>6

\* Positions are numbers from 0 on, heads of lists are negative, and Null is neither.
LEMMA Places ==
  /\ Null \in Nat \ {0} /\ Positions = 0 .. Null - 1
  /\ \A i \in 0 .. 9 : Head(i) \in Heads /\ Head(i) \in Nodes /\ Head(i) = -1 - i
  /\ \A b \in Heads : b \in Int /\ b < 0
  /\ Positions \subseteq Nodes /\ Null \notin Nodes
  <1>1. PageUnits * MaxPages \in Nat \ {0}
    <2>1. PageUnits \in Nat /\ MaxPages \in Nat /\ PageUnits > 0 /\ MaxPages > 0
      BY PagesAssumption
    <2> QED BY <2>1
  <1>2. Null \in Nat \ {0} /\ Positions = 0 .. Null - 1
    BY <1>1 DEF Null, Positions
  <1>3. \A i \in 0 .. 9 : Head(i) \in Heads /\ Head(i) = -1 - i
    BY DEF Head, Heads
  <1>4. \A b \in Heads : b \in Int /\ b < 0
    BY DEF Head, Heads
  <1>5. \A i \in 0 .. 9 : Head(i) \in Nodes
    BY <1>3 DEF Nodes
  <1>6. Positions \subseteq Nodes
    BY DEF Nodes
  <1>7. Null \notin Positions /\ Null \notin Heads
    BY <1>2, <1>4
  <1>8. Null \notin Nodes
    BY <1>7 DEF Nodes
  <1> QED BY <1>2, <1>3, <1>4, <1>5, <1>6, <1>8

\* The first row of the heap is one of its rows.
LEMMA FirstPlace == 0 \in Positions
  <1>1. Null \in Nat \ {0} /\ Positions = 0 .. Null - 1
    BY Places
  <1> QED BY <1>1

\* Positions and heads of lists are apart, and so are the heads of different lists.
LEMMA Apart ==
  /\ 1 \in Positions
  /\ \A p \in Positions : p \in Nat /\ p \in Nodes /\ p \notin Heads /\ p # Null
  /\ \A i \in 0 .. 9 : /\ Head(i) \in Nodes /\ Head(i) \in Heads /\ Head(i) # Null
                       /\ \A j \in 0 .. 9 : i # j => Head(i) # Head(j)
                       /\ \A p \in Positions : p # Head(i)
  /\ \A i \in 0 .. 8 : i \in 0 .. 9 /\ i # 9 /\ Head(i) # Head(9)
  <1>1. Positions = 0 .. Null - 1 /\ Null \in Nat \ {0} /\ Positions \subseteq Nodes /\ Null \notin Nodes
    BY Places
  <1>2. \A b \in Heads : b \in Int /\ b < 0
    BY Places
  <1>3. \A i \in 0 .. 9 : Head(i) \in Heads /\ Head(i) \in Nodes /\ Head(i) = -1 - i
    BY Places
  <1>4. Null > 1
    <2>1. PageUnits * MaxPages >= PageUnits
      BY PagesAssumption
    <2> QED BY <2>1, PagesAssumption DEF Null
  <1>5. \A i \in 0 .. 8 : i \in 0 .. 9 /\ i # 9
    OBVIOUS
  <1>6. \A i, j \in 0 .. 9 : i # j => Head(i) # Head(j)
    BY <1>3
  <1>7. \A p \in Positions : p \in Nat /\ p \in Nodes /\ p \notin Heads /\ p # Null
    BY <1>1, <1>2
  <1>8. 1 \in Positions /\ 9 \in 0 .. 9
    BY <1>1, <1>4
  <1> QED BY <1>1, <1>3, <1>5, <1>6, <1>7, <1>8

\* The epilogue is the last position of the pages there are.
LEMMA Pages ==
  ASSUME NEW h \in HeapType, h.pages > 0
  PROVE  /\ h.pages \in 1 .. MaxPages
         /\ Epilogue(h) \in Positions /\ Epilogue(h) > 1
         /\ Epilogue(h) = PageUnits * h.pages - 1
         /\ h.pages < MaxPages => /\ Epilogue(h) + PageUnits \in Positions
                                  /\ PageUnits * (h.pages + 1) - 1 = Epilogue(h) + PageUnits
  <1> DEFINE k == h.pages
  <1>1. /\ k \in 1 .. MaxPages /\ MaxPages \in Nat /\ PageUnits \in Nat /\ PageUnits > 2
        /\ Epilogue(h) = PageUnits * k - 1
    BY PagesAssumption DEF HeapType, Epilogue
  <1> HIDE DEF k
  <1>2. PageUnits * k >= PageUnits /\ PageUnits * k <= PageUnits * MaxPages
    <2>1. k >= 1 /\ k <= MaxPages /\ k \in Nat
      BY <1>1
    <2> QED BY <1>1, <2>1
  <1>3. PageUnits * (k + 1) = PageUnits * k + PageUnits
    BY <1>1
  <1>4. k < MaxPages => PageUnits * (k + 1) <= PageUnits * MaxPages
    <2>1. k < MaxPages => k + 1 <= MaxPages /\ k + 1 \in Nat
      BY <1>1
    <2> QED BY <1>1, <2>1
  <1>5. PageUnits * k \in Nat /\ PageUnits * MaxPages \in Nat
    BY <1>1
  <1> QED BY <1>1, <1>2, <1>3, <1>4, <1>5 DEF Positions, k

\* A header word has a size and two flags.
LEMMA Words ==
  ASSUME NEW u \in Int, NEW f \in 0 .. 3
  PROVE  /\ SizeOf(U * u + f) = U * u
         /\ ThisAllocated(U * u + f) <=> f \in {1, 3}
         /\ PrevAllocated(U * u + f) <=> f \in {2, 3}
  BY DEF SizeOf, ThisAllocated, PrevAllocated, U

\* As many units on, or nowhere.
LEMMA Shifted ==
  ASSUME NEW h, NEW p \in Int, NEW u \in Int
  PROVE  Shift(h, p, U * u) = IF p + u \in 0 .. Epilogue(h) THEN p + u ELSE Null
  <1>1. (U * u) % U = 0 /\ (U * u) \div U = u
    BY DEF U
  <1> QED BY <1>1 DEF Shift

\* A request is rounded up to units, its header included.
LEMMA Rounded ==
  ASSUME NEW n \in Nat
  PROVE  /\ Units(n) \in Nat \ {0}
         /\ RoundTo64(n + 8) = U * Units(n) /\ n + 8 <= U * Units(n)
  BY DEF Units, RoundTo64, U

\* A size has one of the lists from 0 to 8.
LEMMA Indexed == ASSUME NEW size PROVE Index(size) \in 0 .. 8
  BY DEF Index

-----------------------------------------------------------------------------
(* Tilings: a set of positions, of which each leads to the next one, and   *)
(* the last one to e.                                                      *)

Tiled(B, t, e) ==
  /\ 1 \in B
  /\ \A p \in B : /\ p \in 1 .. e - 1 /\ p < t[p] /\ t[p] \in B \cup {e}
                  /\ \A q \in B : q <= p \/ t[p] <= q

\* No two blocks lead to the same place, and the last one is behind all others.
LEMMA TiledOnce ==
  ASSUME NEW B, NEW t, NEW e \in Nat, Tiled(B, t, e)
  PROVE  /\ \A p, q \in B : t[p] = t[q] => p = q
         /\ \A p, q \in B : t[p] = e => q <= p
  <1>1. \A p \in B : p \in Nat /\ t[p] \in Nat /\ p < e /\ p < t[p]
    BY DEF Tiled
  <1>2. ASSUME NEW p \in B, NEW q \in B, t[p] = t[q] PROVE p = q
    <2>1. (q <= p \/ t[p] <= q) /\ (p <= q \/ t[q] <= p)
      BY DEF Tiled
    <2> QED BY <1>1, <1>2, <2>1
  <1>3. ASSUME NEW p \in B, NEW q \in B, t[p] = e PROVE q <= p
    <2>1. q <= p \/ t[p] <= q
      BY DEF Tiled
    <2> QED BY <1>1, <1>3, <2>1
  <1> QED BY <1>2, <1>3

\* Every block but the first one has one in front of it.
LEMMA TiledBefore ==
  ASSUME NEW B, NEW t, NEW e \in Nat, Tiled(B, t, e), NEW p \in B, p # 1
  PROVE  \E a \in B : t[a] = p
  <1> DEFINE T == {p - a : a \in {a \in B : a < p}}
  <1>1. \A a \in B : a \in Nat /\ a >= 1 /\ t[a] \in B \cup {e} /\ a < t[a] /\ a < e
    BY DEF Tiled
  <1>2. T \subseteq Nat /\ T # {}
    <2>1. 1 \in B /\ 1 < p
      BY <1>1 DEF Tiled
    <2> QED BY <1>1, <2>1
  <1>3. PICK x \in T : \A y \in T : x <= y
    <2> HIDE DEF T
    <2> QED BY <1>2, LeastNat
  <1>4. PICK a \in B : a < p /\ x = p - a
    OBVIOUS
  <1>5. ASSUME NEW b \in B, b < p PROVE b <= a
    <2>1. p - b \in T
      BY <1>5
    <2>2. x <= p - b
      <3> HIDE DEF T
      <3> QED BY <1>3, <2>1
    <2>3. a \in Nat /\ b \in Nat /\ p \in Nat
      BY <1>1
    <2> HIDE DEF T
    <2> QED BY <1>4, <2>2, <2>3
  <1>6. t[a] <= p
    <2>1. p <= a \/ t[a] <= p
      BY DEF Tiled
    <2> QED BY <1>1, <1>4, <2>1
  <1>7. t[a] = p
    <2>1. t[a] \in B
      BY <1>1, <1>6
    <2>2. t[a] < p => t[a] <= a
      BY <1>5, <2>1
    <2>3. a \in Nat /\ p \in Nat /\ t[a] \in Nat /\ a < t[a]
      BY <1>1, <2>1
    <2> QED BY <1>6, <2>2, <2>3
  <1> QED BY <1>7

\* The last block gets longer.
LEMMA TiledLonger ==
  ASSUME NEW B \in SUBSET Positions, NEW t \in [Positions -> Positions], NEW e \in Positions,
         Tiled(B, t, e), NEW w \in B, t[w] = e, NEW f \in Positions, e < f
  PROVE  Tiled(B, [t EXCEPT ![w] = f], f)
  <1>1. \A p \in Positions : p \in Nat
    BY Places
  <1>2. \A p, q \in B : (t[p] = t[q] => p = q) /\ (t[p] = e => q <= p)
    BY <1>1, TiledOnce
  <1> DEFINE s == [t EXCEPT ![w] = f]
  <1>3. s[w] = f /\ \A p \in B : p # w => s[p] = t[p]
    OBVIOUS
  <1> HIDE DEF s
  <1>4. ASSUME NEW p \in B
        PROVE  /\ p \in 1 .. f - 1 /\ p < s[p] /\ s[p] \in B \cup {f}
               /\ \A q \in B : q <= p \/ s[p] <= q
    <2>1. p \in 1 .. e - 1 /\ p < t[p] /\ t[p] \in B \cup {e}
      BY DEF Tiled
    <2>2. CASE p = w
      <3>1. \A q \in B : q <= p
        BY <1>2, <2>2
      <3> QED BY <1>1, <1>3, <2>1, <2>2, <3>1
    <2>3. CASE p # w
      <3>1. t[p] # e
        BY <1>2, <2>3
      <3>2. s[p] = t[p] /\ \A q \in B : q <= p \/ t[p] <= q
        BY <1>3, <2>3 DEF Tiled
      <3> QED BY <1>1, <2>1, <3>1, <3>2
    <2> QED BY <2>2, <2>3
  <1> QED BY <1>4 DEF Tiled, s

\* The last block is cut in two.
LEMMA TiledSplit ==
  ASSUME NEW B \in SUBSET Positions, NEW t \in [Positions -> Positions], NEW e \in Positions,
         Tiled(B, t, e), NEW w \in B, t[w] = e, NEW v \in Positions, w < v, v < e
  PROVE  /\ v \notin B
         /\ Tiled(B \cup {v}, [t EXCEPT ![w] = v, ![v] = e], e)
  <1>1. \A p \in Positions : p \in Nat
    BY Places
  <1>2. \A p, q \in B : (t[p] = t[q] => p = q) /\ (t[p] = e => q <= p)
    BY <1>1, TiledOnce
  <1>3. v \notin B /\ \A q \in B : q <= w /\ q < v /\ q < e
    <2>1. \A q \in B : q <= w
      BY <1>2
    <2> QED BY <1>1, <2>1
  <1> DEFINE s == [t EXCEPT ![w] = v, ![v] = e]
             C == B \cup {v}
  <1>4. s[w] = v /\ s[v] = e /\ \A p \in B : p # w => s[p] = t[p]
    BY <1>3
  <1> HIDE DEF s
  <1>5. ASSUME NEW p \in C
        PROVE  /\ p \in 1 .. e - 1 /\ p < s[p] /\ s[p] \in C \cup {e}
               /\ \A q \in C : q <= p \/ s[p] <= q
    <2>1. CASE p = v
      <3>1. \A q \in C : q <= v
        BY <1>1, <1>3
      <3>2. v \in 1 .. e - 1
        BY <1>1
      <3> QED BY <1>1, <1>4, <2>1, <3>1, <3>2
    <2>2. CASE p = w
      <3>1. \A q \in C : q <= w \/ v <= q
        BY <1>1, <1>3
      <3>2. w \in 1 .. e - 1
        BY DEF Tiled
      <3> QED BY <1>1, <1>4, <2>2, <3>1, <3>2
    <2>3. CASE p \in B /\ p # w
      <3>1. /\ p \in 1 .. e - 1 /\ p < t[p] /\ t[p] \in B \cup {e}
            /\ \A q \in B : q <= p \/ t[p] <= q
        BY <2>3 DEF Tiled
      <3>2. t[p] # e
        BY <1>2, <2>3
      <3>3. t[p] <= v
        <4>1. t[p] \in B /\ t[p] \in Nat /\ v \in Nat
          BY <1>1, <3>1, <3>2
        <4>2. t[p] < v
          BY <1>3, <4>1
        <4> QED BY <4>1, <4>2
      <3>4. s[p] = t[p]
        BY <1>4, <2>3
      <3> QED BY <1>1, <3>1, <3>2, <3>3, <3>4
    <2> QED BY <2>1, <2>2, <2>3
  <1>6. 1 \in C
    BY DEF Tiled
  <1> QED BY <1>3, <1>5, <1>6 DEF Tiled, s

\* A block takes in the next one.
LEMMA TiledMerge ==
  ASSUME NEW B \in SUBSET Positions, NEW t \in [Positions -> Positions], NEW e \in Positions,
         Tiled(B, t, e), NEW p \in B, t[p] \in B
  PROVE  /\ p # t[p]
         /\ Tiled(B \ {t[p]}, [t EXCEPT ![p] = t[t[p]]], e)
  <1> DEFINE n == t[p]
             s == [t EXCEPT ![p] = t[n]]
             C == B \ {n}
  <1>1. \A q \in Positions : q \in Nat
    BY Places
  <1>2. \A q, r \in B : t[q] = t[r] => q = r
    BY <1>1, TiledOnce
  <1>3. p \in 1 .. e - 1 /\ p < n /\ n \in B /\ n # p /\ n # 1
    BY <1>1 DEF Tiled
  <1>4. s[p] = t[n] /\ \A q \in B : q # p => s[q] = t[q]
    OBVIOUS
  <1>5. n < t[n] /\ t[n] \in B \cup {e} /\ \A q \in B : q <= n \/ t[n] <= q
    BY <1>3 DEF Tiled
  <1>6. \A q \in B : q <= p \/ n <= q
    BY DEF Tiled
  <1>7. n \in Nat /\ t[n] \in Nat
    BY <1>1, <1>3
  <1> HIDE DEF s, n
  <1>8. ASSUME NEW q \in C
        PROVE  /\ q \in 1 .. e - 1 /\ q < s[q] /\ s[q] \in C \cup {e}
               /\ \A r \in C : r <= q \/ s[q] <= r
    <2>1. CASE q = p
      <3>1. p < t[n] /\ t[n] # n
        BY <1>1, <1>3, <1>5, <1>7
      <3>2. ASSUME NEW r \in C PROVE r <= p \/ t[n] <= r
        <4>1. r \in Nat /\ r # n /\ (r <= p \/ n <= r) /\ (r <= n \/ t[n] <= r)
          BY <1>1, <1>5, <1>6
        <4> QED BY <1>7, <4>1
      <3> QED BY <1>3, <1>4, <1>5, <2>1, <3>1, <3>2
    <2>2. CASE q # p
      <3>1. /\ q \in 1 .. e - 1 /\ q < t[q] /\ t[q] \in B \cup {e}
            /\ \A r \in B : r <= q \/ t[q] <= r
        BY DEF Tiled
      <3>2. t[q] # n
        BY <1>2, <2>2 DEF n
      <3>3. s[q] = t[q]
        BY <1>4, <2>2
      <3> QED BY <3>1, <3>2, <3>3
    <2> QED BY <2>1, <2>2
  <1>9. 1 \in C
    BY <1>3 DEF Tiled
  <1>10. Tiled(C, s, e)
    BY <1>8, <1>9 DEF Tiled
  <1> QED BY <1>3, <1>10 DEF s, n

-----------------------------------------------------------------------------
(* The heap as a row: l says what the client holds, t where each block      *)
(* ends, H is the hole, a free block among the client's ones, or empty, and *)
(* w the wilderness.                                                       *)

Blocks(l, H, w) == Held(l) \cup H \cup {w}

Tiles(h, l, t, H, w) ==
  /\ l \in [Positions -> Sizes \cup {-1}] /\ t \in [Positions -> Positions]
  /\ H \subseteq Positions /\ w \in Positions
  /\ w \notin Held(l) \cup H /\ H \cap Held(l) = {} /\ \A b, c \in H : b = c
  /\ Tiled(Blocks(l, H, w), t, Epilogue(h)) /\ t[w] = Epilogue(h)
  /\ \A p \in Held(l) : t[p] = p + Units(l[p])
  /\ \A b \in H : t[b] \in Held(l)

\* The block behind the hole knows that it is free, all others that there is none.
BlockFlags(p, t, H) == IF \E b \in H : t[b] = p THEN 1 ELSE 3

TaggedWith(h, l, t, H, w) ==
  /\ h.hdr[Epilogue(h)] = 1 /\ h.foot[1] = U + 3
  /\ \E f \in {0, 2} : h.hdr[w] = U * (Epilogue(h) - w) + f
  /\ h.foot[Epilogue(h)] = h.hdr[w]
  /\ \A p \in Held(l) : h.hdr[p] = U * (t[p] - p) + BlockFlags(p, t, H)
  /\ \A b \in H : h.hdr[b] = U * (t[b] - b) + 2 /\ h.foot[t[b]] = h.hdr[b]

\* The list of a head is empty, or it has one block.
Ring(h, i, b) ==
  /\ h.next[Head(i)] = b /\ h.prev[Head(i)] = b
  /\ h.next[b] = Head(i) /\ h.prev[b] = Head(i)

Linked(h, t, H, w) ==
  /\ Ring(h, 9, w)
  /\ \A i \in 0 .. 8 :
       /\ (\A b \in H : Index(U * (t[b] - b)) # i) => Ring(h, i, Head(i))
       /\ \A b \in H : Index(U * (t[b] - b)) = i => Ring(h, i, b)

Row(h, l, t, H, w) ==
  /\ h \in HeapType /\ h.fault = "none" /\ h.pages > 0
  /\ Tiles(h, l, t, H, w) /\ TaggedWith(h, l, t, H, w) /\ Linked(h, t, H, w)

-----------------------------------------------------------------------------
(* What the operations on lists change.                                    *)

\* What putting a block in the list of the wilderness does to the fields.
LEMMA SetWildernessFields ==
  ASSUME NEW h \in HeapType, NEW b \in Positions
  PROVE  /\ SetWilderness(h, b) \in HeapType
         /\ SetWilderness(h, b).hdr = h.hdr /\ SetWilderness(h, b).foot = h.foot
         /\ SetWilderness(h, b).pages = h.pages /\ SetWilderness(h, b).ret = h.ret
         /\ SetWilderness(h, b).fault = h.fault
         /\ SetWilderness(h, b).next = [h.next EXCEPT ![b] = Head(9), ![Head(9)] = b]
         /\ SetWilderness(h, b).prev = [h.prev EXCEPT ![b] = Head(9), ![Head(9)] = b]
  <1>1. Head(9) \in Nodes /\ b \in Nodes
    BY Places
  <1> QED BY <1>1 DEF SetWilderness, HeapType

Added(h, b, i, k) ==
  /\ k \in HeapType /\ k.hdr = h.hdr /\ k.foot = h.foot /\ k.pages = h.pages
  /\ k.ret = h.ret /\ k.fault = h.fault
  /\ k.next = [h.next EXCEPT ![Head(i)] = b, ![b] = Head(i)]
  /\ k.prev = [h.prev EXCEPT ![b] = Head(i), ![Head(i)] = b]

\* What putting a block in an empty list does to the fields.
LEMMA AddNewBlockFields ==
  ASSUME NEW h \in HeapType, NEW b \in Positions, NEW i \in 0 .. 8,
         h.next[Head(i)] = Head(i)
  PROVE  Added(h, b, i, AddNewBlock(h, b, i))
  <1> DEFINE next == [h.next EXCEPT ![Head(i)] = b, ![b] = Head(i)]
             prev == [h.prev EXCEPT ![b] = Head(i), ![Head(i)] = b]
  <1>1. Head(i) \in Nodes /\ b \in Nodes
    <2>1. i \in 0 .. 9
      OBVIOUS
    <2> QED BY <2>1, Places
  <1>2. AddNewBlock(h, b, i) = [h EXCEPT !.next = next, !.prev = prev]
    BY DEF AddNewBlock
  <1>3. next \in [Nodes -> Nodes \cup {Null}] /\ prev \in [Nodes -> Nodes \cup {Null}]
    BY <1>1 DEF HeapType
  <1> HIDE DEF next, prev
  <1> DEFINE k == AddNewBlock(h, b, i)
  <1> HIDE DEF k
  <1>4. /\ k \in HeapType /\ k.hdr = h.hdr /\ k.foot = h.foot /\ k.pages = h.pages
        /\ k.ret = h.ret /\ k.fault = h.fault /\ k.next = next /\ k.prev = prev
    <2>1. k = [h EXCEPT !.next = next, !.prev = prev]
      BY <1>2 DEF k
    <2> QED BY <1>3, <2>1 DEF HeapType
  <1> QED BY <1>4 DEF next, prev, k, Added

Removed(h, i, k) ==
  /\ k \in HeapType /\ k.hdr = h.hdr /\ k.foot = h.foot /\ k.pages = h.pages
  /\ k.ret = h.ret /\ k.fault = h.fault
  /\ k.next = [h.next EXCEPT ![Head(i)] = Head(i)]
  /\ k.prev = [h.prev EXCEPT ![Head(i)] = Head(i)]

\* What taking the only block out of its list does to the fields.
LEMMA UnlinkFields ==
  ASSUME NEW h \in HeapType, NEW b \in Positions, NEW i \in 0 .. 9,
         h.next[b] = Head(i), h.prev[b] = Head(i)
  PROVE  Removed(h, i, Unlink(h, b))
  <1>1. Head(i) \in Nodes /\ b \in Nodes /\ Head(i) # Null
    BY Places
  <1> DEFINE next == [h.next EXCEPT ![Head(i)] = Head(i)]
             prev == [h.prev EXCEPT ![Head(i)] = Head(i)]
  <1>2. Unlink(h, b) = [h EXCEPT !.next = next, !.prev = prev]
    BY <1>1 DEF Unlink
  <1>3. next \in [Nodes -> Nodes \cup {Null}] /\ prev \in [Nodes -> Nodes \cup {Null}]
    BY <1>1 DEF HeapType
  <1> HIDE DEF next, prev
  <1> DEFINE k == Unlink(h, b)
  <1> HIDE DEF k
  <1>4. /\ k \in HeapType /\ k.hdr = h.hdr /\ k.foot = h.foot /\ k.pages = h.pages
        /\ k.ret = h.ret /\ k.fault = h.fault /\ k.next = next /\ k.prev = prev
    <2>1. k = [h EXCEPT !.next = next, !.prev = prev]
      BY <1>2 DEF k
    <2> QED BY <1>3, <2>1 DEF HeapType
  <1> QED BY <1>4 DEF next, prev, k, Removed

-----------------------------------------------------------------------------
(* sf_malloc.                                                              *)

\* The first call makes a heap of one page, all of it wilderness (sfmm.c:67-132).
LEMMA InitHeapSound ==
  ASSUME NEW h \in HeapType, h.pages = 0, h.fault = "none",
         NEW l \in [Positions -> Sizes \cup {-1}], Held(l) = {}
  PROVE  \E t : Row(InitHeap(h), l, t, {}, 1)
  <1> DEFINE e == PageUnits - 1
             size == U * (PageUnits - 2) + 2
             k == [h EXCEPT !.pages = 1,
                     !.next = [b \in Nodes |-> IF b \in Heads THEN b ELSE @[b]],
                     !.prev = [b \in Nodes |-> IF b \in Heads THEN b ELSE @[b]],
                     !.hdr[0] = U + 3, !.foot[1] = U + 3,
                     !.hdr[1] = size, !.hdr[e] = 1, !.foot[e] = size]
             g == SetWilderness(k, 1)
             t == [p \in Positions |-> e]
  <1>0. /\ PageUnits \in Nat /\ PageUnits > 2 /\ MaxPages \in Nat /\ MaxPages > 0
        /\ U = 64 /\ Heads \subseteq Nodes
    BY PagesAssumption DEF U, Nodes
  <1>1. g = InitHeap(h)
    BY DEF InitHeap, Bytes
  <1>2. 0 \in Positions /\ 1 \in Positions /\ e \in Positions /\ e > 1
    <2>1. PageUnits <= Null
      BY <1>0 DEF Null
    <2> QED BY <1>0, <2>1, Places
  <1>3. /\ k \in HeapType /\ k.pages = 1 /\ k.fault = "none"
        /\ k.hdr = [h.hdr EXCEPT ![0] = U + 3, ![1] = size, ![e] = 1]
        /\ k.foot = [h.foot EXCEPT ![1] = U + 3, ![e] = size]
        /\ k.next = [b \in Nodes |-> IF b \in Heads THEN b ELSE h.next[b]]
        /\ k.prev = [b \in Nodes |-> IF b \in Heads THEN b ELSE h.prev[b]]
    <2>1. size \in Int /\ U + 3 \in Int /\ 1 \in Int /\ 1 \in 0 .. MaxPages
      BY <1>0
    <2> HIDE DEF size, e
    <2>4. k.hdr = [h.hdr EXCEPT ![0] = U + 3, ![1] = size, ![e] = 1]
      BY DEF HeapType
    <2>6. k.foot = [h.foot EXCEPT ![1] = U + 3, ![e] = size]
      BY DEF HeapType
    <2>7. /\ k.next = [b \in Nodes |-> IF b \in Heads THEN b ELSE h.next[b]]
          /\ k.prev = [b \in Nodes |-> IF b \in Heads THEN b ELSE h.prev[b]]
      BY DEF HeapType
    <2>8. k.pages = 1 /\ k.fault = h.fault
      BY DEF HeapType
    <2>9. k \in HeapType
      <3> DEFINE a == [h EXCEPT !.pages = 1,
                        !.next = [b \in Nodes |-> IF b \in Heads THEN b ELSE @[b]],
                        !.prev = [b \in Nodes |-> IF b \in Heads THEN b ELSE @[b]]]
                 c == [a EXCEPT !.hdr[0] = U + 3, !.foot[1] = U + 3,
                                !.hdr[1] = size, !.hdr[e] = 1, !.foot[e] = size]
      <3>1. a \in HeapType
        BY <1>0, <2>1 DEF HeapType
      <3>2. c = k
        OBVIOUS
      <3> HIDE DEF a
      <3>3. c \in HeapType
        BY <1>2, <2>1, <3>1 DEF HeapType
      <3> QED BY <3>2, <3>3
    <2> HIDE DEF k
    <2> QED BY <2>4, <2>6, <2>7, <2>8, <2>9
  <1> HIDE DEF k
  <1>4. /\ g \in HeapType /\ g.pages = 1 /\ g.fault = "none" /\ g.hdr = k.hdr /\ g.foot = k.foot
        /\ g.next = [k.next EXCEPT ![1] = Head(9), ![Head(9)] = 1]
        /\ g.prev = [k.prev EXCEPT ![1] = Head(9), ![Head(9)] = 1]
    <2> DEFINE one == 1
    <2>1. one \in Positions /\ g = SetWilderness(k, one) /\ k \in HeapType
      BY <1>2, <1>3
    <2> HIDE DEF one, g
    <2>2. /\ g \in HeapType /\ g.pages = k.pages /\ g.fault = k.fault
          /\ g.hdr = k.hdr /\ g.foot = k.foot
          /\ g.next = [k.next EXCEPT ![one] = Head(9), ![Head(9)] = one]
          /\ g.prev = [k.prev EXCEPT ![one] = Head(9), ![Head(9)] = one]
      <3> HIDE DEF t, e, size
      <3>1. k \in HeapType /\ one \in Positions
        BY <2>1
      <3> DEFINE o == SetWilderness(k, one)
      <3>2. /\ o \in HeapType /\ o.pages = k.pages /\ o.fault = k.fault
            /\ o.hdr = k.hdr /\ o.foot = k.foot
            /\ o.next = [k.next EXCEPT ![one] = Head(9), ![Head(9)] = one]
            /\ o.prev = [k.prev EXCEPT ![one] = Head(9), ![Head(9)] = one]
        BY ONLY <3>1, SetWildernessFields
      <3> HIDE DEF o
      <3>3. g = o
        BY <2>1 DEF o
      <3> QED BY <3>2, <3>3
    <2> QED BY <1>3, <2>2 DEF one
  <1> HIDE DEF g
  <1>5. Epilogue(g) = e
    BY <1>0, <1>4 DEF Epilogue
  <1>6. Tiles(g, l, t, {}, 1)
    <2>1. Blocks(l, {}, 1) = {1}
      BY DEF Blocks
    <2>2. t[1] = e
      BY <1>2
    <2>3. Tiled({1}, t, e)
      <3>1. 1 \in 1 .. e - 1
        BY <1>0, <1>2
      <3> QED BY <1>2, <2>2, <3>1 DEF Tiled
    <2> HIDE DEF e
    <2>4. t \in [Positions -> Positions]
      BY <1>2
    <2> QED BY <1>2, <1>5, <2>1, <2>2, <2>3, <2>4 DEF Tiles
  <1>7. TaggedWith(g, l, t, {}, 1)
    <2>1. g.hdr[e] = 1 /\ g.hdr[1] = size /\ g.foot[1] = U + 3 /\ g.foot[e] = size
      BY <1>2, <1>3, <1>4 DEF HeapType
    <2>2. size = U * (e - 1) + 2
      BY <1>0
    <2> QED BY <1>5, <2>1, <2>2 DEF TaggedWith
  <1>8. Linked(g, t, {}, 1)
    <2>1. Ring(g, 9, 1)
      <3>1. Head(9) \in Nodes /\ 1 \in Nodes /\ Head(9) # 1
        BY <1>2, Places
      <3> QED BY <1>3, <1>4, <3>1 DEF Ring
    <2>2. ASSUME NEW i \in 0 .. 8 PROVE Ring(g, i, Head(i))
      <3>1. Head(i) \in Heads /\ Head(i) \in Nodes /\ Head(i) # 1 /\ Head(i) # Head(9)
        <4>1. i \in 0 .. 9 /\ 9 \in 0 .. 9 /\ i # 9
          OBVIOUS
        <4>2. /\ Head(i) \in Heads /\ Head(i) \in Nodes /\ Head(i) = -1 - i
              /\ Head(9) = -1 - 9
          BY <4>1, Places
        <4> QED BY <4>1, <4>2
      <3> QED BY <1>3, <1>4, <3>1 DEF Ring
    <2> QED BY <2>1, <2>2 DEF Linked
  <1> QED BY <1>1, <1>4, <1>6, <1>7, <1>8 DEF Row

-----------------------------------------------------------------------------
(* What a row says of its blocks.                                          *)

\* Blocks are positions in front of the epilogue, their header words lead to the next
\* block and say what they are, and the wilderness is the last one.
LEMMA RowBlocks ==
  ASSUME NEW h, NEW l, NEW t, NEW H, NEW w, Row(h, l, t, H, w)
  PROVE  /\ h \in HeapType /\ h.fault = "none" /\ h.pages > 0 /\ Epilogue(h) \in Positions
         /\ \A p \in Blocks(l, H, w) :
              /\ p \in Positions /\ p \in Nat /\ p >= 1 /\ p < Epilogue(h) /\ p <= w
              /\ t[p] \in Positions /\ t[p] \in Nat /\ p < t[p] /\ t[p] <= Epilogue(h)
              /\ SizeOf(h.hdr[p]) = U * (t[p] - p) /\ NextBlock(h, p) = t[p]
              /\ h.hdr[p] \in Int /\ (ThisAllocated(h.hdr[p]) <=> p \in Held(l))
         /\ \A p \in Held(l) \cup H : t[p] \in Blocks(l, H, w) /\ t[p] # Epilogue(h)
         /\ \A p \in Held(l) : PrevAllocated(h.hdr[p]) <=> \A b \in H : t[b] # p
         /\ \A b \in H : PrevAllocated(h.hdr[b])
         /\ w \in Blocks(l, H, w) /\ Wilderness(h) = w /\ Wilderness(h) # Head(9)
  <1> DEFINE e == Epilogue(h)
             B == Blocks(l, H, w)
  <1>1. /\ h \in HeapType /\ h.fault = "none" /\ h.pages > 0
        /\ Tiles(h, l, t, H, w) /\ TaggedWith(h, l, t, H, w) /\ Linked(h, t, H, w)
    BY DEF Row
  <1>2. e \in Positions /\ e \in Nat /\ \A p \in Positions : p \in Nat
    <2>1. e \in Positions
      BY <1>1, Pages
    <2>2. \A p \in Positions : p \in Nat
      BY Places
    <2> HIDE DEF e
    <2> QED BY <2>1, <2>2
  <1>3. /\ Tiled(B, t, e) /\ t[w] = e /\ w \in B /\ H \cap Held(l) = {} /\ w \notin Held(l) \cup H
        /\ t \in [Positions -> Positions] /\ B \subseteq Positions
    BY <1>1 DEF Tiles, Blocks, Held
  <1>4. \A p, q \in B : (t[p] = t[q] => p = q) /\ (t[p] = e => q <= p)
    BY <1>2, <1>3, TiledOnce
  <1>5. ASSUME NEW p \in B
        PROVE  /\ p \in Positions /\ p \in Nat /\ p >= 1 /\ p < e /\ p <= w
               /\ t[p] \in Positions /\ t[p] \in Nat /\ p < t[p] /\ t[p] <= e
               /\ t[p] \in B \cup {e}
    <2>1. p \in 1 .. e - 1 /\ p < t[p] /\ t[p] \in B \cup {e}
      BY <1>3 DEF Tiled
    <2>2. \A q \in B : q \in 1 .. e - 1
      BY <1>3 DEF Tiled
    <2>3. t[p] \in Positions /\ t[p] \in Nat
      BY <1>2, <1>3
    <2> QED BY <1>2, <1>3, <1>4, <2>1, <2>2, <2>3
  <1>6. ASSUME NEW p \in B
        PROVE  \E f \in 0 .. 3 : /\ h.hdr[p] = U * (t[p] - p) + f
                                 /\ f \in {1, 3} <=> p \in Held(l)
                                 /\ p \in H => f = 2
                                 /\ p \in Held(l) => (f = 3 <=> \A b \in H : t[b] # p)
    <2>1. CASE p = w
      BY <1>1, <1>3, <2>1 DEF TaggedWith
    <2>2. CASE p \in Held(l)
      <3>1. h.hdr[p] = U * (t[p] - p) + BlockFlags(p, t, H) /\ p \notin H
        BY <1>1, <1>3, <2>2 DEF TaggedWith
      <3>2. /\ BlockFlags(p, t, H) \in 0 .. 3 /\ BlockFlags(p, t, H) \in {1, 3}
            /\ BlockFlags(p, t, H) = 3 <=> \A b \in H : t[b] # p
        BY DEF BlockFlags
      <3> QED BY <2>2, <3>1, <3>2
    <2>3. CASE p \in H
      <3>1. h.hdr[p] = U * (t[p] - p) + 2 /\ p \notin Held(l)
        BY <1>1, <1>3, <2>3 DEF TaggedWith
      <3>2. 2 \in 0 .. 3 /\ 2 \notin {1, 3}
        OBVIOUS
      <3> QED BY <3>1, <3>2
    <2> QED BY <2>1, <2>2, <2>3 DEF Blocks
  <1>7. ASSUME NEW p \in B
        PROVE  /\ SizeOf(h.hdr[p]) = U * (t[p] - p) /\ NextBlock(h, p) = t[p]
               /\ h.hdr[p] \in Int /\ (ThisAllocated(h.hdr[p]) <=> p \in Held(l))
               /\ p \in H => PrevAllocated(h.hdr[p])
               /\ p \in Held(l) => (PrevAllocated(h.hdr[p]) <=> \A b \in H : t[b] # p)
    <2> DEFINE u == t[p] - p
    <2>1. u \in Int /\ p + u = t[p] /\ p \in Int /\ p + u \in 0 .. e
      BY <1>2, <1>5
    <2>2. PICK f \in 0 .. 3 : /\ h.hdr[p] = U * u + f
                              /\ f \in {1, 3} <=> p \in Held(l)
                              /\ p \in H => f = 2
                              /\ p \in Held(l) => (f = 3 <=> \A b \in H : t[b] # p)
      BY <1>6
    <2> HIDE DEF u
    <2>3. /\ SizeOf(h.hdr[p]) = U * u
          /\ ThisAllocated(h.hdr[p]) <=> f \in {1, 3}
          /\ PrevAllocated(h.hdr[p]) <=> f \in {2, 3}
      BY <2>1, <2>2, Words
    <2>4. NextBlock(h, p) = t[p]
      BY <2>1, <2>3, Shifted DEF NextBlock
    <2>5. h.hdr[p] \in Int
      BY <1>1, <1>5 DEF HeapType
    <2> QED BY <2>2, <2>3, <2>4, <2>5 DEF u
  <1>8. ASSUME NEW p \in Held(l) \cup H PROVE t[p] \in B /\ t[p] # e
    <2>1. p \in B /\ p # w
      BY <1>3 DEF Blocks
    <2>2. t[p] # e
      BY <1>3, <1>4, <2>1
    <2> QED BY <1>5, <2>1, <2>2
  <1>9. Wilderness(h) = w /\ w # Head(9)
    <2>1. h.next[Head(9)] = w
      BY <1>1 DEF Linked, Ring
    <2>2. Head(9) < 0 /\ w \in Nat
      BY <1>3, <1>5, Places
    <2> QED BY <2>1, <2>2 DEF Wilderness
  <1> QED BY <1>1, <1>2, <1>3, <1>5, <1>7, <1>8, <1>9 DEF Blocks

\* What malloc and free return does not matter to the row.
LEMMA RowRet ==
  ASSUME NEW h, NEW l, NEW t, NEW H, NEW w, Row(h, l, t, H, w), NEW r \in Positions
  PROVE  /\ Row([h EXCEPT !.ret = r], l, t, H, w)
         /\ [h EXCEPT !.ret = r].ret = r /\ [h EXCEPT !.ret = r].foot = h.foot
         /\ [h EXCEPT !.ret = r].pages = h.pages /\ [h EXCEPT !.ret = r].fault = h.fault
  <1> DEFINE k == [h EXCEPT !.ret = r]
  <1>1. h \in HeapType
    BY DEF Row
  <1>2. /\ k \in HeapType /\ k.hdr = h.hdr /\ k.foot = h.foot /\ k.next = h.next
        /\ k.prev = h.prev /\ k.pages = h.pages /\ k.fault = h.fault /\ k.ret = r
    BY <1>1 DEF HeapType
  <1> HIDE DEF k
  <1>3. Epilogue(k) = Epilogue(h)
    BY <1>2 DEF Epilogue
  <1>4. Tiles(k, l, t, H, w) /\ TaggedWith(k, l, t, H, w)
    BY <1>2, <1>3 DEF Row, Tiles, TaggedWith
  <1>5. Linked(k, t, H, w)
    BY <1>2 DEF Row, Linked, Ring
  <1>6. Row(k, l, t, H, w)
    BY <1>2, <1>4, <1>5 DEF Row
  <1> QED BY <1>2, <1>6 DEF k

\* Another page makes the wilderness longer (sfmm.c:217-252, the heap not being full).
LEMMA GrowHeapSound ==
  ASSUME NEW h, NEW l, NEW t, NEW H, NEW w, Row(h, l, t, H, w), h.pages < MaxPages
  PROVE  /\ Row(GrowHeap(h), l, [t EXCEPT ![w] = Epilogue(h) + PageUnits], H, w)
         /\ GrowHeap(h).pages = h.pages + 1 /\ GrowHeap(h).ret = h.ret
         /\ \A b \in Positions : b <= Epilogue(h) => GrowHeap(h).foot[b] = h.foot[b]
  <1> DEFINE e == Epilogue(h)
             f == e + PageUnits
             s == [t EXCEPT ![w] = f]
             g == GrowHeap(h)
             pg == Bytes(PageUnits)
             x == h.hdr[w] + pg
             B == Blocks(l, H, w)
  <1>1. /\ h \in HeapType /\ h.fault = "none" /\ h.pages > 0
        /\ Tiles(h, l, t, H, w) /\ TaggedWith(h, l, t, H, w) /\ Linked(h, t, H, w)
    BY DEF Row
  <1>2. /\ e \in Positions /\ f \in Positions /\ e \in Nat /\ f \in Nat /\ e < f /\ e > 1
        /\ PageUnits \in Nat /\ PageUnits * (h.pages + 1) - 1 = f /\ h.pages \in 1 .. MaxPages
        /\ MaxPages \in Nat
    <2>1. e \in Positions /\ f \in Positions /\ e > 1
      BY <1>1, Pages
    <2>2. \A p \in Positions : p \in Nat
      BY Places
    <2>3. PageUnits * (h.pages + 1) - 1 = f /\ h.pages \in 1 .. MaxPages
      BY <1>1, Pages
    <2> HIDE DEF e
    <2> QED BY <2>1, <2>2, <2>3, PagesAssumption
  <1>3. /\ \A p \in B : p \in Positions /\ p \in Nat /\ p < e /\ t[p] \in Nat /\ t[p] <= e
        /\ w \in B /\ w \in Positions /\ Wilderness(h) = w /\ w # Head(9)
        /\ \A p \in Held(l) \cup H : t[p] \in B /\ t[p] # e
    BY RowBlocks
  <1>4. h.hdr[w] \in Int /\ pg \in Int /\ x \in Int
    BY <1>1, <1>2, <1>3 DEF HeapType, Bytes, U
  <1>5. /\ g \in HeapType /\ g.fault = "none" /\ g.pages = h.pages + 1 /\ g.ret = h.ret
        /\ g.hdr = [h.hdr EXCEPT ![e] = pg, ![w] = x, ![f] = 1]
        /\ g.foot = [h.foot EXCEPT ![f] = x] /\ g.next = h.next /\ g.prev = h.prev
    <2> DEFINE pp == h.pages + 1
               k == [h EXCEPT !.pages = @ + 1, !.hdr[e] = pg]
               a == [k EXCEPT !.hdr[w] = @ + pg]
               c == [a EXCEPT !.hdr[f] = 1, !.foot[f] = a.hdr[w]]
    <2>1. pp \in 0 .. MaxPages
      BY <1>2
    <2>2. /\ k \in HeapType /\ k.hdr = [h.hdr EXCEPT ![e] = pg] /\ k.foot = h.foot
          /\ k.next = h.next /\ k.prev = h.prev /\ k.pages = pp /\ k.ret = h.ret
          /\ k.fault = h.fault
      <3> HIDE DEF e, pg
      <3> QED BY <1>1, <1>2, <1>4, <2>1 DEF HeapType
    <2> HIDE DEF k
    <2>3. k.hdr[w] = h.hdr[w]
      BY <1>1, <1>2, <1>3, <2>2 DEF HeapType
    <2>4. /\ a \in HeapType /\ a.hdr = [h.hdr EXCEPT ![e] = pg, ![w] = x] /\ a.foot = h.foot
          /\ a.next = h.next /\ a.prev = h.prev /\ a.pages = pp /\ a.ret = h.ret
          /\ a.fault = h.fault
      <3> HIDE DEF e, pg
      <3> QED BY <1>1, <1>3, <1>4, <2>2, <2>3 DEF HeapType
    <2>5. a.hdr[w] = x
      BY <1>1, <1>3, <2>4 DEF HeapType
    <2>6. Epilogue(k) = f
      BY <1>2, <2>2 DEF Epilogue
    <2>7. Wilderness(a) = w
      BY <1>3, <2>4 DEF Wilderness
    <2>8. g = c
      BY <1>3, <2>6, <2>7 DEF GrowHeap, k, pg
    <2> HIDE DEF a
    <2>9. /\ c \in HeapType /\ c.hdr = [h.hdr EXCEPT ![e] = pg, ![w] = x, ![f] = 1]
          /\ c.foot = [h.foot EXCEPT ![f] = x]
          /\ c.next = h.next /\ c.prev = h.prev /\ c.pages = pp /\ c.ret = h.ret
          /\ c.fault = h.fault
      <3> HIDE DEF e, pg, f, x
      <3> DEFINE d == [a EXCEPT !.hdr[f] = 1]
      <3>1. c = [d EXCEPT !.foot[f] = x]
        BY <2>5
      <3>2. /\ d \in HeapType /\ d.hdr = [h.hdr EXCEPT ![e] = pg, ![w] = x, ![f] = 1]
            /\ d.foot = h.foot /\ d.next = h.next /\ d.prev = h.prev /\ d.pages = pp
            /\ d.ret = h.ret /\ d.fault = h.fault
        BY <1>2, <2>4 DEF HeapType
      <3> HIDE DEF d, c
      <3> QED BY <1>2, <1>4, <3>1, <3>2 DEF HeapType
    <2> HIDE DEF c
    <2> QED BY <1>1, <2>8, <2>9
  <1> HIDE DEF g
  <1>6. Epilogue(g) = f
    BY <1>2, <1>5 DEF Epilogue
  <1> HIDE DEF e, f, pg
  <1>7. s[w] = f /\ \A p \in Held(l) \cup H : s[p] = t[p] /\ p # w
    <2>1. w \notin Held(l) \cup H /\ t \in [Positions -> Positions]
      BY <1>1 DEF Tiles
    <2> QED BY <1>3, <2>1
  <1>8. Tiles(g, l, s, H, w)
    <2>1. Tiled(B, t, e) /\ t[w] = e /\ t \in [Positions -> Positions] /\ B \in SUBSET Positions
      BY <1>1, <1>3 DEF Tiles, e
    <2>2. Tiled(B, s, f)
      BY <1>2, <1>3, <2>1, TiledLonger
    <2>3. s \in [Positions -> Positions]
      BY <1>2, <2>1
    <2> HIDE DEF s
    <2> QED BY <1>1, <1>6, <1>7, <2>2, <2>3 DEF Tiles
  <1>9. \A p \in B : p # w => g.hdr[p] = h.hdr[p]
    <2>1. h.hdr \in [Positions -> Int]
      BY <1>1 DEF HeapType
    <2> QED BY <1>2, <1>3, <1>5, <2>1
  <1>10. \A b \in Positions : b <= e => g.foot[b] = h.foot[b]
    <2>1. h.foot \in [Positions -> Int] /\ \A b \in Positions : b \in Nat
      BY <1>1, Places DEF HeapType
    <2> QED BY <1>2, <1>5, <2>1
  <1>11. TaggedWith(g, l, s, H, w)
    <2>1. g.hdr[f] = 1 /\ g.hdr[w] = x /\ g.foot[f] = x
      <3>1. h.hdr \in [Positions -> Int] /\ h.foot \in [Positions -> Int]
        BY <1>1 DEF HeapType
      <3> QED BY <1>2, <1>3, <1>5, <3>1
    <2>2. g.foot[1] = U + 3
      <3>1. 1 \in Positions
        BY <1>2, Places
      <3>2. h.foot[1] = U + 3
        BY <1>1 DEF TaggedWith
      <3> QED BY <1>2, <1>10, <3>1, <3>2
    <2>3. \E c \in {0, 2} : g.hdr[w] = U * (f - w) + c
      <3>1. PICK c \in {0, 2} : h.hdr[w] = U * (e - w) + c
        BY <1>1 DEF TaggedWith, e
      <3>2. x = U * (e - w) + c + U * PageUnits
        BY <3>1 DEF x, pg, Bytes
      <3>3. x = U * (f - w) + c
        BY <1>2, <1>3, <3>2 DEF f, U
      <3> QED BY <2>1, <3>3
    <2>4. \A p \in Held(l) : /\ g.hdr[p] = U * (s[p] - p) + BlockFlags(p, t, H)
                             /\ BlockFlags(p, t, H) = BlockFlags(p, s, H)
      BY <1>1, <1>7, <1>9 DEF TaggedWith, Blocks, BlockFlags
    <2>5. \A b \in H : g.hdr[b] = U * (s[b] - b) + 2 /\ g.foot[s[b]] = g.hdr[b]
      <3>1. \A b \in H : b \in B /\ h.hdr[b] = U * (t[b] - b) + 2 /\ h.foot[t[b]] = h.hdr[b]
        BY <1>1 DEF TaggedWith, Blocks
      <3>2. \A b \in H : t[b] \in Positions /\ t[b] <= e
        BY <1>3, <3>1
      <3> QED BY <1>7, <1>9, <1>10, <3>1, <3>2
    <2> HIDE DEF s, x
    <2> QED BY <1>6, <2>1, <2>2, <2>3, <2>4, <2>5 DEF TaggedWith
  <1>12. Linked(g, s, H, w)
    BY <1>1, <1>5, <1>7 DEF Linked, Ring
  <1>13. Row(g, l, s, H, w)
    BY <1>2, <1>1, <1>5, <1>8, <1>11, <1>12 DEF Row
  <1> QED BY <1>5, <1>10, <1>13 DEF g, s, e, f

\* What growing keeps: the row, but for the length of the wilderness, and the footers of
\* the client's blocks.
Grown(h, l, t, H, w, k) ==
  /\ \E s : Row(k, l, s, H, w) /\ \A p \in Held(l) \cup H : s[p] = t[p]
  /\ \A p \in Held(l) : k.foot[t[p]] = h.foot[t[p]]

\* Growing the heap for a request leaves the row of blocks sound.
LEMMA GrowToSound ==
  ASSUME NEW h, NEW l, NEW t, NEW H, NEW w, Row(h, l, t, H, w), NEW size
  PROVE  Grown(h, l, t, H, w, GrowTo(h, size))
  <1> DEFINE Step(k) == IF WildernessFits(k, size) \/ k.pages = MaxPages THEN k ELSE GrowHeap(k)
             S == {k \in HeapType : Grown(h, l, t, H, w, k)}
             F == [k \in S |-> Step(k)]
  <1>1. MaxPages \in Nat /\ h \in HeapType
    BY PagesAssumption DEF Row
  <1>2. ASSUME NEW k \in S PROVE Step(k) \in S
    <2>1. PICK s : Row(k, l, s, H, w) /\ \A p \in Held(l) \cup H : s[p] = t[p]
      BY DEF Grown
    <2>2. k \in HeapType /\ \A p \in Held(l) : k.foot[t[p]] = h.foot[t[p]]
      BY DEF Grown
    <2>3. CASE WildernessFits(k, size) \/ k.pages = MaxPages
      BY <2>3
    <2>4. CASE ~(WildernessFits(k, size) \/ k.pages = MaxPages)
      <3> DEFINE f == Epilogue(k) + PageUnits
                 r == [s EXCEPT ![w] = f]
      <3>1. k.pages < MaxPages
        BY <1>1, <2>2, <2>4 DEF HeapType
      <3>2. /\ Row(GrowHeap(k), l, r, H, w)
            /\ \A b \in Positions : b <= Epilogue(k) => GrowHeap(k).foot[b] = k.foot[b]
        BY <2>1, <3>1, GrowHeapSound
      <3>3. w \notin Held(l) \cup H /\ s \in [Positions -> Positions]
        BY <2>1 DEF Row, Tiles
      <3>4. \A p \in Held(l) \cup H : r[p] = t[p]
        BY <2>1, <3>3
      <3>5. \A p \in Held(l) : s[p] \in Positions /\ s[p] <= Epilogue(k)
        BY <2>1, RowBlocks DEF Blocks
      <3>6. GrowHeap(k) \in HeapType
        BY <3>2 DEF Row
      <3> HIDE DEF r
      <3>7. \A p \in Held(l) : GrowHeap(k).foot[t[p]] = h.foot[t[p]]
        BY <2>1, <2>2, <3>2, <3>5
      <3>8. Grown(h, l, t, H, w, GrowHeap(k))
        BY <3>2, <3>4, <3>7 DEF Grown
      <3> QED BY <2>4, <3>6, <3>8
    <2> QED BY <2>3, <2>4
  <1>3. h \in S
    BY <1>1 DEF Grown
  <1> HIDE DEF S
  <1>4. F \in [S -> S]
    BY <1>2
  <1>5. PICK f \in [0 .. MaxPages -> S] :
          f[0] = h /\ \A k \in 1 .. MaxPages : f[k] = F[f[k - 1]]
    <2> HIDE DEF F
    <2>1. \E f : Iterates(f, S, F, h, MaxPages)
      BY <1>1, <1>3, <1>4, Iterated
    <2> QED BY <2>1 DEF Iterates
  <1>6. f = [n \in 0 .. MaxPages |-> IF n = 0 THEN h ELSE Step(f[n - 1])]
    <2>1. ASSUME NEW n \in 0 .. MaxPages, n # 0 PROVE f[n] = Step(f[n - 1])
      <3>1. n \in 1 .. MaxPages /\ n - 1 \in 0 .. MaxPages
        BY <1>1, <2>1
      <3>2. f[n - 1] \in S
        BY <3>1
      <3> HIDE DEF Step
      <3> QED BY <1>5, <3>1, <3>2
    <2> HIDE DEF Step
    <2> QED BY <1>5, <2>1
  <1>7. \E g : /\ g = [n \in 0 .. MaxPages |-> IF n = 0 THEN h ELSE Step(g[n - 1])]
               /\ GrowTo(h, size) = g[MaxPages]
    BY <1>6 DEF GrowTo
  <1>8. PICK g : /\ g = [n \in 0 .. MaxPages |-> IF n = 0 THEN h ELSE Step(g[n - 1])]
                 /\ GrowTo(h, size) = g[MaxPages]
    BY <1>7
  <1> HIDE DEF Step
  <1>9. g[0] = h
    BY <1>1, <1>8
  <1>10. ASSUME NEW n \in 1 .. MaxPages, g[n - 1] \in S PROVE g[n] \in S
    <2>1. n \in 0 .. MaxPages /\ n # 0
      BY <1>1
    <2>2. g[n] = Step(g[n - 1])
      BY <1>8, <2>1
    <2> QED BY <1>2, <1>10, <2>2
  <1>11. g[MaxPages] \in S
    <2>1. \A n \in 0 .. MaxPages : g[n] \in S
      BY <1>1, <1>3, <1>9, <1>10, IteratedIn
    <2> QED BY <1>1, <2>1
  <1> QED BY <1>8, <1>11 DEF S

\* The front of the wilderness is cut off for the client, if two units of it stay
\* (sfmm.c:257-306).
LEMMA AllocateWildernessSound ==
  ASSUME NEW h, NEW l, NEW t, NEW w, Row(h, l, t, {}, w), NEW n \in Sizes,
         WildernessFits(h, U * Units(n)),
         w + Units(n) <= Epilogue(h) => w + Units(n) <= Epilogue(h) - 2
  PROVE  /\ Row(AllocateWilderness(h, U * Units(n)), [l EXCEPT ![w] = n],
                [t EXCEPT ![w] = w + Units(n), ![w + Units(n)] = Epilogue(h)], {}, w + Units(n))
         /\ AllocateWilderness(h, U * Units(n)).ret = w
         /\ AllocateWilderness(h, U * Units(n)).foot[w + Units(n)] % 2 = 1
         /\ \A b \in Positions : b <= w => AllocateWilderness(h, U * Units(n)).foot[b] = h.foot[b]
  <1> DEFINE e == Epilogue(h)
             u == Units(n)
             v == w + u
             size == U * u
             s == [t EXCEPT ![w] = v, ![v] = e]
             m == [l EXCEPT ![w] = n]
             B == Blocks(l, {}, w)
             g == AllocateWilderness(h, size)
             rest == h.hdr[w] - size
  <1>1. /\ h \in HeapType /\ h.fault = "none" /\ h.pages > 0
        /\ Tiles(h, l, t, {}, w) /\ TaggedWith(h, l, t, {}, w) /\ Linked(h, t, {}, w)
    BY DEF Row
  <1>2. /\ e \in Positions /\ w \in B
        /\ \A p \in B : /\ p \in Positions /\ p \in Nat /\ p >= 1 /\ p < e /\ p <= w
                        /\ t[p] \in Positions /\ t[p] \in Nat /\ t[p] <= e
        /\ SizeOf(h.hdr[w]) = U * (t[w] - w) /\ h.hdr[w] \in Int
        /\ Wilderness(h) = w /\ Wilderness(h) # Head(9)
    BY RowBlocks
  <1>3. /\ t[w] = e /\ t \in [Positions -> Positions] /\ Tiled(B, t, e)
        /\ l \in [Positions -> Sizes \cup {-1}] /\ w \notin Held(l) /\ B \in SUBSET Positions
    BY <1>1, <1>2 DEF Tiles
  <1>4. \A p \in Positions : p \in Nat /\ p \in Nodes /\ p >= 0 /\ p <= Null - 1 /\ Null \in Nat
    BY Places
  <1>5. /\ u \in Nat /\ u > 0 /\ size \in Int /\ n \in Nat
    BY Rounded, SizesAssumption DEF U
  <1> HIDE DEF e, u
  <1>6. /\ w \in Nat /\ w >= 1 /\ e \in Nat /\ w \in Positions
        /\ v \in Nat /\ w < v /\ v <= e - 2 /\ v \in Positions /\ v # e /\ w # e
    <2>1. w \in Nat /\ w >= 1 /\ e \in Nat /\ w \in Positions
      BY <1>2, <1>4
    <2>2. SizeAt(h, w) = U * (e - w)
      <3>1. w \notin Heads
        <4>1. \A c \in Heads : c < 0
          BY Places
        <4> HIDE DEF v
        <4> QED BY <2>1, <4>1
      <3> QED BY <1>2, <1>3, <3>1 DEF SizeAt
    <2>3. U * (e - w) >= U * u
      BY <1>2, <2>2 DEF WildernessFits, u
    <2>4. w + u <= e
      BY <1>5, <2>1, <2>3 DEF U
    <2>5. v <= e - 2
      BY <2>4 DEF u, e
    <2>6. e <= Null - 1 /\ Null \in Nat /\ Positions = 0 .. Null - 1
      BY <1>2, <1>4, Places
    <2> HIDE DEF size
    <2> QED BY <1>5, <2>1, <2>5, <2>6
  <1>7. PICK f \in {0, 2} : h.hdr[w] = U * (e - w) + f
    BY <1>1 DEF TaggedWith, e
  <1>8. rest = U * (e - v) + f /\ rest \in Int /\ SizeOf(h.hdr[w]) - size > U
    BY <1>2, <1>3, <1>5, <1>6, <1>7 DEF U
  <1>9. Shift(h, w, size) = v
    <2>1. w \in Int /\ u \in Int /\ w + u \in 0 .. Epilogue(h)
      BY <1>5, <1>6 DEF e
    <2> QED BY <2>1, Shifted
  <1>10. /\ g \in HeapType /\ g.fault = "none" /\ g.pages = h.pages /\ g.ret = w
         /\ g.hdr = [h.hdr EXCEPT ![v] = rest, ![w] = size + 3, ![e] = 1]
         /\ g.foot = [h.foot EXCEPT ![v] = size + 1, ![e] = rest]
         /\ g.next = [h.next EXCEPT ![v] = Head(9), ![Head(9)] = v]
         /\ g.prev = [h.prev EXCEPT ![v] = Head(9), ![Head(9)] = v]
    <2> DEFINE k == [h EXCEPT !.foot[v] = size + 1, !.hdr[v] = rest, !.hdr[w] = size + 3]
               a == SetWilderness(k, v)
               c == [a EXCEPT !.hdr[e] = 1, !.foot[e] = rest, !.ret = w]
    <2>1. g = c
      BY <1>2, <1>8, <1>9 DEF AllocateWilderness, e
    <2>5. /\ h \in HeapType /\ size + 1 \in Int /\ size + 3 \in Int /\ rest \in Int
          /\ v \in Positions /\ w \in Positions /\ e \in Positions /\ 1 \in Int
      <3> HIDE DEF size, rest, v
      <3> QED BY <1>1, <1>2, <1>5, <1>6, <1>8
    <2> HIDE DEF size, rest, v
    <2>2. /\ k \in HeapType /\ k.fault = h.fault /\ k.pages = h.pages
          /\ k.next = h.next /\ k.prev = h.prev
          /\ k.hdr = [h.hdr EXCEPT ![v] = rest, ![w] = size + 3]
          /\ k.foot = [h.foot EXCEPT ![v] = size + 1]
      BY <2>5 DEF HeapType
    <2> HIDE DEF k
    <2>3. /\ a \in HeapType /\ a.fault = h.fault /\ a.pages = h.pages
          /\ a.hdr = k.hdr /\ a.foot = k.foot
          /\ a.next = [h.next EXCEPT ![v] = Head(9), ![Head(9)] = v]
          /\ a.prev = [h.prev EXCEPT ![v] = Head(9), ![Head(9)] = v]
      BY <1>6, <2>2, SetWildernessFields
    <2> HIDE DEF a
    <2>4. /\ c \in HeapType /\ c.fault = h.fault /\ c.pages = h.pages /\ c.ret = w
          /\ c.hdr = [h.hdr EXCEPT ![v] = rest, ![w] = size + 3, ![e] = 1]
          /\ c.foot = [h.foot EXCEPT ![v] = size + 1, ![e] = rest]
          /\ c.next = a.next /\ c.prev = a.prev
      BY <2>5, <2>2, <2>3 DEF HeapType
    <2> HIDE DEF c
    <2> QED BY <1>1, <2>1, <2>3, <2>4
  <1> HIDE DEF g
  <1>11. Epilogue(g) = e
    BY <1>10 DEF Epilogue, e
  <1>12. /\ m \in [Positions -> Sizes \cup {-1}] /\ Held(m) = Held(l) \cup {w} /\ m[w] = n
         /\ \A p \in Held(l) : m[p] = l[p] /\ p # w
    BY <1>3, <1>5, <1>6 DEF Held
  <1>13. Blocks(m, {}, v) = B \cup {v}
    BY <1>12 DEF Blocks
  <1>14. v \notin B /\ Tiled(B \cup {v}, s, e)
    <2>1. v < e
      BY <1>6
    <2> HIDE DEF v, B
    <2> QED BY <1>2, <1>3, <1>6, <2>1, TiledSplit
  <1>15. s[w] = v /\ s[v] = e /\ \A p \in Held(l) : s[p] = t[p] /\ p # v /\ p # e
    <2>1. \A p \in Held(l) : p \in B /\ p # e
      BY <1>2 DEF Blocks
    <2>2. \A p \in Held(l) : p # v /\ p # w /\ p \in Positions
      BY <1>12, <1>14, <2>1 DEF Held
    <2>3. v # w
      BY <1>5, <1>6
    <2> HIDE DEF v
    <2> QED BY <1>3, <1>6, <2>1, <2>2, <2>3
  <1>16. s \in [Positions -> Positions]
    <2> HIDE DEF v
    <2> QED BY <1>2, <1>3, <1>6
  <1> HIDE DEF s, m
  <1>17. Tiles(g, m, s, {}, v)
    <2>1. \A p \in Held(m) : s[p] = p + Units(m[p])
      BY <1>1, <1>12, <1>15 DEF Tiles, u
    <2>2. v \notin Held(m)
      BY <1>12, <1>14, <1>15, <1>6
    <2> HIDE DEF v
    <2> QED BY <1>6, <1>11, <1>12, <1>13, <1>14, <1>15, <1>16, <2>1, <2>2 DEF Tiles
  <1>18. /\ g.hdr[e] = 1 /\ g.hdr[v] = rest /\ g.hdr[w] = size + 3
         /\ g.foot[v] = size + 1 /\ g.foot[e] = rest
         /\ \A p \in Held(l) : g.hdr[p] = h.hdr[p]
         /\ \A b \in Positions : b <= w => g.foot[b] = h.foot[b]
    <2>1. h.hdr \in [Positions -> Int] /\ h.foot \in [Positions -> Int]
      BY <1>1 DEF HeapType
    <2>2. \A b \in Positions : b <= w => b # v /\ b # e
      BY <1>4, <1>6
    <2> HIDE DEF v, size, rest
    <2> QED BY <1>2, <1>6, <1>10, <1>12, <1>15, <2>1, <2>2 DEF Held
  <1>19. TaggedWith(g, m, s, {}, v)
    <2>1. g.foot[1] = U + 3
      <3>1. 1 \in Positions /\ 1 <= w
        BY <1>6, Places
      <3> QED BY <1>1, <1>18, <3>1 DEF TaggedWith
    <2>2. \A p \in Held(m) : g.hdr[p] = U * (s[p] - p) + BlockFlags(p, s, {})
      <3>1. \A p, r : BlockFlags(p, r, {}) = 3
        BY DEF BlockFlags
      <3>2. \A p \in Held(l) : g.hdr[p] = U * (s[p] - p) + 3
        BY <1>1, <1>15, <1>18, <3>1 DEF TaggedWith
      <3>3. g.hdr[w] = U * (s[w] - w) + 3
        <4>1. s[w] - w = u
          BY <1>5, <1>6, <1>15
        <4> QED BY <1>18, <4>1
      <3> QED BY <1>12, <3>1, <3>2, <3>3
    <2>3. \E c \in {0, 2} : g.hdr[v] = U * (e - v) + c
      BY <1>8, <1>18
    <2> HIDE DEF v, rest
    <2> QED BY <1>11, <1>18, <2>1, <2>2, <2>3 DEF TaggedWith
  <1>20. Linked(g, s, {}, v)
    <2>1. h.next \in [Nodes -> Nodes \cup {Null}] /\ h.prev \in [Nodes -> Nodes \cup {Null}]
      BY <1>1 DEF HeapType
    <2>2. Head(9) \in Nodes /\ v \in Nodes /\ v # Head(9)
      <3>1. 9 \in 0 .. 9
        OBVIOUS
      <3>2. Head(9) \in Nodes /\ Head(9) = -1 - 9
        BY <3>1, Places
      <3> HIDE DEF v
      <3> QED BY <1>4, <1>6, <3>2
    <2> HIDE DEF v
    <2>3. Ring(g, 9, v)
      BY <1>10, <2>1, <2>2 DEF Ring
    <2>4. ASSUME NEW i \in 0 .. 8 PROVE Ring(g, i, Head(i))
      <3>1. Head(i) \in Nodes /\ Head(i) # Head(9) /\ Head(i) # v
        <4>1. i \in 0 .. 9 /\ 9 \in 0 .. 9 /\ i # 9
          OBVIOUS
        <4>2. /\ Head(i) \in Heads /\ Head(i) \in Nodes /\ Head(i) = -1 - i
              /\ Head(9) = -1 - 9
          BY <4>1, Places
        <4> QED BY <1>6, <4>1, <4>2
      <3>2. Ring(h, i, Head(i))
        BY <1>1 DEF Linked
      <3> QED BY <1>10, <2>1, <2>2, <3>1, <3>2 DEF Ring
    <2> QED BY <2>3, <2>4 DEF Linked
  <1>21. Row(g, m, s, {}, v)
    BY <1>1, <1>10, <1>17, <1>19, <1>20 DEF Row
  <1>22. g.foot[v] % 2 = 1
    BY <1>5, <1>18 DEF U
  <1> QED BY <1>10, <1>18, <1>21, <1>22 DEF g, s, m, e, u

\* The client writes on the payload of a block: the row is as before, and so are all
\* footers but, if the block is used to its last bytes, the one behind it.
LEMMA OverwrittenSound ==
  ASSUME NEW h, NEW l, NEW t, NEW w, Row(h, l, t, {}, w), NEW q \in Held(l), l[q] \in Sizes
  PROVE  /\ Row(Overwritten(h, q, l[q], Zero), l, t, {}, w)
         /\ Overwritten(h, q, l[q], Zero).ret = h.ret
         /\ \A b \in Positions : b <= q \/ b > t[q] \/ (b = t[q] /\ ~UsesFooter(l[q]))
                                   => Overwritten(h, q, l[q], Zero).foot[b] = h.foot[b]
  <1> DEFINE n == l[q]
             e == Epilogue(h)
             In(b, o) == b \in Positions /\ b >= q /\ Bytes(b - q) + o >= 0 /\ Bytes(b - q) + o < n
             foot == [b \in Positions |-> IF In(b, -16) THEN Zero.foot[b] ELSE h.foot[b]]
             hdr == [b \in Positions |-> IF In(b, -8) THEN Zero.hdr[b] ELSE h.hdr[b]]
             next == [b \in Nodes |-> IF In(b, 0) THEN Zero.next[b] ELSE h.next[b]]
             prev == [b \in Nodes |-> IF In(b, 8) THEN Zero.prev[b] ELSE h.prev[b]]
             g == Overwritten(h, q, n, Zero)
  <1>1. /\ h \in HeapType /\ h.fault = "none" /\ h.pages > 0
        /\ Tiles(h, l, t, {}, w) /\ TaggedWith(h, l, t, {}, w) /\ Linked(h, t, {}, w)
    BY DEF Row
  <1>2. /\ e \in Positions /\ w \in Blocks(l, {}, w)
        /\ \A p \in Held(l) \cup {w} :
             /\ p \in Positions /\ p \in Nat /\ p >= 1 /\ p < e /\ p <= w
             /\ t[p] \in Positions /\ t[p] \in Nat /\ p < t[p] /\ t[p] <= e
        /\ \A p \in Held(l) : t[p] # e
    BY RowBlocks DEF Blocks
  <1>3. /\ \A p \in Positions : p \in Nat /\ p \in Nodes
        /\ \A p \in Heads : p < 0 /\ p \in Int /\ \A r \in Positions : p # r
    <2>1. /\ Positions = 0 .. Null - 1 /\ Null \in Nat /\ Positions \subseteq Nodes
          /\ \A b \in Heads : b \in Int /\ b < 0
      BY Places
    <2> QED BY <2>1
  <1>4. /\ n \in Nat /\ Units(n) \in Nat \ {0} /\ n + 8 <= U * Units(n) /\ t[q] = q + Units(n)
    BY <1>1, Rounded, SizesAssumption DEF Tiles
  <1>5. /\ Zero.foot \in [Positions -> Int] /\ Zero.hdr \in [Positions -> Int]
        /\ Zero.next \in [Positions -> {Null}] /\ Zero.prev \in [Positions -> {Null}]
    BY DEF Zero
  <1>6. ASSUME NEW b \in Positions
        PROVE  /\ In(b, -16) => b > q /\ (b < t[q] \/ (b = t[q] /\ UsesFooter(n)))
               /\ In(b, -8) => b > q /\ b < t[q]
               /\ In(b, 0) \/ In(b, 8) => b >= q /\ b < t[q]
    <2>1. b \in Nat /\ q \in Nat
      BY <1>2, <1>3
    <2> HIDE DEF n
    <2> QED BY <1>4, <2>1 DEF Bytes, U, UsesFooter
  <1>7. /\ g \in HeapType /\ g.foot = foot /\ g.hdr = hdr /\ g.next = next /\ g.prev = prev
        /\ g.pages = h.pages /\ g.ret = h.ret /\ g.fault = h.fault
    <2>1. /\ foot \in [Positions -> Int] /\ hdr \in [Positions -> Int]
          /\ next \in [Nodes -> Nodes \cup {Null}] /\ prev \in [Nodes -> Nodes \cup {Null}]
      <3> HIDE DEF In
      <3>1. /\ foot \in [Positions -> Int] /\ hdr \in [Positions -> Int]
        BY <1>1, <1>5 DEF HeapType
      <3>2. \A b, o : In(b, o) => b \in Positions
        BY DEF In
      <3> QED BY <1>1, <1>5, <3>1, <3>2 DEF HeapType
    <2>2. g = [h EXCEPT !.foot = foot, !.hdr = hdr, !.next = next, !.prev = prev]
      BY DEF Overwritten
    <2> HIDE DEF foot, hdr, next, prev, g
    <2> QED BY <1>1, <2>1, <2>2 DEF HeapType
  <1> HIDE DEF g
  <1>8. Epilogue(g) = e
    BY <1>7 DEF Epilogue
  <1> HIDE DEF e
  <1>9. \A b \in Positions : b <= q \/ b > t[q] \/ (b = t[q] /\ ~UsesFooter(n))
                               => g.foot[b] = h.foot[b]
    <2>1. \A b \in Positions : ~In(b, -16) => g.foot[b] = h.foot[b]
      BY <1>7
    <2>2. q \in Nat /\ t[q] \in Nat /\ q < t[q]
      BY <1>2
    <2> HIDE DEF In, n
    <2> QED BY <1>3, <1>6, <2>1, <2>2
  <1>10. \A p \in Held(l) \cup {w} : p <= q \/ t[q] <= p
    BY <1>1 DEF Tiles, Tiled, Blocks
  <1>11. \A p \in Held(l) \cup {w, e} : g.hdr[p] = h.hdr[p]
    <2>1. \A b \in Positions : ~In(b, -8) => g.hdr[b] = h.hdr[b]
      BY <1>7
    <2>2. \A p \in Held(l) \cup {w, e} : p \in Positions /\ (p <= q \/ t[q] <= p)
      BY <1>2, <1>10
    <2>3. q \in Nat /\ t[q] \in Nat
      BY <1>2
    <2> HIDE DEF In, n
    <2> QED BY <1>3, <1>6, <2>1, <2>2, <2>3
  <1>12. ASSUME NEW b \in Heads \cup {w}
         PROVE  b \in Nodes /\ g.next[b] = h.next[b] /\ g.prev[b] = h.prev[b]
    <2>1. b \in Nodes /\ ~In(b, 0) /\ ~In(b, 8)
      <3>1. CASE b \in Heads
        BY <1>3, <3>1 DEF Nodes
      <3>2. CASE b = w
        <4>1. w \in Positions /\ q <= w /\ w # q /\ q \in Nat /\ t[q] \in Nat
          BY <1>1, <1>2 DEF Tiles
        <4>2. t[q] <= w
          BY <1>3, <1>10, <4>1
        <4>3. ~(w >= q /\ w < t[q])
          BY <1>3, <4>1, <4>2
        <4> HIDE DEF In
        <4> QED BY <1>3, <1>6, <3>2, <4>1, <4>3
      <3> QED BY <3>1, <3>2
    <2> HIDE DEF In
    <2> QED BY <1>7, <2>1
  <1> HIDE DEF n
  <1>13. Tiles(g, l, t, {}, w)
    BY <1>1, <1>8 DEF Tiles, e
  <1>14. TaggedWith(g, l, t, {}, w)
    <2>1. g.foot[1] = h.foot[1] /\ g.foot[e] = h.foot[e]
      <3>1. 1 \in Positions /\ 1 <= q
        <4>1. q \in Positions /\ q >= 1 /\ Positions = 0 .. Null - 1 /\ Null \in Nat
          BY <1>2, Places
        <4> QED BY <4>1
      <3>2. e > t[q] /\ e \in Positions
        BY <1>2, <1>3
      <3> QED BY <1>9, <3>1, <3>2
    <2> QED BY <1>1, <1>8, <1>11, <2>1 DEF TaggedWith, e
  <1>15. Linked(g, t, {}, w)
    <2>1. \A i \in 0 .. 9 : Head(i) \in Heads
      BY Places
    <2>2. Ring(g, 9, w)
      <3>1. 9 \in 0 .. 9 /\ Ring(h, 9, w)
        BY <1>1 DEF Linked
      <3> QED BY <1>12, <2>1, <3>1 DEF Ring
    <2>3. ASSUME NEW i \in 0 .. 8 PROVE Ring(g, i, Head(i))
      <3>1. i \in 0 .. 9 /\ Ring(h, i, Head(i))
        BY <1>1 DEF Linked
      <3> QED BY <1>12, <2>1, <3>1 DEF Ring
    <2> QED BY <2>2, <2>3 DEF Linked
  <1>16. Row(g, l, t, {}, w)
    BY <1>1, <1>7, <1>13, <1>14, <1>15 DEF Row
  <1> QED BY <1>7, <1>9, <1>16 DEF g, n

\* A list whose head leads to itself or to a block that is large enough is searched at once.
LEMMA FirstFitAtOnce ==
  ASSUME NEW h, NEW i, NEW size,
         h.next[Head(i)] = Head(i) \/ SizeAt(h, h.next[Head(i)]) >= size
  PROVE  FirstFit(h, i, size) = h.next[Head(i)]
  <1> DEFINE c == h.next[Head(i)]
             N == PageUnits * MaxPages
             Stop(b) == b \in {Head(i), Null} \/ SizeAt(h, b) >= size
             Step(b) == IF Stop(b) THEN b ELSE h.next[b]
             f == [n \in 0 .. N |-> c]
  <1>1. N \in Nat
    BY Places DEF Null
  <1>2. Stop(c) /\ Step(c) = c
    OBVIOUS
  <1>3. f = [n \in 0 .. N |-> IF n = 0 THEN c ELSE Step(f[n - 1])]
    <2>1. ASSUME NEW n \in 0 .. N, n # 0 PROVE Step(f[n - 1]) = c
      <3>1. n - 1 \in 0 .. N
        BY <1>1, <2>1
      <3>2. f[n - 1] = c
        BY <3>1
      <3> HIDE DEF Step, f, c
      <3> QED BY <1>2, <3>2
    <2> HIDE DEF Step
    <2> QED BY <2>1
  <1>4. \E g : /\ g = [n \in 0 .. N |-> IF n = 0 THEN c ELSE Step(g[n - 1])]
               /\ FirstFit(h, i, size) = IF Stop(g[N]) THEN g[N] ELSE Null
    BY <1>3 DEF FirstFit
  <1>5. PICK g : /\ g = [n \in 0 .. N |-> IF n = 0 THEN c ELSE Step(g[n - 1])]
                 /\ FirstFit(h, i, size) = IF Stop(g[N]) THEN g[N] ELSE Null
    BY <1>4
  <1> HIDE DEF Stop, Step, c, N
  <1> DEFINE S == {c}
  <1>6. g[0] \in S
    BY <1>1, <1>5
  <1>7. ASSUME NEW n \in 1 .. N, g[n - 1] \in S PROVE g[n] \in S
    <2>1. n \in 0 .. N /\ n # 0
      BY <1>1
    <2> QED BY <1>2, <1>5, <1>7, <2>1
  <1>8. g[N] = c
    <2> HIDE DEF S
    <2>1. \A n \in 0 .. N : g[n] \in S
      BY <1>1, <1>6, <1>7, IteratedIn
    <2> QED BY <1>1, <2>1 DEF S
  <1> QED BY <1>2, <1>5, <1>8 DEF c

\* Without a hole there is nothing in the lists (sfmm.c:147-162).
LEMMA SearchFindsNone ==
  ASSUME NEW h, NEW l, NEW t, NEW w, Row(h, l, t, {}, w), NEW size
  PROVE  SearchFreeLists(h, size) = Head(8)
  <1>1. \A i \in 0 .. 8 : h.next[Head(i)] = Head(i)
    BY DEF Row, Linked, Ring
  <1>2. \A i \in 0 .. 8 : FirstFit(h, i, size) = Head(i)
    BY <1>1, FirstFitAtOnce
  <1>3. \A i \in Index(size) .. 8 : i \in 0 .. 8
    BY Indexed
  <1>4. {i \in Index(size) .. 8 : FirstFit(h, i, size) # Head(i)} = {}
    BY <1>2, <1>3
  <1> QED BY <1>4 DEF SearchFreeLists

\* A hole of the size that is asked for is found.
LEMMA SearchFindsHole ==
  ASSUME NEW h, NEW l, NEW t, NEW H, NEW w, Row(h, l, t, H, w), NEW b \in H
  PROVE  SearchFreeLists(h, U * (t[b] - b)) = b
  <1> DEFINE size == U * (t[b] - b)
             j == Index(size)
             Hits == {i \in Index(size) .. 8 : FirstFit(h, i, size) # Head(i)}
  <1>1. /\ Linked(h, t, H, w) /\ \A c \in H : c = b
        /\ b \in Positions /\ SizeOf(h.hdr[b]) = size /\ t[b] \in Int /\ b \in Int
    <2>1. b \in Blocks(l, H, w)
      BY DEF Blocks
    <2>2. /\ b \in Positions /\ SizeOf(h.hdr[b]) = size /\ t[b] \in Nat /\ b \in Nat
      BY <2>1, RowBlocks
    <2> QED BY <2>2 DEF Row, Tiles
  <1>2. j \in 0 .. 8 /\ j \in j .. 8 /\ \A i \in j .. 8 : i \in 0 .. 8
    <2>1. j \in 0 .. 8
      <3> HIDE DEF size
      <3> QED BY Indexed
    <2> HIDE DEF j
    <2> QED BY <2>1
  <1>3. b \notin Heads
    <2>1. b \in Positions /\ Positions = 0 .. Null - 1 /\ Null \in Nat
      BY <1>1, Places
    <2>2. \A c \in Heads : c \in Int /\ c < 0
      BY Places
    <2> QED BY <2>1, <2>2
  <1>4. FirstFit(h, j, size) = b
    <2>1. h.next[Head(j)] = b
      BY <1>1, <1>2 DEF Linked, Ring
    <2>2. SizeAt(h, b) = size /\ size \in Int
      BY <1>1, <1>3 DEF SizeAt, U
    <2> HIDE DEF size
    <2>3. SizeAt(h, b) >= size
      BY <2>2
    <2> QED BY <2>1, <2>3, FirstFitAtOnce
  <1>5. ASSUME NEW i \in 0 .. 8, i # j PROVE FirstFit(h, i, size) = Head(i)
    <2>1. h.next[Head(i)] = Head(i)
      BY <1>1, <1>5 DEF Linked, Ring
    <2> QED BY <2>1, FirstFitAtOnce
  <1>6. \A i \in 0 .. 8 : Head(i) \in Heads
    <2>1. \A i \in 0 .. 8 : i \in 0 .. 9
      OBVIOUS
    <2> QED BY <2>1, Places
  <1>7. Hits = {j}
    <2> HIDE DEF size
    <2> QED BY <1>2, <1>3, <1>4, <1>5, <1>6
  <1>8. (CHOOSE i \in Hits : \A k \in Hits : i <= k) = j
    <2> HIDE DEF Hits, j
    <2> QED BY <1>2, <1>7
  <1> QED BY <1>4, <1>7, <1>8 DEF SearchFreeLists

\* A hole that is asked for as a whole is the client's again (sfmm.c:311-358).
LEMMA AllocateHoleSound ==
  ASSUME NEW h, NEW l, NEW t, NEW H, NEW w, Row(h, l, t, H, w), NEW b \in H, NEW n \in Sizes,
         t[b] = b + Units(n)
  PROVE  /\ Row(AllocateBlock(h, b, U * Units(n)), [l EXCEPT ![b] = n], t, {}, w)
         /\ AllocateBlock(h, b, U * Units(n)).ret = b
         /\ AllocateBlock(h, b, U * Units(n)).foot[t[b]] % 2 = 1
         /\ \A c \in Positions : c # t[b] => AllocateBlock(h, b, U * Units(n)).foot[c] = h.foot[c]
  <1> DEFINE e == Epilogue(h)
             u == Units(n)
             size == U * u
             m == [l EXCEPT ![b] = n]
             j == Index(size)
             d == t[b]
             x == h.hdr[b] + 1
             y == h.hdr[d] + 2
             k == Unlink(h, b)
             g == AllocateBlock(h, b, size)
  <1>1. /\ h \in HeapType /\ h.fault = "none" /\ h.pages > 0
        /\ Tiles(h, l, t, H, w) /\ TaggedWith(h, l, t, H, w) /\ Linked(h, t, H, w)
    BY DEF Row
  <1>2. /\ e \in Positions /\ w \in Positions
        /\ \A p \in Blocks(l, H, w) : p \in Positions /\ p \in Nat /\ p >= 1 /\ p < e
        /\ b \in Positions /\ b \in Nat /\ b >= 1
        /\ d \in Positions /\ d \in Nat /\ b < d /\ d # e
        /\ SizeOf(h.hdr[b]) = U * (d - b)
    <2>1. b \in Blocks(l, H, w)
      BY DEF Blocks
    <2> QED BY <2>1, RowBlocks
  <1>3. /\ H = {b} /\ d \in Held(l) /\ b \notin Held(l) /\ w # b /\ w # d
        /\ l \in [Positions -> Sizes \cup {-1}] /\ t[w] = e
        /\ \A p \in Held(l) : t[p] = p + Units(l[p])
    BY <1>1 DEF Tiles
  <1>4. u \in Nat \ {0} /\ n \in Nat /\ d = b + u
    BY Rounded, SizesAssumption
  <1> HIDE DEF e, u, d
  <1>5. /\ h.hdr[b] = size + 2 /\ x = size + 3 /\ size \in Int
        /\ h.hdr[d] = U * (t[d] - d) + 1 /\ y = U * (t[d] - d) + 3 /\ x \in Int /\ y \in Int
    <2>1. d - b = u
      BY <1>2, <1>4
    <2>2. h.hdr[b] = U * (d - b) + 2
      BY <1>1 DEF TaggedWith, d
    <2>3. BlockFlags(d, t, H) = 1
      BY DEF BlockFlags, d
    <2>4. h.hdr[d] = U * (t[d] - d) + 1
      BY <1>1, <1>3, <2>3 DEF TaggedWith
    <2>5. h.hdr[b] \in Int /\ h.hdr[d] \in Int
      BY <1>1, <1>2 DEF HeapType
    <2>6. size \in Int
      BY <1>4 DEF U
    <2>7. t[d] - d \in Int
      <3>1. d \in Blocks(l, H, w)
        BY <1>3 DEF Blocks
      <3>2. t[d] \in Nat
        BY <3>1, RowBlocks
      <3> QED BY <1>2, <3>2
    <2> HIDE DEF size
    <2>8. y = U * (t[d] - d) + 3
      BY <2>4, <2>5, <2>7 DEF U
    <2> QED BY <2>1, <2>2, <2>4, <2>5, <2>6, <2>8 DEF size
  <1>6. j \in 0 .. 8 /\ Ring(h, j, b) /\ j \in 0 .. 9
    <2>1. j \in 0 .. 8
      <3> HIDE DEF size
      <3> QED BY Indexed
    <2>2. d - b = u
      BY <1>2, <1>4
    <2>3. Index(U * (t[b] - b)) = j
      BY <2>2 DEF d
    <2>4. Ring(h, j, b)
      <3> HIDE DEF j
      <3> QED BY <1>1, <2>1, <2>3 DEF Linked
    <2> HIDE DEF j
    <2> QED BY <2>1, <2>4
  <1>7. /\ k \in HeapType /\ k.hdr = h.hdr /\ k.foot = h.foot /\ k.pages = h.pages
        /\ k.fault = h.fault
        /\ k.next = [h.next EXCEPT ![Head(j)] = Head(j)]
        /\ k.prev = [h.prev EXCEPT ![Head(j)] = Head(j)]
    <2> HIDE DEF j
    <2>1. h.next[b] = Head(j) /\ h.prev[b] = Head(j)
      BY <1>6 DEF Ring
    <2>2. h \in HeapType /\ b \in Positions /\ j \in 0 .. 9
      BY <1>1, <1>2, <1>6
    <2>3. Removed(h, j, k)
      BY <2>1, <2>2, UnlinkFields
    <2> HIDE DEF k
    <2> QED BY <2>3 DEF Removed
  <1>8. g = [k EXCEPT !.hdr[b] = @ + 1, !.foot[d] = x, !.hdr[d] = @ + 2, !.ret = b]
    <2>1. ~(SizeOf(h.hdr[b]) - size >= U)
      <3>1. d - b = u
        BY <1>2, <1>4
      <3> QED BY <1>2, <1>5, <3>1 DEF U
    <2>2. Shift(h, b, SizeOf(h.hdr[b] + 1)) = d
      <3>1. SizeOf(x) = U * u
        <4>1. 3 \in 0 .. 3 /\ u \in Int
          BY <1>4
        <4> QED BY <1>5, <4>1, Words
      <3>2. b \in Int /\ u \in Int /\ b + u \in 0 .. Epilogue(h) /\ b + u = d
        <4>1. d \in Blocks(l, H, w)
          BY <1>3 DEF Blocks
        <4>2. d < e /\ e \in Int
          <5>1. \A p \in Positions : p \in Int
            BY Places
          <5> QED BY <1>2, <4>1, <5>1
        <4> QED BY <1>2, <1>4, <4>2 DEF e
      <3> QED BY <3>1, <3>2, Shifted
    <2>3. k.fault = "none" /\ d # Null
      BY <1>1, <1>2, <1>7, Places
    <2>4. k.hdr[b] = h.hdr[b] /\ k = Unlink(h, b)
      BY <1>7
    <2> HIDE DEF k, size
    <2> QED BY <2>1, <2>2, <2>3, <2>4 DEF AllocateBlock
  <1> HIDE DEF k, g
  <1>9. /\ g \in HeapType /\ g.fault = "none" /\ g.pages = h.pages /\ g.ret = b
        /\ g.hdr = [h.hdr EXCEPT ![b] = x, ![d] = y] /\ g.foot = [h.foot EXCEPT ![d] = x]
        /\ g.next = [h.next EXCEPT ![Head(j)] = Head(j)]
        /\ g.prev = [h.prev EXCEPT ![Head(j)] = Head(j)]
    <2>1. k.hdr[b] + 1 = x /\ k.hdr[d] + 2 = y /\ b # d
      BY <1>2, <1>7
    <2>2. g = [k EXCEPT !.hdr[b] = x, !.foot[d] = x, !.hdr[d] = y, !.ret = b]
      <3> HIDE DEF x, y
      <3>1. [k EXCEPT !.hdr[b] = x].hdr[d] = k.hdr[d]
        BY <1>2, <1>7, <2>1 DEF HeapType
      <3> QED BY <1>8, <2>1, <3>1
    <2> HIDE DEF x, y, j
    <2>3. h \in HeapType /\ k \in HeapType /\ b \in Positions /\ d \in Positions /\ x \in Int /\ y \in Int
      BY <1>1, <1>2, <1>5, <1>7
    <2>4. /\ g \in HeapType /\ g.fault = k.fault /\ g.pages = k.pages /\ g.ret = b
          /\ g.hdr = [k.hdr EXCEPT ![b] = x, ![d] = y] /\ g.foot = [k.foot EXCEPT ![d] = x]
          /\ g.next = k.next /\ g.prev = k.prev
      BY <2>2, <2>3 DEF HeapType
    <2> QED BY <1>1, <1>7, <2>4
  <1> HIDE DEF x, y, j
  <1>10. Epilogue(g) = e
    BY <1>9 DEF Epilogue, e
  <1>11. /\ m \in [Positions -> Sizes \cup {-1}] /\ Held(m) = Held(l) \cup {b} /\ m[b] = n
         /\ \A p \in Held(l) : m[p] = l[p] /\ p # b
    BY <1>2, <1>3, <1>4 DEF Held
  <1> HIDE DEF m
  <1>12. Blocks(m, {}, w) = Blocks(l, H, w)
    BY <1>3, <1>11 DEF Blocks
  <1>13. Tiles(g, m, t, {}, w)
    <2>1. \A p \in Held(m) : t[p] = p + Units(m[p])
      BY <1>3, <1>4, <1>11 DEF d, u
    <2> QED BY <1>1, <1>3, <1>10, <1>11, <1>12, <2>1 DEF Tiles, e
  <1>14. /\ g.hdr[b] = x /\ g.hdr[d] = y
         /\ \A p \in Positions : p # b /\ p # d => g.hdr[p] = h.hdr[p]
         /\ g.foot[d] = x /\ \A c \in Positions : c # d => g.foot[c] = h.foot[c]
    <2>1. h.hdr \in [Positions -> Int] /\ h.foot \in [Positions -> Int]
      BY <1>1 DEF HeapType
    <2> QED BY <1>2, <1>9, <2>1
  <1>15. TaggedWith(g, m, t, {}, w)
    <2>1. b # e /\ d # e /\ d # 1 /\ 1 \in Positions
      <3>1. \A p \in Positions : p \in Nat
        BY Places
      <3>2. b < e
        BY <1>2 DEF Blocks
      <3>3. Positions = 0 .. Null - 1 /\ Null \in Nat
        BY Places
      <3> QED BY <1>2, <3>1, <3>2, <3>3
    <2>2. g.hdr[e] = 1 /\ g.foot[1] = U + 3
      BY <1>1, <1>2, <1>14, <2>1 DEF TaggedWith, e
    <2>3. g.hdr[w] = h.hdr[w] /\ g.foot[e] = h.foot[e]
      BY <1>2, <1>3, <1>14, <2>1
    <2>4. \A p \in Held(m) : g.hdr[p] = U * (t[p] - p) + BlockFlags(p, t, {})
      <3>1. \A p : BlockFlags(p, t, {}) = 3
        BY DEF BlockFlags
      <3>2. g.hdr[b] = U * (t[b] - b) + 3
        <4>1. t[b] - b = u
          BY <1>2, <1>4 DEF d
        <4> QED BY <1>5, <1>14, <4>1
      <3>3. g.hdr[d] = U * (t[d] - d) + 3
        BY <1>5, <1>14
      <3>4. ASSUME NEW p \in Held(l), p # d PROVE g.hdr[p] = U * (t[p] - p) + 3
        <4>1. BlockFlags(p, t, H) = 3
          BY <1>3, <3>4 DEF BlockFlags, d
        <4>2. g.hdr[p] = h.hdr[p]
          BY <1>3, <1>14, <3>4 DEF Held
        <4> QED BY <1>1, <4>1, <4>2 DEF TaggedWith
      <3> QED BY <1>11, <3>1, <3>2, <3>3, <3>4
    <2> QED BY <1>1, <1>10, <2>2, <2>3, <2>4 DEF TaggedWith, e
  <1>16. Linked(g, t, {}, w)
    <2>1. h.next \in [Nodes -> Nodes \cup {Null}] /\ h.prev \in [Nodes -> Nodes \cup {Null}]
      BY <1>1 DEF HeapType
    <2>2. /\ \A i \in 0 .. 9 : Head(i) \in Nodes /\ Head(i) \in Heads /\ Head(i) = -1 - i
          /\ \A c \in Heads : c \in Int /\ c < 0
          /\ w \in Nat /\ w \in Nodes
      BY <1>2, Apart, Places
    <2>3. Ring(g, 9, w)
      <3>1. 9 \in 0 .. 9 /\ Head(9) # Head(j) /\ w # Head(j)
        BY <1>6, <2>2
      <3>2. Ring(h, 9, w)
        BY <1>1 DEF Linked
      <3> QED BY <1>9, <2>1, <2>2, <3>1, <3>2 DEF Ring
    <2>4. ASSUME NEW i \in 0 .. 8 PROVE Ring(g, i, Head(i))
      <3>1. i \in 0 .. 9 /\ Head(i) \in Nodes
        BY <2>2
      <3>2. CASE i = j
        BY <1>9, <2>1, <3>1, <3>2 DEF Ring
      <3>3. CASE i # j
        <4>1. Head(i) # Head(j)
          BY <1>6, <2>2, <3>1, <3>3
        <4>2. \A c \in H : Index(U * (t[c] - c)) # i
          <5>1. d - b = u
            BY <1>2, <1>4
          <5> QED BY <1>3, <3>3, <5>1 DEF d, j
        <4>3. Ring(h, i, Head(i))
          BY <1>1, <4>2 DEF Linked
        <4> QED BY <1>9, <2>1, <3>1, <4>1, <4>3 DEF Ring
      <3> QED BY <3>2, <3>3
    <2> QED BY <2>3, <2>4 DEF Linked
  <1>17. Row(g, m, t, {}, w)
    BY <1>1, <1>9, <1>13, <1>15, <1>16 DEF Row
  <1>18. x % 2 = 1
    BY <1>4, <1>5 DEF U
  <1> QED BY <1>9, <1>14, <1>17, <1>18 DEF g, m, d, u

-----------------------------------------------------------------------------
(* sf_free.                                                                *)

\* The footer in the epilogue leads back to the wilderness.
LEMMA LastBlock ==
  ASSUME NEW h \in HeapType, h.pages > 0, NEW w \in Positions, w <= Epilogue(h),
         NEW f \in 0 .. 3, h.foot[Epilogue(h)] = U * (Epilogue(h) - w) + f
  PROVE  Shift(h, Epilogue(h), -SizeOf(h.foot[Epilogue(h)])) = w
  <1> DEFINE e == Epilogue(h)
             u == e - w
             v == w - e
  <1>1. e \in Nat /\ w \in Nat
    BY Pages, Apart
  <1>2. /\ u \in Int /\ v \in Int /\ -(U * u) = U * v /\ e \in Int /\ e + v \in 0 .. Epilogue(h)
        /\ e + v = w
    BY <1>1 DEF U
  <1>3. SizeOf(U * u + f) = U * u
    <2> HIDE DEF u
    <2> QED BY <1>2, Words
  <1>4. -SizeOf(h.foot[e]) = U * v
    BY <1>2, <1>3
  <1>5. Shift(h, e, U * v) = w
    <2> HIDE DEF v, e
    <2> QED BY <1>2, Shifted
  <1> QED BY <1>4, <1>5

\* A block between two others of the client's becomes the hole (sfmm.c:430-438).
LEMMA FreeNoneSound ==
  ASSUME NEW h, NEW l, NEW t, NEW w, Row(h, l, t, {}, w), NEW p \in Held(l), t[p] \in Held(l)
  PROVE  /\ Row(Deposit(CoalesceNone(h, p)), [l EXCEPT ![p] = -1], t, {p}, w)
         /\ \A c \in Positions : c # t[p] => Deposit(CoalesceNone(h, p)).foot[c] = h.foot[c]
  <1> DEFINE e == Epilogue(h)
             d == t[p]
             u == d - p
             m == [l EXCEPT ![p] = -1]
             x == h.hdr[p] - 1
             y == h.hdr[d] - 2
             j == Index(U * u)
             k == CoalesceNone(h, p)
             g == Deposit(k)
  <1>1. /\ h \in HeapType /\ h.fault = "none" /\ h.pages > 0
        /\ Tiles(h, l, t, {}, w) /\ TaggedWith(h, l, t, {}, w) /\ Linked(h, t, {}, w)
    BY DEF Row
  <1>2. /\ e \in Positions /\ w \in Positions /\ w < e /\ p <= w
        /\ p \in Positions /\ p \in Nat /\ p >= 1 /\ p < e
        /\ d \in Positions /\ d \in Nat /\ p < d /\ d < e /\ d # e /\ t[d] \in Nat
        /\ d < t[d] /\ SizeOf(h.hdr[d]) = U * (t[d] - d) /\ NextBlock(h, p) = d
        /\ h.hdr[p] \in Int /\ h.hdr[d] \in Int
    <2>1. p \in Blocks(l, {}, w) /\ d \in Blocks(l, {}, w) /\ w \in Blocks(l, {}, w)
      BY DEF Blocks
    <2> QED BY <2>1, RowBlocks
  <1>3. /\ l \in [Positions -> Sizes \cup {-1}] /\ t \in [Positions -> Positions]
        /\ w # p /\ w # d /\ t[w] = e
        /\ \A q \in Held(l) : t[q] = q + Units(l[q])
    BY <1>1 DEF Tiles
  <1>4. /\ x = U * u + 2 /\ y = U * (t[d] - d) + 1 /\ x \in Int /\ y \in Int
        /\ SizeOf(h.hdr[d]) > 2 /\ u \in Int
    <2>1. \A q : BlockFlags(q, t, {}) = 3
      BY DEF BlockFlags
    <2>2. h.hdr[p] = U * (d - p) + 3 /\ h.hdr[d] = U * (t[d] - d) + 3
      BY <1>1, <2>1 DEF TaggedWith
    <2> HIDE DEF d
    <2> QED BY <1>2, <2>2 DEF U
  <1> HIDE DEF e, d
  <1>5. /\ k \in HeapType /\ k.fault = "none" /\ k.pages = h.pages /\ k.ret = p
        /\ k.hdr = [h.hdr EXCEPT ![p] = x, ![d] = y] /\ k.foot = [h.foot EXCEPT ![d] = x]
        /\ k.next = h.next /\ k.prev = h.prev
    <2>1. p # d
      BY <1>2
    <2>2. k = [h EXCEPT !.hdr[p] = x, !.foot[d] = x, !.hdr[d] = y, !.ret = p]
      <3>1. [h EXCEPT !.hdr[p] = x].hdr[d] = h.hdr[d]
        BY <1>1, <1>2, <2>1 DEF HeapType
      <3> HIDE DEF u
      <3> QED BY <1>2, <1>4, <2>1, <3>1 DEF CoalesceNone
    <2> HIDE DEF x, y, k, u
    <2> QED BY <1>1, <1>2, <1>4, <2>2 DEF HeapType
  <1> HIDE DEF k
  <1>6. Epilogue(k) = e
    BY <1>5 DEF Epilogue, e
  <1>7. /\ k.hdr[p] = x /\ k.hdr[d] = y
        /\ \A q \in Positions : q # p /\ q # d => k.hdr[q] = h.hdr[q]
        /\ k.foot[d] = x /\ \A c \in Positions : c # d => k.foot[c] = h.foot[c]
    <2>1. h.hdr \in [Positions -> Int] /\ h.foot \in [Positions -> Int]
      BY <1>1 DEF HeapType
    <2> HIDE DEF x, y, u
    <2> QED BY <1>2, <1>5, <2>1
  <1>8. g = AddNewBlock(k, p, j)
    <2>1. PICK f \in {0, 2} : h.hdr[w] = U * (e - w) + f
      BY <1>1 DEF TaggedWith, e
    <2>2. k.foot[Epilogue(k)] = U * (Epilogue(k) - w) + f
      BY <1>1, <1>2, <1>6, <1>7, <2>1 DEF TaggedWith, e
    <2>3. w \in Positions /\ w <= Epilogue(k) /\ k.pages > 0 /\ f \in 0 .. 3
      <3>1. w \in Nat /\ e \in Nat
        BY <1>2, Apart
      <3> QED BY <1>1, <1>2, <1>5, <1>6, <3>1
    <2>4. Shift(k, Epilogue(k), -SizeOf(k.foot[Epilogue(k)])) = w
      BY <1>5, <2>2, <2>3, LastBlock
    <2>5. SizeOf(k.hdr[p]) = U * u
      <3>1. 2 \in 0 .. 3
        OBVIOUS
      <3> HIDE DEF u
      <3> QED BY <1>4, <1>7, <3>1, Words
    <2> HIDE DEF u
    <2> QED BY <1>3, <1>5, <2>4, <2>5 DEF Deposit
  <1> HIDE DEF g
  <1>9. j \in 0 .. 8
    <2> HIDE DEF u
    <2> QED BY Indexed
  <1>10. h.next[Head(j)] = Head(j)
    BY <1>1, <1>9 DEF Linked, Ring
  <1> HIDE DEF j, x, y
  <1>11. /\ g \in HeapType /\ g.fault = "none" /\ g.pages = h.pages
         /\ g.hdr = k.hdr /\ g.foot = k.foot
         /\ g.next = [h.next EXCEPT ![Head(j)] = p, ![p] = Head(j)]
         /\ g.prev = [h.prev EXCEPT ![p] = Head(j), ![Head(j)] = p]
    <2>1. k.next[Head(j)] = Head(j)
      BY <1>5, <1>10
    <2>2. k \in HeapType /\ p \in Positions /\ j \in 0 .. 8
      BY <1>2, <1>5, <1>9
    <2>3. Added(k, p, j, g)
      BY <1>8, <2>1, <2>2, AddNewBlockFields
    <2> QED BY <1>5, <2>3 DEF Added
  <1>12. Epilogue(g) = e
    BY <1>11 DEF Epilogue, e
  <1>13. /\ m \in [Positions -> Sizes \cup {-1}] /\ Held(m) = Held(l) \ {p}
         /\ \A q \in Held(m) : m[q] = l[q] /\ q # p
    BY <1>2, <1>3 DEF Held
  <1> HIDE DEF m
  <1>14. Blocks(m, {p}, w) = Blocks(l, {}, w)
    BY <1>13 DEF Blocks
  <1>15. Tiles(g, m, t, {p}, w)
    <2>1. \A q \in Held(m) : t[q] = q + Units(m[q])
      BY <1>3, <1>13
    <2>2. \A b \in {p} : t[b] \in Held(m)
      BY <1>2, <1>13 DEF d
    <2> QED BY <1>1, <1>2, <1>3, <1>12, <1>13, <1>14, <2>1, <2>2 DEF Tiles, e
  <1>16. TaggedWith(g, m, t, {p}, w)
    <2>1. p # e /\ d # 1 /\ 1 \in Positions
      <3>1. e \in Nat /\ 1 \in Positions
        BY <1>2, Apart
      <3>2. p \in Nat /\ d \in Nat /\ p >= 1 /\ p < e /\ p < d
        BY <1>2
      <3> QED BY <3>1, <3>2
    <2>2. g.hdr[e] = 1 /\ g.foot[1] = U + 3 /\ g.hdr[w] = h.hdr[w] /\ g.foot[e] = h.foot[e]
      <3>1. e \in Positions /\ e # d /\ w \in Positions
        BY <1>2
      <3>2. /\ g.hdr[e] = h.hdr[e] /\ g.foot[1] = h.foot[1]
            /\ g.hdr[w] = h.hdr[w] /\ g.foot[e] = h.foot[e]
        BY <1>3, <1>7, <1>11, <2>1, <3>1
      <3> QED BY <1>1, <3>2 DEF TaggedWith, e
    <2>3. \A q \in Held(m) : g.hdr[q] = U * (t[q] - q) + BlockFlags(q, t, {p})
      <3>1. \A q : BlockFlags(q, t, {p}) = IF q = d THEN 1 ELSE 3
        BY DEF BlockFlags, d
      <3>2. \A q : BlockFlags(q, t, {}) = 3
        BY DEF BlockFlags
      <3>3. \A q \in Held(m) : q \in Held(l) /\ q \in Positions /\ q # p
        BY <1>13 DEF Held
      <3>4. g.hdr[d] = U * (t[d] - d) + 1
        BY <1>4, <1>7, <1>11
      <3>5. \A q \in Held(m) : q # d => g.hdr[q] = U * (t[q] - q) + 3
        BY <1>1, <1>7, <1>11, <3>2, <3>3 DEF TaggedWith
      <3> QED BY <3>1, <3>4, <3>5
    <2>4. g.hdr[p] = U * (t[p] - p) + 2 /\ g.foot[t[p]] = g.hdr[p]
      BY <1>4, <1>7, <1>11 DEF d
    <2> QED BY <1>1, <1>12, <2>2, <2>3, <2>4 DEF TaggedWith, e
  <1>17. Linked(g, t, {p}, w)
    <2>1. h.next \in [Nodes -> Nodes \cup {Null}] /\ h.prev \in [Nodes -> Nodes \cup {Null}]
      BY <1>1 DEF HeapType
    <2>2. Ring(g, 9, w)
      <3>1. Ring(h, 9, w) /\ w # Head(j) /\ Head(9) # Head(j) /\ p # Head(9) /\ w \in Nodes /\ Head(9) \in Nodes
        BY <1>1, <1>2, <1>9, Apart DEF Linked
      <3> QED BY <1>3, <1>11, <2>1, <3>1 DEF Ring
    <2>3. Index(U * (t[p] - p)) = j
      BY DEF j, d
    <2>4. Ring(g, j, p)
      <3>1. j \in 0 .. 9 /\ Head(j) # p /\ Head(j) \in Nodes /\ p \in Nodes
        BY <1>2, <1>9, Apart
      <3> QED BY <1>11, <2>1, <3>1 DEF Ring
    <2>5. ASSUME NEW i \in 0 .. 8, i # j PROVE Ring(g, i, Head(i))
      <3>1. Ring(h, i, Head(i)) /\ Head(i) # Head(j) /\ p # Head(i) /\ Head(i) \in Nodes
        BY <1>1, <1>2, <1>9, <2>5, Apart DEF Linked
      <3> QED BY <1>11, <2>1, <3>1 DEF Ring
    <2> QED BY <1>9, <2>2, <2>3, <2>4, <2>5 DEF Linked
  <1>18. Row(g, m, t, {p}, w)
    BY <1>1, <1>11, <1>15, <1>16, <1>17 DEF Row
  <1> QED BY <1>7, <1>11, <1>18 DEF g, k, m, d

\* A block in front of the wilderness joins it.
LEMMA FreeNextSound ==
  ASSUME NEW h, NEW l, NEW t, NEW w, Row(h, l, t, {}, w), NEW p \in Held(l), t[p] = w
  PROVE  /\ Row(Deposit(CoalesceNext(h, p)), [l EXCEPT ![p] = -1],
                [t EXCEPT ![p] = Epilogue(h)], {}, p)
         /\ \A c \in Positions : c # Epilogue(h)
                                   => Deposit(CoalesceNext(h, p)).foot[c] = h.foot[c]
  <1> DEFINE e == Epilogue(h)
             s == [t EXCEPT ![p] = e]
             m == [l EXCEPT ![p] = -1]
             u == e - p
             x == U * u
             B == Blocks(l, {}, w)
             a == [h EXCEPT !.hdr[p] = x, !.foot[e] = x, !.ret = p]
             k == CoalesceNext(h, p)
             g == Deposit(k)
  <1>1. /\ h \in HeapType /\ h.fault = "none" /\ h.pages > 0
        /\ Tiles(h, l, t, {}, w) /\ TaggedWith(h, l, t, {}, w) /\ Linked(h, t, {}, w)
    BY DEF Row
  <1>2. /\ e \in Positions /\ w \in Positions /\ w \in Nat /\ w < e /\ w \in B /\ p \in B
        /\ p \in Positions /\ p \in Nat /\ p >= 1 /\ p < e /\ p < w
        /\ SizeOf(h.hdr[p]) = U * (w - p) /\ SizeOf(h.hdr[w]) = U * (e - w)
        /\ NextBlock(h, p) = w
    <2>1. p \in B /\ w \in B /\ t[w] = e
      BY <1>1 DEF Blocks, Tiles
    <2> QED BY <2>1, RowBlocks
  <1>3. /\ l \in [Positions -> Sizes \cup {-1}] /\ t \in [Positions -> Positions]
        /\ w \notin Held(l) /\ t[w] = e /\ Tiled(B, t, e) /\ B \in SUBSET Positions
        /\ \A q \in Held(l) : t[q] = q + Units(l[q])
    BY <1>1 DEF Tiles, Blocks, Held
  <1>4. e \in Nat /\ p # w /\ p # e /\ w # e /\ e # 1 /\ u \in Int
    <2>1. e \in Nat
      BY <1>2, Apart
    <2> HIDE DEF e
    <2> QED BY <1>2, <2>1
  <1> HIDE DEF e, B
  <1>5. /\ x = SizeOf(h.hdr[p]) + SizeOf(h.hdr[w]) /\ x \in Int /\ Shift(h, p, x) = e
    <2>1. x = SizeOf(h.hdr[p]) + SizeOf(h.hdr[w]) /\ x \in Int
      BY <1>2, <1>4 DEF U
    <2>2. p \in Int /\ u \in Int /\ p + u \in 0 .. Epilogue(h) /\ p + u = e
      BY <1>2, <1>4 DEF e
    <2>3. Shift(h, p, U * u) = e
      <3> HIDE DEF u
      <3> QED BY <2>2, Shifted
    <2> QED BY <2>1, <2>3
  <1> HIDE DEF x, u
  <1>6. /\ a \in HeapType /\ a.fault = "none" /\ a.pages = h.pages /\ a.ret = p
        /\ a.hdr = [h.hdr EXCEPT ![p] = x] /\ a.foot = [h.foot EXCEPT ![e] = x]
        /\ a.next = h.next /\ a.prev = h.prev
    BY <1>1, <1>2, <1>5 DEF HeapType
  <1>7. k = Unlink(a, w)
    BY <1>2, <1>5, Apart DEF CoalesceNext
  <1> HIDE DEF a, k
  <1>8. /\ k \in HeapType /\ k.fault = "none" /\ k.pages = h.pages /\ k.ret = p
        /\ k.hdr = a.hdr /\ k.foot = a.foot
        /\ k.next = [h.next EXCEPT ![Head(9)] = Head(9)]
        /\ k.prev = [h.prev EXCEPT ![Head(9)] = Head(9)]
    <2> DEFINE nine == 9
    <2>1. nine \in 0 .. 9 /\ a.next[w] = Head(nine) /\ a.prev[w] = Head(nine)
      BY <1>1, <1>6 DEF Linked, Ring
    <2> HIDE DEF nine
    <2>2. Removed(a, nine, k)
      BY <1>2, <1>6, <1>7, <2>1, UnlinkFields
    <2> QED BY <1>6, <2>2 DEF Removed, nine
  <1>9. Epilogue(k) = e
    BY <1>8 DEF Epilogue, e
  <1>10. /\ k.hdr[p] = x /\ \A q \in Positions : q # p => k.hdr[q] = h.hdr[q]
         /\ k.foot[e] = x /\ \A c \in Positions : c # e => k.foot[c] = h.foot[c]
    <2>1. h.hdr \in [Positions -> Int] /\ h.foot \in [Positions -> Int]
      BY <1>1 DEF HeapType
    <2> QED BY <1>2, <1>6, <1>8, <2>1
  <1>11. g = SetWilderness(k, p)
    <2> DEFINE zero == 0
    <2>1. x + zero = x /\ zero \in 0 .. 3
      BY <1>5
    <2>2. k.foot[Epilogue(k)] = U * (Epilogue(k) - p) + zero
      BY <1>9, <1>10, <2>1 DEF x, u
    <2> HIDE DEF zero
    <2>3. p \in Positions /\ p <= Epilogue(k) /\ k.pages > 0
      BY <1>1, <1>2, <1>4, <1>8, <1>9
    <2>4. Shift(k, Epilogue(k), -SizeOf(k.foot[Epilogue(k)])) = p
      BY <1>8, <2>1, <2>2, <2>3, LastBlock
    <2> QED BY <1>8, <2>4 DEF Deposit
  <1> HIDE DEF g
  <1>12. /\ g \in HeapType /\ g.fault = "none" /\ g.pages = h.pages
         /\ g.hdr = k.hdr /\ g.foot = k.foot
         /\ g.next = [k.next EXCEPT ![p] = Head(9), ![Head(9)] = p]
         /\ g.prev = [k.prev EXCEPT ![p] = Head(9), ![Head(9)] = p]
    BY <1>2, <1>8, <1>11, SetWildernessFields
  <1>13. Epilogue(g) = e
    BY <1>12 DEF Epilogue, e
  <1>14. /\ m \in [Positions -> Sizes \cup {-1}] /\ Held(m) = Held(l) \ {p}
         /\ \A q \in Held(m) : m[q] = l[q] /\ q # p /\ q \in Positions /\ q \in Held(l)
    BY <1>2, <1>3 DEF Held
  <1>15. /\ s \in [Positions -> Positions] /\ s[p] = e /\ \A q \in Held(m) : s[q] = t[q]
    BY <1>2, <1>3, <1>14
  <1>16. Blocks(m, {}, p) = B \ {w}
    <2> HIDE DEF m
    <2> QED BY <1>3, <1>14 DEF Blocks, B
  <1>17. Tiled(B \ {w}, s, e)
    <2>1. t[p] \in B /\ t[t[p]] = e
      BY <1>2, <1>3
    <2>2. Tiled(B \ {t[p]}, [t EXCEPT ![p] = t[t[p]]], e)
      BY <1>2, <1>3, <2>1, TiledMerge
    <2> QED BY <2>1, <2>2
  <1> HIDE DEF m, s
  <1>18. Tiles(g, m, s, {}, p)
    <2>1. \A q \in Held(m) : s[q] = q + Units(m[q])
      BY <1>3, <1>14, <1>15
    <2> QED BY <1>2, <1>13, <1>14, <1>15, <1>16, <1>17, <2>1 DEF Tiles
  <1>19. TaggedWith(g, m, s, {}, p)
    <2>1. g.hdr[e] = 1 /\ g.foot[1] = U + 3
      <3>1. g.hdr[e] = h.hdr[e] /\ g.foot[1] = h.foot[1]
        BY <1>2, <1>4, <1>10, <1>12, Apart
      <3> QED BY <1>1, <3>1 DEF TaggedWith, e
    <2>2. \E f \in {0, 2} : g.hdr[p] = U * (e - p) + f
      BY <1>5, <1>10, <1>12 DEF x, u
    <2>3. \A q \in Held(m) : g.hdr[q] = U * (s[q] - q) + BlockFlags(q, s, {})
      <3>1. \A q, r : BlockFlags(q, r, {}) = 3
        BY DEF BlockFlags
      <3> QED BY <1>1, <1>10, <1>12, <1>14, <1>15, <3>1 DEF TaggedWith
    <2>4. g.foot[e] = g.hdr[p]
      BY <1>10, <1>12
    <2> QED BY <1>13, <2>1, <2>2, <2>3, <2>4 DEF TaggedWith
  <1>20. Linked(g, s, {}, p)
    <2>1. h.next \in [Nodes -> Nodes \cup {Null}] /\ h.prev \in [Nodes -> Nodes \cup {Null}]
      BY <1>1 DEF HeapType
    <2>2. Ring(g, 9, p)
      <3>1. 9 \in 0 .. 9 /\ Head(9) # p /\ Head(9) \in Nodes /\ p \in Nodes
        BY <1>2, Apart
      <3> QED BY <1>8, <1>12, <2>1, <3>1 DEF Ring
    <2>3. ASSUME NEW i \in 0 .. 8 PROVE Ring(g, i, Head(i))
      <3>1. Head(i) # Head(9) /\ p # Head(i) /\ Head(i) \in Nodes
        BY <1>2, Apart
      <3>2. Ring(h, i, Head(i))
        BY <1>1 DEF Linked
      <3> QED BY <1>8, <1>12, <2>1, <3>1, <3>2 DEF Ring
    <2> QED BY <2>2, <2>3 DEF Linked
  <1>21. Row(g, m, s, {}, p)
    BY <1>1, <1>12, <1>18, <1>19, <1>20 DEF Row
  <1> QED BY <1>10, <1>12, <1>21 DEF g, k, m, s, e

\* The footer of the hole leads back to it.
LEMMA HoleBefore ==
  ASSUME NEW h, NEW l, NEW t, NEW H, NEW w, Row(h, l, t, H, w), NEW b \in H
  PROVE  Shift(h, t[b], -SizeOf(h.foot[t[b]])) = b
  <1> DEFINE p == t[b]
             u == p - b
             v == b - p
  <1>1. b \in Blocks(l, H, w) /\ h.foot[p] = U * u + 2
    BY DEF Blocks, Row, TaggedWith
  <1>2. b \in Nat /\ p \in Nat /\ b < p /\ p <= Epilogue(h) /\ Epilogue(h) \in Nat
    <2>1. Epilogue(h) \in Positions
      BY RowBlocks
    <2> QED BY <1>1, <2>1, RowBlocks, Apart
  <1>3. /\ u \in Int /\ v \in Int /\ -(U * u) = U * v /\ p + v = b
        /\ p \in Int /\ p + v \in 0 .. Epilogue(h) /\ 2 \in 0 .. 3
    BY <1>2 DEF U
  <1>4. SizeOf(h.foot[p]) = U * u
    <2> HIDE DEF u, p
    <2> QED BY <1>1, <1>3, Words
  <1>5. Shift(h, p, U * v) = b
    <2> HIDE DEF p, v
    <2> QED BY <1>3, Shifted
  <1> QED BY <1>3, <1>4, <1>5

\* A block behind the hole joins it.
LEMMA FreePrevSound ==
  ASSUME NEW h, NEW l, NEW t, NEW H, NEW w, Row(h, l, t, H, w), NEW b \in H,
         t[b] \in Held(l), t[t[b]] \in Held(l)
  PROVE  /\ Row(Deposit(CoalescePrev(h, t[b])), [l EXCEPT ![t[b]] = -1],
                [t EXCEPT ![b] = t[t[b]]], {b}, w)
         /\ \A c \in Positions : c # t[t[b]]
                                   => Deposit(CoalescePrev(h, t[b])).foot[c] = h.foot[c]
  <1> DEFINE e == Epilogue(h)
             p == t[b]
             d == t[p]
             s == [t EXCEPT ![b] = d]
             m == [l EXCEPT ![p] = -1]
             u == d - b
             x == U * u + 2
             y == h.hdr[d] - 2
             B == Blocks(l, H, w)
             i == Index(U * (p - b))
             j == Index(U * u)
             a == [h EXCEPT !.hdr[b] = x, !.foot[d] = x, !.hdr[d] = y, !.ret = b]
             k == CoalescePrev(h, p)
             g == Deposit(k)
  <1>1. /\ h \in HeapType /\ h.fault = "none" /\ h.pages > 0
        /\ Tiles(h, l, t, H, w) /\ TaggedWith(h, l, t, H, w) /\ Linked(h, t, H, w)
    BY DEF Row
  <1>2. /\ e \in Positions /\ w \in Positions /\ w \in Nat /\ w < e /\ w \in B
        /\ b \in B /\ b \in Positions /\ b \in Nat /\ b >= 1 /\ b < e /\ b <= w
        /\ p \in B /\ p \in Positions /\ p \in Nat /\ b < p
        /\ d \in B /\ d \in Positions /\ d \in Nat /\ p < d /\ d < e /\ d < t[d] /\ t[d] \in Nat
        /\ SizeOf(h.hdr[p]) = U * (d - p) /\ NextBlock(h, p) = d
        /\ h.hdr[b] = U * (p - b) + 2 /\ PrevAllocated(h.hdr[b])
    <2>1. b \in B /\ p \in B /\ d \in B /\ w \in B
      BY DEF Blocks
    <2>2. h.hdr[b] = U * (p - b) + 2 /\ PrevAllocated(h.hdr[b])
      BY <1>1, RowBlocks DEF TaggedWith
    <2>3. /\ e \in Positions
          /\ \A q \in B : /\ q \in Positions /\ q \in Nat /\ q >= 1 /\ q < e /\ q <= w
                          /\ t[q] \in Positions /\ t[q] \in Nat /\ q < t[q]
                          /\ SizeOf(h.hdr[q]) = U * (t[q] - q) /\ NextBlock(h, q) = t[q]
      BY RowBlocks
    <2> HIDE DEF B, e
    <2> QED BY <2>1, <2>2, <2>3
  <1>3. /\ l \in [Positions -> Sizes \cup {-1}] /\ t \in [Positions -> Positions]
        /\ H = {b} /\ H \cap Held(l) = {} /\ w \notin Held(l) /\ w # b
        /\ t[w] = e /\ Tiled(B, t, e) /\ B \in SUBSET Positions
        /\ \A q \in Held(l) : t[q] = q + Units(l[q])
    <2>1. /\ l \in [Positions -> Sizes \cup {-1}] /\ t \in [Positions -> Positions]
          /\ t[w] = e /\ Tiled(B, t, e) /\ \A q \in Held(l) : t[q] = q + Units(l[q])
          /\ H \subseteq Positions /\ w \in Positions
          /\ w \notin Held(l) \cup H /\ H \cap Held(l) = {} /\ \A c, q \in H : c = q
      BY <1>1 DEF Tiles
    <2>2. H = {b} /\ w # b
      BY <2>1
    <2>3. B \in SUBSET Positions
      BY <2>1 DEF Blocks, Held
    <2> HIDE DEF B, e
    <2> QED BY <2>1, <2>2, <2>3
  <1>4. e \in Nat /\ b # e /\ b # d /\ b # p /\ p # d /\ d # e /\ d # 1 /\ u \in Int /\ p # 1
    <2>1. e \in Nat
      BY <1>2, Apart
    <2>2. b \in Nat /\ p \in Nat /\ d \in Nat /\ b < p /\ p < d /\ d < e /\ b >= 1
      BY <1>2
    <2> HIDE DEF e, p, d
    <2> QED BY <2>1, <2>2
  <1>5. /\ x = h.hdr[b] + SizeOf(h.hdr[p]) /\ h.hdr[d] = U * (t[d] - d) + 3
        /\ y = U * (t[d] - d) + 1 /\ x \in Int /\ y \in Int
        /\ \A q \in Held(l) : q # p => h.hdr[q] = U * (t[q] - q) + 3
    <2>1. \A q \in Held(l) : q # p => BlockFlags(q, t, H) = 3
      BY <1>3 DEF BlockFlags
    <2>2. \A q \in Held(l) : q # p => h.hdr[q] = U * (t[q] - q) + 3
      BY <1>1, <2>1 DEF TaggedWith
    <2>3. h.hdr[d] = U * (t[d] - d) + 3
      BY <1>4, <2>2
    <2> HIDE DEF p, d
    <2> QED BY <1>2, <2>2, <2>3 DEF U
  <1>6. Shift(h, p, -SizeOf(h.foot[p])) = b /\ b # Null
    BY <1>2, HoleBefore, Apart
  <1> HIDE DEF e, p, d, B
  <1>7. k = Unlink(a, b)
    <2>1. y = h.hdr[d] - 2
      OBVIOUS
    <2>2. [h EXCEPT !.hdr[b] = x, !.foot[d] = x].hdr[d] = h.hdr[d]
      BY <1>1, <1>4 DEF HeapType
    <2> HIDE DEF x, y, u
    <2> QED BY <1>2, <1>5, <1>6, <2>1, <2>2 DEF CoalescePrev
  <1> HIDE DEF x, y, u, i, j
  <1>8. /\ a \in HeapType /\ a.fault = "none" /\ a.pages = h.pages /\ a.ret = b
        /\ a.hdr = [h.hdr EXCEPT ![b] = x, ![d] = y] /\ a.foot = [h.foot EXCEPT ![d] = x]
        /\ a.next = h.next /\ a.prev = h.prev
    <2>1. /\ h \in HeapType /\ b \in Positions /\ d \in Positions /\ x \in Int /\ y \in Int
          /\ h.fault = "none"
      BY <1>1, <1>2, <1>5
    <2> QED BY <2>1 DEF HeapType
  <1> HIDE DEF a, k
  <1>9. i \in 0 .. 8 /\ j \in 0 .. 8 /\ i \in 0 .. 9 /\ j \in 0 .. 9
    BY Indexed, Apart DEF i, j
  <1>10. /\ Ring(h, i, b) /\ \A c \in 0 .. 8 : c # i => Ring(h, c, Head(c))
    <2>1. i = Index(U * (t[b] - b)) /\ \A c \in H : c = b
      BY <1>3 DEF i, p
    <2> QED BY <1>1, <1>9, <2>1 DEF Linked
  <1>11. Removed(a, i, k)
    <2>1. a.next[b] = Head(i) /\ a.prev[b] = Head(i)
      BY <1>8, <1>10 DEF Ring
    <2> QED BY <1>2, <1>7, <1>8, <1>9, <2>1, UnlinkFields
  <1>12. /\ k \in HeapType /\ k.fault = "none" /\ k.pages = h.pages /\ k.ret = b
         /\ k.hdr = a.hdr /\ k.foot = a.foot
         /\ k.next = [h.next EXCEPT ![Head(i)] = Head(i)]
         /\ k.prev = [h.prev EXCEPT ![Head(i)] = Head(i)]
    BY <1>8, <1>11 DEF Removed
  <1>13. Epilogue(k) = e
    BY <1>12 DEF Epilogue, e
  <1>14. /\ k.hdr[b] = x /\ k.hdr[d] = y
         /\ \A q \in Positions : q # b /\ q # d => k.hdr[q] = h.hdr[q]
         /\ k.foot[d] = x /\ \A c \in Positions : c # d => k.foot[c] = h.foot[c]
    <2>1. h.hdr \in [Positions -> Int] /\ h.foot \in [Positions -> Int]
      BY <1>1 DEF HeapType
    <2> QED BY <1>2, <1>4, <1>8, <1>12, <2>1
  <1>15. h.next \in [Nodes -> Nodes \cup {Null}] /\ h.prev \in [Nodes -> Nodes \cup {Null}]
    BY <1>1 DEF HeapType
  <1>16. k.next[Head(j)] = Head(j)
    <2>1. Head(j) \in Nodes
      BY <1>9, Apart
    <2>2. CASE i = j
      BY <1>12, <1>15, <2>1, <2>2
    <2>3. CASE i # j
      <3>1. Head(i) # Head(j) /\ h.next[Head(j)] = Head(j)
        BY <1>9, <1>10, <2>3, Apart DEF Ring
      <3> QED BY <1>12, <1>15, <2>1, <3>1
    <2> QED BY <2>2, <2>3
  <1>17. g = AddNewBlock(k, b, j)
    <2>1. PICK f \in {0, 2} : h.hdr[w] = U * (e - w) + f
      BY <1>1 DEF TaggedWith, e
    <2>2. k.foot[Epilogue(k)] = U * (Epilogue(k) - w) + f
      BY <1>1, <1>2, <1>4, <1>13, <1>14, <2>1 DEF TaggedWith, e
    <2>3. w \in Positions /\ w <= Epilogue(k) /\ k.pages > 0 /\ f \in 0 .. 3
      BY <1>1, <1>2, <1>4, <1>12, <1>13
    <2>4. Shift(k, Epilogue(k), -SizeOf(k.foot[Epilogue(k)])) = w
      BY <1>12, <2>2, <2>3, LastBlock
    <2>5. SizeOf(k.hdr[b]) = U * u
      <3>1. 2 \in 0 .. 3
        OBVIOUS
      <3> QED BY <1>4, <1>14, <3>1, Words DEF x
    <2> QED BY <1>3, <1>12, <2>4, <2>5 DEF Deposit, j
  <1> HIDE DEF g
  <1>18. Added(k, b, j, g)
    BY <1>2, <1>9, <1>12, <1>16, <1>17, AddNewBlockFields
  <1>19. /\ g \in HeapType /\ g.fault = "none" /\ g.pages = h.pages
         /\ g.hdr = k.hdr /\ g.foot = k.foot
         /\ g.next = [k.next EXCEPT ![Head(j)] = b, ![b] = Head(j)]
         /\ g.prev = [k.prev EXCEPT ![b] = Head(j), ![Head(j)] = b]
    BY <1>12, <1>18 DEF Added
  <1>20. Epilogue(g) = e
    BY <1>19 DEF Epilogue, e
  <1>21. /\ m \in [Positions -> Sizes \cup {-1}] /\ Held(m) = Held(l) \ {p}
         /\ \A q \in Held(m) : m[q] = l[q] /\ q # p /\ q \in Positions /\ q \in Held(l) /\ q # b
    BY <1>2, <1>3 DEF Held
  <1>22. /\ s \in [Positions -> Positions] /\ s[b] = d /\ s[w] = t[w]
         /\ \A q \in Held(m) : s[q] = t[q]
    BY <1>2, <1>3, <1>21
  <1> HIDE DEF m
  <1>23. Blocks(m, {b}, w) = B \ {p}
    <2>1. w # p /\ b # p
      BY <1>3, <1>4 DEF p
    <2> QED BY <1>3, <1>21, <2>1 DEF Blocks, B
  <1>24. Tiled(B \ {p}, s, e)
    <2>1. t[b] \in B /\ e \in Positions
      BY <1>2 DEF p
    <2>2. Tiled(B \ {t[b]}, [t EXCEPT ![b] = t[t[b]]], e)
      BY <1>2, <1>3, <2>1, TiledMerge
    <2> QED BY <2>2 DEF p, d
  <1> HIDE DEF s
  <1>25. Tiles(g, m, s, {b}, w)
    <2>1. \A q \in Held(m) : s[q] = q + Units(m[q])
      BY <1>3, <1>21, <1>22
    <2>2. d \in Held(m)
      BY <1>4, <1>21 DEF d, p
    <2>3. /\ {b} \subseteq Positions /\ w \in Positions
          /\ w \notin Held(m) \cup {b} /\ {b} \cap Held(m) = {}
      BY <1>2, <1>3, <1>21
    <2>4. s[w] = e /\ s[b] \in Held(m)
      BY <1>3, <1>22, <2>2
    <2> HIDE DEF B, e, d
    <2> QED BY <1>20, <1>21, <1>22, <1>23, <1>24, <2>1, <2>3, <2>4 DEF Tiles
  <1>26. TaggedWith(g, m, s, {b}, w)
    <2>1. /\ g.hdr[e] = 1 /\ g.foot[1] = U + 3 /\ g.hdr[w] = h.hdr[w] /\ g.foot[e] = h.foot[e]
      <3>1. 1 \in Positions /\ w # d
        BY <1>3, Apart DEF d, p
      <3>2. /\ g.hdr[e] = h.hdr[e] /\ g.foot[1] = h.foot[1]
            /\ g.hdr[w] = h.hdr[w] /\ g.foot[e] = h.foot[e]
        BY <1>2, <1>3, <1>4, <1>14, <1>19, <3>1
      <3> QED BY <1>1, <3>2 DEF TaggedWith, e
    <2>2. \A q \in Held(m) : g.hdr[q] = U * (s[q] - q) + BlockFlags(q, s, {b})
      <3>1. \A q : BlockFlags(q, s, {b}) = IF q = d THEN 1 ELSE 3
        BY <1>22 DEF BlockFlags
      <3>2. \A q \in Held(m) : q # d => g.hdr[q] = U * (s[q] - q) + 3
        BY <1>5, <1>14, <1>19, <1>21, <1>22
      <3>3. d \in Held(m)
        BY <1>4, <1>21 DEF d, p
      <3>4. g.hdr[d] = U * (s[d] - d) + 1
        BY <1>5, <1>14, <1>19, <1>22, <3>3
      <3> QED BY <3>1, <3>2, <3>4
    <2>3. g.hdr[b] = U * (s[b] - b) + 2 /\ g.foot[s[b]] = g.hdr[b]
      BY <1>14, <1>19, <1>22 DEF x, u
    <2> QED BY <1>1, <1>20, <2>1, <2>2, <2>3 DEF TaggedWith, e
  <1>27. Linked(g, s, {b}, w)
    <2>1. Ring(g, 9, w)
      <3>1. /\ w # Head(i) /\ w # Head(j) /\ b # Head(9) /\ w \in Nodes
            /\ Head(9) \in Nodes /\ Head(i) # Head(9) /\ Head(j) # Head(9)
        BY <1>2, <1>9, Apart
      <3>2. Ring(h, 9, w)
        BY <1>1 DEF Linked
      <3> QED BY <1>3, <1>12, <1>15, <1>19, <3>1, <3>2 DEF Ring
    <2>2. Index(U * (s[b] - b)) = j
      BY <1>22 DEF j, u
    <2>3. Ring(g, j, b)
      <3>1. Head(j) # b /\ Head(j) \in Nodes /\ b \in Nodes
        BY <1>2, <1>9, Apart
      <3> QED BY <1>12, <1>15, <1>19, <3>1 DEF Ring
    <2>4. ASSUME NEW c \in 0 .. 8, c # j PROVE Ring(g, c, Head(c))
      <3>1. Head(c) # Head(j) /\ b # Head(c) /\ Head(c) \in Nodes
        BY <1>2, <1>9, <2>4, Apart
      <3>2. k.next[Head(c)] = Head(c) /\ k.prev[Head(c)] = Head(c)
        <4>1. CASE c = i
          BY <1>12, <1>15, <3>1, <4>1
        <4>2. CASE c # i
          <5>1. Head(c) # Head(i) /\ Ring(h, c, Head(c))
            BY <1>9, <1>10, <2>4, <4>2, Apart
          <5> QED BY <1>12, <1>15, <3>1, <5>1 DEF Ring
        <4> QED BY <4>1, <4>2
      <3>3. k.next \in [Nodes -> Nodes \cup {Null}] /\ k.prev \in [Nodes -> Nodes \cup {Null}]
        BY <1>12 DEF HeapType
      <3> QED BY <1>19, <3>1, <3>2, <3>3 DEF Ring
    <2> QED BY <1>9, <2>1, <2>2, <2>3, <2>4 DEF Linked
  <1>28. Row(g, m, s, {b}, w)
    BY <1>1, <1>19, <1>25, <1>26, <1>27 DEF Row
  <1> QED BY <1>14, <1>19, <1>28 DEF g, k, m, s, d, p

\* A block between the hole and the wilderness makes one of all three.
LEMMA FreeBothSound ==
  ASSUME NEW h, NEW l, NEW t, NEW H, NEW w, Row(h, l, t, H, w), NEW b \in H,
         t[b] \in Held(l), t[t[b]] = w
  PROVE  /\ Row(Deposit(CoalesceBoth(h, t[b])), [l EXCEPT ![t[b]] = -1],
                [t EXCEPT ![b] = Epilogue(h)], {}, b)
         /\ \A c \in Positions : c # Epilogue(h)
                                   => Deposit(CoalesceBoth(h, t[b])).foot[c] = h.foot[c]
  <1> DEFINE e == Epilogue(h)
             p == t[b]
             r == [t EXCEPT ![b] = w]
             s == [t EXCEPT ![b] = e]
             m == [l EXCEPT ![p] = -1]
             u == e - b
             x == h.hdr[b] + SizeOf(h.hdr[p]) + h.hdr[w] - 2
             B == Blocks(l, H, w)
             i == Index(U * (p - b))
             a == [h EXCEPT !.hdr[b] = x, !.foot[e] = x, !.ret = b]
             o == Unlink(a, w)
             k == CoalesceBoth(h, p)
             g == Deposit(k)
  <1>1. /\ h \in HeapType /\ h.fault = "none" /\ h.pages > 0
        /\ Tiles(h, l, t, H, w) /\ TaggedWith(h, l, t, H, w) /\ Linked(h, t, H, w)
    BY DEF Row
  <1>2. /\ e \in Positions /\ w \in Positions /\ w \in Nat /\ w < e /\ w \in B
        /\ b \in B /\ b \in Positions /\ b \in Nat /\ b >= 1 /\ b < e
        /\ p \in B /\ p \in Positions /\ p \in Nat /\ b < p /\ p < w
        /\ SizeOf(h.hdr[p]) = U * (w - p) /\ NextBlock(h, p) = w
        /\ SizeOf(h.hdr[w]) = U * (e - w)
        /\ h.hdr[b] = U * (p - b) + 2 /\ t[w] = e
    <2>1. b \in B /\ p \in B /\ w \in B /\ t[w] = e
      BY <1>1 DEF Blocks, Tiles
    <2>2. h.hdr[b] = U * (p - b) + 2
      BY <1>1 DEF TaggedWith
    <2>3. /\ e \in Positions
          /\ \A q \in B : /\ q \in Positions /\ q \in Nat /\ q >= 1 /\ q < e
                          /\ q < t[q]
                          /\ SizeOf(h.hdr[q]) = U * (t[q] - q) /\ NextBlock(h, q) = t[q]
      BY RowBlocks
    <2> HIDE DEF B, e
    <2> QED BY <2>1, <2>2, <2>3
  <1>3. /\ l \in [Positions -> Sizes \cup {-1}] /\ t \in [Positions -> Positions]
        /\ H = {b} /\ H \cap Held(l) = {} /\ w \notin Held(l) /\ w # b
        /\ Tiled(B, t, e) /\ B \in SUBSET Positions
        /\ \A q \in Held(l) : t[q] = q + Units(l[q])
    <2>1. /\ l \in [Positions -> Sizes \cup {-1}] /\ t \in [Positions -> Positions]
          /\ t[w] = e /\ Tiled(B, t, e) /\ \A q \in Held(l) : t[q] = q + Units(l[q])
          /\ H \subseteq Positions /\ w \in Positions
          /\ w \notin Held(l) \cup H /\ H \cap Held(l) = {} /\ \A c, q \in H : c = q
      BY <1>1 DEF Tiles
    <2>2. H = {b} /\ w # b
      BY <2>1
    <2>3. B \in SUBSET Positions
      BY <2>1 DEF Blocks, Held
    <2> HIDE DEF B, e
    <2> QED BY <2>1, <2>2, <2>3
  <1>4. e \in Nat /\ b # e /\ b # p /\ p # w /\ p # e /\ w # e /\ e # 1 /\ u \in Int
    <2>1. e \in Nat
      BY <1>2, Apart
    <2>2. b \in Nat /\ p \in Nat /\ w \in Nat /\ b < p /\ p < w /\ w < e /\ b >= 1
      BY <1>2
    <2> HIDE DEF e, p
    <2> QED BY <2>1, <2>2
  <1>5. PICK f \in {0, 2} : h.hdr[w] = U * (e - w) + f
    BY <1>1 DEF TaggedWith, e
  <1>6. /\ x = U * u + f /\ x \in Int
        /\ \A q \in Held(l) : q # p => h.hdr[q] = U * (t[q] - q) + 3
    <2>1. \A q \in Held(l) : q # p => BlockFlags(q, t, H) = 3
      BY <1>3 DEF BlockFlags
    <2>2. \A q \in Held(l) : q # p => h.hdr[q] = U * (t[q] - q) + 3
      BY <1>1, <2>1 DEF TaggedWith
    <2>3. /\ h.hdr[b] = U * (p - b) + 2 /\ SizeOf(h.hdr[p]) = U * (w - p)
          /\ b \in Nat /\ p \in Nat /\ w \in Nat /\ e \in Nat
      BY <1>2, <1>4
    <2> HIDE DEF p, e
    <2> QED BY <1>5, <2>2, <2>3 DEF U
  <1>7. Shift(h, p, -SizeOf(h.foot[p])) = b /\ b # Null /\ e # Null
    <2>1. b # Null /\ e # Null
      <3> HIDE DEF e
      <3> QED BY <1>2, Apart
    <2>2. Shift(h, p, -SizeOf(h.foot[p])) = b
      BY HoleBefore
    <2> QED BY <2>1, <2>2
  <1>8. Shift(h, p, SizeOf(h.hdr[p]) + SizeOf(h.hdr[w])) = e
    <2> DEFINE v == e - p
    <2>1. /\ SizeOf(h.hdr[p]) = U * (w - p) /\ SizeOf(h.hdr[w]) = U * (e - w)
          /\ p \in Nat /\ w \in Nat /\ e \in Nat /\ p < w /\ w < e
      BY <1>2, <1>4
    <2>2. /\ v \in Int /\ p \in Int /\ p + v \in 0 .. Epilogue(h) /\ p + v = e
          /\ SizeOf(h.hdr[p]) + SizeOf(h.hdr[w]) = U * v
      BY <2>1 DEF U
    <2> HIDE DEF v, p
    <2> QED BY <2>2, Shifted
  <1> HIDE DEF e, p, B
  <1>9. k = IF o.fault # "none" THEN o ELSE Unlink(o, b)
    <2> DEFINE n0 == NextBlock(h, p)
               q0 == Shift(h, p, -SizeOf(h.foot[p]))
               m0 == Shift(h, p, SizeOf(h.hdr[p]) + SizeOf(h.hdr[n0]))
               x0 == h.hdr[q0] + SizeOf(h.hdr[p]) + h.hdr[n0] - 2
               o0 == Unlink([h EXCEPT !.hdr[q0] = x0, !.foot[m0] = x0, !.ret = q0], n0)
    <2>1. k = IF Null \in {q0, m0} THEN Wild(h)
              ELSE IF o0.fault # "none" THEN o0 ELSE Unlink(o0, q0)
      BY DEF CoalesceBoth
    <2>2. n0 = w /\ q0 = b
      BY <1>2, <1>7
    <2> HIDE DEF n0, q0
    <2>3. m0 = e
      BY <1>8, <2>2
    <2> HIDE DEF m0
    <2>4. x0 = x
      BY <2>2
    <2> HIDE DEF x0, x
    <2>5. o0 = o
      BY <2>2, <2>3, <2>4
    <2> HIDE DEF o0, o, k
    <2> QED BY <1>7, <2>1, <2>2, <2>3, <2>5
  <1> HIDE DEF x, u, i
  <1>10. /\ a \in HeapType /\ a.fault = "none" /\ a.pages = h.pages /\ a.ret = b
         /\ a.hdr = [h.hdr EXCEPT ![b] = x] /\ a.foot = [h.foot EXCEPT ![e] = x]
         /\ a.next = h.next /\ a.prev = h.prev
    <2>1. /\ h \in HeapType /\ b \in Positions /\ e \in Positions /\ x \in Int /\ h.fault = "none"
      BY <1>1, <1>2, <1>6
    <2> QED BY <2>1 DEF HeapType
  <1> HIDE DEF a, o, k
  <1>11. i \in 0 .. 8 /\ i \in 0 .. 9 /\ i # 9
    BY Indexed, Apart DEF i
  <1>12. /\ Ring(h, 9, w) /\ Ring(h, i, b) /\ \A c \in 0 .. 8 : c # i => Ring(h, c, Head(c))
    <2>1. i = Index(U * (t[b] - b)) /\ \A c \in H : c = b
      BY <1>3 DEF i, p
    <2> QED BY <1>1, <1>11, <2>1 DEF Linked
  <1>13. h.next \in [Nodes -> Nodes \cup {Null}] /\ h.prev \in [Nodes -> Nodes \cup {Null}]
    BY <1>1 DEF HeapType
  <1>14. Removed(a, 9, o)
    <2> DEFINE nine == 9
    <2>1. nine \in 0 .. 9 /\ a.next[w] = Head(nine) /\ a.prev[w] = Head(nine)
      BY <1>10, <1>12 DEF Ring
    <2> HIDE DEF nine
    <2>2. Removed(a, nine, o)
      BY <1>2, <1>10, <2>1, UnlinkFields DEF o
    <2> QED BY <2>2 DEF nine
  <1>15. /\ o \in HeapType /\ o.fault = "none" /\ o.pages = h.pages /\ o.ret = b
         /\ o.hdr = a.hdr /\ o.foot = a.foot
         /\ o.next = [h.next EXCEPT ![Head(9)] = Head(9)]
         /\ o.prev = [h.prev EXCEPT ![Head(9)] = Head(9)]
    BY <1>10, <1>14 DEF Removed
  <1>16. Removed(o, i, k)
    <2>1. b # Head(9) /\ b \in Nodes
      BY <1>2, Apart
    <2>2. o.next[b] = Head(i) /\ o.prev[b] = Head(i)
      BY <1>12, <1>13, <1>15, <2>1 DEF Ring
    <2>3. Removed(o, i, Unlink(o, b))
      BY <1>2, <1>11, <1>15, <2>2, UnlinkFields
    <2> QED BY <1>9, <1>15, <2>3
  <1>17. /\ k \in HeapType /\ k.fault = "none" /\ k.pages = h.pages /\ k.ret = b
         /\ k.hdr = a.hdr /\ k.foot = a.foot
         /\ k.next = [o.next EXCEPT ![Head(i)] = Head(i)]
         /\ k.prev = [o.prev EXCEPT ![Head(i)] = Head(i)]
    BY <1>15, <1>16 DEF Removed
  <1>18. Epilogue(k) = e
    BY <1>17 DEF Epilogue, e
  <1>19. /\ k.hdr[b] = x /\ \A q \in Positions : q # b => k.hdr[q] = h.hdr[q]
         /\ k.foot[e] = x /\ \A c \in Positions : c # e => k.foot[c] = h.foot[c]
    <2>1. h.hdr \in [Positions -> Int] /\ h.foot \in [Positions -> Int]
      BY <1>1 DEF HeapType
    <2> QED BY <1>2, <1>4, <1>10, <1>17, <2>1
  <1>20. g = SetWilderness(k, b)
    <2>1. k.foot[Epilogue(k)] = U * (Epilogue(k) - b) + f
      BY <1>6, <1>18, <1>19 DEF u
    <2>2. b \in Positions /\ b <= Epilogue(k) /\ k.pages > 0 /\ f \in 0 .. 3
      BY <1>1, <1>2, <1>4, <1>17, <1>18
    <2>3. Shift(k, Epilogue(k), -SizeOf(k.foot[Epilogue(k)])) = b
      BY <1>17, <2>1, <2>2, LastBlock
    <2> QED BY <1>17, <2>3 DEF Deposit
  <1> HIDE DEF g
  <1>21. /\ g \in HeapType /\ g.fault = "none" /\ g.pages = h.pages
         /\ g.hdr = k.hdr /\ g.foot = k.foot
         /\ g.next = [k.next EXCEPT ![b] = Head(9), ![Head(9)] = b]
         /\ g.prev = [k.prev EXCEPT ![b] = Head(9), ![Head(9)] = b]
    <2>1. b \in Positions /\ k \in HeapType
      BY <1>2, <1>17
    <2>2. /\ g \in HeapType /\ g.pages = k.pages /\ g.fault = k.fault
          /\ g.hdr = k.hdr /\ g.foot = k.foot
          /\ g.next = [k.next EXCEPT ![b] = Head(9), ![Head(9)] = b]
          /\ g.prev = [k.prev EXCEPT ![b] = Head(9), ![Head(9)] = b]
      BY <1>20, <2>1, SetWildernessFields
    <2> QED BY <1>17, <2>2
  <1>22. Epilogue(g) = e
    BY <1>21 DEF Epilogue, e
  <1>23. /\ m \in [Positions -> Sizes \cup {-1}] /\ Held(m) = Held(l) \ {p}
         /\ \A q \in Held(m) : m[q] = l[q] /\ q # p /\ q \in Positions /\ q \in Held(l) /\ q # b
    BY <1>2, <1>3 DEF Held
  <1>24. s \in [Positions -> Positions] /\ s[b] = e /\ \A q \in Held(m) : s[q] = t[q]
    BY <1>2, <1>3, <1>23
  <1> HIDE DEF m
  <1>25. Blocks(m, {}, b) = (B \ {p}) \ {w} /\ b \notin Held(m)
    <2>1. w # p /\ b # p /\ p \in Held(l)
      BY <1>3, <1>4 DEF p
    <2> QED BY <1>3, <1>23, <2>1 DEF Blocks, B
  <1>26. Tiled((B \ {p}) \ {w}, s, e)
    <2>1. t[b] \in B /\ e \in Positions /\ t[b] = p /\ t[p] = w
      BY <1>2 DEF p
    <2>2. Tiled(B \ {t[b]}, [t EXCEPT ![b] = t[t[b]]], e)
      BY <1>2, <1>3, <2>1, TiledMerge
    <2>3. Tiled(B \ {p}, r, e)
      BY <2>1, <2>2
    <2>4. /\ r \in [Positions -> Positions] /\ r[b] = w /\ r[w] = e
          /\ B \ {p} \in SUBSET Positions /\ b \in B \ {p} /\ w \in B \ {p}
      BY <1>2, <1>3, <1>4
    <2> DEFINE C == B \ {p}
    <2>5. /\ r \in [Positions -> Positions] /\ C \in SUBSET Positions /\ b \in C
          /\ r[b] \in C /\ Tiled(C, r, e) /\ e \in Positions
      BY <2>1, <2>3, <2>4
    <2>6. [r EXCEPT ![b] = e] = s
      OBVIOUS
    <2> HIDE DEF r, C, s
    <2>7. Tiled(C \ {r[b]}, [r EXCEPT ![b] = r[r[b]]], e)
      BY <2>5, TiledMerge
    <2> QED BY <2>4, <2>6, <2>7 DEF C
  <1> HIDE DEF s
  <1>27. Tiles(g, m, s, {}, b)
    <2>1. \A q \in Held(m) : s[q] = q + Units(m[q])
      BY <1>3, <1>23, <1>24
    <2> QED BY <1>2, <1>22, <1>23, <1>24, <1>25, <1>26, <2>1 DEF Tiles
  <1>28. TaggedWith(g, m, s, {}, b)
    <2>1. g.hdr[e] = 1 /\ g.foot[1] = U + 3
      <3>1. g.hdr[e] = h.hdr[e] /\ g.foot[1] = h.foot[1]
        BY <1>2, <1>4, <1>19, <1>21, Apart
      <3> QED BY <1>1, <3>1 DEF TaggedWith, e
    <2>2. \E c \in {0, 2} : g.hdr[b] = U * (e - b) + c
      BY <1>6, <1>19, <1>21 DEF u
    <2>3. \A q \in Held(m) : g.hdr[q] = U * (s[q] - q) + BlockFlags(q, s, {})
      <3>1. \A q, z : BlockFlags(q, z, {}) = 3
        BY DEF BlockFlags
      <3> QED BY <1>6, <1>19, <1>21, <1>23, <1>24, <3>1
    <2>4. g.foot[e] = g.hdr[b]
      BY <1>19, <1>21
    <2> QED BY <1>22, <2>1, <2>2, <2>3, <2>4 DEF TaggedWith
  <1>29. Linked(g, s, {}, b)
    <2>1. /\ k.next \in [Nodes -> Nodes \cup {Null}] /\ k.prev \in [Nodes -> Nodes \cup {Null}]
          /\ o.next \in [Nodes -> Nodes \cup {Null}] /\ o.prev \in [Nodes -> Nodes \cup {Null}]
      BY <1>15, <1>17 DEF HeapType
    <2>2. Ring(g, 9, b)
      <3>1. 9 \in 0 .. 9 /\ Head(9) # b /\ Head(9) \in Nodes /\ b \in Nodes
        BY <1>2, Apart
      <3> QED BY <1>21, <2>1, <3>1 DEF Ring
    <2>3. ASSUME NEW c \in 0 .. 8 PROVE Ring(g, c, Head(c))
      <3>1. Head(c) # Head(9) /\ b # Head(c) /\ Head(c) \in Nodes
        BY <1>2, Apart
      <3>2. k.next[Head(c)] = Head(c) /\ k.prev[Head(c)] = Head(c)
        <4>1. CASE c = i
          BY <1>17, <2>1, <3>1, <4>1
        <4>2. CASE c # i
          <5>1. Head(c) # Head(i)
            BY <1>11, <4>2, Apart
          <5>2. o.next[Head(c)] = Head(c) /\ o.prev[Head(c)] = Head(c)
            BY <1>12, <1>13, <1>15, <3>1, <4>2 DEF Ring
          <5> QED BY <1>17, <2>1, <3>1, <5>1, <5>2
        <4> QED BY <4>1, <4>2
      <3> QED BY <1>21, <2>1, <3>1, <3>2 DEF Ring
    <2> QED BY <2>2, <2>3 DEF Linked
  <1>30. Row(g, m, s, {}, b)
    BY <1>1, <1>21, <1>27, <1>28, <1>29 DEF Row
  <1> QED BY <1>19, <1>21, <1>30 DEF g, k, m, s, e, p

-----------------------------------------------------------------------------
(* What the client asks for and gives back.                                *)

Fits(D) ==
  /\ D \in 1 .. PageUnits /\ \A n \in Sizes : Units(n) % D = 0
  /\ \A k \in 1 .. MaxPages : (PageUnits * k - 2) % D >= 2

Spaced(D, B) == \A p \in B : (p - 1) % D = 0

\* The word behind a block says that it is allocated.
OddFeet(h, l, t) == \A p \in Held(l) : h.foot[t[p]] % 2 = 1

\* The heap after a request, with the client's blocks l: there is no hole.
Served(D, tags, h, l) ==
  \E t, w : /\ Row(h, l, t, {}, w) /\ Spaced(D, Blocks(l, {}, w))
            /\ tags => OddFeet(h, l, t)

\* A client that leaves the last bytes of its blocks alone leaves their footers alone.
LEMMA UsedServed ==
  ASSUME NEW D, NEW tags \in BOOLEAN, NEW h, NEW l, Served(D, tags, h, l), NEW n \in Sizes,
         h.ret = 0 \/ (h.ret \in Held(l) /\ l[h.ret] = n), tags => ~UsesFooter(n)
  PROVE  Served(D, tags, Used(h, n), l) /\ Used(h, n).ret = h.ret
  <1> DEFINE q == h.ret
             g == Overwritten(h, q, n, Zero)
  <1>1. PICK t, w : /\ Row(h, l, t, {}, w) /\ Spaced(D, Blocks(l, {}, w))
                    /\ tags => OddFeet(h, l, t)
    BY DEF Served
  <1>2. CASE ~(Writes /\ h.fault = "none" /\ h.ret # 0)
    BY <1>2 DEF Used
  <1>3. CASE Writes /\ h.fault = "none" /\ h.ret # 0
    <2>1. q \in Held(l) /\ l[q] = n /\ Used(h, n) = g
      BY <1>3 DEF Used
    <2> HIDE DEF q
    <2>2. /\ Row(g, l, t, {}, w) /\ g.ret = h.ret
          /\ \A b \in Positions : b <= q \/ b > t[q] \/ (b = t[q] /\ ~UsesFooter(n))
                                    => g.foot[b] = h.foot[b]
      BY <1>1, <2>1, OverwrittenSound
    <2> HIDE DEF g
    <2>3. ASSUME tags PROVE OddFeet(g, l, t)
      <3>1. ASSUME NEW p \in Held(l) PROVE g.foot[t[p]] = h.foot[t[p]]
        <4>1. /\ p \in Blocks(l, {}, w) /\ q \in Blocks(l, {}, w)
              /\ Tiled(Blocks(l, {}, w), t, Epilogue(h))
          BY <1>1, <2>1 DEF Blocks, Row, Tiles
        <4>2. /\ p \in Nat /\ q \in Nat /\ t[p] \in Nat /\ t[q] \in Nat /\ t[p] \in Positions
              /\ p < t[p]
          BY <1>1, <4>1, RowBlocks
        <4>3. (q <= p \/ t[p] <= q) /\ (p <= q \/ t[q] <= p)
          BY <4>1 DEF Tiled
        <4>4. p = q \/ t[p] <= q \/ t[p] > t[q]
          BY <4>2, <4>3
        <4> QED BY <2>2, <2>3, <4>2, <4>4
      <3> QED BY <1>1, <2>3, <3>1 DEF OddFeet
    <2> QED BY <1>1, <2>1, <2>2, <2>3 DEF Served
  <1> QED BY <1>2, <1>3

\* What is left of the wilderness is two units or more.
LEMMA WildernessLeft ==
  ASSUME NEW D, Fits(D), NEW h \in HeapType, h.pages > 0, NEW w \in Positions,
         (w - 1) % D = 0, NEW n \in Sizes, w + Units(n) <= Epilogue(h)
  PROVE  w + Units(n) <= Epilogue(h) - 2 /\ (w + Units(n) - 1) % D = 0
  <1> DEFINE u == Units(n)
             a == w - 1
             b == a + u
             c == Epilogue(h) - 1
  <1>1. D \in Nat \ {0} /\ u % D = 0
    BY PagesAssumption DEF Fits
  <1>2. /\ u \in Int /\ w \in Int /\ Epilogue(h) \in Int /\ h.pages \in 1 .. MaxPages
        /\ Epilogue(h) = PageUnits * h.pages - 1 /\ PageUnits * h.pages \in Int
    <2>1. u \in Int
      BY Rounded, SizesAssumption
    <2>2. w \in Int /\ Epilogue(h) \in Int
      BY Pages, Apart
    <2>3. h.pages \in 1 .. MaxPages /\ Epilogue(h) = PageUnits * h.pages - 1
      BY Pages
    <2>4. PageUnits * h.pages \in Int
      BY <2>3, PagesAssumption
    <2> QED BY <2>1, <2>2, <2>3, <2>4
  <1>3. a \in Int /\ b \in Int /\ c \in Int /\ c = PageUnits * h.pages - 2 /\ a % D = 0
    BY <1>2
  <1>4. c % D >= 2
    BY <1>2, <1>3 DEF Fits
  <1>5. b % D = 0
    <2> HIDE DEF a, u
    <2> QED BY <1>1, <1>2, <1>3, MultiplesAdd
  <1>6. b <= c
    BY <1>2
  <1>7. b <= c - 2
    <2> HIDE DEF b, c
    <2> QED BY <1>1, <1>3, <1>4, <1>5, <1>6, MultiplesBelow
  <1>8. b = w + u - 1
    BY <1>2
  <1> HIDE DEF u
  <1>9. w + u <= Epilogue(h) - 2
    BY <1>2, <1>7, <1>8
  <1>10. (w + u - 1) % D = 0
    <2> HIDE DEF b
    <2> QED BY <1>5, <1>8
  <1> QED BY <1>9, <1>10 DEF u

\* What a request leaves the client with.
Gotten(l, k, n) == IF k.ret # 0 THEN [l EXCEPT ![k.ret] = n] ELSE l
Answered(D, tags, k, l, n) == Served(D, tags, k, Gotten(l, k, n)) /\ k.ret \in Positions

\* A request is served from the wilderness, which grows as it must, if there is no hole.
LEMMA MallocFromWilderness ==
  ASSUME NEW D, Fits(D), NEW tags \in BOOLEAN, NEW h, NEW l, Served(D, tags, h, l),
         NEW n \in Sizes, n # 0
  PROVE  Answered(D, tags, MallocIn(h, n), l, n)
  <1> DEFINE u == Units(n)
             size == U * u
             g == GrowTo(h, size)
             k == MallocIn(h, n)
  <1>1. PICK t, w : /\ Row(h, l, t, {}, w) /\ Spaced(D, Blocks(l, {}, w))
                    /\ tags => OddFeet(h, l, t)
    BY DEF Served
  <1>2. RoundTo64(n + 8) = size /\ u \in Nat \ {0} /\ n \in Nat
    BY Rounded, SizesAssumption
  <1>3. SearchFreeLists(h, size) = Head(8) /\ Head(8) \in Heads /\ Head(8) # Null
    <2>1. SearchFreeLists(h, size) = Head(8)
      BY <1>1, SearchFindsNone
    <2> DEFINE eight == 8
    <2>2. eight \in 0 .. 9
      OBVIOUS
    <2> HIDE DEF eight
    <2>3. Head(eight) \in Heads /\ Head(eight) # Null
      BY <2>2, Apart
    <2> QED BY <2>1, <2>3 DEF eight
  <1>4. k = IF ~WildernessFits(g, size) THEN [g EXCEPT !.ret = 0] ELSE AllocateWilderness(g, size)
    <2> HIDE DEF size
    <2> QED BY <1>2, <1>3 DEF MallocIn
  <1>5. Grown(h, l, t, {}, w, g)
    BY <1>1, GrowToSound
  <1> HIDE DEF g, k
  <1>6. PICK s : Row(g, l, s, {}, w) /\ \A p \in Held(l) : s[p] = t[p]
    BY <1>5 DEF Grown
  <1>7. tags => OddFeet(g, l, s)
    BY <1>1, <1>5, <1>6 DEF Grown, OddFeet
  <1>8. CASE ~WildernessFits(g, size)
    <2> DEFINE zero == 0
    <2>1. zero \in Positions
      BY FirstPlace
    <2>2. k = [g EXCEPT !.ret = zero]
      BY <1>4, <1>8
    <2> HIDE DEF zero
    <2>3. Row(k, l, s, {}, w) /\ k.ret = zero /\ k.foot = g.foot
      BY <1>6, <2>1, <2>2, RowRet
    <2>4. tags => OddFeet(k, l, s)
      BY <1>7, <2>3 DEF OddFeet
    <2>5. Gotten(l, k, n) = l /\ k.ret \in Positions
      BY <2>1, <2>3 DEF Gotten, zero
    <2> HIDE DEF k
    <2>6. Served(D, tags, k, l)
      BY <1>1, <2>3, <2>4 DEF Served
    <2> QED BY <2>5, <2>6 DEF Answered, k
  <1>9. CASE WildernessFits(g, size)
    <2> DEFINE e == Epilogue(g)
               v == w + u
               m == [l EXCEPT ![w] = n]
               r == [s EXCEPT ![w] = v, ![v] = e]
    <2>1. /\ g \in HeapType /\ g.pages > 0 /\ w \in Positions /\ w \in Nat /\ w >= 1
          /\ w \in Blocks(l, {}, w) /\ \A p \in Held(l) : s[p] \in Positions /\ s[p] <= w
      <3>1. /\ g \in HeapType /\ g.pages > 0 /\ w \in Blocks(l, {}, w)
            /\ \A p \in Blocks(l, {}, w) : p \in Positions /\ p \in Nat /\ p >= 1 /\ p <= w
            /\ \A p \in Held(l) : s[p] \in Blocks(l, {}, w)
        BY <1>6, RowBlocks
      <3> QED BY <3>1
    <2>2. (w - 1) % D = 0
      BY <1>1, <2>1 DEF Spaced
    <2>3. w + u <= e => w + u <= e - 2 /\ (w + u - 1) % D = 0
      BY <2>1, <2>2, WildernessLeft
    <2>4. k = AllocateWilderness(g, U * Units(n))
      BY <1>4, <1>9
    <2>5. /\ Row(k, m, r, {}, v) /\ k.ret = w /\ k.foot[v] % 2 = 1
          /\ \A b \in Positions : b <= w => k.foot[b] = g.foot[b]
      BY <1>6, <1>9, <2>3, <2>4, AllocateWildernessSound
    <2>6. Held(m) = Held(l) \cup {w} /\ w \notin Held(l)
      <3>1. l \in [Positions -> Sizes \cup {-1}] /\ w \notin Held(l)
        BY <1>6 DEF Row, Tiles
      <3> QED BY <1>2, <2>1, <3>1 DEF Held
    <2>7. w # v /\ r[w] = v /\ \A p \in Held(l) : r[p] = s[p]
      <3>1. s \in [Positions -> Positions]
        BY <1>6 DEF Row, Tiles
      <3>2. v \notin Held(m)
        BY <2>5 DEF Row, Tiles
      <3>3. w # v
        BY <1>2, <2>1
      <3>4. \A p \in Held(l) : p # w /\ p # v /\ p \in Positions
        BY <2>6, <3>2 DEF Held
      <3> HIDE DEF v
      <3> QED BY <2>1, <3>1, <3>3, <3>4
    <2> HIDE DEF m, r
    <2>8. tags => OddFeet(k, m, r)
      <3>1. \A p \in Held(l) : k.foot[r[p]] = g.foot[s[p]]
        BY <2>1, <2>5, <2>7
      <3> QED BY <1>7, <2>5, <2>6, <2>7, <3>1 DEF OddFeet
    <2>9. v <= e
      <3>1. /\ v \in Blocks(m, {}, v) /\ Epilogue(k) = Epilogue(g)
        <4>1. k.pages = g.pages
          BY <2>4, <2>1 DEF AllocateWilderness, SetWilderness, HeapType
        <4> QED BY <4>1 DEF Blocks, Epilogue
      <3>2. v < Epilogue(k) /\ v \in Nat /\ Epilogue(k) \in Positions
        BY <2>5, <3>1, RowBlocks
      <3>3. Epilogue(k) \in Nat
        BY <3>2, Apart
      <3> QED BY <3>1, <3>2, <3>3
    <2>10. Spaced(D, Blocks(m, {}, v))
      <3>1. (v - 1) % D = 0
        <4>1. w + u <= e
          BY <2>9
        <4>2. (w + u - 1) % D = 0
          BY <2>3, <4>1
        <4>3. v - 1 = w + u - 1
          <5> HIDE DEF u
          <5> QED BY <1>2, <2>1
        <4> HIDE DEF v
        <4> QED BY <4>2, <4>3
      <3>2. Blocks(m, {}, v) = Blocks(l, {}, w) \cup {v}
        BY <2>6 DEF Blocks
      <3> HIDE DEF v
      <3> QED BY <1>1, <3>1, <3>2 DEF Spaced
    <2>11. Gotten(l, k, n) = m
      BY <2>1, <2>5 DEF Gotten, m
    <2>12. Served(D, tags, k, m)
      BY <2>5, <2>8, <2>10 DEF Served
    <2> QED BY <2>1, <2>5, <2>11, <2>12 DEF Answered, k
  <1> QED BY <1>8, <1>9

\* A request for as much as the hole is served with the hole.
LEMMA MallocFromHole ==
  ASSUME NEW D, NEW tags \in BOOLEAN, NEW h, NEW l, NEW t, NEW H, NEW w, Row(h, l, t, H, w),
         Spaced(D, Blocks(l, H, w)), tags => OddFeet(h, l, t),
         NEW n \in Sizes, n # 0, NEW b \in H, t[b] = b + Units(n)
  PROVE  Answered(D, tags, MallocIn(h, n), l, n)
  <1> DEFINE u == Units(n)
             size == U * u
             m == [l EXCEPT ![b] = n]
             k == MallocIn(h, n)
  <1>1. RoundTo64(n + 8) = size /\ u \in Nat \ {0} /\ n \in Nat
    BY Rounded, SizesAssumption
  <1>2. /\ b \in Positions /\ b \in Nat /\ b >= 1 /\ t[b] \in Positions
    <2>1. b \in Blocks(l, H, w)
      BY DEF Blocks
    <2> QED BY <2>1, RowBlocks
  <1>3. SearchFreeLists(h, size) = b
    <2>1. SearchFreeLists(h, U * (t[b] - b)) = b
      BY SearchFindsHole
    <2>2. t[b] - b = u
      BY <1>1, <1>2
    <2> QED BY <2>1, <2>2
  <1>4. k = AllocateBlock(h, b, U * Units(n))
    <2>1. b \notin Heads /\ b # Null
      BY <1>2, Apart
    <2> HIDE DEF size
    <2>2. k = AllocateBlock(h, b, size)
      BY <1>1, <1>3, <2>1 DEF MallocIn
    <2> QED BY <2>2 DEF size
  <1> HIDE DEF k
  <1>5. /\ Row(k, m, t, {}, w) /\ k.ret = b /\ k.foot[t[b]] % 2 = 1
        /\ \A c \in Positions : c # t[b] => k.foot[c] = h.foot[c]
    BY <1>4, AllocateHoleSound
  <1>6. Held(m) = Held(l) \cup {b} /\ H = {b}
    <2>1. l \in [Positions -> Sizes \cup {-1}] /\ H = {b}
      BY DEF Row, Tiles
    <2> QED BY <1>1, <1>2, <2>1 DEF Held
  <1> HIDE DEF m
  <1>7. tags => OddFeet(k, m, t)
    <2>1. \A p \in Held(l) : t[p] \in Positions
      BY RowBlocks DEF Blocks
    <2> QED BY <1>5, <1>6, <2>1 DEF OddFeet
  <1>8. Blocks(m, {}, w) = Blocks(l, H, w)
    BY <1>6 DEF Blocks
  <1>9. Served(D, tags, k, m)
    BY <1>5, <1>7, <1>8 DEF Served
  <1>10. Gotten(l, k, n) = m
    BY <1>2, <1>5 DEF Gotten, m
  <1> QED BY <1>2, <1>5, <1>9, <1>10 DEF Answered, k

\* Every request of a careful client leaves a heap without a hole, in which the new block
\* is the client's (sfmm.c:541-593).
Unused(h, l) ==
  /\ h \in HeapType /\ h.fault = "none" /\ h.pages = 0
  /\ l \in [Positions -> Sizes \cup {-1}] /\ Held(l) = {}

\* sf_malloc answers with a block, or with an error and the heap in order.
LEMMA DoMallocSound ==
  ASSUME NEW D, Fits(D), NEW tags \in BOOLEAN, NEW h, NEW l,
         Unused(h, l) \/ Served(D, tags, h, l), NEW n \in Sizes, n # 0
  PROVE  Answered(D, tags, DoMalloc(h, n), l, n)
  <1>1. CASE Unused(h, l)
    <2> DEFINE g == InitHeap(h)
               one == 1
    <2>1. PICK t : Row(g, l, t, {}, one)
      BY <1>1, InitHeapSound DEF Unused
    <2>2. Spaced(D, Blocks(l, {}, one))
      <3>1. Blocks(l, {}, one) = {1}
        BY <1>1 DEF Unused, Blocks
      <3>2. (1 - 1) % D = 0
        BY PagesAssumption DEF Fits
      <3> QED BY <3>1, <3>2 DEF Spaced
    <2> HIDE DEF g
    <2>3. OddFeet(g, l, t)
      BY <1>1 DEF Unused, OddFeet
    <2> HIDE DEF one
    <2>4. Served(D, tags, g, l)
      BY <2>1, <2>2, <2>3 DEF Served
    <2>5. DoMalloc(h, n) = MallocIn(g, n)
      BY <1>1 DEF DoMalloc, Unused, g
    <2>6. Answered(D, tags, MallocIn(g, n), l, n)
      BY <2>4, MallocFromWilderness
    <2> QED BY <2>5, <2>6
  <1>2. CASE Served(D, tags, h, l)
    <2>1. h.pages # 0
      BY <1>2 DEF Served, Row, HeapType
    <2>2. DoMalloc(h, n) = MallocIn(h, n)
      BY <2>1 DEF DoMalloc
    <2>3. Answered(D, tags, MallocIn(h, n), l, n)
      BY <1>2, MallocFromWilderness
    <2> QED BY <2>2, <2>3
  <1> QED BY <1>1, <1>2

\* The same when the client then uses what it was given.
LEMMA AnsweredUsed ==
  ASSUME NEW D, NEW tags \in BOOLEAN, NEW k, NEW l, NEW n \in Sizes, n # 0,
         l \in [Positions -> Sizes \cup {-1}],
         Answered(D, tags, k, l, n), tags => ~UsesFooter(n)
  PROVE  Answered(D, tags, Used(k, n), l, n)
  <1> DEFINE m == Gotten(l, k, n)
  <1>1. k.ret = 0 \/ (k.ret \in Held(m) /\ m[k.ret] = n)
    BY SizesAssumption DEF Answered, Gotten, Held
  <1>2. Served(D, tags, Used(k, n), m) /\ Used(k, n).ret = k.ret
    <2> HIDE DEF m
    <2>1. Served(D, tags, k, m)
      BY DEF Answered, m
    <2> QED BY <1>1, <2>1, UsedServed
  <1>3. Gotten(l, Used(k, n), n) = m
    BY <1>2 DEF Gotten
  <1> QED BY <1>2, <1>3 DEF Answered

\* A client that gives a block back makes a hole, fills or widens the hole in front of it,
\* or makes the wilderness longer; the feet of its other blocks stay as they were
\* (sfmm.c:402-512, 595-626).
GivenAs(h, l, t, H, w, p, g, s, K, v) ==
  /\ Row(g, [l EXCEPT ![p] = -1], s, K, v)
  /\ Blocks([l EXCEPT ![p] = -1], K, v) \subseteq Blocks(l, H, w)
  /\ \A q \in Held(l) \ {p} : s[q] = t[q] /\ g.foot[t[q]] = h.foot[t[q]]
  /\ t[p] = w => K = {}
  /\ \A b \in K : b \in H \/ (H = {} /\ b = p /\ s[p] = t[p])

Given(h, l, t, H, w, p, g) == \E s, K, v : GivenAs(h, l, t, H, w, p, g, s, K, v)

\* sf_free gives a block back and leaves the row of blocks in order.
LEMMA DoFreeSound ==
  ASSUME NEW h, NEW l, NEW t, NEW H, NEW w, Row(h, l, t, H, w), NEW p \in Held(l),
         H = {} => h.foot[p] % 2 = 1, NEW b, H = {} \/ (H = {b} /\ t[b] = p)
  PROVE  Given(h, l, t, H, w, p, DoFree(h, p))
  <1> DEFINE e == Epilogue(h)
             d == t[p]
             m == [l EXCEPT ![p] = -1]
             B == Blocks(l, H, w)
             g == DoFree(h, p)
  <1>1. /\ h \in HeapType /\ h.fault = "none" /\ h.pages > 0 /\ p \in B /\ w \in B
        /\ Tiled(B, t, e) /\ w \notin Held(l) \cup H
        /\ l \in [Positions -> Sizes \cup {-1}] /\ t \in [Positions -> Positions]
        /\ H \subseteq Positions
    BY DEF Row, Tiles, Blocks
  <1>2. /\ p \in Positions /\ p \in Nat /\ p >= 1 /\ d \in Positions /\ d \in Nat /\ p < d
        /\ SizeOf(h.hdr[p]) = U * (d - p) /\ NextBlock(h, p) = d /\ ThisAllocated(h.hdr[p])
        /\ d \in B /\ d # e /\ e \in Positions
        /\ PrevAllocated(h.hdr[p]) <=> \A c \in H : t[c] # p
    BY <1>1, RowBlocks
  <1>3. PrevAllocated(h.hdr[p]) <=> H = {}
    BY <1>2
  <1>4. ThisAllocated(h.hdr[d]) <=> d \in Held(l)
    BY <1>2, RowBlocks
  <1>5. d \in Held(l) \/ d = w
    <2>1. d \notin H
      <3>1. ASSUME H = {b}, t[b] = p PROVE b < p
        BY <3>1, <1>2, RowBlocks DEF Blocks
      <3> QED BY <1>2, <3>1
    <2> QED BY <1>2, <2>1 DEF Blocks
  <1>6. ValidPointer(h, p)
    <2>1. U * p + U * (d - p) >= U * 1
      BY <1>2 DEF U
    <2>2. PrevAllocated(h.hdr[p]) => ThisAllocated(h.foot[p])
      BY <1>3 DEF ThisAllocated
    <2> QED BY <1>2, <2>1, <2>2 DEF ValidPointer, Bytes
  <1>7. g = Deposit(Coalesce(h, p))
    BY <1>1, <1>6 DEF DoFree
  <1> HIDE DEF g
  <1>8. d # Null
    BY <1>2, Apart
  <1>9. /\ m \in [Positions -> Sizes \cup {-1}] /\ Held(m) = Held(l) \ {p}
        /\ \A q \in Held(m) : q \in Held(l) /\ q # p
    BY <1>1, <1>2 DEF Held
  <1>10. ASSUME NEW q \in Held(l) \ {p}
         PROVE  t[q] # t[p] /\ t[q] # e /\ t[q] \in Positions /\ q \in Positions
    <2>1. q \in B /\ q \in Positions /\ e \in Nat
      BY <1>1, <1>2, Apart DEF Blocks, Held
    <2>2. t[q] = t[p] => q = p
      BY <1>1, <2>1, TiledOnce
    <2>3. t[q] # e
      BY RowBlocks
    <2> QED BY <1>1, <2>1, <2>2, <2>3
  <1> HIDE DEF m
  <1>11. CASE H = {} /\ d \in Held(l)
    <2>1. g = Deposit(CoalesceNone(h, p))
      BY <1>1, <1>2, <1>3, <1>4, <1>7, <1>8, <1>11 DEF Coalesce
    <2>2. Row(g, m, t, {p}, w) /\ \A c \in Positions : c # d => g.foot[c] = h.foot[c]
      BY <1>11, <2>1, FreeNoneSound DEF m
    <2>3. Blocks(m, {p}, w) \subseteq B
      BY <1>9, <1>11 DEF Blocks
    <2>4. \A q \in Held(l) \ {p} : g.foot[t[q]] = h.foot[t[q]]
      BY <1>10, <2>2
    <2>5. GivenAs(h, l, t, H, w, p, g, t, {p}, w)
      <3>1. d # w
        BY <1>1, <1>11
      <3>2. Row(g, [l EXCEPT ![p] = -1], t, {p}, w)
        BY <2>2 DEF m
      <3>3. Blocks([l EXCEPT ![p] = -1], {p}, w) \subseteq Blocks(l, H, w)
        BY <2>3 DEF m
      <3>4. t[p] = w => {p} = {}
        BY <3>1
      <3>5. \A c \in {p} : c \in H \/ (H = {} /\ c = p /\ t[p] = t[p])
        BY <1>11
      <3> QED BY <2>4, <3>2, <3>3, <3>4, <3>5 DEF GivenAs
    <2> QED BY <2>5 DEF Given, g
  <1>12. CASE H = {} /\ d = w
    <2> DEFINE s == [t EXCEPT ![p] = e]
    <2>1. g = Deposit(CoalesceNext(h, p))
      BY <1>1, <1>2, <1>3, <1>4, <1>7, <1>8, <1>12 DEF Coalesce
    <2>2. Row(g, m, s, {}, p) /\ \A c \in Positions : c # e => g.foot[c] = h.foot[c]
      BY <1>12, <2>1, FreeNextSound DEF m
    <2>3. Blocks(m, {}, p) \subseteq B
      BY <1>9, <1>12 DEF Blocks
    <2>4. \A q \in Held(l) \ {p} : s[q] = t[q] /\ g.foot[t[q]] = h.foot[t[q]]
      BY <1>1, <1>10, <2>2
    <2> HIDE DEF s
    <2>5. GivenAs(h, l, t, H, w, p, g, s, {}, p)
      <3>2. Row(g, [l EXCEPT ![p] = -1], s, {}, p)
        BY <2>2 DEF m
      <3>3. Blocks([l EXCEPT ![p] = -1], {}, p) \subseteq Blocks(l, H, w)
        BY <2>3 DEF m
      <3>4. t[p] = w => {} = {}
        BY <1>12
      <3>5. \A c \in {} : c \in H \/ (H = {} /\ c = p /\ s[p] = t[p])
        BY <1>12
      <3> QED BY <2>4, <3>2, <3>3, <3>4, <3>5 DEF GivenAs
    <2> QED BY <2>5 DEF Given, g
  <1>13. CASE H = {b} /\ t[b] = p /\ d \in Held(l)
    <2> DEFINE s == [t EXCEPT ![b] = d]
    <2>1. g = Deposit(CoalescePrev(h, p))
      BY <1>1, <1>2, <1>3, <1>4, <1>7, <1>8, <1>13 DEF Coalesce
    <2>2. Row(g, m, s, {b}, w) /\ \A c \in Positions : c # d => g.foot[c] = h.foot[c]
      <3>1. b \in H /\ t[b] \in Held(l) /\ t[t[b]] \in Held(l) /\ t[b] = p
        BY <1>13
      <3>2. /\ Row(Deposit(CoalescePrev(h, t[b])), [l EXCEPT ![t[b]] = -1],
                   [t EXCEPT ![b] = t[t[b]]], {b}, w)
            /\ \A c \in Positions : c # t[t[b]]
                                      => Deposit(CoalescePrev(h, t[b])).foot[c] = h.foot[c]
        BY <3>1, FreePrevSound
      <3> QED BY <2>1, <3>1, <3>2 DEF m
    <2>3. Blocks(m, {b}, w) \subseteq B
      BY <1>9, <1>13 DEF Blocks
    <2>4. \A q \in Held(l) \ {p} : s[q] = t[q] /\ g.foot[t[q]] = h.foot[t[q]]
      <3>1. b \notin Held(l)
        BY <1>13 DEF Row, Tiles
      <3> QED BY <1>1, <1>10, <2>2, <3>1
    <2> HIDE DEF s
    <2>5. GivenAs(h, l, t, H, w, p, g, s, {b}, w)
      <3>1. d # w
        BY <1>1, <1>13
      <3>2. Row(g, [l EXCEPT ![p] = -1], s, {b}, w)
        BY <2>2 DEF m
      <3>3. Blocks([l EXCEPT ![p] = -1], {b}, w) \subseteq Blocks(l, H, w)
        BY <2>3 DEF m
      <3>4. t[p] = w => {b} = {}
        BY <3>1
      <3>5. \A c \in {b} : c \in H \/ (H = {} /\ c = p /\ s[p] = t[p])
        BY <1>13
      <3> QED BY <2>4, <3>2, <3>3, <3>4, <3>5 DEF GivenAs
    <2> QED BY <2>5 DEF Given, g
  <1>14. CASE H = {b} /\ t[b] = p /\ d = w
    <2> DEFINE s == [t EXCEPT ![b] = e]
    <2>1. g = Deposit(CoalesceBoth(h, p))
      BY <1>1, <1>2, <1>3, <1>4, <1>7, <1>8, <1>14 DEF Coalesce
    <2>2. Row(g, m, s, {}, b) /\ \A c \in Positions : c # e => g.foot[c] = h.foot[c]
      BY <1>14, <2>1, FreeBothSound DEF m
    <2>3. Blocks(m, {}, b) \subseteq B
      BY <1>9, <1>14 DEF Blocks
    <2>4. \A q \in Held(l) \ {p} : s[q] = t[q] /\ g.foot[t[q]] = h.foot[t[q]]
      <3>1. b \notin Held(l)
        BY <1>14 DEF Row, Tiles
      <3> QED BY <1>1, <1>10, <2>2, <3>1
    <2> HIDE DEF s
    <2>5. GivenAs(h, l, t, H, w, p, g, s, {}, b)
      <3>2. Row(g, [l EXCEPT ![p] = -1], s, {}, b)
        BY <2>2 DEF m
      <3>3. Blocks([l EXCEPT ![p] = -1], {}, b) \subseteq Blocks(l, H, w)
        BY <2>3 DEF m
      <3>4. t[p] = w => {} = {}
        BY <1>14
      <3>5. \A c \in {} : c \in H \/ (H = {} /\ c = p /\ s[p] = t[p])
        BY <1>14
      <3> QED BY <2>4, <3>2, <3>3, <3>4, <3>5 DEF GivenAs
    <2> QED BY <2>5 DEF Given, g
  <1> QED BY <1>5, <1>11, <1>12, <1>13, <1>14 DEF g

-----------------------------------------------------------------------------
(* The inductive invariant: before the first request nothing; then a row   *)
(* in which the habit of the client tells where the hole can be.           *)

Behaved(t, H) ==
  /\ habit # "queue" => OddFeet(heap, live, t)
  /\ habit = "queue" => gap \in {0, -1} /\ (gap = 0 => H = {}) /\ H \subseteq {1}
  /\ habit = "stack" => gap = 0 /\ H = {}
  /\ habit = "swap" => \/ gap = 0 /\ H = {}
                       \/ \E n \in Sizes : gap = Units(n) /\ \A b \in H : t[b] = b + gap

InRow(D, t, H, w) ==
  Row(heap, live, t, H, w) /\ Spaced(D, Blocks(live, H, w)) /\ Behaved(t, H)

SInv(D) ==
  /\ habit \in {"queue", "stack", "swap"}
  /\ (Unused(heap, live) /\ gap = 0) \/ (\E t, H, w : InRow(D, t, H, w))

\* The blocks the program owns are the ones that are live.
LEMMA OwnedHeld == Owned = Held(live)
  BY DEF Owned, Held

\* The invariant holds before the first call.
LEMMA InitSound ==
  ASSUME NEW D, Init PROVE SInv(D)
  <1>1. 0 \in Positions /\ 0 \in 0 .. MaxPages /\ Null \in Nodes \cup {Null}
    BY FirstPlace, PagesAssumption
  <1>2. heap \in HeapType
    BY <1>1 DEF Init, HeapType
  <1>3. Held(live) = {} /\ live \in [Positions -> Sizes \cup {-1}]
    BY DEF Init, Held
  <1> QED BY <1>2, <1>3 DEF Init, SInv, Unused

\* A careful client asks for the size of the hole or when there is no hole.
LEMMA AskSound ==
  ASSUME NEW D, Fits(D), 0 \notin Sizes, SInv(D), NEW n \in Sizes, Ask(n)
  PROVE  SInv(D)'
  <1> DEFINE tags == habit # "queue"
             k == DoMalloc(heap, n)
  <1>1. /\ heap' = Used(k, n) /\ gap' = 0 /\ habit' = habit /\ n # 0 /\ Gets(n)
        /\ gap = -1 => Owned = {}
        /\ gap > 0 => Units(n) = gap
        /\ tags => ~UsesFooter(n)
    BY DEF Ask, sf_malloc
  <1>2. tags \in BOOLEAN
    OBVIOUS
  <1>3. live \in [Positions -> Sizes \cup {-1}]
    BY DEF SInv, Unused, InRow, Row, Tiles
  <1>4. Answered(D, tags, k, live, n)
    <2>1. CASE Unused(heap, live) \/ Served(D, tags, heap, live)
      <3> HIDE DEF tags
      <3> QED BY <1>1, <1>2, <2>1, DoMallocSound
    <2>2. ASSUME NEW t, NEW H, NEW w, InRow(D, t, H, w) PROVE Answered(D, tags, k, live, n)
      <3>1. /\ Row(heap, live, t, H, w) /\ Spaced(D, Blocks(live, H, w))
            /\ tags => OddFeet(heap, live, t)
        BY <2>2 DEF InRow, Behaved
      <3>2. CASE H = {}
        <4>1. Served(D, tags, heap, live)
          BY <3>1, <3>2 DEF Served
        <4> QED BY <2>1, <4>1
      <3>3. CASE H # {}
        <4>1. PICK b \in H : TRUE
          BY <3>3
        <4>2. t[b] \in Held(live)
          BY <3>1 DEF Row, Tiles
        <4>3. gap # 0 /\ gap # -1
          <5>1. habit \in {"queue", "stack", "swap"}
            BY DEF SInv
          <5>2. Owned # {}
            BY <4>2, OwnedHeld
          <5>3. gap # -1
            BY <1>1, <5>2
          <5>4. \A z \in Sizes : Units(z) # 0
            BY SizesAssumption, Rounded
          <5>5. gap # 0
            BY <2>2, <3>3, <5>1, <5>4 DEF InRow, Behaved
          <5> QED BY <5>3, <5>5
        <4>4. PICK z \in Sizes : gap = Units(z) /\ t[b] = b + gap
          <5>1. habit \in {"queue", "stack", "swap"}
            BY DEF SInv
          <5> QED BY <2>2, <3>3, <4>3, <5>1 DEF InRow, Behaved
        <4>5. Units(z) \in Nat \ {0}
          BY SizesAssumption, Rounded
        <4>6. t[b] = b + Units(n)
          BY <1>1, <4>4, <4>5
        <4>7. k = MallocIn(heap, n)
          <5>1. heap.pages # 0
            BY <3>1 DEF Row, HeapType
          <5> QED BY <5>1 DEF DoMalloc
        <4> HIDE DEF tags, k
        <4>8. Answered(D, tags, MallocIn(heap, n), live, n)
          BY <1>1, <1>2, <3>1, <4>6, MallocFromHole
        <4> QED BY <4>7, <4>8
      <3> QED BY <3>2, <3>3
    <2> QED BY <2>1, <2>2 DEF SInv
  <1>5. Answered(D, tags, heap', live, n)
    <2> HIDE DEF tags, k
    <2>1. Answered(D, tags, Used(k, n), live, n)
      BY <1>1, <1>2, <1>3, <1>4, AnsweredUsed
    <2> QED BY <1>1, <2>1
  <1>6. PICK t, w : /\ Row(heap', Gotten(live, heap', n), t, {}, w)
                    /\ Spaced(D, Blocks(Gotten(live, heap', n), {}, w))
                    /\ tags => OddFeet(heap', Gotten(live, heap', n), t)
    BY <1>5 DEF Answered, Served
  <1>7. live' = Gotten(live, heap', n)
    <2>1. heap'.fault = "none"
      BY <1>6 DEF Row
    <2> QED BY <1>1, <2>1 DEF Gets, Gotten
  <1>8. InRow(D, t, {}, w)'
    BY <1>1, <1>6, <1>7 DEF InRow, Behaved
  <1> QED BY <1>1, <1>8 DEF SInv

\* What a client does when it gives a block back is the same for all three of them.
LEMMA GiveSound ==
  ASSUME NEW D, NEW t, NEW H, NEW w, InRow(D, t, H, w), NEW p \in Held(live), sf_free(p),
         H = {} => heap.foot[p] % 2 = 1, NEW b, H = {} \/ (H = {b} /\ t[b] = p)
  PROVE  \E s, K, v :
           /\ Row(heap', live', s, K, v) /\ Spaced(D, Blocks(live', K, v))
           /\ OddFeet(heap, live, t) => OddFeet(heap', live', s)
           /\ t[p] = w => K = {}
           /\ \A c \in K : c \in H \/ (H = {} /\ c = p /\ s[p] = t[p])
  <1> DEFINE g == DoFree(heap, p)
             zero == 0
             m == [live EXCEPT ![p] = -1]
  <1>1. heap' = [g EXCEPT !.ret = zero] /\ live' = m
    BY DEF sf_free
  <1>2. zero \in Positions
    BY FirstPlace
  <1>3. Given(heap, live, t, H, w, p, g)
    BY DoFreeSound DEF InRow
  <1> HIDE DEF g, zero
  <1>4. PICK s, K, v : GivenAs(heap, live, t, H, w, p, g, s, K, v)
    BY <1>3 DEF Given
  <1>5. Row(g, m, s, K, v)
    BY <1>4 DEF GivenAs
  <1> HIDE DEF m
  <1>6. Row(heap', m, s, K, v) /\ heap'.foot = g.foot
    BY <1>1, <1>2, <1>5, RowRet
  <1>7. Spaced(D, Blocks(m, K, v))
    <2>1. Blocks(m, K, v) \subseteq Blocks(live, H, w)
      BY <1>4 DEF GivenAs, m
    <2> QED BY <2>1 DEF InRow, Spaced
  <1>8. ASSUME OddFeet(heap, live, t) PROVE OddFeet(heap', m, s)
    <2>1. Held(m) \subseteq Held(live) \ {p}
      <3>1. live \in [Positions -> Sizes \cup {-1}]
        BY DEF InRow, Row, Tiles
      <3> QED BY <3>1 DEF Held, m
    <2>2. \A q \in Held(live) \ {p} : s[q] = t[q] /\ g.foot[t[q]] = heap.foot[t[q]]
      BY <1>4 DEF GivenAs
    <2> QED BY <1>6, <1>8, <2>1, <2>2 DEF OddFeet
  <1>9. (t[p] = w => K = {}) /\ \A c \in K : c \in H \/ (H = {} /\ c = p /\ s[p] = t[p])
    BY <1>4 DEF GivenAs
  <1> QED BY <1>1, <1>6, <1>7, <1>8, <1>9

\* A block is the first one or has a block of the client's in front of it, if there is
\* no hole.
LEMMA FootOdd ==
  ASSUME NEW h, NEW l, NEW t, NEW w, Row(h, l, t, {}, w),
         NEW p \in Held(l), OddFeet(h, l, t) \/ p = 1
  PROVE  h.foot[p] % 2 = 1
  <1>1. CASE p = 1
    BY <1>1 DEF Row, TaggedWith, U
  <1>2. CASE p # 1
    <2>1. Tiled(Blocks(l, {}, w), t, Epilogue(h)) /\ t[w] = Epilogue(h)
      BY DEF Row, Tiles
    <2>2. p \in Blocks(l, {}, w) /\ p < Epilogue(h) /\ Epilogue(h) \in Nat /\ p \in Nat
      <3>1. p \in Blocks(l, {}, w)
        BY DEF Blocks
      <3>2. p < Epilogue(h) /\ Epilogue(h) \in Positions /\ p \in Nat
        BY <3>1, RowBlocks
      <3> QED BY <3>1, <3>2, Apart
    <2>3. \E a \in Blocks(l, {}, w) : t[a] = p
      <3> DEFINE B == Blocks(l, {}, w)
                 e == Epilogue(h)
      <3>1. Tiled(B, t, e) /\ p \in B /\ e \in Nat
        BY <2>1, <2>2
      <3> HIDE DEF B, e
      <3>2. \E a \in B : t[a] = p
        BY <1>2, <3>1, TiledBefore
      <3> QED BY <3>2 DEF B
    <2>4. PICK a \in Blocks(l, {}, w) : t[a] = p
      BY <2>3
    <2>5. a \in Held(l)
      BY <2>1, <2>2, <2>4 DEF Blocks
    <2> QED BY <1>2, <2>4, <2>5 DEF OddFeet
  <1> QED BY <1>1, <1>2

\* Each of the clients gives back a block that it may give back.
LEMMA GiveLowestSound ==
  ASSUME NEW D, SInv(D), NEW p \in Owned, GiveLowest(p)
  PROVE  SInv(D)'
  <1>1. p \in Held(live) /\ \A q \in Held(live) : p <= q
    BY OwnedHeld DEF GiveLowest
  <1>2. habit = "queue" /\ sf_free(p) /\ gap' = -1 /\ habit' = habit
    BY DEF GiveLowest
  <1>3. PICK t, H, w : InRow(D, t, H, w)
    BY <1>1 DEF SInv, Unused
  <1> DEFINE B == Blocks(live, H, w)
             e == Epilogue(heap)
  <1>4. Row(heap, live, t, H, w) /\ H \subseteq {1} /\ Tiled(B, t, e) /\ H \cap Held(live) = {}
    BY <1>2, <1>3 DEF InRow, Behaved, Row, Tiles
  <1>5. p \in B /\ p \in Nat /\ p >= 1 /\ p <= w /\ w \in Nat /\ 1 \in B /\ w \notin Held(live)
    <2>1. p \in B /\ w \in B /\ 1 \in B /\ w \notin Held(live)
      BY <1>1, <1>4 DEF Blocks, Tiled, Row, Tiles
    <2> QED BY <1>4, <2>1, RowBlocks
  <1>6. CASE H = {}
    <2>1. p = 1
      <3>1. 1 # w
        BY <1>1, <1>5
      <3>2. 1 \in Held(live)
        BY <1>5, <1>6, <3>1 DEF Blocks
      <3> QED BY <1>1, <1>5, <3>2
    <2>2. heap.foot[p] % 2 = 1
      BY <1>1, <1>4, <1>6, <2>1, FootOdd
    <2>3. PICK s, K, v :
            /\ Row(heap', live', s, K, v) /\ Spaced(D, Blocks(live', K, v))
            /\ \A c \in K : c \in H \/ (H = {} /\ c = p /\ s[p] = t[p])
      BY <1>1, <1>2, <1>3, <1>6, <2>2, GiveSound
    <2>4. K \subseteq {1}
      BY <1>6, <2>1, <2>3
    <2>5. InRow(D, s, K, v)'
      BY <1>2, <2>3, <2>4 DEF InRow, Behaved
    <2> QED BY <1>2, <2>5 DEF SInv
  <1>7. CASE H # {}
    <2> DEFINE one == 1
    <2>1. H = {one} /\ t[one] = p
      <3>1. H = {1} /\ 1 \in H
        BY <1>4, <1>7
      <3>2. t[1] \in Held(live)
        BY <1>4, <3>1 DEF Row, Tiles
      <3>3. p <= 1 \/ t[1] <= p
        BY <1>4, <1>5, <3>1 DEF Tiled
      <3>4. p # 1 /\ p <= t[1]
        BY <1>1, <1>4, <3>1, <3>2
      <3>5. t[1] \in Nat
        BY <1>4, <1>5, RowBlocks
      <3> QED BY <1>5, <3>1, <3>3, <3>4, <3>5
    <2> HIDE DEF one
    <2>3. PICK s, K, v :
            /\ Row(heap', live', s, K, v) /\ Spaced(D, Blocks(live', K, v))
            /\ \A c \in K : c \in H \/ (H = {} /\ c = p /\ s[p] = t[p])
      BY <1>1, <1>2, <1>3, <1>7, <2>1, GiveSound
    <2>4. K \subseteq {1}
      BY <1>4, <1>7, <2>3
    <2>5. InRow(D, s, K, v)'
      BY <1>2, <2>3, <2>4 DEF InRow, Behaved
    <2> QED BY <1>2, <2>5 DEF SInv
  <1> QED BY <1>6, <1>7

\* Giving back the block at the top keeps the invariant.
LEMMA GiveHighestSound ==
  ASSUME NEW D, SInv(D), NEW p \in Owned, GiveHighest(p)
  PROVE  SInv(D)'
  <1>1. p \in Held(live) /\ \A q \in Held(live) : q <= p
    BY OwnedHeld DEF GiveHighest
  <1>2. habit = "stack" /\ sf_free(p) /\ gap' = gap /\ habit' = habit
    BY DEF GiveHighest
  <1>3. PICK t, H, w : InRow(D, t, H, w)
    BY <1>1 DEF SInv, Unused
  <1>4. Row(heap, live, t, {}, w) /\ H = {} /\ OddFeet(heap, live, t) /\ gap = 0
    BY <1>2, <1>3 DEF InRow, Behaved
  <1>5. t[p] = w
    <2>1. p \in Nat /\ p < t[p] /\ t[p] \in Nat /\ t[p] \in Blocks(live, {}, w)
      BY <1>1, <1>4, RowBlocks DEF Blocks
    <2>2. t[p] \notin Held(live)
      BY <1>1, <2>1
    <2> QED BY <2>1, <2>2 DEF Blocks
  <1>6. heap.foot[p] % 2 = 1
    BY <1>1, <1>4, FootOdd
  <1>7. PICK s, K, v :
          /\ Row(heap', live', s, K, v) /\ Spaced(D, Blocks(live', K, v))
          /\ OddFeet(heap', live', s) /\ K = {}
    BY <1>1, <1>2, <1>3, <1>4, <1>5, <1>6, GiveSound
  <1>8. InRow(D, s, K, v)'
    BY <1>2, <1>4, <1>7 DEF InRow, Behaved
  <1> QED BY <1>2, <1>8 DEF SInv

\* Giving back any block keeps the invariant.
LEMMA GiveAnySound ==
  ASSUME NEW D, SInv(D), NEW p \in Owned, GiveAny(p)
  PROVE  SInv(D)'
  <1>1. p \in Held(live)
    BY OwnedHeld
  <1>2. habit = "swap" /\ sf_free(p) /\ gap = 0 /\ gap' = Units(live[p]) /\ habit' = habit
    BY DEF GiveAny
  <1>3. PICK t, H, w : InRow(D, t, H, w)
    BY <1>1 DEF SInv, Unused
  <1>4. live[p] \in Sizes /\ Units(live[p]) \in Nat \ {0} /\ t[p] = p + Units(live[p])
    <2>1. live \in [Positions -> Sizes \cup {-1}] /\ t[p] = p + Units(live[p])
      BY <1>1, <1>3 DEF InRow, Row, Tiles
    <2>2. live[p] \in Sizes
      BY <1>1, <2>1 DEF Held
    <2> QED BY <2>1, <2>2, SizesAssumption, Rounded
  <1>5. H = {}
    BY <1>2, <1>3, SizesAssumption, Rounded DEF InRow, Behaved
  <1>6. Row(heap, live, t, {}, w) /\ OddFeet(heap, live, t)
    BY <1>2, <1>3, <1>5 DEF InRow, Behaved
  <1>7. heap.foot[p] % 2 = 1
    BY <1>1, <1>6, FootOdd
  <1>8. PICK s, K, v :
          /\ Row(heap', live', s, K, v) /\ Spaced(D, Blocks(live', K, v))
          /\ OddFeet(heap', live', s) /\ \A c \in K : c = p /\ s[p] = t[p]
    BY <1>1, <1>2, <1>3, <1>5, <1>6, <1>7, GiveSound
  <1>9. \A c \in K : s[c] = c + gap'
    BY <1>2, <1>4, <1>8
  <1>10. \E n \in Sizes : gap' = Units(n) /\ \A c \in K : s[c] = c + gap'
    BY <1>2, <1>4, <1>9
  <1>11. InRow(D, s, K, v)'
    BY <1>2, <1>8, <1>10 DEF InRow, Behaved
  <1> QED BY <1>2, <1>11 DEF SInv

\* Every call keeps the invariant.
LEMMA NextSound ==
  ASSUME NEW D, Fits(D), 0 \notin Sizes, SInv(D), [Next]_vars
  PROVE  SInv(D)'
  <1>1. ASSUME NEW n \in Sizes, Ask(n) PROVE SInv(D)'
    BY <1>1, AskSound
  <1>2. ASSUME NEW p \in Owned, GiveLowest(p) PROVE SInv(D)'
    BY <1>2, GiveLowestSound
  <1>3. ASSUME NEW p \in Owned, GiveHighest(p) PROVE SInv(D)'
    BY <1>3, GiveHighestSound
  <1>4. ASSUME NEW p \in Owned, GiveAny(p) PROVE SInv(D)'
    BY <1>4, GiveAnySound
  <1>5. CASE UNCHANGED vars
    BY <1>5 DEF vars, SInv, InRow, Behaved
  <1> QED BY <1>1, <1>2, <1>3, <1>4, <1>5 DEF Next

-----------------------------------------------------------------------------
(* What the invariant says of the properties of Sfmm.                      *)

\* The invariant has the types in it.
LEMMA TypesFollow == ASSUME NEW D, SInv(D) PROVE TypeOK
  <1>1. heap \in HeapType /\ live \in [Positions -> Sizes \cup {-1}]
    BY DEF SInv, Unused, InRow, Row, Tiles
  <1>2. habit \in {"queue", "stack", "swap"}
    BY DEF SInv
  <1>3. gap \in {-1, 0} \cup {Units(n) : n \in Sizes}
    <2>1. CASE gap = 0
      BY <2>1
    <2>2. CASE gap # 0
      <3>1. PICK t, H, w : Behaved(t, H)
        BY <2>2 DEF SInv, InRow
      <3> QED BY <1>2, <2>2, <3>1 DEF Behaved
    <2> QED BY <2>1, <2>2
  <1>4. live \in [Positions -> Sizes \cup Resizes \cup {-1}]
    BY <1>1
  <1> QED BY <1>1, <1>2, <1>3, <1>4 DEF TypeOK, HeapType

\* The invariant rules the aborts out.
LEMMA NeverFailsFollows == ASSUME NEW D, SInv(D) PROVE NeverFails
  BY DEF SInv, Unused, InRow, Row, NeverFails, Running

\* A heap that is said to be sound is a row of blocks.
LEMMA RowFollows ==
  ASSUME NEW D, SInv(D), Sound PROVE \E t, H, w : Row(heap, live, t, H, w)
  BY DEF SInv, Unused, InRow, Sound

\* In a row of blocks the payloads of live blocks are apart.
LEMMA LiveApartFollows == ASSUME NEW D, SInv(D) PROVE LiveApart
  <1> SUFFICES ASSUME Sound, NEW p \in Owned,
                      NEW q \in {q \in Owned : q > p} \cup {Epilogue(heap)}
               PROVE  p < q /\ live[p] + 8 <= Bytes(q - p)
    BY DEF LiveApart
  <1>1. PICK t, H, w : Row(heap, live, t, H, w)
    BY RowFollows
  <1> DEFINE e == Epilogue(heap)
             B == Blocks(live, H, w)
  <1>2. /\ Tiled(B, t, e) /\ t[p] = p + Units(live[p]) /\ live[p] \in Sizes /\ p \in B
        /\ q \in B \/ q = e
    BY <1>1, OwnedHeld DEF Row, Tiles, Blocks, Held
  <1>3. /\ p \in Nat /\ t[p] \in Nat /\ p < t[p] /\ t[p] <= e /\ e \in Positions
        /\ q \in B => q \in Nat
    BY <1>1, <1>2, RowBlocks
  <1>4. e \in Nat
    BY <1>3, Apart
  <1>5. t[p] <= q /\ q \in Nat
    <2>1. CASE q \in B /\ q > p
      <3>1. q <= p \/ t[p] <= q
        BY <1>2, <2>1 DEF Tiled
      <3> QED BY <1>3, <2>1, <3>1
    <2>2. CASE q = e
      BY <1>3, <1>4, <2>2
    <2> QED BY <1>2, <2>1, <2>2
  <1> DEFINE u == Units(live[p])
  <1>6. live[p] + 8 <= U * u /\ u \in Nat /\ live[p] \in Nat /\ t[p] = p + u
    BY <1>2, SizesAssumption, Rounded
  <1>7. q - p >= u
    <2> HIDE DEF u
    <2> QED BY <1>3, <1>5, <1>6
  <1>8. Bytes(q - p) >= U * u /\ Bytes(q - p) \in Int /\ U * u \in Int
    <2> HIDE DEF u
    <2> QED BY <1>3, <1>5, <1>6, <1>7 DEF Bytes, U
  <1> QED BY <1>3, <1>5, <1>6, <1>8

\* A ring of one block is a list of one block.
LEMMA RingList ==
  ASSUME NEW i \in 0 .. 9, NEW c \in Positions \cup {Head(i)}, Ring(heap, i, c)
  PROVE  InList(i) = {c} \ {Head(i)}
  <1> DEFINE N == PageUnits * MaxPages
             o == Head(i)
             Step(b) == IF b \in Heads \cup {Null} THEN b ELSE heap.next[b]
             f == [n \in 0 .. N |-> IF n = 0 THEN c ELSE o]
             S == {c, o}
  <1>1. N \in Nat /\ heap.next[Head(i)] = c
    BY Places DEF Null, Ring
  <1>2. Step(c) = o /\ Step(o) = o
    BY Apart DEF Ring
  <1>3. f = [n \in 0 .. N |-> IF n = 0 THEN heap.next[Head(i)] ELSE Step(f[n - 1])]
    <2>1. ASSUME NEW n \in 0 .. N, n # 0 PROVE Step(f[n - 1]) = o
      <3>1. n - 1 \in 0 .. N
        BY <1>1, <2>1
      <3>2. f[n - 1] \in S
        BY <3>1
      <3> HIDE DEF Step, f, o
      <3> QED BY <1>2, <3>2
    <2> HIDE DEF Step, o
    <2> QED BY <1>1, <2>1
  <1> DEFINE Fixed(a) ==
               a = [n \in 0 .. N |-> IF n = 0 THEN heap.next[Head(i)] ELSE Step(a[n - 1])]
             g == CHOOSE a : Fixed(a)
  <1>4. InList(i) = {g[n] : n \in DOMAIN g} \ {Head(i)}
    BY DEF InList
  <1>5. g = [n \in 0 .. N |-> IF n = 0 THEN heap.next[Head(i)] ELSE Step(g[n - 1])]
    <2>1. Fixed(f)
      BY <1>3
    <2> HIDE DEF f
    <2>2. Fixed(g)
      <3> HIDE DEF Fixed
      <3> QED BY <2>1
    <2> HIDE DEF g
    <2> QED BY <2>2
  <1> HIDE DEF g
  <1> HIDE DEF Step, N, o
  <1>6. g[0] = c /\ DOMAIN g = 0 .. N /\ 0 \in 0 .. N
    BY <1>1, <1>5
  <1>7. ASSUME NEW n \in 1 .. N, g[n - 1] \in S PROVE g[n] \in S
    <2>1. n \in 0 .. N /\ n # 0
      BY <1>1
    <2> QED BY <1>2, <1>5, <1>7, <2>1
  <1>8. \A n \in 0 .. N : g[n] \in S
    <2>1. g[0] \in S
      BY <1>6
    <2> HIDE DEF S
    <2> QED BY <1>1, <1>7, <2>1, IteratedIn
  <1> QED BY <1>4, <1>6, <1>8 DEF o

\* The lists hold the hole, in the list of its size, and the wilderness, in the last one.
LEMMA RowLists ==
  ASSUME NEW t, NEW H, NEW w, Row(heap, live, t, H, w)
  PROVE  /\ InList(9) = {w} /\ Ring(heap, 9, w)
         /\ \A i \in 0 .. 8 :
              \/ InList(i) = {} /\ Ring(heap, i, Head(i))
              \/ \E b \in H : InList(i) = {b} /\ Ring(heap, i, b) /\ Index(U * (t[b] - b)) = i
         /\ Listed = H \cup {w}
  <1>1. Linked(heap, t, H, w) /\ H \subseteq Positions /\ w \in Positions /\ \A b, c \in H : b = c
    BY DEF Row, Tiles
  <1>2. InList(9) = {w} /\ Ring(heap, 9, w)
    <2> DEFINE nine == 9
    <2>1. nine \in 0 .. 9 /\ Ring(heap, nine, w)
      BY <1>1 DEF Linked
    <2> HIDE DEF nine
    <2>2. InList(nine) = {w} \ {Head(nine)} /\ w # Head(nine)
      BY <1>1, <2>1, RingList, Apart
    <2> QED BY <2>1, <2>2 DEF nine
  <1>3. ASSUME NEW b \in H
        PROVE  /\ InList(Index(U * (t[b] - b))) = {b}
               /\ Ring(heap, Index(U * (t[b] - b)), b)
    <2> DEFINE i == Index(U * (t[b] - b))
    <2>1. i \in 0 .. 8
      BY Indexed
    <2>2. Ring(heap, i, b)
      BY <1>1, <2>1 DEF Linked
    <2> HIDE DEF i
    <2>3. i \in 0 .. 9 /\ b \in Positions /\ b # Head(i)
      BY <1>1, <2>1, Apart
    <2>4. InList(i) = {b} \ {Head(i)}
      BY <2>2, <2>3, RingList
    <2> QED BY <2>2, <2>3, <2>4 DEF i
  <1>4. ASSUME NEW i \in 0 .. 8, \A b \in H : Index(U * (t[b] - b)) # i
        PROVE  InList(i) = {} /\ Ring(heap, i, Head(i))
    <2>1. Ring(heap, i, Head(i))
      BY <1>1, <1>4 DEF Linked
    <2>2. i \in 0 .. 9
      OBVIOUS
    <2> DEFINE c == Head(i)
    <2>3. Ring(heap, i, c) /\ c \in Positions \cup {Head(i)}
      BY <2>1
    <2> HIDE DEF c
    <2>4. InList(i) = {c} \ {Head(i)}
      BY <2>2, <2>3, RingList
    <2> QED BY <2>1, <2>4 DEF c
  <1>5. ASSUME NEW i \in 0 .. 8
        PROVE  \/ InList(i) = {} /\ Ring(heap, i, Head(i))
               \/ \E b \in H : InList(i) = {b} /\ Ring(heap, i, b) /\ Index(U * (t[b] - b)) = i
    BY <1>3, <1>4
  <1>6. Listed = H \cup {w}
    <2>1. ASSUME NEW b \in H PROVE b \in Listed
      <3> DEFINE i == Index(U * (t[b] - b))
      <3>1. i \in 0 .. 8
        BY Indexed
      <3>2. InList(i) = {b}
        BY <1>3
      <3> HIDE DEF i
      <3>3. i \in 0 .. 9
        BY <3>1
      <3> QED BY <3>2, <3>3 DEF Listed
    <2>2. w \in Listed
      <3>1. 9 \in 0 .. 9
        OBVIOUS
      <3> QED BY <1>2, <3>1 DEF Listed
    <2>3. ASSUME NEW i \in 0 .. 9, NEW b \in InList(i) PROVE b \in H \cup {w}
      <3>1. CASE i = 9
        BY <1>2, <2>3, <3>1
      <3>2. CASE i # 9
        <4>1. i \in 0 .. 8
          BY <3>2
        <4> QED BY <1>5, <2>3, <4>1
      <3> QED BY <3>1, <3>2
    <2> QED BY <2>1, <2>2, <2>3 DEF Listed
  <1> QED BY <1>2, <1>5, <1>6

\* In a row of blocks the free lists are well linked.
LEMMA ListsSoundFollows == ASSUME NEW D, SInv(D) PROVE ListsSound
  <1> SUFFICES ASSUME Sound, NEW i \in 0 .. 9, NEW b \in InList(i) \cup {Head(i)}
               PROVE  /\ b # Null /\ heap.next[b] # Null /\ heap.prev[heap.next[b]] = b
                      /\ i = 9 /\ b # Head(9) => NextBlock(heap, b) = Epilogue(heap)
                      /\ i < 9 /\ b # Head(i) => Index(SizeAt(heap, b)) = i
    BY DEF ListsSound
  <1>1. PICK t, H, w : Row(heap, live, t, H, w)
    BY RowFollows
  <1>2. /\ w \in Positions /\ w \in Blocks(live, H, w) /\ t[w] = Epilogue(heap)
        /\ H \subseteq Positions /\ H \subseteq Blocks(live, H, w)
    BY <1>1 DEF Row, Tiles, Blocks
  <1>3. CASE i = 9
    <2>1. InList(9) = {w} /\ Ring(heap, 9, w)
      BY <1>1, RowLists
    <2>2. w # Null /\ Head(9) # Null
      BY <1>2, Apart
    <2>3. NextBlock(heap, w) = Epilogue(heap)
      BY <1>1, <1>2, RowBlocks
    <2> QED BY <1>3, <2>1, <2>2, <2>3 DEF Ring
  <1>4. CASE i # 9
    <2>1. i \in 0 .. 8 /\ Head(i) # Null
      BY <1>4, Apart
    <2>2. CASE InList(i) = {} /\ Ring(heap, i, Head(i))
      BY <1>4, <2>1, <2>2 DEF Ring
    <2>3. ASSUME NEW c \in H, InList(i) = {c}, Ring(heap, i, c), Index(U * (t[c] - c)) = i
          PROVE  /\ b # Null /\ heap.next[b] # Null /\ heap.prev[heap.next[b]] = b
                 /\ i < 9 /\ b # Head(i) => Index(SizeAt(heap, b)) = i
      <3>1. c # Null /\ c \notin Heads
        BY <1>2, Apart
      <3>2. SizeOf(heap.hdr[c]) = U * (t[c] - c)
        BY <1>1, <1>2, RowBlocks
      <3>3. SizeAt(heap, c) = U * (t[c] - c)
        BY <3>1, <3>2 DEF SizeAt
      <3> QED BY <2>1, <2>3, <3>1, <3>3 DEF Ring
    <2> QED BY <1>1, <1>4, <2>1, <2>2, <2>3, RowLists
  <1> QED BY <1>3, <1>4

\* In a row of blocks the free ones are in the list of their size.
LEMMA FreeSoundFollows == ASSUME NEW D, SInv(D) PROVE FreeSound
  <1> SUFFICES ASSUME Sound, NEW b \in Listed
               PROVE  /\ NextBlock(heap, b) \notin Listed
                      /\ heap.foot[NextBlock(heap, b)] = heap.hdr[b]
                      /\ ~ThisAllocated(heap.hdr[b])
    BY DEF FreeSound
  <1>1. PICK t, H, w : Row(heap, live, t, H, w)
    BY RowFollows
  <1> DEFINE e == Epilogue(heap)
             B == Blocks(live, H, w)
  <1>2. /\ w \in B /\ H \subseteq B /\ t[w] = e /\ H \cap Held(live) = {}
        /\ w \notin Held(live) \cup H /\ heap.foot[e] = heap.hdr[w]
        /\ \A c \in H : t[c] \in Held(live) /\ heap.foot[t[c]] = heap.hdr[c]
    BY <1>1 DEF Row, Tiles, TaggedWith, Blocks
  <1>3. Listed = H \cup {w}
    BY <1>1, RowLists
  <1>4. NextBlock(heap, b) = t[b] /\ ~ThisAllocated(heap.hdr[b]) /\ e \notin B
    <2>1. \A p \in B : p < e /\ p \in Nat
      BY <1>1, RowBlocks
    <2>2. b \in B /\ b \notin Held(live)
      BY <1>2, <1>3
    <2> QED BY <1>1, <2>1, <2>2, RowBlocks
  <1> QED BY <1>2, <1>3, <1>4

\* The walk along the header words meets every block and ends at the epilogue.
LEMMA RowChain ==
  ASSUME NEW t, NEW H, NEW w, Row(heap, live, t, H, w)
  PROVE  Chain = Blocks(live, H, w) \cup {Epilogue(heap)}
  <1> DEFINE N == PageUnits * MaxPages
             e == Epilogue(heap)
             B == Blocks(live, H, w)
             S == B \cup {e}
             F == [b \in S |-> IF b = e THEN e ELSE t[b]]
             Step(b) == IF b \in {Null, Epilogue(heap)} THEN b
                        ELSE IF NextBlock(heap, b) > b THEN NextBlock(heap, b) ELSE Null
  <1>1. Tiled(B, t, e)
    BY DEF Row, Tiles
  <1>2. N \in Nat /\ e \in Nat /\ e < N /\ e # Null /\ N = Null
    <2>1. e \in Positions /\ N = Null /\ Null \in Nat /\ Positions = 0 .. Null - 1
      BY RowBlocks, Places DEF Null
    <2> HIDE DEF e, N
    <2> QED BY <2>1
  <1>3. ASSUME NEW b \in B
        PROVE  /\ b \in Nat /\ b < e /\ b # e /\ b # Null /\ t[b] \in S /\ t[b] \in Nat /\ t[b] > b
               /\ Step(b) = t[b]
    <2>1. /\ b \in Positions /\ b \in Nat /\ b < e /\ t[b] \in Nat /\ b < t[b]
          /\ NextBlock(heap, b) = t[b]
      BY RowBlocks
    <2>2. b # Null /\ b # e
      BY <1>2, <2>1, Apart
    <2>3. t[b] \in S
      BY <1>1 DEF Tiled
    <2> QED BY <2>1, <2>2, <2>3
  <1>4. Step(e) = e
    OBVIOUS
  <1>5. \A b \in S : F[b] \in S /\ F[b] = Step(b)
    <2> HIDE DEF Step, B, e
    <2> QED BY <1>3, <1>4
  <1>6. 1 \in S
    BY <1>1 DEF Tiled
  <1>7. PICK f : Iterates(f, S, F, 1, N)
    <2> DEFINE one == 1
    <2>1. one \in S /\ F \in [S -> S] /\ N \in Nat
      BY <1>2, <1>5, <1>6
    <2> HIDE DEF one, S, F, N
    <2>2. \E f : Iterates(f, S, F, one, N)
      BY <2>1, Iterated
    <2> QED BY <2>2 DEF one
  <1> DEFINE Fixed(a) == a = [n \in 0 .. N |-> IF n = 0 THEN 1 ELSE Step(a[n - 1])]
             g == CHOOSE a : Fixed(a)
  <1>8. Chain = {g[n] : n \in DOMAIN g}
    BY DEF Chain
  <1> HIDE DEF S, F, N, e, B
  <1>9. Fixed(f)
    <2> HIDE DEF Step
    <2>1. f \in [0 .. N -> S] /\ f[0] = 1
      BY <1>7 DEF Iterates
    <2>2. ASSUME NEW n \in 0 .. N, n # 0 PROVE f[n] = Step(f[n - 1])
      <3>1. n \in 1 .. N /\ n - 1 \in 0 .. N
        BY <1>2, <2>2
      <3>2. f[n] = F[f[n - 1]] /\ f[n - 1] \in S
        BY <1>7, <2>1, <3>1 DEF Iterates
      <3> QED BY <1>5, <3>2
    <2> QED BY <2>1, <2>2
  <1>10. Fixed(g)
    <2> HIDE DEF Fixed
    <2> QED BY <1>9
  <1> HIDE DEF g
  <1>11. /\ DOMAIN g = 0 .. N /\ g[0] = 1
         /\ \A n \in 0 .. N : n # 0 => g[n] = Step(g[n - 1])
    <2> HIDE DEF Step
    <2> QED BY <1>2, <1>10
  <1> HIDE DEF Step
  <1>12. \A n \in 0 .. N : g[n] \in S
    <2>1. g[0] \in S
      BY <1>6, <1>11
    <2>2. ASSUME NEW n \in 1 .. N, g[n - 1] \in S PROVE g[n] \in S
      <3>1. n \in 0 .. N /\ n # 0
        BY <1>2
      <3> QED BY <1>5, <1>11, <2>2, <3>1
    <2> QED BY <1>2, <2>1, <2>2, IteratedIn
  <1>13. \A n \in 0 .. N : g[n] = e \/ g[n] >= n
    <2> DEFINE Bad == {n \in 0 .. N : ~ (g[n] = e \/ g[n] >= n)}
    <2>1. ASSUME Bad # {} PROVE FALSE
      <3>1. Bad \subseteq Nat
        BY <1>2
      <3>2. PICK m \in Bad : \A k \in Bad : m <= k
        <4> HIDE DEF Bad
        <4> QED BY <2>1, <3>1, LeastNat
      <3>3. m \in 0 .. N /\ m \in Nat /\ g[m] # e /\ ~ (g[m] >= m)
        BY <1>2, <3>2
      <3>4. m # 0
        BY <1>11, <3>3
      <3>5. m - 1 \in 0 .. N /\ m - 1 < m
        BY <1>2, <3>3, <3>4
      <3>6. m - 1 \notin Bad
        <4> HIDE DEF Bad
        <4> QED BY <3>2, <3>3, <3>5
      <3>7. g[m - 1] = e \/ g[m - 1] >= m - 1
        BY <3>5, <3>6
      <3>8. g[m] = Step(g[m - 1]) /\ g[m - 1] \in S
        BY <1>11, <1>12, <3>3, <3>4, <3>5
      <3>9. g[m - 1] # e
        BY <1>4, <3>3, <3>8
      <3>10. g[m - 1] \in B
        BY <3>8, <3>9 DEF S
      <3>11. g[m] \in Nat /\ g[m] > g[m - 1] /\ g[m - 1] \in Nat
        BY <1>3, <3>8, <3>10
      <3> QED BY <3>3, <3>7, <3>9, <3>11
    <2> QED BY <2>1
  <1>14. g[N] = e
    <2>1. N \in 0 .. N /\ g[N] \in S
      BY <1>2, <1>12
    <2>2. CASE g[N] \in B
      BY <1>2, <1>3, <1>13, <2>1, <2>2
    <2> QED BY <2>1, <2>2 DEF S
  <1>15. ASSUME NEW b \in B PROVE \E n \in 0 .. N : g[n] = b
    <2> DEFINE Bad == {c \in B : ~ \E n \in 0 .. N : g[n] = c}
    <2>1. ASSUME Bad # {} PROVE FALSE
      <3>1. Bad \subseteq Nat
        BY <1>3
      <3>2. PICK m \in Bad : \A k \in Bad : m <= k
        <4> HIDE DEF Bad
        <4> QED BY <2>1, <3>1, LeastNat
      <3>3. m \in B /\ m \in Nat /\ ~ \E n \in 0 .. N : g[n] = m
        BY <1>3, <3>2
      <3>4. m # 1
        BY <1>2, <1>11, <3>3
      <3>5. PICK a \in B : t[a] = m
        <4>1. Tiled(B, t, e) /\ m \in B /\ m # 1 /\ e \in Nat
          BY <1>1, <1>2, <3>3, <3>4
        <4> HIDE DEF Bad
        <4> QED BY <4>1, TiledBefore
      <3>6. a \in Nat /\ a < m
        BY <1>3, <3>5
      <3>7. a \notin Bad
        <4> HIDE DEF Bad
        <4> QED BY <3>2, <3>3, <3>6
      <3>8. PICK n \in 0 .. N : g[n] = a
        BY <3>7
      <3>9. n # N
        BY <1>3, <1>14, <3>8
      <3>10. n + 1 \in 0 .. N /\ n + 1 # 0 /\ (n + 1) - 1 = n
        BY <1>2, <3>9
      <3>11. g[n + 1] = Step(a)
        BY <1>11, <3>8, <3>10
      <3>12. Step(a) = m
        BY <1>3, <3>5
      <3> QED BY <3>3, <3>10, <3>11, <3>12
    <2> QED BY <2>1
  <1>16. N \in 0 .. N
    BY <1>2
  <1>17. S \subseteq Chain
    <2>1. e \in Chain
      BY <1>8, <1>11, <1>14, <1>16
    <2>2. B \subseteq Chain
      BY <1>8, <1>11, <1>15
    <2> QED BY <2>1, <2>2 DEF S
  <1>18. Chain \subseteq S
    BY <1>8, <1>11, <1>12
  <1>19. Chain = S
    BY <1>17, <1>18
  <1> QED BY <1>19 DEF S, B, e

\* A row of blocks tiles the heap.
LEMMA HeapTilesFollows == ASSUME NEW D, SInv(D) PROVE HeapTiles
  <1> SUFFICES ASSUME Sound
               PROVE  /\ Epilogue(heap) \in Chain
                      /\ Chain \ {Epilogue(heap)} = Owned \cup Listed
                      /\ Owned \cap Listed = {}
    BY DEF HeapTiles
  <1>1. PICK t, H, w : Row(heap, live, t, H, w)
    BY RowFollows
  <1>2. Chain = Blocks(live, H, w) \cup {Epilogue(heap)} /\ Listed = H \cup {w}
    BY <1>1, RowChain, RowLists
  <1>3. Epilogue(heap) \notin Blocks(live, H, w)
    <2>1. \A p \in Blocks(live, H, w) : p \in Nat /\ p < Epilogue(heap)
      BY <1>1, RowBlocks
    <2> QED BY <2>1
  <1>4. w \notin Held(live) /\ H \cap Held(live) = {}
    BY <1>1 DEF Row, Tiles
  <1> QED BY <1>2, <1>3, <1>4, OwnedHeld DEF Blocks

-----------------------------------------------------------------------------
(* The theorems, for every client whose requests leave room.               *)

\* The invariant holds in every state that a careful client can bring the heap to.
THEOREM SfmmInvariant ==
  ASSUME NEW D, Fits(D), 0 \notin Sizes
  PROVE  Spec => []SInv(D)
  <1>1. Init => SInv(D)
    BY InitSound
  <1>2. SInv(D) /\ [Next]_vars => SInv(D)'
    BY NextSound
  <1> QED BY <1>1, <1>2, PTL DEF Spec

\* Words, links and results keep their types (sfmm.c:67-132).
THEOREM SfmmTypes == CarefulSizes => (Spec => []TypeOK)
  <1> SUFFICES ASSUME CarefulSizes PROVE Spec => []TypeOK
    OBVIOUS
  <1>1. PICK D : Fits(D) /\ 0 \notin Sizes
    BY DEF CarefulSizes, Fits
  <1>2. Spec => []SInv(D)
    BY <1>1, SfmmInvariant
  <1>3. SInv(D) => TypeOK
    BY TypesFollow
  <1> QED BY <1>2, <1>3, PTL

\* sf_free never aborts on a block of the client's, and nothing outside the blocks is
\* read or written (sfmm.c:364-512, 541-626).
THEOREM SfmmNeverFails == CarefulSizes => (Spec => []NeverFails)
  <1> SUFFICES ASSUME CarefulSizes PROVE Spec => []NeverFails
    OBVIOUS
  <1>1. PICK D : Fits(D) /\ 0 \notin Sizes
    BY DEF CarefulSizes, Fits
  <1>2. Spec => []SInv(D)
    BY <1>1, SfmmInvariant
  <1>3. SInv(D) => NeverFails
    BY NeverFailsFollows
  <1> QED BY <1>2, <1>3, PTL

\* The client's blocks are large enough, inside the heap and clear of each other
\* (sfmm.c:257-358, 541-593).
THEOREM SfmmLiveApart == CarefulSizes => (Spec => []LiveApart)
  <1> SUFFICES ASSUME CarefulSizes PROVE Spec => []LiveApart
    OBVIOUS
  <1>1. PICK D : Fits(D) /\ 0 \notin Sizes
    BY DEF CarefulSizes, Fits
  <1>2. Spec => []SInv(D)
    BY <1>1, SfmmInvariant
  <1>3. SInv(D) => LiveApart
    BY LiveApartFollows
  <1> QED BY <1>2, <1>3, PTL

\* The header words lead through the whole heap, from block to block, and each block is
\* the client's or in a list (sfmm.c:67-626).
THEOREM SfmmHeapTiles == CarefulSizes => (Spec => []HeapTiles)
  <1> SUFFICES ASSUME CarefulSizes PROVE Spec => []HeapTiles
    OBVIOUS
  <1>1. PICK D : Fits(D) /\ 0 \notin Sizes
    BY DEF CarefulSizes, Fits
  <1>2. Spec => []SInv(D)
    BY <1>1, SfmmInvariant
  <1>3. SInv(D) => HeapTiles
    BY HeapTilesFollows
  <1> QED BY <1>2, <1>3, PTL

\* The free lists are rings of blocks of their size (sfmm.c:67-132, 190-211, 257-358, 402-512).
THEOREM SfmmListsSound == CarefulSizes => (Spec => []ListsSound)
  <1> SUFFICES ASSUME CarefulSizes PROVE Spec => []ListsSound
    OBVIOUS
  <1>1. PICK D : Fits(D) /\ 0 \notin Sizes
    BY DEF CarefulSizes, Fits
  <1>2. Spec => []SInv(D)
    BY <1>1, SfmmInvariant
  <1>3. SInv(D) => ListsSound
    BY ListsSoundFollows
  <1> QED BY <1>2, <1>3, PTL

\* Free blocks have been merged with their neighbours and say so at both ends
\* (sfmm.c:402-512, 595-626).
THEOREM SfmmFreeSound == CarefulSizes => (Spec => []FreeSound)
  <1> SUFFICES ASSUME CarefulSizes PROVE Spec => []FreeSound
    OBVIOUS
  <1>1. PICK D : Fits(D) /\ 0 \notin Sizes
    BY DEF CarefulSizes, Fits
  <1>2. Spec => []SInv(D)
    BY <1>1, SfmmInvariant
  <1>3. SInv(D) => FreeSound
    BY FreeSoundFollows
  <1> QED BY <1>2, <1>3, PTL
=============================================================================
