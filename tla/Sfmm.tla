-------------------------------- MODULE Sfmm --------------------------------
(***************************************************************************)
(* The dynamic memory allocator of hw3 (src/hw3/src/sfmm.c): blocks with   *)
(* boundary tags, segregated free lists, a wilderness block at the end of  *)
(* the heap.                                                               *)
(*                                                                         *)
(* All block addresses are 48 + 64 p for a position p: the prologue is at  *)
(* 0, the first block at 1.  At each position memory holds a header word,   *)
(* the word in front of it (prev_footer) and two links; header words are   *)
(* the integers the code computes with, size and two flag bits, so that    *)
(* carries into the size are seen.  An operation of the allocator is an    *)
(* operator from heaps to heaps, built from the others as in the code; the *)
(* heap's field ret is what it returns.                                    *)
(***************************************************************************)
EXTENDS Integers, FiniteSetsExt

CONSTANTS PageUnits,   \* PAGE_SZ in units of 64 bytes; 64 in the code
          MaxPages,    \* pages that sf_mem_grow has to give (external)
          Sizes,       \* sizes the client asks for, in bytes
          Resizes,     \* sizes it resizes to
          Aligns,      \* alignments it asks for
          Writes,      \* it overwrites its memory with zeros when it gets it
          Quota        \* units a careful client holds at most: see Ask

U == 64
Bytes(units) == U * units
Positions == 0 .. PageUnits * MaxPages - 1
Null == PageUnits * MaxPages       \* no address, or none of a block
Head(i) == -1 - i                  \* sf_free_list_heads[i]
Heads == {Head(i) : i \in 0 .. 9}
Nodes == Positions \cup Heads

ASSUME SizesAssumption == Sizes \subseteq Nat /\ Resizes \subseteq Nat /\ Aligns \subseteq Nat
ASSUME PagesAssumption == PageUnits \in Nat /\ PageUnits > 2 /\ MaxPages \in Nat \ {0}
ASSUME ClientAssumption == Writes \in BOOLEAN /\ Quota \in Nat

VARIABLES heap,    \* memory, number of pages, last result, and what went wrong
          live,    \* the client's blocks: the size asked for, or -1
          habit,   \* how a careful client gives its blocks back
          gap      \* the units it must ask for next; -1: it must give back the rest

vars == <<heap, live, habit, gap>>

-----------------------------------------------------------------------------
(* Header words.                                                           *)

SizeOf(x) == x - (x % 4)             \* x & BLOCK_SIZE_MASK
ThisAllocated(x) == x % 2 = 1
PrevAllocated(x) == (x \div 2) % 2 = 1

RoundTo64(n) == IF n % U = 0 THEN n ELSE n + U - (n % U)

\* getIndexInList
Index(size) ==
  IF size = Bytes(1) THEN 0 ELSE IF size = Bytes(2) THEN 1 ELSE IF size = Bytes(3) THEN 2
  ELSE IF size > Bytes(3) /\ size <= Bytes(5) THEN 3
  ELSE IF size > Bytes(5) /\ size <= Bytes(8) THEN 4
  ELSE IF size > Bytes(8) /\ size <= Bytes(13) THEN 5
  ELSE IF size > Bytes(13) /\ size <= Bytes(21) THEN 6
  ELSE IF size > Bytes(21) /\ size <= Bytes(34) THEN 7 ELSE 8

Epilogue(h) == PageUnits * h.pages - 1

\* Pointer arithmetic.  An address between two positions or outside the heap is
\* none of a block.
Shift(h, p, n) ==
  IF n % U = 0 /\ p + n \div U \in 0 .. Epilogue(h) THEN p + n \div U ELSE Null
NextBlock(h, p) == Shift(h, p, SizeOf(h.hdr[p]))
SizeAt(h, p) == IF p \in Heads THEN 0 ELSE SizeOf(h.hdr[p])

\* Memory is used that is no block: whatever happens now is undefined.
Wild(h) == [h EXCEPT !.fault = "wild"]

-----------------------------------------------------------------------------
(* Free lists.                                                             *)

\* Mutant: only one of the two links is mended.
UnlinkForward(h, b) ==
  IF Null \in {h.prev[b], h.next[b]} THEN Wild(h) ELSE [h EXCEPT !.next[h.prev[b]] = h.next[b]]

Unlink(h, b) ==
  LET p == h.prev[b]
      n == h.next[b]
  IN IF Null \in {p, n} THEN Wild(h) ELSE [h EXCEPT !.next[p] = n, !.prev[n] = p]

\* addNewBlockToList
AddNewBlock(h, b, i) ==
  LET f == h.next[Head(i)]
  IN [h EXCEPT !.next[Head(i)] = b, !.next[b] = f, !.prev[b] = Head(i), !.prev[f] = b]

\* Mutant: NUM_FREE_LISTS where NUM_FREE_LISTS - 1 is meant.
SetWildernessPastEnd(h, b) ==
  [h EXCEPT !.next[b] = Head(10), !.prev[b] = Head(10),
            !.next[Head(9)] = b, !.prev[Head(9)] = b]

SetWilderness(h, b) ==
  [h EXCEPT !.next[b] = Head(9), !.prev[b] = Head(9),
            !.next[Head(9)] = b, !.prev[Head(9)] = b]

\* The walk along one list: it ends at a block that is large enough, at the head or,
\* if the list is broken, nowhere.
FirstFit(h, i, size) ==
  LET Stop(b) == b \in {Head(i), Null} \/ SizeAt(h, b) >= size
      at[n \in 0 .. PageUnits * MaxPages] ==
        IF n = 0 THEN h.next[Head(i)]
        ELSE LET b == at[n - 1] IN IF Stop(b) THEN b ELSE h.next[b]
      end == at[PageUnits * MaxPages]
  IN IF Stop(end) THEN end ELSE Null

\* searchFreeLists: the head of a list stands for "not found".
SearchFreeLists(h, size) ==
  LET Hits == {i \in Index(size) .. 8 : FirstFit(h, i, size) # Head(i)}
  IN IF Hits = {} THEN Head(8)
     ELSE FirstFit(h, CHOOSE i \in Hits : \A j \in Hits : i <= j, size)

Wilderness(h) == h.next[Head(9)]

\* checkWildernessBlock
WildernessFits(h, size) == Wilderness(h) # Head(9) /\ SizeAt(h, Wilderness(h)) >= size

-----------------------------------------------------------------------------
(* coalesce_blocks: four cases, by the flags of the neighbours.            *)

CoalesceNone(h, p) ==
  LET n == NextBlock(h, p)
      x == h.hdr[p] - 1
  IN [h EXCEPT !.hdr[p] = x, !.foot[n] = x,
               !.hdr[n] = IF SizeOf(@) > 2 THEN @ - 2 ELSE @, !.ret = p]

\* The flag of the block before is not kept: it is compared with 2 after it has been
\* made 0 or 1.
CoalesceNext(h, p) ==
  LET n == NextBlock(h, p)
      x == SizeOf(h.hdr[p]) + SizeOf(h.hdr[n])
      m == Shift(h, p, x)
  IN IF m = Null THEN Wild(h)
     ELSE Unlink([h EXCEPT !.hdr[p] = x, !.foot[m] = x, !.ret = p], n)

\* Mutant: the block before does not grow.
CoalescePrevSameSize(h, p) ==
  LET n == NextBlock(h, p)
      q == Shift(h, p, -SizeOf(h.foot[p]))
  IN IF q = Null THEN Wild(h)
     ELSE Unlink([h EXCEPT !.foot[n] = h.hdr[q], !.hdr[n] = @ - 2, !.ret = q], q)

CoalescePrev(h, p) ==
  LET n == NextBlock(h, p)
      q == Shift(h, p, -SizeOf(h.foot[p]))
      x == h.hdr[q] + (IF PrevAllocated(h.hdr[q]) THEN SizeOf(h.hdr[p]) ELSE h.hdr[p])
  IN IF q = Null THEN Wild(h)
     ELSE Unlink([h EXCEPT !.hdr[q] = x, !.foot[n] = x, !.hdr[n] = @ - 2, !.ret = q], q)

CoalesceBoth(h, p) ==
  LET n == NextBlock(h, p)
      q == Shift(h, p, -SizeOf(h.foot[p]))
      m == Shift(h, p, SizeOf(h.hdr[p]) + SizeOf(h.hdr[n]))
      x == h.hdr[q] + SizeOf(h.hdr[p]) + h.hdr[n] - 2
      k == Unlink([h EXCEPT !.hdr[q] = x, !.foot[m] = x, !.ret = q], n)
  IN IF Null \in {q, m} THEN Wild(h) ELSE IF k.fault # "none" THEN k ELSE Unlink(k, q)

\* Mutant: does not look at the block behind.
CoalesceBackwards(h, p) ==
  IF h.fault # "none" THEN h
  ELSE IF NextBlock(h, p) = Null THEN Wild(h)
  ELSE IF PrevAllocated(h.hdr[p]) THEN CoalesceNone(h, p) ELSE CoalescePrev(h, p)

Coalesce(h, p) ==
  LET n == NextBlock(h, p) IN
  IF h.fault # "none" THEN h
  ELSE IF n = Null THEN Wild(h)
  ELSE IF PrevAllocated(h.hdr[p])
       THEN IF ThisAllocated(h.hdr[n]) THEN CoalesceNone(h, p) ELSE CoalesceNext(h, p)
       ELSE IF ThisAllocated(h.hdr[n]) THEN CoalescePrev(h, p) ELSE CoalesceBoth(h, p)

\* Where sf_free and sf_realloc put a free block: at the end of the heap it is the
\* wilderness.
Deposit(h) ==
  IF h.fault # "none" THEN h
  ELSE IF Shift(h, Epilogue(h), -SizeOf(h.foot[Epilogue(h)])) = h.ret
       THEN SetWilderness(h, h.ret)
       ELSE AddNewBlock(h, h.ret, Index(SizeOf(h.hdr[h.ret])))

-----------------------------------------------------------------------------
(* sf_malloc                                                               *)

InitHeap(h) ==
  LET e == PageUnits - 1
      k == [h EXCEPT !.pages = 1,
                     !.next = [b \in Nodes |-> IF b \in Heads THEN b ELSE @[b]],
                     !.prev = [b \in Nodes |-> IF b \in Heads THEN b ELSE @[b]],
                     !.hdr[0] = U + 3, !.foot[1] = U + 3,
                     !.hdr[1] = Bytes(PageUnits - 2) + 2,
                     !.hdr[e] = 1, !.foot[e] = Bytes(PageUnits - 2) + 2]
  IN SetWilderness(k, 1)

\* grow_heap, when there is a page
GrowHeap(h) ==
  LET e == Epilogue(h)
      k == [h EXCEPT !.pages = @ + 1, !.hdr[e] = Bytes(PageUnits)]
      w == IF Wilderness(h) = Head(9) THEN SetWilderness(k, e)
           ELSE [k EXCEPT !.hdr[Wilderness(h)] = @ + Bytes(PageUnits)]
  IN [w EXCEPT !.hdr[Epilogue(k)] = 1, !.foot[Epilogue(k)] = w.hdr[Wilderness(w)]]

\* The loop around grow_heap.
GrowTo(h, size) ==
  LET grown[n \in 0 .. MaxPages] ==
        IF n = 0 THEN h
        ELSE LET k == grown[n - 1] IN
             IF WildernessFits(k, size) \/ k.pages = MaxPages THEN k ELSE GrowHeap(k)
  IN grown[MaxPages]

AllocateWilderness(h, size) ==
  LET w == Wilderness(h)
      e == Epilogue(h)
      v == Shift(h, w, size)
      rest == h.hdr[w] - size
  IN IF SizeOf(h.hdr[w]) - size > U
     THEN [SetWilderness([h EXCEPT !.foot[v] = size + 1, !.hdr[v] = rest, !.hdr[w] = size + 3], v)
             EXCEPT !.hdr[e] = 1, !.foot[e] = rest, !.ret = w]
     ELSE [h EXCEPT !.hdr[w] = @ + 1, !.foot[e] = h.hdr[w] + 1, !.hdr[e] = @ + 2,
                    !.next[Head(9)] = Head(9), !.prev[Head(9)] = Head(9), !.ret = w]

\* Mutant: the block behind does not learn that this one is allocated again.
AllocateBlockUnflagged(h, b, size) ==
  LET k == Unlink(h, b)
      n == Shift(h, b, SizeOf(h.hdr[b] + 1))
  IN IF k.fault # "none" THEN k
     ELSE [k EXCEPT !.hdr[b] = @ + 1, !.foot[n] = h.hdr[b] + 1, !.ret = b]

\* A block is split unless nothing is left over; the size that is left goes into the
\* header of both parts.
AllocateBlock(h, b, size) ==
  LET k == Unlink(h, b)
      rest == SizeOf(h.hdr[b]) - size
      r == Shift(h, b, size)
      c == Coalesce([k EXCEPT !.hdr[b] = rest, !.hdr[r] = rest + 2, !.foot[r] = rest], r)
      n == Shift(h, b, SizeOf(h.hdr[b] + 1))
  IN IF k.fault # "none" THEN k
     ELSE IF rest >= U
     THEN IF r = Null THEN Wild(h)
          ELSE IF c.fault # "none" THEN c
          ELSE [AddNewBlock(c, c.ret, Index(rest)) EXCEPT !.ret = b]
     ELSE IF n = Null THEN Wild(h)
          ELSE [k EXCEPT !.hdr[b] = @ + 1, !.foot[n] = h.hdr[b] + 1, !.hdr[n] = @ + 2, !.ret = b]

\* Mutant: leaves no room for the header.
MallocInNoHeader(h, n) ==
  LET size == RoundTo64(n)
      b == SearchFreeLists(h, size)
      g == GrowTo(h, size)
  IN IF n = 0 THEN [h EXCEPT !.ret = 0]
     ELSE IF b = Null THEN Wild(h)
     ELSE IF b \notin Heads THEN AllocateBlock(h, b, size)
     ELSE IF ~WildernessFits(g, size) THEN [g EXCEPT !.ret = 0]
     ELSE AllocateWilderness(g, size)

\* Position 0, which is the prologue, stands for a NULL result.
MallocIn(h, n) ==
  LET size == RoundTo64(n + 8)
      b == SearchFreeLists(h, size)
      g == GrowTo(h, size)
  IN IF n = 0 THEN [h EXCEPT !.ret = 0]
     ELSE IF b = Null THEN Wild(h)
     ELSE IF b \notin Heads THEN AllocateBlock(h, b, size)
     ELSE IF ~WildernessFits(g, size) THEN [g EXCEPT !.ret = 0]
     ELSE AllocateWilderness(g, size)

DoMalloc(h, n) == MallocIn(IF h.pages = 0 THEN InitHeap(h) ELSE h, n)

-----------------------------------------------------------------------------
(* Memory as bytes: the n bytes from q's payload on get what new says, word by *)
(* word: of every position they reach, the footer, the header and the links. *)

Overwritten(h, q, n, new) ==
  LET In(b, o) == b \in Positions /\ b >= q /\ Bytes(b - q) + o >= 0 /\ Bytes(b - q) + o < n
  IN [h EXCEPT !.foot = [b \in Positions |-> IF In(b, -16) THEN new.foot[b] ELSE @[b]],
               !.hdr  = [b \in Positions |-> IF In(b, -8) THEN new.hdr[b] ELSE @[b]],
               !.next = [b \in Nodes |-> IF In(b, 0) THEN new.next[b] ELSE @[b]],
               !.prev = [b \in Nodes |-> IF In(b, 8) THEN new.prev[b] ELSE @[b]]]

Zero == [foot |-> [b \in Positions |-> 0], hdr |-> [b \in Positions |-> 0],
         next |-> [b \in Positions |-> Null], prev |-> [b \in Positions |-> Null]]

\* Memory moved by this many positions; what comes from outside the heap is zero.
Moved(h, by) ==
  LET From(f, b, none) == IF b - by \in Positions THEN f[b - by] ELSE none
  IN [foot |-> [b \in Positions |-> From(h.foot, b, 0)],
      hdr  |-> [b \in Positions |-> From(h.hdr, b, 0)],
      next |-> [b \in Positions |-> From(h.next, b, Null)],
      prev |-> [b \in Positions |-> From(h.prev, b, Null)]]

Copied(h, p, q, n) == Overwritten(h, q, n, Moved(h, q - p))

-----------------------------------------------------------------------------
(* sf_free, sf_realloc, sf_memalign                                        *)

\* validate_pointer
ValidPointer(h, p) ==
  /\ ThisAllocated(h.hdr[p])
  /\ Bytes(p) + SizeOf(h.hdr[p]) >= Bytes(1)
  /\ PrevAllocated(h.hdr[p]) => ThisAllocated(h.foot[p])

DoFree(h, p) ==
  IF h.fault # "none" THEN h
  ELSE IF ValidPointer(h, p) THEN Deposit(Coalesce(h, p)) ELSE [h EXCEPT !.fault = "abort"]

\* The smaller size is compared without, and rounded without, the header.
Shrink(h, p, n) ==
  LET size == RoundTo64(n)
      rest == SizeOf(h.hdr[p]) - size
      r == Shift(h, p, size)
      x == size + (IF PrevAllocated(h.hdr[p]) THEN 3 ELSE 1)
      k == IF r = p THEN [h EXCEPT !.hdr[p] = rest + 2, !.foot[p] = rest + 2]
           ELSE [h EXCEPT !.hdr[p] = x, !.hdr[r] = rest + 2, !.foot[r] = x]
  IN IF SizeOf(h.hdr[p]) - n <= U THEN [h EXCEPT !.ret = p]
     ELSE IF r = Null THEN Wild(h)
     ELSE [Deposit(Coalesce(k, r)) EXCEPT !.ret = p]

\* The whole old block is copied, header of the next one included; it is freed even
\* if there was no new one.
Enlarge(h, p, n) ==
  LET k == DoMalloc(h, n)
      c == IF k.ret = 0 \/ k.fault # "none" THEN k ELSE Copied(k, p, k.ret, SizeOf(h.hdr[p]))
  IN [DoFree(c, p) EXCEPT !.ret = k.ret]

DoRealloc(h, p, n) ==
  IF h.fault # "none" THEN h
  ELSE IF SizeOf(h.hdr[p]) > n THEN Shrink(h, p, n) ELSE Enlarge(h, p, n)

BadAlign(align) == align < U \/ align \notin {2 ^ k : k \in 0 .. 12}

DoMemalign(h, n, align) ==
  LET first == DoMalloc(h, n + align + U)
      p == first.ret
      offset == align - U
      r == Shift(first, p, offset)
      x == offset + (IF PrevAllocated(first.hdr[p]) THEN 3 ELSE 1)
      y == RoundTo64(n + align + U) - offset + 3
      m == Shift(first, r, SizeOf(y))
      k == [first EXCEPT !.hdr[p] = x, !.hdr[r] = y, !.foot[r] = x, !.foot[m] = y]
  IN IF BadAlign(align) THEN [h EXCEPT !.ret = 0]
     ELSE IF first.fault # "none" THEN first
     ELSE IF p = 0 THEN Wild(first)
     ELSE IF align = U THEN DoRealloc(first, p, n)
     ELSE IF Null \in {r, m} THEN Wild(first)
     ELSE DoRealloc(DoFree(k, p), r, n)

-----------------------------------------------------------------------------
(* The client.                                                             *)

Used(h, n) == IF Writes /\ h.fault = "none" /\ h.ret # 0 THEN Overwritten(h, h.ret, n, Zero) ELSE h

Owned == {p \in Positions : live[p] >= 0}

Init ==
  /\ heap = [hdr |-> [p \in Positions |-> 0], foot |-> [p \in Positions |-> 0],
             next |-> [b \in Nodes |-> Null], prev |-> [b \in Nodes |-> Null],
             pages |-> 0, ret |-> 0, fault |-> "none"]
  /\ live = [p \in Positions |-> -1]
  /\ habit \in {"queue", "stack", "swap"}
  /\ gap = 0

Running == heap.fault = "none"

Gets(n) ==
  live' = IF heap'.fault = "none" /\ heap'.ret # 0 THEN [live EXCEPT ![heap'.ret] = n] ELSE live

sf_malloc(n) == Running /\ heap' = Used(DoMalloc(heap, n), n) /\ Gets(n)

sf_memalign(n, align) == Running /\ heap' = Used(DoMemalign(heap, n, align), n) /\ Gets(n)

sf_free(p) ==
  /\ Running
  /\ heap' = [DoFree(heap, p) EXCEPT !.ret = 0]
  /\ live' = [live EXCEPT ![p] = -1]

sf_realloc(p, n) ==
  /\ Running
  /\ heap' = Used(DoRealloc(heap, p, n), n)
  /\ LET q == heap'.ret IN
     live' = [b \in Positions |->
               IF n > 0 /\ q # 0 /\ b = q THEN n ELSE IF b = p THEN -1 ELSE live[b]]

\* Any client: every call, at any time, on its own blocks.
AnyNext ==
  /\ \/ \E n \in Sizes : sf_malloc(n)
     \/ \E n \in Sizes, align \in Aligns : sf_memalign(n, align)
     \/ \E p \in Owned : sf_free(p)
     \/ \E p \in Owned, n \in Resizes : sf_realloc(p, n)
  /\ UNCHANGED <<habit, gap>>

AnySpec == Init /\ [][AnyNext]_vars

(* Careful clients, which malloc and free only and within a quota: one gives *)
(* all its blocks back, lowest address first, before it asks again; one     *)
(* gives back the highest first; one gives back any block and at once asks *)
(* for as much again.  Only the first uses blocks to their last bytes.      *)
Units(n) == RoundTo64(n + 8) \div U
UsesFooter(n) == n > Bytes(Units(n)) - 16
UnitsHeld == MapThenSumSet(LAMBDA p : Units(live[p]), Owned)

\* Requests that never come to all of a heap, or to all of it but one unit: blocks that
\* are multiples of D leave two units or more of every number of pages.
CarefulSizes ==
  /\ 0 \notin Sizes
  /\ \E D \in 1 .. PageUnits : /\ \A n \in Sizes : Units(n) % D = 0
                              /\ \A k \in 1 .. MaxPages : (PageUnits * k - 2) % D >= 2

Ask(n) ==
  /\ UnitsHeld + Units(n) <= Quota
  /\ gap = -1 => Owned = {}
  /\ gap > 0 => Units(n) = gap
  /\ UsesFooter(n) => habit = "queue"
  /\ sf_malloc(n)
  /\ gap' = 0
  /\ UNCHANGED habit

GiveLowest(p) ==
  /\ habit = "queue"
  /\ \A q \in Owned : p <= q
  /\ sf_free(p)
  /\ gap' = -1
  /\ UNCHANGED habit

GiveHighest(p) ==
  /\ habit = "stack"
  /\ \A q \in Owned : q <= p
  /\ sf_free(p)
  /\ UNCHANGED <<habit, gap>>

GiveAny(p) ==
  /\ habit = "swap" /\ gap = 0
  /\ sf_free(p)
  /\ gap' = Units(live[p])
  /\ UNCHANGED habit

Next == \/ \E n \in Sizes : Ask(n)
        \/ \E p \in Owned : GiveLowest(p) \/ GiveHighest(p) \/ GiveAny(p)

Spec == Init /\ [][Next]_vars

-----------------------------------------------------------------------------
(* Properties.                                                             *)

\* The variables keep their types: links and return values are positions in the heap,
\* header and footer words are numbers (sfmm.c:67-132).
TypeOK ==
  /\ heap.hdr \in [Positions -> Int] /\ heap.foot \in [Positions -> Int]
  /\ heap.next \in [Nodes -> Nodes \cup {Null}] /\ heap.prev \in [Nodes -> Nodes \cup {Null}]
  /\ heap.pages \in 0 .. MaxPages /\ heap.ret \in Positions
  /\ heap.fault \in {"none", "abort", "wild"}
  /\ live \in [Positions -> Sizes \cup Resizes \cup {-1}]
  /\ habit \in {"queue", "stack", "swap"}
  /\ gap \in {-1, 0} \cup {Units(n) : n \in Sizes}

Sound == Running /\ heap.pages > 0

\* The blocks of list i, and Null if the list does not lead back to its head.
InList(i) ==
  LET at[n \in 0 .. PageUnits * MaxPages] ==
        IF n = 0 THEN heap.next[Head(i)]
        ELSE LET b == at[n - 1] IN IF b \in Heads \cup {Null} THEN b ELSE heap.next[b]
  IN {at[n] : n \in DOMAIN at} \ {Head(i)}
Listed == UNION {InList(i) : i \in 0 .. 9}

\* The blocks as the header words tell them, one behind the other from the prologue
\* to the epilogue; Null among them if they do not get there.
Chain ==
  LET at[n \in 0 .. PageUnits * MaxPages] ==
        IF n = 0 THEN 1
        ELSE LET b == at[n - 1] IN
             IF b \in {Null, Epilogue(heap)} THEN b
             ELSE IF NextBlock(heap, b) > b THEN NextBlock(heap, b) ELSE Null
  IN {at[n] : n \in DOMAIN at}

\* What the client was given is its own: the payloads it may use lie inside the heap
\* and clear of each other's headers ("a pointer to a valid region of memory of the
\* requested size", sfmm.h:183-184).
LiveApart ==
  Sound => \A p \in Owned : \A q \in {q \in Owned : q > p} \cup {Epilogue(heap)} :
             p < q /\ live[p] + 8 <= Bytes(q - p)

\* The heap is cut into blocks without gap or overlap, and each of them is the
\* client's or in a free list, never both and never neither.
HeapTiles ==
  Sound => /\ Epilogue(heap) \in Chain
           /\ Chain \ {Epilogue(heap)} = Owned \cup Listed
           /\ Owned \cap Listed = {}

\* Every free list is a ring, linked both ways, of blocks of its size class, and the
\* wilderness list holds nothing but the last block (sfmm.h:145-166).
ListsSound ==
  Sound => \A i \in 0 .. 9 : \A b \in InList(i) \cup {Head(i)} :
    /\ b # Null /\ heap.next[b] # Null /\ heap.prev[heap.next[b]] = b
    /\ i = 9 /\ b # Head(9) => NextBlock(heap, b) = Epilogue(heap)
    /\ i < 9 /\ b # Head(i) => Index(SizeAt(heap, b)) = i

\* Free blocks are as sf_free should leave them: no two are neighbours, and "footer
\* contents must always be identical to header contents" (sfmm.h:64), which say free.
FreeSound ==
  Sound => \A b \in Listed : /\ NextBlock(heap, b) \notin Listed
                             /\ heap.foot[NextBlock(heap, b)] = heap.hdr[b]
                             /\ ~ThisAllocated(heap.hdr[b])

\* sf_free takes every pointer that the client was given and still has (it aborts only
\* "if ptr is invalid", sfmm.h:212), and nothing outside the blocks of the heap is ever
\* read or written.
NeverFails == Running
=============================================================================
