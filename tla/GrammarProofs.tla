--------------------------- MODULE GrammarProofs ---------------------------
(* The grammar of Sequitur stands for its input, for any letters, any        *)
(* storage and any table, also one that is full, as long as no word comes    *)
(* twice in a row.  The inductive invariant, GrammarInv, gives each symbol   *)
(* and each rule the stretch of the input that it stands for, and says of    *)
(* the stack what the activation on top is about to do and what those below  *)
(* wait for.  It rests on the lengths of the stretches: the rules on the     *)
(* stack are each longer than those below, and no longer than the symbol at  *)
(* the end of the main rule, so no activation disturbs what another waits    *)
(* for; and two equal digrams never overlap.  The first part goes through    *)
(* the steps; the second reads the properties off the invariant; the third   *)
(* follows the grammar through the file, and what it stands for arrives.     *)
EXTENDS SequiturProofs

-----------------------------------------------------------------------------
(* The activations.                                                        *)

Span(a, z, s) == z[s] - a[s]
RuleSpan(a, z, r) == a[r] - z[r]
Tip(h) == h.prev[h.main]

\* No digram in the table has these values.
Absent(h, v1, v2) == \A y \in Entered(h) : ~(h.value[y] = v1 /\ h.value[h.next[y]] = v2)

\* A rule of two symbols whose digram is not in the table.
TwoAbsent(h, r) ==
  /\ h.next[h.next[h.next[r]]] = r
  /\ Absent(h, h.value[h.next[r]], h.value[h.next[h.next[r]]])

\* A rule of the same two values as the digram at s.
Alike(h, r, s) ==
  /\ h.next[h.next[h.next[r]]] = r
  /\ h.value[h.next[r]] = h.value[s] /\ h.value[h.next[h.next[r]]] = h.value[h.next[s]]

\* Rules each of which, but for the main rule, ends one of the others: none of them can be
\* expanded, as only first symbols are.
Spine(h, R, S) ==
  h.main \in S /\ S \subseteq R /\ \A r \in S \ {h.main} : \E q \in S : h.rule[h.prev[q]] = r

Activations == [at : Ats, this : Symbols \cup {Null}, other : Symbols \cup {Null}]
Frames == [at : {"right", "enter", "utility"}, this : Symbols, other : {Null}]

\* The activations of process_match that wait below, each with a rule of its own, which is
\* no longer than the last symbol of the main rule and than the rules above it; and those
\* of replace_digram, which their process_match waits for.
Pending(h, O, a, z, S, f) ==
  /\ f.this \in S \ {h.main} /\ Tip(h) \in O /\ RuleSpan(a, z, f.this) <= Span(a, z, Tip(h))
  /\ f.at = "enter" => TwoAbsent(h, f.this)

Chain(h, O, a, z, S, C) ==
  /\ C \in Seq(Frames)
  /\ \A i \in 1 .. Len(C) :
       /\ C[i].at \in {"right", "enter", "utility"}
       /\ C[i].at = "right" => i < Len(C) /\ C[i + 1].at # "right"
       /\ C[i].at # "right" => Pending(h, O, a, z, S, C[i])
  /\ \A i, j \in 1 .. Len(C) : i < j /\ C[i].at # "right" /\ C[j].at # "right"
                                => RuleSpan(a, z, C[j].this) < RuleSpan(a, z, C[i].this)

\* A second check that is still to come is of the last digram.
Coming(h, C) == C # <<>> /\ Head(C).at = "right" => Head(C).this = h.prev[Tip(h)]

\* What a sequence is with one more element in front.
LEMMA OnTop ==
  ASSUME NEW T, NEW C \in Seq(T), NEW x \in T
  PROVE  LET D == <<x>> \o C IN
         /\ D \in Seq(T) /\ Len(D) = Len(C) + 1 /\ Len(C) \in Nat /\ D[1] = x /\ D # <<>>
         /\ \A i \in 1 .. Len(C) : D[i + 1] = C[i]
         /\ Head(D) = x /\ Tail(D) = C
<1> DEFINE D == <<x>> \o C
<1>1. /\ D \in Seq(T) /\ Len(D) = Len(C) + 1 /\ Len(C) \in Nat /\ D[1] = x /\ D # <<>>
      /\ \A i \in 1 .. Len(C) : D[i + 1] = C[i]
  OBVIOUS
<1>2. Head(D) = x
  BY <1>1
<1>3. Tail(D) = C
  <2>1. Tail(D) \in Seq(T) /\ Len(Tail(D)) = Len(C)
    BY <1>1
  <2>2. \A i \in 1 .. Len(C) : Tail(D)[i] = C[i]
    BY <1>1
  <2> QED BY <2>1, <2>2
<1> QED BY <1>1, <1>2, <1>3

\* A nonempty sequence taken apart.
LEMMA Uncons ==
  ASSUME NEW T, NEW D \in Seq(T), D # <<>>
  PROVE  /\ Head(D) \in T /\ Tail(D) \in Seq(T) /\ D = <<Head(D)>> \o Tail(D)
         /\ Len(Tail(D)) = Len(D) - 1 /\ Len(D) \in Nat /\ Len(D) > 0 /\ Head(D) = D[1]
         /\ \A i \in 1 .. Len(Tail(D)) : Tail(D)[i] = D[i + 1]
<1>1. Head(D) \in T /\ Tail(D) \in Seq(T) /\ Len(Tail(D)) = Len(D) - 1 /\ Len(D) \in Nat /\ Len(D) > 0
      /\ Head(D) = D[1] /\ \A i \in 1 .. Len(Tail(D)) : Tail(D)[i] = D[i + 1]
  OBVIOUS
<1>2. D = <<Head(D)>> \o Tail(D)
  <2> DEFINE F == <<Head(D)>> \o Tail(D)
  <2> DEFINE hd == Head(D)
             tl == Tail(D)
  <2>0. hd \in T /\ tl \in Seq(T)
    BY <1>1
  <2> HIDE DEF hd, tl
  <2>1. /\ F \in Seq(T) /\ Len(F) = Len(Tail(D)) + 1 /\ F[1] = Head(D)
        /\ \A i \in 1 .. Len(Tail(D)) : F[i + 1] = Tail(D)[i]
    BY <2>0, OnTop DEF hd, tl
  <2>2. Len(F) = Len(D)
    BY <1>1, <2>1
  <2>3. \A i \in 1 .. Len(D) : F[i] = D[i]
    <3> SUFFICES ASSUME NEW i \in 1 .. Len(D) PROVE F[i] = D[i]
      OBVIOUS
    <3>1. CASE i = 1
      BY <1>1, <2>1, <3>1
    <3>2. CASE i # 1
      <4>1. i - 1 \in 1 .. Len(Tail(D)) /\ (i - 1) + 1 = i
        BY <1>1, <3>2
      <4>2. F[(i - 1) + 1] = Tail(D)[i - 1] /\ Tail(D)[i - 1] = D[(i - 1) + 1]
        BY <1>1, <2>1, <4>1
      <4> QED BY <4>1, <4>2
    <3> QED BY <3>1, <3>2
  <2> QED BY <2>1, <2>2, <2>3
<1> QED BY <1>1, <1>2

\* The activation on top of a chain, and the chain below it.
LEMMA ChainTail ==
  ASSUME NEW h, NEW O, NEW a, NEW z, NEW S, NEW C, Chain(h, O, a, z, S, C), C # <<>>
  PROVE  /\ Head(C) \in Frames /\ C = <<Head(C)>> \o Tail(C) /\ Chain(h, O, a, z, S, Tail(C))
         /\ Head(C).at \in {"right", "enter", "utility"}
         /\ Head(C).at = "right" => /\ Tail(C) # <<>> /\ Head(Tail(C)).at # "right"
                                    /\ Pending(h, O, a, z, S, Head(Tail(C)))
         /\ Head(C).at # "right" => Pending(h, O, a, z, S, Head(C))
         /\ Head(C).at # "right" => \A i \in 1 .. Len(Tail(C)) : Tail(C)[i].at # "right"
              => RuleSpan(a, z, Tail(C)[i].this) < RuleSpan(a, z, Head(C).this)
<1> DEFINE T == Tail(C)
<1>1. /\ Head(C) \in Frames /\ T \in Seq(Frames) /\ C = <<Head(C)>> \o T
      /\ Len(T) = Len(C) - 1 /\ Len(C) \in Nat /\ Len(C) > 0 /\ Head(C) = C[1]
      /\ \A i \in 1 .. Len(T) : T[i] = C[i + 1]
  BY Uncons DEF Chain
<1> HIDE DEF T
<1>2. /\ \A i \in 1 .. Len(C) :
       /\ C[i].at \in {"right", "enter", "utility"}
       /\ C[i].at = "right" => i < Len(C) /\ C[i + 1].at # "right"
       /\ C[i].at # "right" => Pending(h, O, a, z, S, C[i])
      /\ \A i, j \in 1 .. Len(C) : i < j /\ C[i].at # "right" /\ C[j].at # "right"
                                => RuleSpan(a, z, C[j].this) < RuleSpan(a, z, C[i].this)
  BY DEF Chain
<1>3. \A i \in 1 .. Len(T) : i + 1 \in 1 .. Len(C) /\ (i < Len(T) <=> i + 1 < Len(C))
  BY <1>1
<1>4. ASSUME NEW i \in 1 .. Len(T)
      PROVE  /\ T[i].at \in {"right", "enter", "utility"}
             /\ T[i].at = "right" => i < Len(T) /\ T[i + 1].at # "right"
             /\ T[i].at # "right" => Pending(h, O, a, z, S, T[i])
  <2>1. T[i] = C[i + 1] /\ i + 1 \in 1 .. Len(C) /\ (i < Len(T) <=> i + 1 < Len(C))
    BY <1>1, <1>3
  <2>2. i < Len(T) => T[i + 1] = C[(i + 1) + 1]
    BY <1>1
  <2> QED BY <1>2, <2>1, <2>2
<1>5. ASSUME NEW i \in 1 .. Len(T), NEW j \in 1 .. Len(T), i < j, T[i].at # "right", T[j].at # "right"
      PROVE  RuleSpan(a, z, T[j].this) < RuleSpan(a, z, T[i].this)
  <2>1. T[i] = C[i + 1] /\ T[j] = C[j + 1] /\ i + 1 < j + 1
    BY <1>1, <1>5
  <2> QED BY <1>2, <1>3, <1>5, <2>1
<1>6. Chain(h, O, a, z, S, T)
  BY <1>1, <1>4, <1>5 DEF Chain
<1>7. 1 \in 1 .. Len(C)
  BY <1>1
<1>8. Head(C).at \in {"right", "enter", "utility"}
      /\ (Head(C).at # "right" => Pending(h, O, a, z, S, Head(C)))
  BY <1>1, <1>2, <1>7
<1>9. ASSUME Head(C).at = "right"
      PROVE  T # <<>> /\ Head(T).at # "right" /\ Pending(h, O, a, z, S, Head(T))
  <2>1. 1 < Len(C) /\ C[1 + 1].at # "right"
    BY <1>1, <1>2, <1>7, <1>9
  <2>2. 1 \in 1 .. Len(T) /\ T # <<>> /\ T[1] = C[1 + 1]
    BY <1>1, <2>1
  <2>3. Head(T) = T[1]
    BY <1>1, <2>2
  <2> QED BY <1>4, <2>1, <2>2, <2>3
<1>10. ASSUME Head(C).at # "right", NEW i \in 1 .. Len(T), T[i].at # "right"
       PROVE  RuleSpan(a, z, T[i].this) < RuleSpan(a, z, Head(C).this)
  <2>1. T[i] = C[i + 1] /\ 1 < i + 1 /\ i + 1 \in 1 .. Len(C)
    BY <1>1, <1>3
  <2> QED BY <1>1, <1>2, <1>7, <1>10, <2>1
<1> QED BY <1>1, <1>6, <1>8, <1>9, <1>10 DEF T

\* An activation of process_match on top of a chain, for a longer rule than any below.
LEMMA ChainCons ==
  ASSUME NEW h, NEW O, NEW a, NEW z, NEW S, NEW C, Chain(h, O, a, z, S, C),
         NEW f \in Frames, f.at \in {"enter", "utility"}, Pending(h, O, a, z, S, f),
         \A i \in 1 .. Len(C) : C[i].at # "right"
                                 => RuleSpan(a, z, C[i].this) < RuleSpan(a, z, f.this)
  PROVE  Chain(h, O, a, z, S, <<f>> \o C)
<1> DEFINE D == <<f>> \o C
<1>11. C \in Seq(Frames)
  BY DEF Chain
<1>1. /\ D \in Seq(Frames) /\ Len(D) = Len(C) + 1 /\ Len(C) \in Nat /\ D[1] = f
      /\ \A i \in 1 .. Len(C) : D[i + 1] = C[i]
  BY ONLY <1>11, OnTop, f \in Frames
<1> HIDE DEF D
<1>2. /\ \A i \in 1 .. Len(C) :
       /\ C[i].at \in {"right", "enter", "utility"}
       /\ C[i].at = "right" => i < Len(C) /\ C[i + 1].at # "right"
       /\ C[i].at # "right" => Pending(h, O, a, z, S, C[i])
      /\ \A i, j \in 1 .. Len(C) : i < j /\ C[i].at # "right" /\ C[j].at # "right"
                                => RuleSpan(a, z, C[j].this) < RuleSpan(a, z, C[i].this)
  BY DEF Chain
<1>3. \A i \in 1 .. Len(D) : i = 1 \/ (i - 1 \in 1 .. Len(C) /\ D[i] = C[i - 1])
  <2> SUFFICES ASSUME NEW i \in 1 .. Len(D), i # 1 PROVE i - 1 \in 1 .. Len(C) /\ D[i] = C[i - 1]
    OBVIOUS
  <2>1. i - 1 \in 1 .. Len(C) /\ (i - 1) + 1 = i
    BY <1>1
  <2>2. D[(i - 1) + 1] = C[i - 1]
    BY <1>1, <2>1
  <2> QED BY <2>1, <2>2
<1>4. ASSUME NEW i \in 1 .. Len(D)
      PROVE  /\ D[i].at \in {"right", "enter", "utility"}
             /\ D[i].at = "right" => i < Len(D) /\ D[i + 1].at # "right"
             /\ D[i].at # "right" => Pending(h, O, a, z, S, D[i])
  <2>1. CASE i = 1
    BY <1>1, <2>1
  <2>2. CASE i # 1
    <3>1. i - 1 \in 1 .. Len(C) /\ D[i] = C[i - 1] /\ (i - 1) + 1 = i
      BY <1>1, <1>3, <2>2
    <3>2. C[i - 1].at = "right" => i - 1 < Len(C) /\ C[i].at # "right"
      BY <1>2, <3>1
    <3>3. i - 1 < Len(C) => i < Len(D) /\ D[i + 1] = C[i]
      BY <1>1, <3>1
    <3> QED BY <1>2, <3>1, <3>2, <3>3
  <2> QED BY <2>1, <2>2
<1>5. ASSUME NEW i \in 1 .. Len(D), NEW j \in 1 .. Len(D), i < j, D[i].at # "right", D[j].at # "right"
      PROVE  RuleSpan(a, z, D[j].this) < RuleSpan(a, z, D[i].this)
  <2>1. j - 1 \in 1 .. Len(C) /\ D[j] = C[j - 1]
    BY <1>1, <1>3, <1>5
  <2>2. CASE i = 1
    BY <1>1, <1>5, <2>1, <2>2
  <2>3. CASE i # 1
    <3>1. i - 1 \in 1 .. Len(C) /\ D[i] = C[i - 1] /\ i - 1 < j - 1
      BY <1>1, <1>3, <1>5, <2>3
    <3> QED BY <1>2, <1>5, <2>1, <3>1
  <2> QED BY <2>2, <2>3
<1> QED BY <1>1, <1>4, <1>5 DEF Chain, D

\* An activation of replace_digram that waits on top of its process_match.
LEMMA ChainRight ==
  ASSUME NEW h, NEW O, NEW a, NEW z, NEW S, NEW C, Chain(h, O, a, z, S, C), C # <<>>,
         Head(C).at # "right", NEW f \in Frames, f.at = "right"
  PROVE  Chain(h, O, a, z, S, <<f>> \o C)
<1> DEFINE D == <<f>> \o C
<1>11. C \in Seq(Frames)
  BY DEF Chain
<1>1. /\ D \in Seq(Frames) /\ Len(D) = Len(C) + 1 /\ Len(C) \in Nat /\ D[1] = f
      /\ \A i \in 1 .. Len(C) : D[i + 1] = C[i]
  BY ONLY <1>11, OnTop, f \in Frames
<1>0. 0 < Len(C) /\ C[1].at # "right" /\ 1 \in 1 .. Len(C)
  BY Uncons DEF Chain
<1> HIDE DEF D
<1>2. /\ \A i \in 1 .. Len(C) :
       /\ C[i].at \in {"right", "enter", "utility"}
       /\ C[i].at = "right" => i < Len(C) /\ C[i + 1].at # "right"
       /\ C[i].at # "right" => Pending(h, O, a, z, S, C[i])
      /\ \A i, j \in 1 .. Len(C) : i < j /\ C[i].at # "right" /\ C[j].at # "right"
                                => RuleSpan(a, z, C[j].this) < RuleSpan(a, z, C[i].this)
  BY DEF Chain
<1>3. \A i \in 1 .. Len(D) : i = 1 \/ (i - 1 \in 1 .. Len(C) /\ D[i] = C[i - 1])
  <2> SUFFICES ASSUME NEW i \in 1 .. Len(D), i # 1 PROVE i - 1 \in 1 .. Len(C) /\ D[i] = C[i - 1]
    OBVIOUS
  <2>1. i - 1 \in 1 .. Len(C) /\ (i - 1) + 1 = i
    BY <1>1
  <2>2. D[(i - 1) + 1] = C[i - 1]
    BY <1>1, <2>1
  <2> QED BY <2>1, <2>2
<1>4. ASSUME NEW i \in 1 .. Len(D)
      PROVE  /\ D[i].at \in {"right", "enter", "utility"}
             /\ D[i].at = "right" => i < Len(D) /\ D[i + 1].at # "right"
             /\ D[i].at # "right" => Pending(h, O, a, z, S, D[i])
  <2>1. CASE i = 1
    <3>1. D[1 + 1] = C[1] /\ 1 < Len(D)
      BY <1>0, <1>1
    <3> QED BY <1>0, <1>1, <2>1, <3>1
  <2>2. CASE i # 1
    <3>1. i - 1 \in 1 .. Len(C) /\ D[i] = C[i - 1] /\ (i - 1) + 1 = i
      BY <1>1, <1>3, <2>2
    <3>2. C[i - 1].at = "right" => i - 1 < Len(C) /\ C[i].at # "right"
      BY <1>2, <3>1
    <3>3. i - 1 < Len(C) => i < Len(D) /\ D[i + 1] = C[i]
      BY <1>1, <3>1
    <3> QED BY <1>2, <3>1, <3>2, <3>3
  <2> QED BY <2>1, <2>2
<1>5. ASSUME NEW i \in 1 .. Len(D), NEW j \in 1 .. Len(D), i < j, D[i].at # "right", D[j].at # "right"
      PROVE  RuleSpan(a, z, D[j].this) < RuleSpan(a, z, D[i].this)
  <2>1. j - 1 \in 1 .. Len(C) /\ D[j] = C[j - 1]
    BY <1>1, <1>3, <1>5
  <2>3. i # 1
    BY <1>1, <1>5
  <2>4. i - 1 \in 1 .. Len(C) /\ D[i] = C[i - 1] /\ i - 1 < j - 1
    BY <1>1, <1>3, <1>5, <2>3
  <2> QED BY <1>2, <1>5, <2>1, <2>4
<1> QED BY <1>1, <1>4, <1>5 DEF Chain, D

-----------------------------------------------------------------------------
(* What the top activation is about to do.                                 *)

Parsed(h, in, R, O, own, a, z, rank, n, S) ==
  /\ Sound(h, in, {h.main}, R, O, own, a, z, rank, n) /\ Tabled(h, O)
  /\ z[h.main] = 0 /\ a[h.main] = Len(in) /\ Spine(h, R, S)

\* s begins the last digram of the main rule.
Ends(h, O, s) == s \in O /\ Tip(h) \in O /\ h.next[s] = Tip(h)

Repeated(h, R, O, s, r) == Ends(h, O, s) /\ r \in R \ {h.main} /\ Alike(h, r, s)

\* The table has another digram, of the same values, that does not overlap.
Twin(h, s, o) ==
  /\ o \in Entered(h) /\ o # s /\ h.next[o] # s
  /\ h.value[o] = h.value[s] /\ h.value[h.next[o]] = h.value[h.next[s]]

Missing(h, s) == Absent(h, h.value[s], h.value[h.next[s]])

\* Only t stands for the rule r, and it begins no digram of the table.
Single(h, O, r, t) == Uses(h, O, r) = {t} /\ t \notin Entered(h)

Resting(h, C, st, fd) == st = C /\ (~fd => Coming(h, C))

Checking(h, R, O, C, st) ==
  \E s \in R \cup O :
    /\ st = <<Frame("check", s, Null)>> \o C
    /\ Tip(h) \in O /\ s \in {Tip(h), h.prev[Tip(h)]} /\ s \notin Entered(h) /\ Coming(h, C)

Matching(h, O, C, st) ==
  \E s, o \in O : st = <<Frame("match", s, o)>> \o C /\ Ends(h, O, s) /\ Twin(h, s, o)

Replacing(h, R, O, C, st) ==
  \E s \in O, r \in R, f \in Frames :
    /\ st = <<Frame("replace", s, r), f>> \o C /\ Repeated(h, R, O, s, r)
    /\ f.this = r /\ (f.at = "utility" \/ (f.at = "enter" /\ Missing(h, s)))

\* The match is replaced first,
Doubling(h, R, O, C, st) ==
  \E s, o \in O, r \in R :
    /\ st = <<Frame("replace", o, r), Frame("second", s, r)>> \o C
    /\ Repeated(h, R, O, s, r) /\ Twin(h, s, o) /\ Uses(h, O, r) = {}
    /\ h.prev[o] \notin R \/ h.next[h.next[o]] \notin R

\* then the digrams on either side of the nonterminal are checked in vain.
Doubled(h, R, O, C, st, fd) ==
  \E s \in O, r \in R :
    /\ Repeated(h, R, O, s, r) /\ Missing(h, s)
    /\ \/ st = <<Frame("second", s, r)>> \o C
       \/ \E t \in O, p \in R \cup O :
            /\ Single(h, O, r, t) /\ h.next[p] = t
            /\ \/ /\ p \notin Entered(h)
                  /\ st = <<Frame("check", p, Null), Frame("right", p, Null), Frame("second", s, r)>> \o C
               \/ ~fd /\ st = <<Frame("right", p, Null), Frame("second", s, r)>> \o C
               \/ st = <<Frame("check", t, Null), Frame("second", s, r)>> \o C

Phase(h, R, O, C, st, fd) ==
  \/ Resting(h, C, st, fd) \/ Checking(h, R, O, C, st) \/ Matching(h, O, C, st)
  \/ Replacing(h, R, O, C, st) \/ Doubling(h, R, O, C, st) \/ Doubled(h, R, O, C, st, fd)

Parsing(h, in, st, fd) ==
  \E R, O, own, a, z, rank, n, S, C :
    /\ Parsed(h, in, R, O, own, a, z, rank, n, S)
    /\ Chain(h, O, a, z, S, C) /\ Phase(h, R, O, C, st, fd)

\* What a sequence is with two more elements in front.
LEMMA TwoOnTop ==
  ASSUME NEW T, NEW C \in Seq(T), NEW x \in T, NEW y \in T
  PROVE  LET D == <<x, y>> \o C IN
         /\ D \in Seq(T) /\ D # <<>> /\ Head(D) = x /\ Tail(D) = <<y>> \o C
         /\ Len(D) = Len(C) + 2 /\ D[1] = x /\ D[2] = y /\ \A i \in 1 .. Len(C) : D[i + 2] = C[i]
<1> DEFINE D == <<x, y>> \o C
           F == <<y>> \o C
           G == <<x>> \o F
<1>1. /\ F \in Seq(T) /\ Len(F) = Len(C) + 1 /\ Len(C) \in Nat /\ F[1] = y
      /\ \A i \in 1 .. Len(C) : F[i + 1] = C[i]
  BY OnTop
<1>2. /\ D \in Seq(T) /\ Len(D) = Len(C) + 2 /\ D[1] = x /\ D[2] = y /\ D # <<>>
      /\ \A i \in 1 .. Len(C) : D[i + 2] = C[i]
  OBVIOUS
<1> HIDE DEF D, F
<1>3. /\ G \in Seq(T) /\ Len(G) = Len(F) + 1 /\ G[1] = x /\ Head(G) = x /\ Tail(G) = F
      /\ \A i \in 1 .. Len(F) : G[i + 1] = F[i]
  BY <1>1, OnTop
<1> HIDE DEF G
<1>4. \A i \in 1 .. Len(D) : D[i] = G[i]
  <2> SUFFICES ASSUME NEW i \in 1 .. Len(D) PROVE D[i] = G[i]
    OBVIOUS
  <2>1. CASE i = 1
    BY <1>2, <1>3, <2>1
  <2>2. CASE i = 2
    <3>1. 1 \in 1 .. Len(F)
      BY <1>1
    <3>2. G[1 + 1] = F[1]
      BY <1>3, <3>1
    <3> QED BY <1>1, <1>2, <2>2, <3>2
  <2>3. CASE i # 1 /\ i # 2
    <3>1. i - 2 \in 1 .. Len(C) /\ i - 1 \in 1 .. Len(F) /\ (i - 2) + 2 = i /\ (i - 1) + 1 = i
          /\ (i - 2) + 1 = i - 1
      BY <1>1, <1>2, <2>3
    <3>2. D[(i - 2) + 2] = C[i - 2] /\ G[(i - 1) + 1] = F[i - 1] /\ F[(i - 2) + 1] = C[i - 2]
      BY <1>1, <1>2, <1>3, <3>1
    <3> QED BY <3>1, <3>2
  <2> QED BY <2>1, <2>2, <2>3
<1>5. D = G
  <2>1. Len(D) = Len(G)
    BY <1>1, <1>2, <1>3
  <2> QED BY <1>2, <1>3, <1>4, <2>1, SameSeq
<1> QED BY <1>2, <1>3, <1>5 DEF D, F

\* What a sequence is with three more elements in front.
LEMMA ThreeOnTop ==
  ASSUME NEW T, NEW C \in Seq(T), NEW x \in T, NEW y \in T, NEW w \in T
  PROVE  LET D == <<x, y, w>> \o C IN
         D \in Seq(T) /\ D # <<>> /\ Head(D) = x /\ Tail(D) = <<y, w>> \o C
<1> DEFINE D == <<x, y, w>> \o C
           F == <<y, w>> \o C
           G == <<x>> \o F
<1>1. /\ F \in Seq(T) /\ Len(F) = Len(C) + 2 /\ Len(C) \in Nat /\ F[1] = y /\ F[2] = w
      /\ \A i \in 1 .. Len(C) : F[i + 2] = C[i]
  BY TwoOnTop
<1>2. /\ D \in Seq(T) /\ Len(D) = Len(C) + 3 /\ D[1] = x /\ D[2] = y /\ D[3] = w /\ D # <<>>
      /\ \A i \in 1 .. Len(C) : D[i + 3] = C[i]
  OBVIOUS
<1> HIDE DEF D, F
<1>3. /\ G \in Seq(T) /\ Len(G) = Len(F) + 1 /\ G[1] = x /\ Head(G) = x /\ Tail(G) = F
      /\ \A i \in 1 .. Len(F) : G[i + 1] = F[i]
  BY <1>1, OnTop
<1> HIDE DEF G
<1>4. \A i \in 1 .. Len(D) : D[i] = G[i]
  <2> SUFFICES ASSUME NEW i \in 1 .. Len(D) PROVE D[i] = G[i]
    OBVIOUS
  <2>1. CASE i = 1
    BY <1>2, <1>3, <2>1
  <2>2. CASE i = 2 \/ i = 3
    <3>1. 1 \in 1 .. Len(F) /\ 2 \in 1 .. Len(F)
      BY <1>1
    <3>2. G[1 + 1] = F[1] /\ G[2 + 1] = F[2]
      BY <1>3, <3>1
    <3> QED BY <1>1, <1>2, <2>2, <3>2
  <2>3. CASE i # 1 /\ i # 2 /\ i # 3
    <3>1. i - 3 \in 1 .. Len(C) /\ i - 1 \in 1 .. Len(F) /\ (i - 3) + 3 = i /\ (i - 1) + 1 = i
          /\ (i - 3) + 2 = i - 1
      BY <1>1, <1>2, <2>3
    <3>2. D[(i - 3) + 3] = C[i - 3] /\ G[(i - 1) + 1] = F[i - 1] /\ F[(i - 3) + 2] = C[i - 3]
      BY <1>1, <1>2, <1>3, <3>1
    <3> QED BY <3>1, <3>2
  <2> QED BY <2>1, <2>2, <2>3
<1>5. D = G
  <2>1. Len(D) = Len(G)
    BY <1>1, <1>2, <1>3
  <2> QED BY <1>2, <1>3, <1>4, <2>1, SameSeq
<1> QED BY <1>2, <1>3, <1>5 DEF D, F

\* The table changes and nothing else.
LEMMA SoundTable ==
  ASSUME NEW h, NEW in, NEW E, NEW R, NEW O, NEW own, NEW a, NEW z, NEW rank, NEW n,
         Sound(h, in, E, R, O, own, a, z, rank, n),
         NEW k \in Storage, k = [h EXCEPT !.table = k.table]
  PROVE  /\ Sound(k, in, E, R, O, own, a, z, rank, n)
         /\ k.main = h.main /\ k.next = h.next /\ k.prev = h.prev /\ k.value = h.value
         /\ k.rule = h.rule /\ k.refcnt = h.refcnt /\ k.fault = "none"
<1>1. h \in Storage /\ h.fault = "none"
  BY DEF Sound
<1>2. /\ k.main = h.main /\ k.next = h.next /\ k.prev = h.prev /\ k.value = h.value
      /\ k.rule = h.rule /\ k.refcnt = h.refcnt /\ k.fault = h.fault /\ k.nextr = h.nextr
      /\ k.prevr = h.prevr /\ k.num = h.num /\ k.recycled = h.recycled /\ k.nextvalue = h.nextvalue
  BY <1>1 DEF Storage
<1>3. Linked(k, R, O, own) /\ Stretched(k, in, R, O, own, a, z)
  BY <1>2 DEF Sound, Linked, Stretched
<1>4. Named(k, in, R, O, a, z)
  BY <1>2 DEF Sound, Named, Letter, Instance
<1>5. Ringed(k, R) /\ Counted(k, R, O)
  BY <1>2 DEF Sound, Ringed, Counted, Uses
<1>6. Spared(k, R, O, rank, n)
  BY <1>2 DEF Sound, Spared, Waiting
<1>7. Bodied(k, R, O, E)
  BY <1>2 DEF Sound, Bodied
<1> QED BY <1>1, <1>2, <1>3, <1>4, <1>5, <1>6, <1>7 DEF Sound

\* The end of the main rule.
LEMMA AtTheEnd ==
  ASSUME NEW h, NEW in, NEW R, NEW O, NEW own, NEW a, NEW z, NEW rank, NEW n, NEW S,
         Parsed(h, in, R, O, own, a, z, rank, n, S), Tip(h) \in O
  PROVE  /\ h.main \in R /\ h.main \in Symbols /\ own[h.main] = h.main
         /\ h.next[Tip(h)] = h.main /\ own[Tip(h)] = h.main /\ z[Tip(h)] = Len(in)
         /\ h.prev[Tip(h)] \in R \cup O /\ h.next[h.prev[Tip(h)]] = Tip(h)
         /\ own[h.prev[Tip(h)]] = h.main /\ h.prev[Tip(h)] # Tip(h)
         /\ \A s \in R \cup O : h.next[s] = Tip(h) => s = h.prev[Tip(h)]
         /\ \A s \in R \cup O : h.next[s] = h.main => s = Tip(h)
<1>1. /\ Sound(h, in, {h.main}, R, O, own, a, z, rank, n) /\ a[h.main] = Len(in)
      /\ Linked(h, R, O, own) /\ Stretched(h, in, R, O, own, a, z) /\ h.main \in R
  BY DEF Parsed, Sound, Named
<1>2. h.main \in Symbols /\ own[h.main] = h.main /\ h.next[Tip(h)] = h.main
  BY <1>1 DEF Linked, Tip
<1>3. own[Tip(h)] = h.main /\ \A s \in R \cup O : h.next[s] = h.main => s = Tip(h)
  BY <1>1, <1>2 DEF Linked, Tip
<1>4. z[Tip(h)] = Len(in)
  BY <1>1, <1>2 DEF Stretched
<1> DEFINE e == Tip(h)
<1>5. /\ h.prev[e] \in R \cup O /\ h.next[h.prev[e]] = e /\ h.prev[e] # e
      /\ own[h.prev[e]] = own[e] /\ \A s \in R \cup O : h.next[s] = e => s = h.prev[e]
  <2>1. e \in O
    OBVIOUS
  <2> HIDE DEF e
  <2>2. /\ h.prev[e] \in R \cup O /\ h.next[h.prev[e]] = e /\ h.prev[e] # e
        /\ own[h.prev[e]] = own[e]
    BY <1>1, <2>1, Beside
  <2> QED BY <1>1, <2>1, <2>2 DEF Linked
<1> QED BY <1>1, <1>2, <1>3, <1>4, <1>5

\* Two equal stretches, one after the other, are equal together.
LEMMA TextCat ==
  ASSUME NEW in, NEW i \in Int, NEW j \in Int, NEW m \in Nat, NEW n \in Nat,
         SameText(in, i, j, m), SameText(in, i + m, j + m, n)
  PROVE  SameText(in, i, j, m + n)
<1> SUFFICES ASSUME NEW l \in 1 .. m + n PROVE in[i + l] = in[j + l]
  BY DEF SameText
<1>1. CASE l <= m
  BY <1>1 DEF SameText
<1>2. CASE l > m
  <2>1. l - m \in 1 .. n /\ i + m + (l - m) = i + l /\ j + m + (l - m) = j + l
    BY <1>2
  <2>2. in[i + m + (l - m)] = in[j + m + (l - m)]
    BY <2>1 DEF SameText
  <2> QED BY <2>1, <2>2
<1> QED BY <1>1, <1>2

\* A rule of two symbols.
LEMMA TwoLong ==
  ASSUME NEW h, NEW in, NEW E, NEW R, NEW O, NEW own, NEW a, NEW z, NEW rank, NEW n,
         Sound(h, in, E, R, O, own, a, z, rank, n), NEW r \in R \ E,
         h.next[h.next[h.next[r]]] = r, NEW f, f = h.next[r], NEW l, l = h.next[h.next[r]]
  PROVE  /\ f \in O /\ l \in O /\ h.next[f] = l /\ h.next[l] = r /\ h.prev[r] = l
         /\ own[f] = r /\ own[l] = r /\ r \in Symbols
         /\ a[f] \in Int /\ z[f] \in Int /\ a[l] \in Int /\ z[l] \in Int /\ a[r] \in Int /\ z[r] \in Int
         /\ z[r] = a[f] /\ z[f] = a[l] /\ z[l] = a[r] /\ a[f] < z[f] /\ a[l] < z[l]
<1>1. /\ Linked(h, R, O, own) /\ Stretched(h, in, R, O, own, a, z) /\ Bodied(h, R, O, E)
  BY DEF Sound
<1>2. f \in O /\ l \in O /\ h.next[f] = l /\ h.next[l] = r
  BY <1>1 DEF Bodied
<1>3. h.prev[r] = l /\ own[f] = r /\ own[l] = r /\ {r, f, l} \subseteq Symbols
  BY <1>1, <1>2 DEF Linked
<1>4. /\ a[f] \in Int /\ z[f] \in Int /\ a[l] \in Int /\ z[l] \in Int /\ a[r] \in Int /\ z[r] \in Int
  BY <1>1, <1>3 DEF Stretched
<1>5. z[r] = a[f] /\ z[f] = a[l] /\ z[l] = a[r] /\ a[f] < z[f] /\ a[l] < z[l]
  BY <1>1, <1>2 DEF Stretched
<1> QED BY <1>2, <1>3, <1>4, <1>5

\* A rule stands for what a digram of the values of its symbols stands for.
LEMMA AlikeText ==
  ASSUME NEW h, NEW in, NEW E, NEW R, NEW O, NEW own, NEW a, NEW z, NEW rank, NEW n,
         Sound(h, in, E, R, O, own, a, z, rank, n), NEW r \in R \ E,
         NEW s \in O, NEW t \in O, h.next[s] = t, Alike(h, r, s)
  PROVE  /\ RuleSpan(a, z, r) = Span(a, z, s) + Span(a, z, t) /\ RuleSpan(a, z, r) \in Int
         /\ Span(a, z, s) > 0 /\ Span(a, z, t) > 0 /\ Span(a, z, s) \in Int /\ Span(a, z, t) \in Int
         /\ a[r] - z[r] = z[t] - a[s] /\ SameText(in, a[s], z[r], z[t] - a[s])
<1> DEFINE f == h.next[r]
           l == h.next[f]
<1>1. /\ f \in O /\ l \in O
      /\ a[f] \in Int /\ z[f] \in Int /\ a[l] \in Int /\ z[l] \in Int /\ a[r] \in Int /\ z[r] \in Int
      /\ z[r] = a[f] /\ z[f] = a[l] /\ z[l] = a[r] /\ a[f] < z[f] /\ a[l] < z[l]
  <2>1. h.next[h.next[h.next[r]]] = r
    BY DEF Alike
  <2> QED BY <2>1, TwoLong
<1>2. h.value[s] = h.value[f] /\ h.value[t] = h.value[l]
  BY DEF Alike
<1> HIDE DEF f, l
<1>3. z[s] - a[s] = z[f] - a[f] /\ SameText(in, a[s], a[f], z[s] - a[s])
  BY <1>1, <1>2, SameValue
<1>4. z[t] - a[t] = z[l] - a[l] /\ SameText(in, a[t], a[l], z[t] - a[t])
  BY <1>1, <1>2, SameValue
<1>5. a[s] \in Int /\ z[s] \in Int /\ a[s] < z[s]
  BY Inside
<1>6. a[t] \in Int /\ z[t] \in Int /\ a[t] < z[t]
  BY Inside
<1>7. z[s] = a[t]
  BY DEF Sound, Stretched
<1>8. SameText(in, a[s], z[r], z[t] - a[s])
  <2> DEFINE i == a[s]
             j == z[r]
             m == z[s] - a[s]
             q == z[t] - a[t]
  <2>1. i \in Int /\ j \in Int /\ m \in Nat /\ q \in Nat /\ i + m = a[t] /\ j + m = a[l]
        /\ m + q = z[t] - a[s]
    BY <1>1, <1>3, <1>5, <1>6, <1>7
  <2>2. SameText(in, i, j, m) /\ SameText(in, i + m, j + m, q)
    BY <1>1, <1>3, <1>4, <2>1
  <2> HIDE DEF i, j, m, q
  <2>3. SameText(in, i, j, m + q)
    BY <2>1, <2>2, TextCat
  <2> QED BY <2>1, <2>3 DEF i, j
<1> QED BY <1>1, <1>3, <1>4, <1>5, <1>6, <1>7, <1>8 DEF Span, RuleSpan

\* A digram of another length in the table is not the digram of the rule.
LEMMA PutAbsent ==
  ASSUME NEW h, NEW in, NEW E, NEW R, NEW O, NEW own, NEW a, NEW z, NEW rank, NEW n,
         Sound(h, in, E, R, O, own, a, z, rank, n), NEW r \in R \ E, TwoAbsent(h, r),
         NEW s \in O, NEW t \in O, h.next[s] = t,
         Span(a, z, s) + Span(a, z, t) # RuleSpan(a, z, r),
         NEW k, k.next = h.next, k.value = h.value, Entered(k) \subseteq Entered(h) \cup {s}
  PROVE  TwoAbsent(k, r)
<1>1. ~ Alike(h, r, s)
  BY AlikeText
<1>2. h.next[h.next[h.next[r]]] = r
  BY DEF TwoAbsent
<1>3. ~ (h.value[s] = h.value[h.next[r]] /\ h.value[t] = h.value[h.next[h.next[r]]])
  BY <1>1, <1>2 DEF Alike
<1> QED BY <1>2, <1>3 DEF TwoAbsent, Absent

\* The same, for a digram that waits for its second occurrence to be replaced.
LEMMA PutMissing ==
  ASSUME NEW h, NEW in, NEW E, NEW R, NEW O, NEW own, NEW a, NEW z, NEW rank, NEW n,
         Sound(h, in, E, R, O, own, a, z, rank, n),
         NEW s \in O, NEW t \in O, h.next[s] = t, NEW x \in O, NEW y \in O, h.next[x] = y,
         Span(a, z, s) + Span(a, z, t) # Span(a, z, x) + Span(a, z, y), Missing(h, x),
         NEW k, k.next = h.next, k.value = h.value, Entered(k) \subseteq Entered(h) \cup {s}
  PROVE  Missing(k, x)
<1>1. ~ (h.value[s] = h.value[x] /\ h.value[t] = h.value[y])
  <2> SUFFICES ASSUME h.value[s] = h.value[x], h.value[t] = h.value[y] PROVE FALSE
    OBVIOUS
  <2>1. Span(a, z, s) = Span(a, z, x)
    BY SameValue DEF Span
  <2>2. Span(a, z, t) = Span(a, z, y)
    BY SameValue DEF Span
  <2> QED BY <2>1, <2>2
<1> QED BY <1>1 DEF Missing, Absent

\* The activations below do not notice.
LEMMA ChainKept ==
  ASSUME NEW h, NEW O, NEW a, NEW z, NEW S, NEW C, Chain(h, O, a, z, S, C),
         NEW k, NEW O2, NEW a2, NEW z2, NEW S2,
         k.main = h.main, S \ {h.main} \subseteq S2,
         Tip(h) \in O => /\ Tip(k) \in O2
                         /\ \A r \in S \ {h.main} : RuleSpan(a, z, r) <= Span(a, z, Tip(h))
                                                 => RuleSpan(a, z, r) <= Span(a2, z2, Tip(k)),
         \A r \in S \ {h.main} : RuleSpan(a2, z2, r) = RuleSpan(a, z, r),
         \A i \in 1 .. Len(C) : /\ C[i].at = "enter" /\ Pending(h, O, a, z, S, C[i])
                                /\ TwoAbsent(h, C[i].this)
                                => TwoAbsent(k, C[i].this)
  PROVE  Chain(k, O2, a2, z2, S2, C)
<1>1. ASSUME NEW i \in 1 .. Len(C), C[i].at # "right"
      PROVE  /\ Pending(k, O2, a2, z2, S2, C[i])
             /\ C[i].this \in S \ {h.main} /\ RuleSpan(a2, z2, C[i].this) = RuleSpan(a, z, C[i].this)
  <2>1. Pending(h, O, a, z, S, C[i])
    BY <1>1 DEF Chain
  <2>2. C[i].this \in S \ {h.main} /\ RuleSpan(a2, z2, C[i].this) = RuleSpan(a, z, C[i].this)
    BY <2>1 DEF Pending
  <2>3. Tip(k) \in O2 /\ RuleSpan(a, z, C[i].this) <= Span(a2, z2, Tip(k))
    BY <2>1, <2>2 DEF Pending
  <2>4. C[i].at = "enter" => TwoAbsent(k, C[i].this)
    BY <2>1 DEF Pending
  <2> QED BY <2>2, <2>3, <2>4 DEF Pending
<1>2. ASSUME NEW i \in 1 .. Len(C), NEW j \in 1 .. Len(C), i < j, C[i].at # "right", C[j].at # "right"
      PROVE  RuleSpan(a2, z2, C[j].this) < RuleSpan(a2, z2, C[i].this)
  <2>1. RuleSpan(a, z, C[j].this) < RuleSpan(a, z, C[i].this)
    BY <1>2 DEF Chain
  <2> QED BY <1>1, <1>2, <2>1
<1> QED BY <1>1, <1>2 DEF Chain

-----------------------------------------------------------------------------
(* The steps.                                                              *)

\* What is found in the table.
LEMMA Gets ==
  ASSUME NEW h \in Storage, NEW v1 \in Nat, NEW v2 \in Nat, NEW m, m = digram_get(h, v1, v2)
  PROVE  m = Null \/ (m \in Entered(h) /\ h.value[m] = v1 /\ h.value[h.next[m]] = v2)
<1> SUFFICES ASSUME m # Null PROVE m \in Entered(h) /\ h.value[m] = v1 /\ h.value[h.next[m]] = v2
  OBVIOUS
<1>1. PICK k \in Slots : Hit(h, v1, v2, k) /\ m = Probed(h, v1, v2, k)
  BY GetLemma
<1>2. Slot(v1, v2, k) \in Slots
  BY Probes
<1>3. m = h.table[Slot(v1, v2, k)] /\ Matches(h, m, v1, v2)
  BY <1>1 DEF Hit, Probed
<1> QED BY <1>2, <1>3, MatchesLemma DEF Entered

\* A digram that is not in the table goes into it.
LEMMA PutsDigram ==
  ASSUME NEW h, NEW in, NEW R, NEW O, NEW own, NEW a, NEW z, NEW rank, NEW n, NEW S, NEW C,
         Parsed(h, in, R, O, own, a, z, rank, n, S), Chain(h, O, a, z, S, C),
         NEW s \in O, NEW t \in O, h.next[s] = t, Missing(h, s),
         \A i \in 1 .. Len(C) : C[i].at = "enter" /\ Pending(h, O, a, z, S, C[i])
             => Span(a, z, s) + Span(a, z, t) # RuleSpan(a, z, C[i].this),
         NEW k, k = digram_put(h, s)
  PROVE  /\ Parsed(k, in, R, O, own, a, z, rank, n, S) /\ Chain(k, O, a, z, S, C)
         /\ k.main = h.main /\ k.next = h.next /\ k.prev = h.prev /\ k.value = h.value
         /\ k.rule = h.rule /\ k.refcnt = h.refcnt /\ Entered(k) \subseteq Entered(h) \cup {s}
<1>1. /\ Sound(h, in, {h.main}, R, O, own, a, z, rank, n) /\ Tabled(h, O) /\ Served(h)
      /\ z[h.main] = 0 /\ a[h.main] = Len(in) /\ Spine(h, R, S)
  BY DEF Parsed, Tabled
<1>2. h \in Storage /\ s \in Symbols /\ t \in Symbols /\ h.value[s] \in Nat /\ h.value[t] \in Nat
  BY <1>1, SMTT(20) DEF Sound, Linked, Storage
<1>3. Lookup(h, s) = Null
  <2> DEFINE m == digram_get(h, h.value[s], h.value[t])
  <2>1. m = Null \/ (m \in Entered(h) /\ h.value[m] = h.value[s] /\ h.value[h.next[m]] = h.value[t])
    <3> HIDE DEF m
    <3> QED BY <1>2, Gets DEF m
  <2> QED BY <2>1 DEF Missing, Absent, Lookup, First, Second
<1>4. /\ k \in Storage /\ k = [h EXCEPT !.table = k.table]
      /\ Served(k) /\ Entered(k) \subseteq Entered(h) \cup {s}
  BY <1>1, <1>2, <1>3, PutAny
<1>5. /\ Sound(k, in, {h.main}, R, O, own, a, z, rank, n)
      /\ k.main = h.main /\ k.next = h.next /\ k.prev = h.prev /\ k.value = h.value
      /\ k.rule = h.rule /\ k.refcnt = h.refcnt
  BY <1>1, <1>4, SoundTable
<1>6. Tabled(k, O)
  BY <1>1, <1>4, <1>5 DEF Tabled
<1>7. Spine(k, R, S)
  BY <1>1, <1>5 DEF Spine
<1>8. Parsed(k, in, R, O, own, a, z, rank, n, S)
  BY <1>1, <1>5, <1>6, <1>7 DEF Parsed
<1>9. ASSUME NEW i \in 1 .. Len(C), C[i].at = "enter", Pending(h, O, a, z, S, C[i]), TwoAbsent(h, C[i].this)
      PROVE  TwoAbsent(k, C[i].this)
  <2>1. C[i].this \in R \ {h.main}
    BY <1>1, <1>9 DEF Pending, Spine
  <2>2. Span(a, z, s) + Span(a, z, t) # RuleSpan(a, z, C[i].this)
    BY <1>9
  <2> QED BY <1>1, <1>4, <1>5, <1>9, <2>1, <2>2, PutAbsent
<1>10. Tip(k) = Tip(h)
  BY <1>5 DEF Tip
<1>11. Chain(k, O, a, z, S, C)
  BY <1>5, <1>9, <1>10, ChainKept
<1> QED BY <1>4, <1>5, <1>8, <1>11

\* In the chain, no rule is longer than the last symbol.
LEMMA ChainShort ==
  ASSUME NEW h, NEW in, NEW R, NEW O, NEW own, NEW a, NEW z, NEW rank, NEW n, NEW S, NEW C,
         Parsed(h, in, R, O, own, a, z, rank, n, S), Chain(h, O, a, z, S, C), Tip(h) \in O,
         NEW l \in Int, l > Span(a, z, Tip(h))
  PROVE  /\ Span(a, z, Tip(h)) \in Int
         /\ \A i \in 1 .. Len(C) : C[i].at # "right" => RuleSpan(a, z, C[i].this) < l
<1>1. Span(a, z, Tip(h)) \in Int
  BY Inside DEF Parsed, Span
<1>2. ASSUME NEW i \in 1 .. Len(C), C[i].at # "right" PROVE RuleSpan(a, z, C[i].this) < l
  <2>1. Pending(h, O, a, z, S, C[i])
    BY <1>2 DEF Chain
  <2>2. C[i].this \in Symbols /\ a \in [Symbols -> Int] /\ z \in [Symbols -> Int]
    BY <2>1 DEF Pending, Parsed, Spine, Sound, Linked, Stretched
  <2>3. RuleSpan(a, z, C[i].this) \in Int /\ RuleSpan(a, z, C[i].this) <= Span(a, z, Tip(h))
    BY <2>1, <2>2 DEF Pending, RuleSpan
  <2> QED BY <1>1, <2>3
<1> QED BY <1>1, <1>2

\* check_digram, before it looks: heads are the heads of rules.
LEMMA Heads ==
  ASSUME NEW h, NEW in, NEW E, NEW R, NEW O, NEW own, NEW a, NEW z, NEW rank, NEW n,
         Sound(h, in, E, R, O, own, a, z, rank, n), NEW s \in R \cup O
  PROVE  /\ IsHead(h, s) <=> s \in R
         /\ s \in Symbols /\ h.value[s] \in Nat /\ h.next[s] \in R \cup O
         /\ s \in R => h.rule[s] = s
         /\ s \in O <=> s \notin R
<1>1. s \in Symbols /\ h.value[s] \in Nat /\ h.next[s] \in R \cup O /\ R \cap O = {}
  BY DEF Sound, Linked, Storage
<1>2. s \in R => h.rule[s] = s
  BY DEF Sound, Named
<1>3. s \in O => h.rule[s] # s
  BY Values
<1> QED BY <1>1, <1>2, <1>3 DEF IsHead

\* check_digram of the last digram, or of what is left of it (sequitur.c:39-77).
LEMMA CheckEnd ==
  ASSUME NEW h, NEW in, NEW R, NEW O, NEW own, NEW a, NEW z, NEW rank, NEW n, NEW S, NEW C,
         Parsed(h, in, R, O, own, a, z, rank, n, S), Chain(h, O, a, z, S, C),
         NEW s \in R \cup O, Tip(h) \in O, s \in {Tip(h), h.prev[Tip(h)]},
         s \notin Entered(h), Coming(h, C),
         NEW m, m = digram_get(h, h.value[s], h.value[h.next[s]]), NEW fd
  PROVE  /\ Parsing(h, in, C, FALSE)
         /\ ~ IsHead(h, s) /\ ~ IsHead(h, h.next[s]) /\ m = Null => Parsing(digram_put(h, s), in, C, FALSE)
         /\ ~ IsHead(h, s) /\ ~ IsHead(h, h.next[s]) /\ m # Null /\ h.next[m] # s
              => Parsing(h, in, <<Frame("match", s, m)>> \o C, fd)
<1>1. /\ Sound(h, in, {h.main}, R, O, own, a, z, rank, n) /\ Tabled(h, O) /\ h \in Storage
      /\ h.main \in R
  BY DEF Parsed, Sound, Named
<1>2. Parsing(h, in, C, FALSE)
  <2>1. Phase(h, R, O, C, C, FALSE)
    BY DEF Phase, Resting
  <2> QED BY <2>1 DEF Parsing
<1>3. ASSUME ~ IsHead(h, s), ~ IsHead(h, h.next[s])
      PROVE  /\ s \in O /\ h.next[s] = Tip(h) /\ s # Tip(h) /\ Ends(h, O, s)
             /\ h.value[s] \in Nat /\ h.value[Tip(h)] \in Nat
  <2>1. s \in O /\ h.next[s] \in O /\ h.value[s] \in Nat
    BY <1>1, <1>3, Heads
  <2>2. h.next[Tip(h)] = h.main /\ h.next[h.prev[Tip(h)]] = Tip(h)
    BY AtTheEnd
  <2>3. h.main \notin O
    BY <1>1 DEF Sound, Linked
  <2>4. s # Tip(h) /\ s = h.prev[Tip(h)]
    BY <2>1, <2>2, <2>3
  <2>5. h.value[Tip(h)] \in Nat
    BY <1>1, Heads
  <2> QED BY <2>1, <2>2, <2>4, <2>5 DEF Ends
<1>4. ASSUME ~ IsHead(h, s), ~ IsHead(h, h.next[s]), m = Null
      PROVE  Parsing(digram_put(h, s), in, C, FALSE)
  <2> DEFINE k == digram_put(h, s)
             t == Tip(h)
  <2>1. s \in O /\ t \in O /\ h.next[s] = t /\ h.value[s] \in Nat /\ h.value[t] \in Nat
    BY <1>3, <1>4
  <2>2. Missing(h, s)
    <3> SUFFICES ASSUME NEW y \in Entered(h), h.value[y] = h.value[s], h.value[h.next[y]] = h.value[t]
                 PROVE  FALSE
      BY <2>1 DEF Missing, Absent
    <3>1. Served(h)
      BY <1>1 DEF Tabled
    <3>2. \A i \in Slots : ~ Matches(h, h.table[i], h.value[s], h.value[t])
      BY <1>1, <1>4, <2>1, <3>1, GetFails
    <3>3. PICK i \in Slots : h.table[i] = y /\ y \in Symbols
      BY DEF Entered
    <3> QED BY <1>1, <2>1, <3>2, <3>3, MatchesLemma
  <2> HIDE DEF t
  <2>3. Span(a, z, s) \in Int /\ Span(a, z, s) > 0 /\ Span(a, z, t) \in Int
    <3>1. a[s] \in Int /\ z[s] \in Int /\ a[s] < z[s]
      BY <1>1, <2>1, Inside
    <3>2. a[t] \in Int /\ z[t] \in Int
      BY <1>1, <2>1, Inside
    <3> QED BY <3>1, <3>2 DEF Span
  <2>4. \A i \in 1 .. Len(C) : C[i].at # "right"
             => RuleSpan(a, z, C[i].this) < Span(a, z, s) + Span(a, z, t)
    <3> DEFINE l == Span(a, z, s) + Span(a, z, t)
    <3>1. l \in Int /\ l > Span(a, z, Tip(h))
      BY <2>3 DEF t
    <3> HIDE DEF l
    <3>2. \A i \in 1 .. Len(C) : C[i].at # "right" => RuleSpan(a, z, C[i].this) < l
      BY <3>1, ChainShort
    <3> QED BY <3>2 DEF l
  <2>5. \A i \in 1 .. Len(C) : C[i].at = "enter" /\ Pending(h, O, a, z, S, C[i])
             => Span(a, z, s) + Span(a, z, t) # RuleSpan(a, z, C[i].this)
    <3> SUFFICES ASSUME NEW i \in 1 .. Len(C), C[i].at = "enter",
                        Span(a, z, s) + Span(a, z, t) = RuleSpan(a, z, C[i].this)
                 PROVE  FALSE
      OBVIOUS
    <3>1. RuleSpan(a, z, C[i].this) < Span(a, z, s) + Span(a, z, t)
      BY <2>4
    <3> QED BY <2>3, <3>1
  <2>6. Parsed(k, in, R, O, own, a, z, rank, n, S) /\ Chain(k, O, a, z, S, C)
        /\ k.main = h.main /\ k.prev = h.prev
    BY <2>1, <2>2, <2>5, PutsDigram
  <2> HIDE DEF k
  <2>7. Coming(k, C)
    BY <2>6 DEF Coming, Tip
  <2>8. Phase(k, R, O, C, C, FALSE)
    BY <2>7 DEF Phase, Resting
  <2> QED BY <2>6, <2>8 DEF Parsing, k
<1>5. ASSUME ~ IsHead(h, s), ~ IsHead(h, h.next[s]), m # Null, h.next[m] # s
      PROVE  Parsing(h, in, <<Frame("match", s, m)>> \o C, fd)
  <2>1. s \in O /\ h.next[s] = Tip(h) /\ Ends(h, O, s) /\ h.value[s] \in Nat /\ h.value[Tip(h)] \in Nat
    BY <1>3, <1>5
  <2>2. m \in Entered(h) /\ h.value[m] = h.value[s] /\ h.value[h.next[m]] = h.value[h.next[s]]
    <3> DEFINE v1 == h.value[s]
               v2 == h.value[h.next[s]]
    <3>1. v1 \in Nat /\ v2 \in Nat /\ m = digram_get(h, v1, v2)
      BY <2>1
    <3> HIDE DEF v1, v2
    <3>2. m \in Entered(h) /\ h.value[m] = v1 /\ h.value[h.next[m]] = v2
      BY <1>1, <1>5, <3>1, Gets
    <3> QED BY <3>2 DEF v1, v2
  <2>3. m \in O /\ m # s
    BY <1>1, <2>2 DEF Tabled
  <2>4. Matching(h, O, C, <<Frame("match", s, m)>> \o C)
    BY <1>5, <2>1, <2>2, <2>3 DEF Matching, Twin
  <2>5. Phase(h, R, O, C, <<Frame("match", s, m)>> \o C, fd)
    BY <2>4 DEF Phase
  <2> QED BY <2>5 DEF Parsing
<1> QED BY <1>2, <1>4, <1>5

\* The digrams of a symbol that is the only one of its value are not in the table.
LEMMA CheckFresh ==
  ASSUME NEW h, NEW in, NEW R, NEW O, NEW own, NEW a, NEW z, NEW rank, NEW n, NEW S, NEW C,
         Parsed(h, in, R, O, own, a, z, rank, n, S), Chain(h, O, a, z, S, C),
         NEW s \in O, NEW r \in R, Repeated(h, R, O, s, r), Missing(h, s),
         NEW t \in O, Uses(h, O, r) = {t},
         NEW x \in O, NEW y \in O, h.next[x] = y, x \notin Entered(h), x = t \/ y = t,
         NEW k, k = digram_put(h, x)
  PROVE  /\ digram_get(h, h.value[x], h.value[y]) = Null
         /\ Parsed(k, in, R, O, own, a, z, rank, n, S) /\ Chain(k, O, a, z, S, C)
         /\ Repeated(k, R, O, s, r) /\ Missing(k, s) /\ Uses(k, O, r) = {t}
         /\ k.next = h.next /\ Entered(k) \subseteq Entered(h) \cup {x}
<1>1. /\ Sound(h, in, {h.main}, R, O, own, a, z, rank, n) /\ Tabled(h, O) /\ h \in Storage
      /\ Linked(h, R, O, own)
  BY DEF Parsed, Sound
<1>2. r \in R \ {h.main} /\ Ends(h, O, s) /\ Alike(h, r, s) /\ h.next[s] = Tip(h) /\ Tip(h) \in O
  BY DEF Repeated, Ends
<1>3. h.rule[t] = r /\ \A q \in O : h.value[q] = h.value[t] => q = t
  <2>1. h.rule[t] = r
    BY DEF Uses
  <2>2. h.value[t] = h.value[r]
    BY <1>1, <1>2, <2>1, Values
  <2>3. ASSUME NEW q \in O, h.value[q] = h.value[t] PROVE q = t
    <3>1. h.rule[q] = r
      BY <1>1, <2>2, <2>3, Values
    <3> QED BY <3>1 DEF Uses
  <2> QED BY <2>1, <2>3
<1>4. Missing(h, x)
  <2> SUFFICES ASSUME NEW w \in Entered(h), h.value[w] = h.value[x], h.value[h.next[w]] = h.value[y]
               PROVE  FALSE
    BY DEF Missing, Absent
  <2>1. w \in O /\ h.next[w] \in O
    BY <1>1 DEF Tabled
  <2>2. CASE x = t
    BY <1>3, <2>1, <2>2
  <2>3. CASE y = t
    <3>1. h.next[w] = y
      BY <1>3, <2>1, <2>3
    <3>2. h.prev[h.next[w]] = w /\ h.prev[h.next[x]] = x
      BY <1>1, <2>1 DEF Linked
    <3> QED BY <3>1, <3>2
  <2> QED BY <2>2, <2>3
<1>5. h.value[x] \in Nat /\ h.value[y] \in Nat
  BY <1>1, Heads
<1>6. digram_get(h, h.value[x], h.value[y]) = Null
  <2> DEFINE v1 == h.value[x]
             v2 == h.value[y]
             m == digram_get(h, v1, v2)
  <2>1. v1 \in Nat /\ v2 \in Nat
    BY <1>5
  <2> HIDE DEF v1, v2, m
  <2>2. m = Null \/ (m \in Entered(h) /\ h.value[m] = v1 /\ h.value[h.next[m]] = v2)
    BY <1>1, <2>1, Gets DEF m
  <2>3. m = Null
    BY <1>4, <2>2 DEF Missing, Absent, v1, v2
  <2> QED BY <2>3 DEF m, v1, v2
<1> DEFINE e == Tip(h)
           l == Span(a, z, s) + Span(a, z, e)
<1>7. e \in O /\ h.next[s] = e
  BY <1>2
<1> HIDE DEF e
<1>8. /\ RuleSpan(a, z, r) = l /\ Span(a, z, s) \in Int /\ Span(a, z, e) \in Int
      /\ Span(a, z, s) > 0 /\ Span(a, z, e) > 0
  BY <1>1, <1>2, <1>7, AlikeText
<1>9. Span(a, z, t) = l
  <2>1. Instance(h, in, R, a, z, t)
    <3>1. r \in Symbols /\ Null \notin Symbols
      BY <1>1, NullApart DEF Linked
    <3> QED BY <1>1, <1>3, <3>1 DEF Sound, Named, Letter
  <2> QED BY <1>3, <1>8, <2>1 DEF Instance, Span, RuleSpan
<1>10. Span(a, z, x) + Span(a, z, y) > l /\ l > Span(a, z, e) /\ l \in Int
       /\ Span(a, z, x) + Span(a, z, y) \in Int
  <2>1. a[x] \in Int /\ z[x] \in Int /\ a[x] < z[x]
    BY <1>1, Inside
  <2>2. a[y] \in Int /\ z[y] \in Int /\ a[y] < z[y]
    BY <1>1, Inside
  <2> QED BY <1>8, <1>9, <2>1, <2>2 DEF Span
<1> HIDE DEF l
<1>11. \A i \in 1 .. Len(C) : C[i].at # "right" => RuleSpan(a, z, C[i].this) < l
  BY <1>2, <1>10, ChainShort DEF e
<1>12. ASSUME NEW i \in 1 .. Len(C), C[i].at = "enter", Pending(h, O, a, z, S, C[i])
       PROVE  Span(a, z, x) + Span(a, z, y) # RuleSpan(a, z, C[i].this)
  <2>1. C[i].this \in Symbols /\ a \in [Symbols -> Int] /\ z \in [Symbols -> Int]
    BY <1>12 DEF Pending, Parsed, Spine, Sound, Linked, Stretched
  <2>2. RuleSpan(a, z, C[i].this) \in Int
    BY <2>1 DEF RuleSpan
  <2>3. RuleSpan(a, z, C[i].this) < l
    BY <1>11, <1>12
  <2> QED BY <1>10, <2>2, <2>3
<1>13. /\ Parsed(k, in, R, O, own, a, z, rank, n, S) /\ Chain(k, O, a, z, S, C)
       /\ k.main = h.main /\ k.next = h.next /\ k.prev = h.prev /\ k.value = h.value
       /\ k.rule = h.rule /\ k.refcnt = h.refcnt /\ Entered(k) \subseteq Entered(h) \cup {x}
  BY <1>4, <1>12, PutsDigram
<1> HIDE DEF l
<1>14. Repeated(k, R, O, s, r) /\ Uses(k, O, r) = {t}
  BY <1>13 DEF Repeated, Ends, Alike, Tip, Uses
<1>15. Missing(k, s)
  <2>1. Span(a, z, x) + Span(a, z, y) # Span(a, z, s) + Span(a, z, e)
    BY <1>8, <1>10 DEF l
  <2> QED BY <1>1, <1>7, <1>13, <2>1, PutMissing
<1> QED BY <1>6, <1>13, <1>14, <1>15

\* Checking the digram at s changes nothing but the table.
Vain(h, in, s, D) ==
  /\ Parsing(h, in, D, FALSE)
  /\ ~ IsHead(h, s) /\ ~ IsHead(h, h.next[s])
       => /\ digram_get(h, h.value[s], h.value[h.next[s]]) = Null
          /\ Parsing(digram_put(h, s), in, D, FALSE)

\* check_digram of the digram on the left of the first nonterminal,
LEMMA CheckLeft ==
  ASSUME NEW h, NEW in, NEW R, NEW O, NEW own, NEW a, NEW z, NEW rank, NEW n, NEW S, NEW C,
         Parsed(h, in, R, O, own, a, z, rank, n, S), Chain(h, O, a, z, S, C),
         NEW s \in O, NEW r \in R, Repeated(h, R, O, s, r), Missing(h, s),
         NEW t \in O, Single(h, O, r, t), NEW p \in R \cup O, h.next[p] = t, p \notin Entered(h),
         NEW D, D = <<Frame("right", p, Null), Frame("second", s, r)>> \o C
  PROVE  Vain(h, in, p, D)
<1>1. Sound(h, in, {h.main}, R, O, own, a, z, rank, n)
  BY DEF Parsed
<1>2. Parsing(h, in, D, FALSE)
  <2>1. Doubled(h, R, O, C, D, FALSE)
    BY DEF Doubled
  <2> QED BY <2>1 DEF Parsing, Phase
<1>3. ASSUME ~ IsHead(h, p)
      PROVE  /\ digram_get(h, h.value[p], h.value[h.next[p]]) = Null
             /\ Parsing(digram_put(h, p), in, D, FALSE)
  <2> DEFINE k == digram_put(h, p)
  <2>1. p \in O
    BY <1>1, <1>3, Heads
  <2>2. /\ digram_get(h, h.value[p], h.value[t]) = Null
        /\ Parsed(k, in, R, O, own, a, z, rank, n, S) /\ Chain(k, O, a, z, S, C)
        /\ Repeated(k, R, O, s, r) /\ Missing(k, s) /\ Uses(k, O, r) = {t}
        /\ k.next = h.next /\ Entered(k) \subseteq Entered(h) \cup {p}
    <3>1. Uses(h, O, r) = {t}
      BY DEF Single
    <3> HIDE DEF k
    <3> QED BY <2>1, <3>1, CheckFresh DEF k
  <2> HIDE DEF k
  <2>3. p # t
    BY <1>1, Beside
  <2>4. Single(k, O, r, t) /\ k.next[p] = t
    BY <2>2, <2>3 DEF Single
  <2>5. Doubled(k, R, O, C, D, FALSE)
    BY <2>2, <2>4 DEF Doubled
  <2>6. Parsing(k, in, D, FALSE)
    BY <2>2, <2>5 DEF Parsing, Phase
  <2> QED BY <2>2, <2>6 DEF k
<1> QED BY <1>2, <1>3 DEF Vain

\* and of the one on its right.
LEMMA CheckNew ==
  ASSUME NEW h, NEW in, NEW R, NEW O, NEW own, NEW a, NEW z, NEW rank, NEW n, NEW S, NEW C,
         Parsed(h, in, R, O, own, a, z, rank, n, S), Chain(h, O, a, z, S, C),
         NEW s \in O, NEW r \in R, Repeated(h, R, O, s, r), Missing(h, s),
         NEW t \in O, Single(h, O, r, t),
         NEW D, D = <<Frame("second", s, r)>> \o C
  PROVE  Vain(h, in, t, D)
<1>1. Sound(h, in, {h.main}, R, O, own, a, z, rank, n)
  BY DEF Parsed
<1>2. Parsing(h, in, D, FALSE)
  <2>1. Doubled(h, R, O, C, D, FALSE)
    BY DEF Doubled
  <2> QED BY <2>1 DEF Parsing, Phase
<1>3. ASSUME ~ IsHead(h, h.next[t])
      PROVE  /\ digram_get(h, h.value[t], h.value[h.next[t]]) = Null
             /\ Parsing(digram_put(h, t), in, D, FALSE)
  <2> DEFINE k == digram_put(h, t)
             y == h.next[t]
  <2>1. y \in O /\ h.next[t] = y
    <3>1. h.next[t] \in R \cup O
      BY <1>1, Heads
    <3> QED BY <1>1, <1>3, <3>1, Heads
  <2>2. Uses(h, O, r) = {t} /\ t \notin Entered(h)
    BY DEF Single
  <2> HIDE DEF k, y
  <2>3. /\ digram_get(h, h.value[t], h.value[y]) = Null
        /\ Parsed(k, in, R, O, own, a, z, rank, n, S) /\ Chain(k, O, a, z, S, C)
        /\ Repeated(k, R, O, s, r) /\ Missing(k, s)
    BY <2>1, <2>2, CheckFresh DEF k
  <2>4. Doubled(k, R, O, C, D, FALSE)
    BY <2>3 DEF Doubled
  <2>5. Parsing(k, in, D, FALSE)
    BY <2>3, <2>4 DEF Parsing, Phase
  <2> QED BY <2>3, <2>5 DEF k, y
<1> QED BY <1>2, <1>3 DEF Vain

\* process_match, when the match is the body of a rule (sequitur.c:221-226).
LEMMA MatchesRule ==
  ASSUME NEW h, NEW in, NEW R, NEW O, NEW own, NEW a, NEW z, NEW rank, NEW n, NEW S, NEW C,
         Parsed(h, in, R, O, own, a, z, rank, n, S), Chain(h, O, a, z, S, C),
         NEW s \in O, NEW o \in O, Ends(h, O, s), Twin(h, s, o),
         IsHead(h, h.prev[o]), IsHead(h, h.next[h.next[o]]),
         NEW r, r = h.rule[h.prev[o]], NEW fd
  PROVE  /\ r \in Symbols
         /\ Parsing(h, in, <<Frame("replace", s, r), Frame("utility", r, Null)>> \o C, fd)
<1> DEFINE t == h.next[o]
           p == h.prev[o]
           c == h.next[t]
<1>1. /\ Sound(h, in, {h.main}, R, O, own, a, z, rank, n) /\ Linked(h, R, O, own)
      /\ o \in Entered(h) /\ t \in O /\ Tip(h) \in O
  BY DEF Parsed, Sound, Tabled, Twin, Ends
<1>2. p \in R \cup O /\ c \in R \cup O /\ h.next[p] = o /\ own[p] = own[o] /\ own[c] = own[o]
  BY <1>1, Around
<1>3. p \in R /\ c \in R /\ h.rule[p] = p
  BY <1>1, <1>2, Heads
<1>4. p = c /\ r = p /\ r \in Symbols
  BY <1>1, <1>2, <1>3 DEF Linked
<1>5. r # h.main
  <2> SUFFICES ASSUME r = h.main PROVE FALSE
    OBVIOUS
  <2>0. \A u \in R \cup O : h.next[u] = h.main => u = Tip(h)
    BY <1>1, AtTheEnd
  <2>1. t = Tip(h)
    BY <1>1, <1>4, <2>0
  <2>2. h.next[s] = t /\ h.prev[h.next[s]] = s /\ h.prev[h.next[o]] = o
    BY <1>1, <2>1 DEF Linked, Ends
  <2> QED BY <2>2 DEF Twin
<1>6. Repeated(h, R, O, s, r)
  BY <1>2, <1>3, <1>4, <1>5 DEF Repeated, Alike, Twin
<1> DEFINE f == Frame("utility", r, Null)
           D == <<Frame("replace", s, r), f>> \o C
<1>7. f \in Frames /\ f.this = r /\ f.at = "utility"
  BY <1>4 DEF Frame, Frames
<1>8. Replacing(h, R, O, C, D)
  <2>1. r \in R
    BY <1>3, <1>4
  <2> HIDE DEF f
  <2> QED BY <1>6, <1>7, <2>1 DEF Replacing
<1> HIDE DEF D
<1>9. Parsing(h, in, D, fd)
  BY <1>8 DEF Parsing, Phase
<1> QED BY <1>4, <1>9 DEF D

\* The storage is exhausted.
Stuck(k) == k \in Storage /\ k.fault = "exhausted" /\ k.main \in Symbols /\ k.num \in 0 .. MaxSymbols

\* What is asked of a sound grammar most often.
LEMMA Gives ==
  ASSUME NEW h, NEW in, NEW E, NEW R, NEW O, NEW own, NEW a, NEW z, NEW rank, NEW n,
         Sound(h, in, E, R, O, own, a, z, rank, n)
  PROVE  /\ h \in Storage /\ h.fault = "none" /\ h.main \in Symbols /\ h.main \in R
         /\ h.num \in 0 .. MaxSymbols /\ in \in Seq(Letters)
         /\ Linked(h, R, O, own) /\ R \cap O = {} /\ R \subseteq Symbols /\ O \subseteq Symbols
         /\ a \in [Symbols -> Int] /\ z \in [Symbols -> Int]
         /\ Next0(h) \in Symbols => Next0(h) \notin R \cup O
<1>1. /\ h \in Storage /\ h.fault = "none" /\ h.main \in R /\ h.num \in 0 .. MaxSymbols
      /\ Linked(h, R, O, own) /\ R \cap O = {} /\ R \subseteq Symbols /\ O \subseteq Symbols
      /\ a \in [Symbols -> Int] /\ z \in [Symbols -> Int] /\ in \in Seq(Letters)
  BY DEF Sound, Named, Linked, Spared, Stretched
<1>2. Next0(h) \in Symbols => Next0(h) \notin R \cup O
  BY <1>1, Popped DEF Sound
<1> QED BY <1>1, <1>2

\* The compressor stops when new_symbol finds the storage full.
LEMMA StuckWhenFull ==
  ASSUME NEW h, NEW in, NEW E, NEW R, NEW O, NEW own, NEW a, NEW z, NEW rank, NEW n,
         Sound(h, in, E, R, O, own, a, z, rank, n)
  PROVE  Stuck([h EXCEPT !.fault = "exhausted"])
<1>1. h \in Storage /\ h.main \in Symbols /\ h.num \in 0 .. MaxSymbols
  BY Gives
<1> QED BY <1>1 DEF Stuck, Storage

\* A copy of a symbol at the end of a new rule (sequitur.c:231-243).
Copied(h, k, in, E, R, O, own, a, z, rank, r, y) ==
  LET x == Next0(h)
      l == z[y] - a[y]
  IN /\ x \in Symbols \ (R \cup O) /\ Appended(h, k, x, r, h.value[y], h.rule[y])
     /\ \E m : Sound(k, in, E, R, O \cup {x}, [own EXCEPT ![x] = r],
                     [a EXCEPT ![x] = a[r], ![r] = a[r] + l], [z EXCEPT ![x] = a[r] + l], rank, m)
     /\ Tabled(k, O \cup {x}) /\ Entered(k) = Entered(h) /\ Uses(k, O \cup {x}, r) = {}

\* A copy of a symbol at the end of the rule being made leaves the grammar sound.
LEMMA CopySound ==
  ASSUME NEW h, NEW in, NEW E, NEW R, NEW O, NEW own, NEW a, NEW z, NEW rank, NEW n,
         Sound(h, in, E, R, O, own, a, z, rank, n), Tabled(h, O),
         NEW r \in R \cap E, Uses(h, O, r) = {}, r # h.main,
         NEW y \in O, a[r] = a[y], Next0(h) \in Symbols
  PROVE  Copied(h, AppendCopy(h, r, y), in, E, R, O, own, a, z, rank, r, y)
<1> DEFINE x == Next0(h)
           l == z[y] - a[y]
           v == h.value[y]
           q == h.rule[y]
           k == AppendCopy(h, r, y)
<1>1. /\ h \in Storage /\ h.fault = "none" /\ Linked(h, R, O, own) /\ x \notin R \cup O
      /\ R \subseteq Symbols /\ O \subseteq Symbols /\ R \cap O = {}
  BY Gives
<1>2. v \in Nat /\ q # r
  BY <1>1 DEF Uses, Storage
<1>3. \A u \in O : h.value[u] # h.value[r]
  <2> SUFFICES ASSUME NEW u \in O, h.value[u] = h.value[r] PROVE FALSE
    OBVIOUS
  <2>1. h.rule[u] = r
    BY Values
  <2> QED BY <2>1 DEF Uses
<1>4. h.prev[r] # r => h.value[h.prev[r]] # h.value[r]
  <2>1. h.prev[r] # r => h.prev[r] \in O
    BY <1>1 DEF Linked
  <2> QED BY <1>3, <2>1
<1>5. /\ a[y] \in Int /\ z[y] \in Int /\ a[y] < z[y] /\ z[y] <= Len(in) /\ Len(in) \in Nat
  BY Inside
<1>6. l \in Nat \ {0} /\ a[r] + l <= Len(in)
  BY <1>5
<1>7. Letter(h, in, a, z, y) \/ Instance(h, in, R, a, z, y)
  BY DEF Sound, Named
<1>8. /\ q \in Symbols \cup {Null} /\ (q # Null => v >= FirstNonterminal) /\ q # x
      /\ Spells(h, in, R, a, z, v, q, a[r], l)
  <2>1. CASE Letter(h, in, a, z, y)
    <3>1. q = Null /\ v < FirstNonterminal /\ l = 1 /\ in[a[r] + 1] = v
      BY <1>5, <2>1 DEF Letter
    <3>2. Null # x
      BY <1>1, NullApart
    <3> QED BY <1>2, <3>1, <3>2 DEF Spells
  <2>2. CASE Instance(h, in, R, a, z, y)
    <3>1. q \in R \ {h.main} /\ v = h.value[q] /\ l = a[q] - z[q] /\ SameText(in, a[r], z[q], l)
      BY <2>2 DEF Instance
    <3>2. v >= FirstNonterminal /\ q # x
      BY <1>1, <3>1 DEF Sound, Named
    <3> QED BY <1>1, <3>1, <3>2 DEF Spells
  <2> QED BY <1>7, <2>1, <2>2
<1>9. k = InsertNew(new_symbol(h, v, q), h.prev[r])
  BY DEF AppendCopy
<1> HIDE DEF k, v, q, l
<1>10. Appended(h, k, x, r, v, q)
  <2>1. v # h.value[r]
    BY <1>3 DEF v
  <2> QED BY <1>1, <1>2, <1>4, <1>8, <1>9, <2>1, AppendFields
<1> DEFINE O2 == O \cup {x}
<1>11. \E m : Sound(k, in, E, R, O2, [own EXCEPT ![x] = r],
                      [a EXCEPT ![x] = a[r], ![r] = a[r] + l], [z EXCEPT ![x] = a[r] + l], rank, m)
  <2>1. x \in Symbols \ (R \cup O) /\ x = Next0(h)
    BY <1>1
  <2> HIDE DEF x
  <2> QED BY <1>2, <1>6, <1>8, <1>10, <2>1, AppendSound
<1>12. Tabled(k, O2) /\ Entered(k) = Entered(h)
  <2>1. Served(k) /\ Entered(k) = Entered(h) /\ k.next = [h.next EXCEPT ![x] = r, ![h.prev[r]] = x]
    BY <1>10 DEF Appended
  <2>2. ASSUME NEW u \in Entered(h) PROVE u \in O2 /\ k.next[u] \in O2
    <3>1. u \in O /\ h.next[u] \in O /\ u \in Symbols /\ u # x
      BY <1>1 DEF Tabled
    <3>2. k.next[u] = h.next[u] \/ k.next[u] = x
      BY <1>1, <2>1, <3>1 DEF Storage
    <3> QED BY <3>1, <3>2
  <2> QED BY <2>1, <2>2 DEF Tabled
<1>13. Uses(k, O2, r) = {}
  <2>1. k.rule = [h.rule EXCEPT ![x] = q]
    BY <1>10 DEF Appended
  <2>2. ASSUME NEW u \in O2 PROVE k.rule[u] # r
    <3>1. CASE u = x
      BY <1>1, <1>2, <2>1, <3>1 DEF Storage
    <3>2. CASE u # x
      <4>1. u \in O /\ k.rule[u] = h.rule[u]
        BY <1>1, <2>1, <3>2 DEF Storage
      <4> QED BY <4>1 DEF Uses
    <3> QED BY <3>1, <3>2
  <2> QED BY <2>2 DEF Uses
<1>14. x \in Symbols \ (R \cup O)
  BY <1>1
<1> QED BY <1>10, <1>11, <1>12, <1>13, <1>14 DEF Copied, k, v, q, l

\* A copy that finds no symbol left stops the compressor.
LEMMA CopyFails ==
  ASSUME NEW h \in Storage, h.main \in Symbols, h.num \in 0 .. MaxSymbols, Next0(h) \notin Symbols,
         NEW r, NEW y
  PROVE  Stuck(AppendCopy(h, r, y)) /\ Next0(AppendCopy(h, r, y)) \notin Symbols
<1> DEFINE k == [h EXCEPT !.fault = "exhausted"]
<1>1. AppendCopy(h, r, y) = k
  BY AppendFails DEF AppendCopy
<1>2. k \in Storage /\ k.fault = "exhausted"
  BY AppendFails
<1>3. k.main = h.main /\ k.num = h.num /\ k.recycled = h.recycled
  BY DEF Storage
<1> HIDE DEF k
<1> QED BY <1>1, <1>2, <1>3 DEF Stuck, Next0

\* A rule of two new symbols; nothing else changes.
Grown(h, k, x, y1, y2, s, e) ==
  /\ k.main = h.main /\ Entered(k) = Entered(h)
  /\ \A u \in Symbols \ {x, y1, y2} : /\ k.next[u] = h.next[u] /\ k.prev[u] = h.prev[u]
                                      /\ k.value[u] = h.value[u] /\ k.rule[u] = h.rule[u]
  /\ k.next[x] = y1 /\ k.next[y1] = y2 /\ k.next[y2] = x
  /\ k.value[y1] = h.value[s] /\ k.value[y2] = h.value[e]

\* What making a rule of two copies does to the fields of the storage.
LEMMA Grows ==
  ASSUME NEW h \in Storage, NEW x \in Symbols, NEW y1 \in Symbols, NEW y2 \in Symbols,
         x # y1, x # y2, y1 # y2, NEW s \in Symbols \ {x, y1, y2}, NEW e \in Symbols \ {x, y1, y2},
         NEW k1, RuleMade(h, k1, x), NEW k2, Appended(k1, k2, y1, x, k1.value[s], k1.rule[s]),
         NEW k3, Appended(k2, k3, y2, x, k2.value[e], k2.rule[e])
  PROVE  Grown(h, k3, x, y1, y2, s, e)
<1>1. /\ k1 \in Storage /\ k1.table = h.table /\ k1.main = h.main
      /\ k1.next = [h.next EXCEPT ![x] = x] /\ k1.prev = [h.prev EXCEPT ![x] = x]
      /\ k1.value = [h.value EXCEPT ![x] = h.nextvalue] /\ k1.rule = [h.rule EXCEPT ![x] = x]
  BY DEF RuleMade
<1>2. /\ k2 \in Storage /\ Entered(k2) = Entered(k1) /\ k2.main = k1.main
      /\ k2.next = [k1.next EXCEPT ![y1] = x, ![k1.prev[x]] = y1]
      /\ k2.prev = [k1.prev EXCEPT ![y1] = k1.prev[x], ![x] = y1]
      /\ k2.value = [k1.value EXCEPT ![y1] = k1.value[s]] /\ k2.rule = [k1.rule EXCEPT ![y1] = k1.rule[s]]
  BY DEF Appended
<1>3. /\ Entered(k3) = Entered(k2) /\ k3.main = k2.main
      /\ k3.next = [k2.next EXCEPT ![y2] = x, ![k2.prev[x]] = y2]
      /\ k3.prev = [k2.prev EXCEPT ![y2] = k2.prev[x], ![x] = y2]
      /\ k3.value = [k2.value EXCEPT ![y2] = k2.value[e]] /\ k3.rule = [k2.rule EXCEPT ![y2] = k2.rule[e]]
  BY DEF Appended
<1>4. Entered(k1) = Entered(h)
  BY <1>1 DEF Entered
<1>5. k1.prev[x] = x /\ k2.prev[x] = y1
  BY <1>1, <1>2 DEF Storage
<1>6. ASSUME NEW u \in Symbols \ {x, y1, y2}
      PROVE  /\ k3.next[u] = h.next[u] /\ k3.prev[u] = h.prev[u]
             /\ k3.value[u] = h.value[u] /\ k3.rule[u] = h.rule[u]
  <2>1. /\ k1.next[u] = h.next[u] /\ k1.prev[u] = h.prev[u]
        /\ k1.value[u] = h.value[u] /\ k1.rule[u] = h.rule[u]
    BY <1>1 DEF Storage
  <2>2. /\ k2.next[u] = k1.next[u] /\ k2.prev[u] = k1.prev[u]
        /\ k2.value[u] = k1.value[u] /\ k2.rule[u] = k1.rule[u]
    BY <1>1, <1>2, <1>5 DEF Storage
  <2>3. /\ k3.next[u] = k2.next[u] /\ k3.prev[u] = k2.prev[u]
        /\ k3.value[u] = k2.value[u] /\ k3.rule[u] = k2.rule[u]
    BY <1>2, <1>3, <1>5 DEF Storage
  <2> QED BY <2>1, <2>2, <2>3
<1>7. k2.next[x] = y1 /\ k3.next[x] = y1 /\ k3.next[y1] = y2 /\ k3.next[y2] = x
  <2>1. k2.next[x] = y1
    BY <1>1, <1>2, <1>5 DEF Storage
  <2>2. k3.next = [k2.next EXCEPT ![y2] = x, ![y1] = y2]
    BY <1>3, <1>5
  <2> QED BY <1>2, <2>1, <2>2 DEF Storage
<1>8. k3.value[y1] = h.value[s] /\ k3.value[y2] = h.value[e]
  <2>1. k1.value[s] = h.value[s] /\ k2.value[e] = h.value[e] /\ k2.value[y1] = k1.value[s]
    BY <1>1, <1>2 DEF Storage
  <2> QED BY <1>2, <1>3, <2>1 DEF Storage
<1> QED BY <1>1, <1>2, <1>3, <1>4, <1>6, <1>7, <1>8 DEF Grown

\* What a new rule leaves as it was.
LEMMA GrownKeeps ==
  ASSUME NEW h, NEW in, NEW R, NEW O, NEW own, NEW a, NEW z, NEW rank, NEW n, NEW S, NEW C,
         Parsed(h, in, R, O, own, a, z, rank, n, S), Chain(h, O, a, z, S, C),
         NEW x \in Symbols \ (R \cup O), NEW y1 \in Symbols \ (R \cup O), NEW y2 \in Symbols \ (R \cup O),
         NEW s \in O, NEW o \in O, Ends(h, O, s), Twin(h, s, o), NEW e, NEW f,
         NEW k, Grown(h, k, x, y1, y2, f, e),
         NEW O2, NEW own2, NEW a2, NEW z2, NEW rank2, NEW n2,
         O2 = O \cup {y1, y2}, Sound(k, in, {h.main}, R \cup {x}, O2, own2, a2, z2, rank2, n2),
         Tabled(k, O2), \A u \in R \cup O : a2[u] = a[u] /\ z2[u] = z[u]
  PROVE  /\ Parsed(k, in, R \cup {x}, O2, own2, a2, z2, rank2, n2, S)
         /\ Chain(k, O2, a2, z2, S, C) /\ Ends(k, O2, s) /\ Twin(k, s, o)
<1>1. /\ Sound(h, in, {h.main}, R, O, own, a, z, rank, n) /\ Tabled(h, O)
      /\ z[h.main] = 0 /\ a[h.main] = Len(in) /\ Spine(h, R, S)
  BY DEF Parsed
<1>2. /\ Linked(h, R, O, own) /\ R \subseteq Symbols /\ O \subseteq Symbols /\ h.main \in R
  BY <1>1 DEF Sound, Linked, Named
<1>3. /\ k.main = h.main /\ Entered(k) = Entered(h)
      /\ \A u \in R \cup O : /\ k.next[u] = h.next[u] /\ k.prev[u] = h.prev[u]
                             /\ k.value[u] = h.value[u] /\ k.rule[u] = h.rule[u]
  BY <1>2 DEF Grown
<1>4. Tip(k) = Tip(h) /\ Tip(h) \in O /\ h.next[s] = Tip(h)
  BY <1>2, <1>3 DEF Tip, Ends
<1>5. S \subseteq R /\ h.main \in S
  BY <1>1 DEF Spine
<1>6. Spine(k, R \cup {x}, S)
  <2>1. ASSUME NEW r \in S \ {h.main} PROVE \E q \in S : k.rule[k.prev[q]] = r
    <3>1. PICK q \in S : h.rule[h.prev[q]] = r
      BY <1>1 DEF Spine
    <3>2. q \in R /\ h.prev[q] \in R \cup O
      BY <1>2, <1>5 DEF Linked
    <3> QED BY <1>3, <3>1, <3>2
  <2> QED BY <1>3, <1>5, <2>1 DEF Spine
<1>7. Parsed(k, in, R \cup {x}, O2, own2, a2, z2, rank2, n2, S)
  BY <1>1, <1>2, <1>3, <1>6 DEF Parsed
<1>8. ASSUME NEW i \in 1 .. Len(C), C[i].at = "enter", Pending(h, O, a, z, S, C[i]), TwoAbsent(h, C[i].this)
      PROVE  TwoAbsent(k, C[i].this)
  <2> DEFINE r == C[i].this
  <2>1. r \in R
    BY <1>5, <1>8 DEF Pending
  <2> HIDE DEF r
  <2>2. h.next[r] \in R \cup O /\ h.next[h.next[r]] \in R \cup O
    BY <1>2, <2>1 DEF Linked
  <2>3. k.next[r] = h.next[r] /\ k.next[h.next[r]] = h.next[h.next[r]]
        /\ k.next[h.next[h.next[r]]] = h.next[h.next[h.next[r]]]
        /\ k.value[h.next[r]] = h.value[h.next[r]]
        /\ k.value[h.next[h.next[r]]] = h.value[h.next[h.next[r]]]
    BY <1>3, <2>1, <2>2
  <2>4. ASSUME NEW u \in Entered(h) PROVE k.value[u] = h.value[u] /\ k.value[k.next[u]] = h.value[h.next[u]]
    <3>1. u \in O /\ h.next[u] \in O
      BY <1>1 DEF Tabled
    <3> QED BY <1>3, <3>1
  <2>5. TwoAbsent(h, r)
    BY <1>8 DEF r
  <2>6. TwoAbsent(k, r)
    BY <1>3, <2>3, <2>4, <2>5 DEF TwoAbsent, Absent
  <2> QED BY <2>6 DEF r
<1>9. Chain(k, O2, a2, z2, S, C)
  <2>1. \A r \in S \ {h.main} : RuleSpan(a2, z2, r) = RuleSpan(a, z, r)
    BY <1>5 DEF RuleSpan
  <2>2. Span(a2, z2, Tip(k)) = Span(a, z, Tip(h)) /\ Tip(k) \in O2
    BY <1>4 DEF Span
  <2> QED BY <1>3, <1>8, <2>1, <2>2, ChainKept
<1>10. Ends(k, O2, s)
  BY <1>3, <1>4 DEF Ends
<1>11. Twin(k, s, o)
  <2>1. h.next[o] \in R \cup O /\ h.next[s] \in R \cup O
    BY <1>2 DEF Linked
  <2> QED BY <1>3, <2>1 DEF Twin
<1> QED BY <1>7, <1>9, <1>10, <1>11

\* process_match, when a new rule is made (sequitur.c:227-245).
LEMMA MatchesNew ==
  ASSUME NEW h, NEW in, NEW R, NEW O, NEW own, NEW a, NEW z, NEW rank, NEW n, NEW S, NEW C,
         Parsed(h, in, R, O, own, a, z, rank, n, S), Chain(h, O, a, z, S, C), NoSquare(in),
         NEW s \in O, NEW o \in O, Ends(h, O, s), Twin(h, s, o),
         ~ (IsHead(h, h.prev[o]) /\ IsHead(h, h.next[h.next[o]])),
         NEW j, j = new_rule(h), NEW r, r = j.new, NEW k,
         k = IF j.fault # "none" THEN j
             ELSE AppendCopy(AppendCopy(add_rule(j, r), r, s), r, h.next[s]), NEW fd
  PROVE  /\ r \in Symbols \cup {Null}
         /\ Stuck(k) \/ Parsing(k, in, <<Frame("replace", o, r), Frame("second", s, r)>> \o C, fd)
<1> DEFINE x == Next0(h)
           e == Tip(h)
<1>1. /\ Sound(h, in, {h.main}, R, O, own, a, z, rank, n) /\ Tabled(h, O)
      /\ z[h.main] = 0 /\ a[h.main] = Len(in) /\ Spine(h, R, S)
  BY DEF Parsed
<1>2. /\ h \in Storage /\ h.fault = "none" /\ h.main \in Symbols /\ h.main \in R
      /\ Linked(h, R, O, own) /\ R \cap O = {} /\ R \subseteq Symbols /\ O \subseteq Symbols
      /\ a \in [Symbols -> Int] /\ z \in [Symbols -> Int]
      /\ x \in Symbols => x \notin R \cup O
  BY <1>1, Gives
<1>3. e \in O /\ h.next[s] = e
  BY DEF Ends
<1>4. /\ a[s] \in Int /\ z[s] \in Int /\ a[s] < z[s] /\ a[s] >= 0 /\ z[s] <= Len(in)
      /\ Len(in) \in Nat /\ z[s] = a[e]
  <2>1. /\ a[s] \in Int /\ z[s] \in Int /\ a[s] < z[s] /\ a[s] >= 0 /\ z[s] <= Len(in)
        /\ Len(in) \in Nat
    BY <1>1, Inside
  <2>2. z[s] = a[e]
    BY <1>1, <1>3 DEF Sound, Stretched
  <2> QED BY <2>1, <2>2
<1> HIDE DEF e, x
<1>5. CASE x \notin Symbols
  <2>1. new_symbol(h, h.nextvalue, Null) = [h EXCEPT !.fault = "exhausted"]
    BY <1>2, <1>5, AppendFails DEF x
  <2>2. Stuck([h EXCEPT !.fault = "exhausted"]) /\ [h EXCEPT !.fault = "exhausted"].fault = "exhausted"
    BY <1>1, StuckWhenFull DEF Stuck
  <2>3. j = [h EXCEPT !.fault = "exhausted"]
    BY <2>1, <2>2 DEF new_rule
  <2>4. Stuck(j) /\ j.fault = "exhausted" /\ j \in Storage
    BY <2>2, <2>3 DEF Stuck
  <2> QED BY <2>4 DEF Storage
<1>6. CASE x \in Symbols
  <2>1. h.prevr[h.main] \in R
    BY <1>1, <1>2 DEF Sound, Ringed
  <2>2. /\ j.fault = "none" /\ r = x /\ RuleMade(h, add_rule(j, x), x)
    <3>1. x # h.main /\ x # h.prevr[h.main] /\ h.prevr[h.main] \in Symbols
      BY <1>2, <1>6, <2>1
    <3> QED BY <1>2, <1>6, <3>1, NewRuleFields DEF x
  <2> DEFINE k1 == add_rule(j, x)
             c == a[s]
             E1 == {h.main} \cup {x}
             R1 == R \cup {x}
             own1 == [own EXCEPT ![x] = x]
             a1 == [a EXCEPT ![x] = c]
             z1 == [z EXCEPT ![x] = c]
             k2 == AppendCopy(k1, x, s)
             k3 == AppendCopy(k2, x, e)
  <2>3. k = k3 /\ r \in Symbols
    BY <1>3, <1>6, <2>2
  <2>4. RuleMade(h, k1, x)
    BY <2>2
  <2> HIDE DEF k1, k2, k3
  <2>5. /\ \E m : Sound(k1, in, E1, R1, O, own1, a1, z1, rank, m)
        /\ Tabled(k1, O) /\ Entered(k1) = Entered(h) /\ Uses(k1, O, x) = {}
    <3>1. x \in Symbols \ (R \cup O) /\ x = Next0(h) /\ c \in 0 .. Len(in)
      BY <1>2, <1>4, <1>6 DEF x
    <3> DEFINE E == {h.main}
    <3>2. Sound(h, in, E, R, O, own, a, z, rank, n) /\ Tabled(h, O)
      BY <1>1
    <3> HIDE DEF c, x, k1, E, R1, E1, own1, a1, z1
    <3>3. x \in Symbols \ (R \cup O) /\ x = Next0(h) /\ c \in 0 .. Len(in)
      BY <3>1
    <3>4. Founded(h, k1, in, E, R, O, own, a, z, rank, x, c)
      BY <2>4, <3>2, <3>3, NewRuleSound
    <3> QED BY <3>4 DEF Founded, E, E1, R1, own1, a1, z1
  <2> PICK n1 : Sound(k1, in, E1, R1, O, own1, a1, z1, rank, n1)
    BY <2>5
  <2>6. /\ k1.main = h.main /\ k1.value = [h.value EXCEPT ![x] = h.nextvalue]
        /\ k1.rule = [h.rule EXCEPT ![x] = x]
    BY <2>4 DEF RuleMade
  <2>7. s # x /\ e # x /\ o # x /\ s \in Symbols /\ e \in Symbols /\ x \notin R \cup O /\ x # h.main
    BY <1>2, <1>3, <1>6
  <2>8. a1[x] = a1[s] /\ z1[s] - a1[s] = z[s] - a[s] /\ a1[s] = a[s] /\ a1[e] = a[e] /\ z1[e] = z[e]
        /\ a1 \in [Symbols -> Int] /\ z1 \in [Symbols -> Int]
    BY <1>2, <1>4, <1>6, <2>7
  <2>9. x \in R1 \cap E1
    OBVIOUS
  <2> HIDE DEF R1, E1, a1, z1, own1
  <2>10. /\ k1 \in Storage /\ k1.main \in Symbols /\ k1.num \in 0 .. MaxSymbols
    BY Gives
  <2>11. CASE Next0(k1) \notin Symbols
    <3>1. Stuck(k2) /\ Next0(k2) \notin Symbols
      BY <2>10, <2>11, CopyFails DEF k2
    <3>2. Stuck(k3)
      BY <3>1, CopyFails DEF Stuck, k3
    <3> QED BY <2>3, <3>2
  <2>12. CASE Next0(k1) \in Symbols
    <3> DEFINE y1 == Next0(k1)
               l == z1[s] - a1[s]
               O1 == O \cup {y1}
               own2 == [own1 EXCEPT ![y1] = x]
               a2 == [a1 EXCEPT ![y1] = a1[x], ![x] = a1[x] + l]
               z2 == [z1 EXCEPT ![y1] = a1[x] + l]
    <3>1. Copied(k1, k2, in, E1, R1, O, own1, a1, z1, rank, x, s)
      BY <2>5, <2>6, <2>7, <2>8, <2>9, <2>12, CopySound DEF k2
    <3>2. /\ y1 \in Symbols \ (R1 \cup O) /\ Appended(k1, k2, y1, x, k1.value[s], k1.rule[s])
          /\ \E m : Sound(k2, in, E1, R1, O1, own2, a2, z2, rank, m)
          /\ Tabled(k2, O1) /\ Entered(k2) = Entered(k1) /\ Uses(k2, O1, x) = {}
      BY <3>1 DEF Copied
    <3> PICK n2 : Sound(k2, in, E1, R1, O1, own2, a2, z2, rank, n2)
      BY <3>2
    <3>3. k2.main = h.main
      BY <2>6, <3>2 DEF Appended
    <3>4. y1 # x /\ y1 # s /\ y1 # e /\ y1 \notin R \cup O
      BY <1>3, <3>2 DEF R1
    <3>5. a2[x] = a2[e] /\ z2[e] - a2[e] = z[e] - a[e]
          /\ a2 \in [Symbols -> Int] /\ z2 \in [Symbols -> Int]
      <4>1. a2[e] = a1[e] /\ z2[e] = z1[e] /\ a2[x] = a1[x] + l
        BY <2>7, <2>8, <3>4, <1>6
      <4>2. a1[x] + l = z[s]
        BY <1>4, <2>8
      <4>3. a2 \in [Symbols -> Int] /\ z2 \in [Symbols -> Int]
        <5> DEFINE a1x == a1[x]
                   m == a1x + l
        <5>1. a1x \in Int /\ m \in Int
          BY <1>4, <2>8
        <5>2. a2 = [a1 EXCEPT ![y1] = a1x, ![x] = m] /\ z2 = [z1 EXCEPT ![y1] = m]
          OBVIOUS
        <5> HIDE DEF l, a1x, m, a2, z2, y1
        <5> QED BY <2>8, <5>1, <5>2
      <4> QED BY <1>4, <2>8, <4>1, <4>2, <4>3
    <3>6. e \in O1
      BY <1>3
    <3>7. k2 \in Storage /\ k2.main \in Symbols /\ k2.num \in 0 .. MaxSymbols
      BY Gives
    <3>8. \A u \in R \cup O : a2[u] = a[u] /\ z2[u] = z[u]
      <4> SUFFICES ASSUME NEW u \in R \cup O PROVE a2[u] = a[u] /\ z2[u] = z[u]
        OBVIOUS
      <4>1. u \in Symbols /\ u # x /\ u # y1
        BY <1>2, <2>7, <3>4
      <4>2. a1[u] = a[u] /\ z1[u] = z[u]
        BY <1>2, <4>1 DEF a1, z1
      <4> QED BY <2>8, <4>1, <4>2
    <3> HIDE DEF y1, l, O1, own2, a2, z2
    <3>9. CASE Next0(k2) \notin Symbols
      <4>1. Stuck(k3)
        BY <3>7, <3>9, CopyFails DEF k3
      <4> QED BY <2>3, <4>1
    <3>10. CASE Next0(k2) \in Symbols
      <4> DEFINE y2 == Next0(k2)
                 l2 == z2[e] - a2[e]
                 O2 == O1 \cup {y2}
                 own3 == [own2 EXCEPT ![y2] = x]
                 a3 == [a2 EXCEPT ![y2] = a2[x], ![x] = a2[x] + l2]
                 z3 == [z2 EXCEPT ![y2] = a2[x] + l2]
      <4>1. Copied(k2, k3, in, E1, R1, O1, own2, a2, z2, rank, x, e)
        BY <2>7, <2>9, <3>2, <3>3, <3>5, <3>6, <3>10, CopySound DEF k3
      <4>2. /\ y2 \in Symbols \ (R1 \cup O1) /\ Appended(k2, k3, y2, x, k2.value[e], k2.rule[e])
            /\ \E m : Sound(k3, in, E1, R1, O2, own3, a3, z3, rank, m)
            /\ Tabled(k3, O2) /\ Uses(k3, O2, x) = {}
        BY <4>1 DEF Copied
      <4> PICK n3 : Sound(k3, in, E1, R1, O2, own3, a3, z3, rank, n3)
        BY <4>2
      <4>3. y2 # x /\ y2 # y1 /\ y2 # s /\ y2 # e /\ y2 \notin R \cup O /\ y2 \in Symbols
        BY <1>3, <4>2 DEF R1, O1
      <4>4. \A u \in R \cup O : a3[u] = a[u] /\ z3[u] = z[u]
        <5> SUFFICES ASSUME NEW u \in R \cup O PROVE a3[u] = a[u] /\ z3[u] = z[u]
          OBVIOUS
        <5>1. u \in Symbols /\ u # x /\ u # y2
          BY <1>2, <2>7, <4>3
        <5>2. a3[u] = a2[u] /\ z3[u] = z2[u]
          BY <3>5, <5>1
        <5> QED BY <3>8, <5>2
      <4> HIDE DEF y2, l2, own3, a3, z3
      <4>5. Grown(h, k3, x, y1, y2, s, e)
        <5>1. y1 \in Symbols /\ s \in Symbols \ {x, y1, y2} /\ e \in Symbols \ {x, y1, y2}
          BY <2>7, <3>2, <3>4, <4>3
        <5> QED BY <1>2, <1>6, <2>4, <3>2, <3>4, <4>2, <4>3, <5>1, Grows
      <4>6. /\ k3.main = h.main /\ k3.next[x] = y1 /\ k3.next[y1] = y2 /\ k3.next[y2] = x
            /\ k3.value[y1] = h.value[s] /\ k3.value[y2] = h.value[e]
            /\ k3.value[s] = h.value[s] /\ k3.value[e] = h.value[e]
            /\ k3.next[s] = h.next[s]
            /\ \A u \in R \cup O : k3.next[u] = h.next[u] /\ k3.prev[u] = h.prev[u]
        BY <1>2, <2>7, <3>4, <4>3, <4>5 DEF Grown
      <4>7. O2 = O \cup {y1, y2}
        BY DEF O1
      <4>8. Sound(k3, in, {h.main}, R1, O2, own3, a3, z3, rank, n3)
        <5>1. Bodied(k3, R1, O2, {h.main})
          <6>1. Bodied(k3, R1, O2, E1)
            BY DEF Sound
          <6> QED BY <4>6, <4>7, <6>1 DEF Bodied, E1
        <5> HIDE DEF O2
        <5> QED BY <5>1 DEF Sound
      <4> HIDE DEF O2
      <4>9. /\ Parsed(k3, in, R1, O2, own3, a3, z3, rank, n3, S)
            /\ Chain(k3, O2, a3, z3, S, C) /\ Ends(k3, O2, s) /\ Twin(k3, s, o)
        <5>1. x \in Symbols \ (R \cup O) /\ y1 \in Symbols \ (R \cup O) /\ y2 \in Symbols \ (R \cup O)
          BY <1>6, <2>7, <3>2, <3>4, <4>3
        <5> QED BY <4>2, <4>4, <4>5, <4>7, <4>8, <5>1, GrownKeeps DEF R1
      <4>10. Repeated(k3, R1, O2, s, x)
        <5>1. Alike(k3, x, s)
          BY <1>3, <4>6 DEF Alike
        <5> QED BY <2>7, <4>6, <4>9, <5>1 DEF Repeated, R1
      <4>11. k3.prev[o] \notin R1 \/ k3.next[k3.next[o]] \notin R1
        <5> DEFINE t == h.next[o]
        <5>1. o \in R \cup O /\ t \in R \cup O /\ h.prev[o] \in R \cup O /\ h.next[t] \in R \cup O
          BY <1>2 DEF Linked
        <5>2. h.prev[o] \notin R \/ h.next[t] \notin R
          <6>1. h.prev[o] \in R => IsHead(h, h.prev[o])
            BY <1>1, <5>1, Heads
          <6>2. h.next[t] \in R => IsHead(h, h.next[t])
            BY <1>1, <5>1, Heads
          <6> QED BY <6>1, <6>2
        <5> HIDE DEF t
        <5>3. k3.prev[o] = h.prev[o] /\ k3.next[o] = t /\ k3.next[t] = h.next[t]
          BY <4>6, <5>1 DEF t
        <5>4. h.prev[o] # x /\ h.next[t] # x
          BY <2>7, <5>1
        <5> QED BY <5>2, <5>3, <5>4 DEF R1
      <4> DEFINE D == <<Frame("replace", o, x), Frame("second", s, x)>> \o C
      <4>12. Doubling(k3, R1, O2, C, D)
        <5>1. s \in O2 /\ o \in O2 /\ x \in R1
          BY <4>7 DEF R1
        <5> QED BY <4>2, <4>9, <4>10, <4>11, <5>1 DEF Doubling
      <4> HIDE DEF D
      <4>13. Parsing(k3, in, D, fd)
        BY <4>9, <4>12 DEF Parsing, Phase
      <4> QED BY <2>2, <2>3, <4>13 DEF D
    <3> QED BY <3>9, <3>10
  <2> QED BY <2>11, <2>12
<1> QED BY <1>5, <1>6

\* Two activations put on a stack at once are put there one by one.
LEMMA Stacked ==
  ASSUME NEW T, NEW C \in Seq(T), NEW x \in T, NEW y \in T
  PROVE  <<x, y>> \o C = <<x>> \o (<<y>> \o C)
<1> DEFINE D == <<x, y>> \o C
<1>1. D \in Seq(T) /\ D # <<>> /\ Head(D) = x /\ Tail(D) = <<y>> \o C
  BY TwoOnTop
<1> HIDE DEF D
<1>2. D = <<Head(D)>> \o Tail(D)
  BY <1>1, Uncons
<1>3. D = <<x>> \o (<<y>> \o C)
  BY <1>1, <1>2
<1> QED BY <1>3 DEF D

\* Two activations on top of a third.
LEMMA StackedThree ==
  ASSUME NEW C \in Seq(Activations),
         NEW x \in Activations, NEW y \in Activations, NEW w \in Activations
  PROVE  <<x, y>> \o (<<w>> \o C) = <<x, y, w>> \o C
<1> DEFINE D == <<x, y, w>> \o C
           F == <<w>> \o C
           G == <<y, w>> \o C
           T == Activations
<1>0. C \in Seq(T) /\ x \in T /\ y \in T /\ w \in T
  OBVIOUS
<1> HIDE DEF T
<1>1. D \in Seq(T) /\ D # <<>> /\ Head(D) = x /\ Tail(D) = G
  BY ONLY <1>0, ThreeOnTop DEF D, G
<1>2. G = <<y>> \o F
  BY ONLY <1>0, Stacked DEF F, G
<1>3. F \in Seq(T)
  BY ONLY <1>0, OnTop DEF F
<1> HIDE DEF D, F, G
<1>4. D = <<x>> \o G
  BY ONLY <1>1, Uncons
<1>5. <<x, y>> \o F = <<x>> \o (<<y>> \o F)
  BY ONLY <1>0, <1>3, Stacked
<1>6. <<x, y>> \o F = D
  BY <1>2, <1>4, <1>5
<1> QED BY <1>6 DEF D, F

\* The activations that wait are activations.
LEMMA FramesAct == Frames \subseteq Activations /\ Seq(Frames) \subseteq Seq(Activations)
<1>1. Frames \subseteq Activations
  BY DEF Frames, Activations, Ats
<1>2. ASSUME NEW C \in Seq(Frames) PROVE C \in Seq(Activations)
  BY <1>1
<1> QED BY <1>1, <1>2

\* the new rule's digram goes into the table (sequitur.c:249)
LEMMA EntersRule ==
  ASSUME NEW h, NEW in, NEW R, NEW O, NEW own, NEW a, NEW z, NEW rank, NEW n, NEW S, NEW C,
         Parsed(h, in, R, O, own, a, z, rank, n, S), Chain(h, O, a, z, S, C),
         C # <<>>, Head(C).at = "enter", NEW r, r = Head(C).this, NEW fd
  PROVE  /\ r \in Symbols
         /\ Parsing(digram_put(h, h.next[r]), in, <<Frame("utility", r, Null)>> \o Tail(C), fd)
<1> DEFINE f == Head(C)
           B == Tail(C)
<1>1. /\ f \in Frames /\ Chain(h, O, a, z, S, B) /\ Pending(h, O, a, z, S, f)
      /\ \A i \in 1 .. Len(B) : B[i].at # "right" => RuleSpan(a, z, B[i].this) < RuleSpan(a, z, f.this)
  BY ChainTail
<1>2. /\ Sound(h, in, {h.main}, R, O, own, a, z, rank, n) /\ Spine(h, R, S)
  BY DEF Parsed
<1>3. /\ r \in S \ {h.main} /\ Tip(h) \in O /\ RuleSpan(a, z, r) <= Span(a, z, Tip(h)) /\ TwoAbsent(h, r)
  BY <1>1 DEF Pending
<1>4. r \in R \ {h.main} /\ h.next[h.next[h.next[r]]] = r /\ r \in Symbols
  BY <1>2, <1>3 DEF Spine, TwoAbsent, Sound, Linked
<1> DEFINE x == h.next[r]
           y == h.next[x]
           k == digram_put(h, x)
           f2 == Frame("utility", r, Null)
           D == <<f2>> \o B
<1>5. /\ x \in O /\ y \in O /\ h.next[x] = y
      /\ a[x] \in Int /\ z[x] \in Int /\ a[y] \in Int /\ z[y] \in Int /\ a[r] \in Int /\ z[r] \in Int
      /\ z[r] = a[x] /\ z[x] = a[y] /\ z[y] = a[r] /\ a[x] < z[x] /\ a[y] < z[y]
  BY <1>2, <1>4, TwoLong
<1>6. Missing(h, x)
  BY <1>3 DEF TwoAbsent, Missing
<1>7. Span(a, z, x) + Span(a, z, y) = RuleSpan(a, z, r) /\ RuleSpan(a, z, r) \in Int
  BY <1>5 DEF Span, RuleSpan
<1>8. f2 \in Frames /\ f2.this = r /\ f2.at = "utility"
  BY <1>4 DEF Frame, Frames
<1>9. r = f.this
  OBVIOUS
<1> HIDE DEF x, y, f2, f, k, D, B
<1>10. ASSUME NEW i \in 1 .. Len(B), B[i].at = "enter", Pending(h, O, a, z, S, B[i])
      PROVE  Span(a, z, x) + Span(a, z, y) # RuleSpan(a, z, B[i].this)
  <2>1. RuleSpan(a, z, B[i].this) < RuleSpan(a, z, r)
    BY <1>1, <1>9, <1>10
  <2> QED BY <1>7, <2>1
<1>11. /\ Parsed(k, in, R, O, own, a, z, rank, n, S) /\ Chain(k, O, a, z, S, B)
       /\ k.main = h.main /\ k.prev = h.prev
  BY <1>1, <1>5, <1>6, <1>10, PutsDigram DEF k
<1>12. Pending(k, O, a, z, S, f2)
  BY <1>3, <1>8, <1>11 DEF Pending, Tip
<1>13. Chain(k, O, a, z, S, D)
  BY <1>1, <1>8, <1>9, <1>11, <1>12, ChainCons DEF D
<1>14. Resting(k, D, D, fd)
  <2>1. Head(D) = f2
    BY <1>8, <1>11, OnTop DEF Chain, D
  <2> QED BY <1>8, <2>1 DEF Resting, Coming
<1>15. Parsing(k, in, D, fd)
  BY <1>11, <1>13, <1>14 DEF Parsing, Phase
<1> QED BY <1>4, <1>15 DEF D, k, x, f2, B

\* the second check_digram of replace_digram (sequitur.c:184-187)
LEMMA ChecksRight ==
  ASSUME NEW h, NEW in, NEW R, NEW O, NEW own, NEW a, NEW z, NEW rank, NEW n, NEW S, NEW C,
         Parsed(h, in, R, O, own, a, z, rank, n, S), Chain(h, O, a, z, S, C),
         C # <<>>, Head(C).at = "right", NEW fd, ~ fd => Coming(h, C)
  PROVE  /\ fd => Parsing(h, in, Tail(C), fd)
         /\ ~ fd => /\ h.next[Head(C).this] \in Symbols
                    /\ Parsing(h, in, <<Frame("check", h.next[Head(C).this], Null)>> \o Tail(C), fd)
<1> DEFINE B == Tail(C)
<1>1. /\ Chain(h, O, a, z, S, B) /\ Head(B).at # "right" /\ Pending(h, O, a, z, S, Head(B))
  BY ChainTail
<1> HIDE DEF B
<1>2. ASSUME fd PROVE Parsing(h, in, B, fd)
  <2>1. Resting(h, B, B, fd)
    BY <1>2 DEF Resting
  <2> QED BY <1>1, <2>1 DEF Parsing, Phase
<1>3. ASSUME ~ fd
      PROVE  /\ h.next[Head(C).this] \in Symbols
             /\ Parsing(h, in, <<Frame("check", h.next[Head(C).this], Null)>> \o B, fd)
  <2>1. Tip(h) \in O
    BY <1>1 DEF Pending
  <2>2. Head(C).this = h.prev[Tip(h)]
    BY <1>3 DEF Coming
  <2>3. h.next[Head(C).this] = Tip(h) /\ h.next[Tip(h)] = h.main /\ h.main \in R /\ Tip(h) \in Symbols
    <3>1. h.next[Tip(h)] = h.main /\ h.main \in R /\ h.next[h.prev[Tip(h)]] = Tip(h)
      BY <2>1, AtTheEnd
    <3>2. Tip(h) \in Symbols
      BY <2>1 DEF Parsed, Sound, Linked
    <3> QED BY <2>2, <3>1, <3>2
  <2>4. Tip(h) \notin Entered(h)
    BY <2>3 DEF Parsed, Tabled, Sound, Linked
  <2>5. Coming(h, B)
    BY <1>1 DEF Coming
  <2>6. Checking(h, R, O, B, <<Frame("check", Tip(h), Null)>> \o B)
    BY <2>1, <2>4, <2>5 DEF Checking
  <2> QED BY <1>1, <2>3, <2>6 DEF Parsing, Phase
<1> QED BY <1>2, <1>3 DEF B

\* replace_digram of the last digram (sequitur.c:161-188).
LEMMA ReplacesLast ==
  ASSUME NEW h, NEW in, NEW R, NEW O, NEW own, NEW a, NEW z, NEW rank, NEW n, NEW S, NEW C,
         Parsed(h, in, R, O, own, a, z, rank, n, S), Chain(h, O, a, z, S, C), NoSquare(in),
         NEW s \in O, NEW r \in R, Repeated(h, R, O, s, r), NEW f \in Frames, f.this = r,
         f.at = "utility" \/ (f.at = "enter" /\ Missing(h, s)),
         NEW p, p = h.prev[s], NEW k,
         k = InsertNonterminal(DeleteNext(DeleteNext(h, p), p), p, r), NEW fd
  PROVE  /\ p \in Symbols
         /\ Parsing(k, in, <<Frame("check", p, Null), Frame("right", p, Null)>> \o (<<f>> \o C), fd)
<1> DEFINE t == Tip(h)
           c == h.main
           O2 == O \ {s}
           a2 == [a EXCEPT ![t] = a[s]]
           S2 == S \cup {r}
<1>1. /\ Sound(h, in, {h.main}, R, O, own, a, z, rank, n) /\ Tabled(h, O)
      /\ z[c] = 0 /\ a[c] = Len(in) /\ Spine(h, R, S)
  BY DEF Parsed
<1>2. /\ h \in Storage /\ c \in Symbols /\ c \in R /\ Linked(h, R, O, own)
      /\ R \cap O = {} /\ R \subseteq Symbols /\ O \subseteq Symbols
      /\ a \in [Symbols -> Int] /\ z \in [Symbols -> Int]
  BY <1>1, Gives
<1>3. /\ t \in O /\ h.next[s] = t /\ r \in R \ {c} /\ Alike(h, r, s)
  BY DEF Repeated, Ends
<1>4. h.next[t] = c /\ own[t] = c /\ own[s] = c /\ own[p] = c /\ p \in R \cup O /\ h.next[p] = s
      /\ h.prev[t] = s /\ h.prev[c] = t /\ p # s /\ p # t /\ s # t
  <2>1. h.next[t] = c /\ own[t] = c
    BY <1>3, AtTheEnd
  <2>2. /\ p \in R \cup O /\ h.next[p] = s /\ own[p] = own[s] /\ own[t] = own[s] /\ h.prev[t] = s
        /\ p # s /\ p # t /\ s # t
    BY <1>1, <1>3, Around
  <2> QED BY <2>1, <2>2 DEF Tip
<1> HIDE DEF t, c
<1>5. /\ RuleSpan(a, z, r) = Span(a, z, s) + Span(a, z, t) /\ RuleSpan(a, z, r) \in Int
      /\ Span(a, z, s) > 0 /\ Span(a, z, t) > 0 /\ Span(a, z, s) \in Int /\ Span(a, z, t) \in Int
      /\ a[r] - z[r] = z[t] - a[s] /\ SameText(in, a[s], z[r], z[t] - a[s])
  <2>1. r \in R \ {h.main}
    BY <1>3 DEF c
  <2> QED BY <1>1, <1>3, <2>1, AlikeText
<1>6. Replaced(h, k, R, p, s, t, c, r)
  <2>1. r \in R \ {h.main} /\ c = h.next[t] /\ (p = c => p = h.main)
    BY <1>3, <1>4 DEF c
  <2>2. \A q \in {h.main} : q # h.main => Uses(h, O, q) = {}
    OBVIOUS
  <2> QED BY <1>1, <1>3, <2>1, <2>2, ReplaceFields
<1>7. /\ \E rank2, m : Sound(k, in, {h.main}, R, O2, own, a2, z, rank2, m)
      /\ Tabled(k, O2)
  <2>1. r \in R \ {h.main} /\ c = h.next[t] /\ own[s] = h.main
    BY <1>3, <1>4 DEF c
  <2> QED BY <1>1, <1>3, <1>5, <1>6, <2>1, ReplaceSound
<1> PICK rank2, m : Sound(k, in, {h.main}, R, O2, own, a2, z, rank2, m)
  BY <1>7
<1>8. /\ Entered(k) = Entered(h) \ {p, s, t} /\ k.main = c
      /\ k.next = [h.next EXCEPT ![p] = t, ![s] = h.recycled, ![t] = c]
      /\ k.prev = [h.prev EXCEPT ![t] = p, ![c] = t]
      /\ k.value = [h.value EXCEPT ![t] = h.value[r]] /\ k.rule = [h.rule EXCEPT ![t] = r]
  BY <1>6 DEF Replaced, c
<1>9. /\ p \in Symbols /\ s \in Symbols /\ t \in Symbols /\ r \in Symbols /\ c # t /\ c # s /\ t \notin R
      /\ s \notin R
  BY <1>2, <1>3, <1>4
<1>10. k.prev[t] = p /\ k.prev[c] = t /\ Tip(k) = t /\ k.rule[t] = r
  BY <1>2, <1>8, <1>9 DEF Storage, Tip
<1>11. ASSUME NEW u \in Symbols, own[u] # c
       PROVE  /\ k.next[u] = h.next[u] /\ k.prev[u] = h.prev[u] /\ k.value[u] = h.value[u]
              /\ k.rule[u] = h.rule[u] /\ a2[u] = a[u]
  <2>1. u # p /\ u # s /\ u # t
    BY <1>4, <1>11
  <2>2. u # c
    BY <1>2, <1>11 DEF Linked
  <2> QED BY <1>2, <1>8, <2>1, <2>2 DEF Storage
<1>12. ASSUME NEW q \in R \ {c}
       PROVE  /\ own[q] = q /\ own[h.prev[q]] = q /\ h.prev[q] \in Symbols
              /\ k.prev[q] = h.prev[q] /\ k.rule[h.prev[q]] = h.rule[h.prev[q]] /\ a2[q] = a[q]
  <2>1. own[q] = q /\ h.prev[q] \in R \cup O /\ own[h.next[h.prev[q]]] = own[h.prev[q]]
        /\ h.next[h.prev[q]] = q
    BY <1>2 DEF Linked
  <2> QED BY <1>2, <1>11, <2>1
<1>13. Spine(k, R, S2)
  <2>1. S \subseteq R /\ c \in S /\ \A x \in S \ {c} : \E q \in S : h.rule[h.prev[q]] = x
    BY <1>1 DEF Spine, c
  <2>2. ASSUME NEW x \in S2 \ {c} PROVE \E q \in S2 : k.rule[k.prev[q]] = x
    <3>1. CASE x = r
      BY <1>8, <1>10, <2>1, <3>1
    <3>2. CASE x # r
      <4>1. PICK q \in S : h.rule[h.prev[q]] = x
        BY <2>1, <2>2, <3>2
      <4>2. CASE q # c
        BY <1>12, <2>1, <4>1, <4>2
      <4>3. CASE q = c
        <5> DEFINE l == h.prev[r]
        <5>1. h.rule[t] = x
          BY <1>4, <4>1, <4>3
        <5>2. h.rule[l] = h.rule[t]
          <6>1. l \in O /\ h.value[l] = h.value[t]
            <7>1. r \in R \ {h.main} /\ h.next[h.next[h.next[r]]] = r
              BY <1>3 DEF Alike, c
            <7>2. h.prev[r] = h.next[h.next[r]] /\ h.next[h.next[r]] \in O
              BY <1>1, <7>1, TwoLong
            <7> QED BY <1>3, <7>2 DEF Alike
          <6> HIDE DEF l
          <6> QED BY <1>1, <1>3, <6>1, SameValue
        <5>3. k.prev[r] = l /\ k.rule[l] = h.rule[l]
          BY <1>3, <1>12
        <5> QED BY <5>1, <5>2, <5>3
      <4> QED BY <4>2, <4>3
    <3> QED BY <3>1, <3>2
  <2> QED BY <1>3, <1>8, <2>1, <2>2 DEF Spine
<1>14. Parsed(k, in, R, O2, own, a2, z, rank2, m, S2)
  <2>1. a2[c] = a[c]
    BY <1>2, <1>9
  <2> HIDE DEF O2, a2, S2
  <2> QED BY <1>1, <1>7, <1>8, <1>13, <2>1 DEF Parsed, c
<1>15. ASSUME NEW q \in R \ {c}, TwoAbsent(h, q) PROVE TwoAbsent(k, q)
  <2> DEFINE x == h.next[q]
             y == h.next[x]
  <2>1. h.next[y] = q /\ Absent(h, h.value[x], h.value[y])
    BY <1>15 DEF TwoAbsent
  <2>2. own[q] = q /\ own[x] = q /\ own[y] = q /\ x \in Symbols /\ y \in Symbols /\ q \in Symbols
    BY <1>2 DEF Linked
  <2> HIDE DEF x, y
  <2>3. k.next[q] = x /\ k.next[x] = y /\ k.next[y] = q /\ k.value[x] = h.value[x]
        /\ k.value[y] = h.value[y]
    BY <1>11, <2>1, <2>2 DEF x, y
  <2>4. ASSUME NEW u \in Entered(k) PROVE u \in Entered(h) /\ k.value[u] = h.value[u]
                                          /\ k.value[k.next[u]] = h.value[h.next[u]]
    <3>1. u \in Entered(h) /\ u # p /\ u # s /\ u # t /\ u \in O /\ h.next[u] \in O
      BY <1>1, <1>8 DEF Tabled
    <3>2. h.next[u] # t
      BY <1>2, <1>4, <3>1 DEF Linked
    <3>3. u \in Symbols /\ h.next[u] \in Symbols
      BY <1>2, <3>1
    <3> QED BY <1>2, <1>8, <3>1, <3>2, <3>3 DEF Storage
  <2>5. Absent(k, h.value[x], h.value[y])
    BY <2>1, <2>4, SMTT(20) DEF Absent
  <2> QED BY <2>3, <2>5 DEF TwoAbsent
<1>16. Span(a2, z, t) = RuleSpan(a, z, r)
  <2>1. a2[t] = a[s] /\ z[t] \in Int /\ a[s] \in Int
    BY <1>2, <1>9
  <2> QED BY <1>5, <2>1 DEF Span, RuleSpan
<1>17. \A q \in R \ {c} : RuleSpan(a2, z, q) = RuleSpan(a, z, q)
  BY <1>12 DEF RuleSpan
<1>18. S \subseteq R
  BY <1>1 DEF Spine
<1>19. Chain(k, O2, a2, z, S2, C)
  <2>1. \A i \in 1 .. Len(C) : /\ C[i].at = "enter" /\ Pending(h, O, a, z, S, C[i])
                               /\ TwoAbsent(h, C[i].this)
                               => TwoAbsent(k, C[i].this)
    <3> SUFFICES ASSUME NEW i \in 1 .. Len(C), Pending(h, O, a, z, S, C[i]), TwoAbsent(h, C[i].this)
                 PROVE  TwoAbsent(k, C[i].this)
      OBVIOUS
    <3>1. C[i].this \in R \ {c}
      BY <1>18 DEF Pending, c
    <3> QED BY <1>15, <3>1
  <2>2. \A q \in S \ {h.main} : RuleSpan(a2, z, q) = RuleSpan(a, z, q)
    BY <1>17, <1>18 DEF c
  <2>3. Tip(k) \in O2
    BY <1>3, <1>4, <1>10
  <2>4. \A q \in S \ {h.main} : RuleSpan(a, z, q) <= Span(a, z, Tip(h))
                                 => RuleSpan(a, z, q) <= Span(a2, z, Tip(k))
    <3> SUFFICES ASSUME NEW q \in S \ {h.main}, RuleSpan(a, z, q) <= Span(a, z, t)
                 PROVE  RuleSpan(a, z, q) <= Span(a2, z, t)
      BY <1>10 DEF t
    <3>1. q \in Symbols
      BY <1>2, <1>18
    <3>2. RuleSpan(a, z, q) \in Int
      BY <1>2, <3>1 DEF RuleSpan
    <3> QED BY <1>5, <1>16, <3>2
  <2>5. k.main = h.main /\ S \ {h.main} \subseteq S2
    BY <1>8 DEF c
  <2> HIDE DEF O2, a2, S2
  <2> QED BY <2>1, <2>2, <2>3, <2>4, <2>5, ChainKept
<1>20. Pending(k, O2, a2, z, S2, f)
  <2>1. f.this \in S2 \ {k.main} /\ Tip(k) \in O2
    BY <1>3, <1>4, <1>8, <1>10
  <2>2. RuleSpan(a2, z, f.this) <= Span(a2, z, Tip(k))
    <3>1. RuleSpan(a2, z, r) = RuleSpan(a, z, r) /\ Span(a2, z, Tip(k)) = RuleSpan(a, z, r)
      BY <1>3, <1>10, <1>16, <1>17
    <3> HIDE DEF a2
    <3> QED BY <1>5, <3>1
  <2>3. f.at = "enter" => TwoAbsent(k, f.this)
    <3>1. Missing(h, s) => TwoAbsent(h, r)
      BY <1>3 DEF Missing, TwoAbsent, Alike
    <3> QED BY <1>3, <1>15, <3>1
  <2> QED BY <2>1, <2>2, <2>3 DEF Pending
<1> DEFINE D == <<f>> \o C
           w == Frame("right", p, Null)
           B == <<w>> \o D
           x == Frame("check", p, Null)
<1>21. Chain(k, O2, a2, z, S2, D)
  <2>1. \A i \in 1 .. Len(C) : C[i].at # "right" => RuleSpan(a, z, C[i].this) < RuleSpan(a, z, r)
    <3> DEFINE l == RuleSpan(a, z, r)
    <3>1. l \in Int /\ l > Span(a, z, Tip(h)) /\ Tip(h) \in O
      BY <1>3, <1>5 DEF t
    <3> HIDE DEF l
    <3>2. \A i \in 1 .. Len(C) : C[i].at # "right" => RuleSpan(a, z, C[i].this) < l
      BY <3>1, ChainShort
    <3> QED BY <3>2 DEF l
  <2>2. \A i \in 1 .. Len(C) : C[i].at # "right" => RuleSpan(a2, z, C[i].this) < RuleSpan(a2, z, f.this)
    <3> SUFFICES ASSUME NEW i \in 1 .. Len(C), C[i].at # "right"
                 PROVE  RuleSpan(a2, z, C[i].this) < RuleSpan(a2, z, f.this)
      OBVIOUS
    <3>1. Pending(h, O, a, z, S, C[i])
      BY DEF Chain
    <3>2. C[i].this \in R \ {c}
      BY <1>18, <3>1 DEF Pending, c
    <3> HIDE DEF a2
    <3> QED BY <1>3, <1>17, <2>1, <3>2
  <2>3. f.at \in {"enter", "utility"}
    OBVIOUS
  <2> HIDE DEF O2, a2, S2
  <2> QED BY <1>19, <1>20, <2>2, <2>3, ChainCons
<1>22. w \in Frames /\ w.at = "right" /\ w.this = p /\ f \in Frames
       /\ x \in Activations /\ w \in Activations
  BY <1>9 DEF Frame, Frames, Activations, Ats
<1>23. C \in Seq(Frames)
  BY DEF Chain
<1>24. D # <<>> /\ Head(D) = f /\ D \in Seq(Frames)
  BY <1>22, <1>23, OnTop
<1> HIDE DEF w, D, x, O2, a2, S2
<1>25. Chain(k, O2, a2, z, S2, B)
  BY <1>21, <1>22, <1>24, ChainRight
<1>26. Coming(k, B)
  <2>1. Head(B) = w
    BY <1>22, <1>24, OnTop
  <2> QED BY <1>10, <1>22, <2>1 DEF Coming
<1>27. Checking(k, R, O2, B, <<x>> \o B)
  <2>1. p \in R \cup O2 /\ Tip(k) \in O2
    BY <1>3, <1>4, <1>10 DEF O2
  <2>2. p \in {Tip(k), k.prev[Tip(k)]} /\ p \notin Entered(k)
    BY <1>8, <1>10
  <2> HIDE DEF B
  <2> QED BY <1>26, <2>1, <2>2 DEF Checking, x
<1>28. <<x, w>> \o D = <<x>> \o B
  BY <1>22, <1>24, FramesAct, Stacked
<1> HIDE DEF B
<1>29. Parsing(k, in, <<x>> \o B, fd)
  BY <1>14, <1>25, <1>27 DEF Parsing, Phase
<1>30. Parsing(k, in, <<x, w>> \o D, fd)
  BY <1>28, <1>29
<1> QED BY <1>9, <1>30 DEF x, w, D

\* replace_digram of the match.
LEMMA ReplacesTwin ==
  ASSUME NEW h, NEW in, NEW R, NEW O, NEW own, NEW a, NEW z, NEW rank, NEW n, NEW S, NEW C,
         Parsed(h, in, R, O, own, a, z, rank, n, S), Chain(h, O, a, z, S, C), NoSquare(in),
         NEW s \in O, NEW o \in O, NEW r \in R, Repeated(h, R, O, s, r), Twin(h, s, o),
         Uses(h, O, r) = {}, h.prev[o] \notin R \/ h.next[h.next[o]] \notin R,
         NEW p, p = h.prev[o], NEW k,
         k = InsertNonterminal(DeleteNext(DeleteNext(h, p), p), p, r), NEW fd
  PROVE  /\ p \in Symbols
         /\ Parsing(k, in, <<Frame("check", p, Null), Frame("right", p, Null)>>
                             \o (<<Frame("second", s, r)>> \o C), fd)
<1> DEFINE e == Tip(h)
           u == h.next[o]
           c == h.next[u]
           O2 == O \ {o}
           a2 == [a EXCEPT ![u] = a[o]]
<1>1. /\ Sound(h, in, {h.main}, R, O, own, a, z, rank, n) /\ Tabled(h, O)
      /\ z[h.main] = 0 /\ a[h.main] = Len(in) /\ Spine(h, R, S)
  BY DEF Parsed
<1>2. /\ h \in Storage /\ h.main \in Symbols /\ h.main \in R /\ Linked(h, R, O, own)
      /\ R \cap O = {} /\ R \subseteq Symbols /\ O \subseteq Symbols
      /\ a \in [Symbols -> Int] /\ z \in [Symbols -> Int]
  BY <1>1, Gives
<1>3. /\ e \in O /\ h.next[s] = e /\ r \in R \ {h.main} /\ Alike(h, r, s)
      /\ h.next[h.next[h.next[r]]] = r
  BY DEF Repeated, Ends, Alike
<1>4. /\ o \in Entered(h) /\ o # s /\ u # s /\ u \in O
      /\ h.value[o] = h.value[s] /\ h.value[u] = h.value[e]
  BY <1>1, <1>3 DEF Twin, Tabled
<1>5. h.next[e] = h.main /\ own[e] = h.main /\ \A w \in R \cup O : h.next[w] = h.main => w = e
  BY <1>3, AtTheEnd
<1> HIDE DEF e
<1>6. /\ p \in R \cup O /\ c \in R \cup O /\ h.next[p] = o /\ h.prev[u] = o /\ h.prev[c] = u
      /\ p # o /\ p # u /\ o # u /\ c # o /\ c # u /\ (p = c => p \in R)
  BY <1>1, <1>4, Around
<1>7. p # c /\ (p \notin R \/ c \notin R)
  BY <1>6
<1>8. h.next[o] = u /\ h.next[u] = c
  OBVIOUS
<1> HIDE DEF u, c
<1>9. u # e /\ c # h.main /\ e # o /\ s # p
  <2>1. u # e
    BY <1>2, <1>3, <1>4, <1>8 DEF Linked
  <2>2. c # h.main
    BY <1>4, <1>5, <1>8, <2>1
  <2>3. e # o
    BY <1>2, <1>4, <1>5, <1>8
  <2>4. s # p
    BY <1>3, <1>6, <2>3
  <2> QED BY <2>1, <2>2, <2>3, <2>4
<1>10. a[r] - z[r] = z[u] - a[o] /\ SameText(in, a[o], z[r], z[u] - a[o])
  <2>1. Alike(h, r, o)
    BY <1>3, <1>4, <1>8 DEF Alike
  <2> QED BY <1>1, <1>3, <1>4, <1>8, <2>1, AlikeText
<1>11. Replaced(h, k, R, p, o, u, c, r)
  <2>1. \A q \in {h.main} : q # h.main => Uses(h, O, q) = {}
    OBVIOUS
  <2>2. p = c => p = h.main
    BY <1>7
  <2> QED BY <1>1, <1>3, <1>4, <1>8, <2>1, <2>2, ReplaceFields
<1>12. /\ \E rank2, m : Sound(k, in, {h.main}, R, O2, own, a2, z, rank2, m)
       /\ Tabled(k, O2)
  BY <1>1, <1>3, <1>4, <1>7, <1>8, <1>10, <1>11, ReplaceSound
<1> PICK rank2, m : Sound(k, in, {h.main}, R, O2, own, a2, z, rank2, m)
  BY <1>12
<1>13. /\ Entered(k) = Entered(h) \ {p, o, u} /\ k.main = h.main
       /\ k.next = [h.next EXCEPT ![p] = u, ![o] = h.recycled, ![u] = c]
       /\ k.prev = [h.prev EXCEPT ![u] = p, ![c] = u]
       /\ k.value = [h.value EXCEPT ![u] = h.value[r]] /\ k.rule = [h.rule EXCEPT ![u] = r]
  BY <1>11 DEF Replaced
<1>14. /\ p \in Symbols /\ o \in Symbols /\ u \in Symbols /\ r \in Symbols /\ c \in Symbols
       /\ s \in Symbols /\ e \in Symbols
  BY <1>2, <1>3, <1>4, <1>6
<1>15. \A x \in Symbols : /\ x \notin {p, o, u} => k.next[x] = h.next[x]
                          /\ x \notin {u, c} => k.prev[x] = h.prev[x]
                          /\ x # u => k.value[x] = h.value[x] /\ k.rule[x] = h.rule[x] /\ a2[x] = a[x]
  BY <1>2, <1>13, <1>14 DEF Storage
<1>16. k.next[p] = u /\ k.rule[u] = r /\ k.prev[c] = u
  BY <1>2, <1>6, <1>13, <1>14 DEF Storage
<1>17. Tip(k) = e /\ k.prev[h.main] = e /\ h.prev[h.main] = e
  <2>1. h.main # u
    BY <1>2, <1>4
  <2> QED BY <1>2, <1>9, <1>13, <1>15, <2>1 DEF Tip, e
<1>18. Ends(k, O2, s)
  BY <1>3, <1>4, <1>9, <1>14, <1>15, <1>17 DEF Ends
\* The match is not in a rule of two symbols.
<1>19. ASSUME NEW q \in R \ {h.main}, h.next[h.next[h.next[q]]] = q
       PROVE  /\ k.next[q] = h.next[q] /\ k.next[h.next[q]] = h.next[h.next[q]]
              /\ k.next[h.next[h.next[q]]] = q
              /\ k.value[h.next[q]] = h.value[h.next[q]]
              /\ k.value[h.next[h.next[q]]] = h.value[h.next[h.next[q]]]
  <2> DEFINE x == h.next[q]
             y == h.next[x]
  <2>1. x \in O /\ y \in O /\ h.next[y] = q /\ h.next[q] = x /\ h.next[x] = y
    BY <1>1, <1>19, TwoLong
  <2> HIDE DEF x, y
  <2>2. h.prev[x] = q /\ h.prev[y] = x /\ h.prev[q] = y
    BY <1>2, <2>1 DEF Linked
  <2>3. o # x
    <3> SUFFICES ASSUME o = x PROVE FALSE
      OBVIOUS
    <3>1. p = q /\ u = y /\ c = q
      BY <1>8, <2>1, <2>2
    <3> QED BY <1>7, <3>1
  <2>4. o # y
    BY <1>2, <1>4, <1>8, <2>1
  <2>5. p # q /\ p # x
    BY <1>6, <2>1, <2>3, <2>4
  <2>6. p # y
    BY <1>2, <1>6, <2>1
  <2>7. u # x /\ u # y /\ u # q /\ o # q
    <3>1. h.prev[u] = o
      BY <1>6
    <3> QED BY <1>2, <1>4, <2>2, <2>3, <3>1
  <2>8. q \in Symbols /\ x \in Symbols /\ y \in Symbols
    BY <1>2, <2>1
  <2> QED BY <1>15, <2>1, <2>3, <2>4, <2>5, <2>6, <2>7, <2>8 DEF x, y
<1>20. Repeated(k, R, O2, s, r)
  <2>1. k.value[s] = h.value[s] /\ k.value[e] = h.value[e] /\ k.next[s] = e
    BY <1>3, <1>4, <1>9, <1>14, <1>15
  <2>2. /\ k.next[r] = h.next[r] /\ k.next[h.next[r]] = h.next[h.next[r]]
        /\ k.next[h.next[h.next[r]]] = r
        /\ k.value[h.next[r]] = h.value[h.next[r]]
        /\ k.value[h.next[h.next[r]]] = h.value[h.next[h.next[r]]]
    BY <1>3, <1>19
  <2>3. h.value[h.next[r]] = h.value[s] /\ h.value[h.next[h.next[r]]] = h.value[e]
    BY <1>3 DEF Alike
  <2>4. Alike(k, r, s)
    BY <2>1, <2>2, <2>3 DEF Alike
  <2> QED BY <1>3, <1>13, <1>18, <2>4 DEF Repeated
<1>21. ASSUME NEW w \in Entered(k)
       PROVE  /\ w \in Entered(h) /\ w # o /\ k.value[w] = h.value[w] /\ k.next[w] = h.next[w]
              /\ k.value[h.next[w]] = h.value[h.next[w]]
  <2>1. w \in Entered(h) /\ w # p /\ w # o /\ w # u /\ w \in O /\ h.next[w] \in O
    BY <1>1, <1>13 DEF Tabled
  <2>2. h.next[w] # u
    BY <1>2, <1>6, <2>1 DEF Linked
  <2>3. w \in Symbols /\ h.next[w] \in Symbols
    BY <1>2, <2>1
  <2> QED BY <1>15, <2>1, <2>2, <2>3
<1>22. Missing(k, s)
  <2> SUFFICES ASSUME NEW w \in Entered(k), k.value[w] = k.value[s], k.value[k.next[w]] = k.value[k.next[s]]
               PROVE  FALSE
    BY DEF Missing, Absent
  <2>1. k.value[s] = h.value[s] /\ k.value[e] = h.value[e] /\ k.next[s] = e
    BY <1>3, <1>4, <1>9, <1>14, <1>15
  <2>4. /\ w \in Entered(h) /\ w # o /\ k.value[w] = h.value[w] /\ k.next[w] = h.next[w]
        /\ k.value[h.next[w]] = h.value[h.next[w]]
    BY <1>21
  <2>2. h.value[w] = h.value[o] /\ h.value[h.next[w]] = h.value[h.next[o]] /\ w \in Entered(h) /\ w # o
    BY <1>4, <1>8, <2>1, <2>4
  <2>3. Lookup(h, w) = Lookup(h, o)
    BY <2>2 DEF Lookup, First, Second
  <2>5. Lookup(h, w) = w /\ Lookup(h, o) = o
    BY <1>1, <1>4, <2>2 DEF Tabled, Served
  <2> QED BY ONLY <2>2, <2>3, <2>5
<1>23. Single(k, O2, r, u)
  <2>1. u \in O2 /\ u \notin Entered(k)
    BY <1>4, <1>6, <1>13
  <2>2. ASSUME NEW x \in O2, x # u PROVE k.rule[x] # r
    <3>1. k.rule[x] = h.rule[x]
      BY <1>2, <1>15, <2>2
    <3> QED BY <3>1 DEF Uses
  <2> QED BY <1>16, <2>1, <2>2 DEF Single, Uses
<1>24. S \subseteq R /\ h.main \in S
  BY <1>1 DEF Spine
<1>25. Spine(k, R, S)
  <2>1. ASSUME NEW x \in S \ {h.main} PROVE \E q \in S : k.rule[k.prev[q]] = x
    <3>1. PICK q \in S : h.rule[h.prev[q]] = x
      BY <1>1 DEF Spine
    <3>2. q \in R /\ q \in Symbols /\ h.prev[q] \in Symbols /\ h.next[h.prev[q]] = q /\ q # u
      BY <1>2, <1>4, <1>24 DEF Linked
    <3>3. CASE q # c
      <4>1. h.prev[q] # u
        BY <1>8, <3>2, <3>3
      <4> QED BY <1>15, <3>1, <3>2, <3>3, <4>1, ZenonT(40)
    <3>4. CASE q = c
      <4>1. h.rule[u] = x
        BY <1>6, <3>1, <3>4
      <4>2. h.rule[u] = h.rule[e]
        BY <1>1, <1>3, <1>4, SameValue
      <4>3. k.rule[k.prev[h.main]] = x
        BY <1>9, <1>14, <1>15, <1>17, <4>1, <4>2
      <4> QED BY <1>24, <4>3
    <3> QED BY <3>3, <3>4
  <2> QED BY <1>13, <1>24, <2>1 DEF Spine
<1>26. Parsed(k, in, R, O2, own, a2, z, rank2, m, S)
  <2>1. a2[h.main] = a[h.main]
    BY <1>2, <1>4, <1>15
  <2> HIDE DEF O2, a2
  <2> QED BY <1>1, <1>12, <1>13, <1>25, <2>1 DEF Parsed
<1>27. Chain(k, O2, a2, z, S, C)
  <2>1. \A i \in 1 .. Len(C) : C[i].at = "enter" /\ Pending(h, O, a, z, S, C[i]) /\ TwoAbsent(h, C[i].this)
                               => TwoAbsent(k, C[i].this)
    <3> SUFFICES ASSUME NEW i \in 1 .. Len(C), Pending(h, O, a, z, S, C[i]), TwoAbsent(h, C[i].this)
                 PROVE  TwoAbsent(k, C[i].this)
      OBVIOUS
    <3> DEFINE q == C[i].this
    <3>1. q \in R \ {h.main}
      BY <1>24 DEF Pending
    <3>2. TwoAbsent(h, q)
      OBVIOUS
    <3> HIDE DEF q
    <3>3. h.next[h.next[h.next[q]]] = q /\ Absent(h, h.value[h.next[q]], h.value[h.next[h.next[q]]])
      BY <3>2 DEF TwoAbsent
    <3>4. Absent(k, h.value[h.next[q]], h.value[h.next[h.next[q]]])
      BY <1>21, <3>3, SMTT(20) DEF Absent
    <3>6. /\ k.next[q] = h.next[q] /\ k.next[h.next[q]] = h.next[h.next[q]]
          /\ k.next[h.next[h.next[q]]] = q
          /\ k.value[h.next[q]] = h.value[h.next[q]]
          /\ k.value[h.next[h.next[q]]] = h.value[h.next[h.next[q]]]
      BY <1>19, <3>1, <3>3
    <3>5. TwoAbsent(k, q)
      BY <3>4, <3>6 DEF TwoAbsent
    <3> QED BY <3>5 DEF q
  <2>2. \A q \in S \ {h.main} : RuleSpan(a2, z, q) = RuleSpan(a, z, q)
    BY <1>2, <1>4, <1>15, <1>24 DEF RuleSpan
  <2>3. Tip(k) \in O2 /\ Span(a2, z, Tip(k)) = Span(a, z, Tip(h))
    <3>1. Tip(h) = e
      BY DEF e
    <3> QED BY <1>3, <1>9, <1>14, <1>15, <1>17, <3>1 DEF Span
  <2>4. k.main = h.main
    BY <1>13
  <2> HIDE DEF O2, a2
  <2> QED BY <2>1, <2>2, <2>3, <2>4, ChainKept
<1> DEFINE w == Frame("right", p, Null)
           x == Frame("check", p, Null)
           y == Frame("second", s, r)
           D == <<x, w, y>> \o C
<1>28. Doubled(k, R, O2, C, D, fd)
  <2>1. s \in O2 /\ u \in O2 /\ p \in R \cup O2 /\ p \notin Entered(k)
    BY <1>4, <1>6, <1>13
  <2> QED BY <1>16, <1>20, <1>22, <1>23, <2>1 DEF Doubled
<1>29. x \in Activations /\ w \in Activations /\ y \in Activations /\ C \in Seq(Activations)
  <2>1. C \in Seq(Frames)
    BY DEF Chain
  <2>2. x \in Activations /\ w \in Activations /\ y \in Activations
    BY <1>14 DEF Frame, Activations, Ats
  <2> QED BY <2>1, <2>2, FramesAct
<1> HIDE DEF x, w, y
<1>30. <<x, w>> \o (<<y>> \o C) = D
  <2>1. <<x, w>> \o (<<y>> \o C) = <<x, w, y>> \o C
    BY ONLY <1>29, StackedThree
  <2> QED BY <2>1
<1> HIDE DEF D, O2, a2
<1>31. Parsing(k, in, D, fd)
  BY <1>26, <1>27, <1>28 DEF Parsing, Phase
<1>32. Parsing(k, in, <<x, w>> \o (<<y>> \o C), fd)
  BY <1>30, <1>31
<1> QED BY <1>14, <1>32 DEF x, w, y

\* The rules that the activations wait with stand for less than r.
Lower(C, a, z, r) ==
  \A i \in 1 .. Len(C) : C[i].at # "right" => RuleSpan(a, z, C[i].this) < RuleSpan(a, z, r)

\* The first symbol of a rule is expanded: nothing that waits notices.
LEMMA Unfolds ==
  ASSUME NEW h, NEW in, NEW R, NEW O, NEW own, NEW a, NEW z, NEW rank, NEW n, NEW S, NEW B,
         Parsed(h, in, R, O, own, a, z, rank, n, S), Chain(h, O, a, z, S, B), NoSquare(in),
         NEW r \in S \ {h.main}, NEW s \in O, s = h.next[r], Tip(h) \in O,
         NEW q \in R \ {h.main}, Uses(h, O, q) = {s}, h.rule[s] = q, h.refcnt[q] = 1,
         Lower(B, a, z, r),
         NEW k, k = expand_instance(h, s)
  PROVE  Parsing(k, in, B, TRUE)
<1> USE DEF Lower
<1> DEFINE e == Tip(h)
           p == r
           c == h.next[s]
           own2 == [y \in Symbols |-> IF own[y] = q THEN own[s] ELSE own[y]]
           a2 == [y \in Symbols |-> IF own[y] = q THEN a[y] + (a[s] - z[q]) ELSE a[y]]
           z2 == [y \in Symbols |-> IF own[y] = q THEN z[y] + (a[s] - z[q]) ELSE z[y]]
           R2 == R \ {q}
           O2 == O \ {s}
<1>2. /\ Sound(h, in, {h.main}, R, O, own, a, z, rank, n) /\ Tabled(h, O)
      /\ z[h.main] = 0 /\ a[h.main] = Len(in) /\ Spine(h, R, S)
  BY DEF Parsed
<1>3. /\ h \in Storage /\ h.main \in Symbols /\ h.main \in R /\ Linked(h, R, O, own)
      /\ R \cap O = {} /\ R \subseteq Symbols /\ O \subseteq Symbols
      /\ a \in [Symbols -> Int] /\ z \in [Symbols -> Int]
  BY <1>2, Gives
<1>4. e \in O /\ S \subseteq R /\ h.main \in S /\ r \in R \ {h.main} /\ r \in Symbols
  BY <1>2, <1>3 DEF Spine
<1>5. own[e] = h.main
  BY AtTheEnd
<1>7. own[r] = r /\ own[s] = r /\ h.prev[s] = r /\ h.prev[h.next[s]] = s /\ own[h.next[s]] = r
  BY <1>3, <1>4 DEF Linked
<1>8. c \in O
  BY <1>2, <1>4 DEF Sound, Bodied
<1>9. p = h.prev[s] /\ c = h.next[s]
  BY <1>7
<1> HIDE DEF p, c, e
<1>10. Spliced(h, k, p, s, c, q)
  BY <1>2, <1>9, ExpandFields
<1>11. Regrown(k, in, {h.main}, R2, O2, own2, a2, z2) /\ Tabled(k, O2)
  <2>1. Moved(own, a, z, own2, a2, z2, s, q)
    BY DEF Moved
  <2> HIDE DEF own2, a2, z2
  <2>2. /\ s \in O /\ q \in R \ {h.main} /\ Uses(h, O, q) = {s} /\ p = h.prev[s] /\ c = h.next[s]
        /\ Sound(h, in, {h.main}, R, O, own, a, z, rank, n) /\ Tabled(h, O)
    BY <1>2, <1>9
  <2>3. Regrown(k, in, {h.main}, R \ {q}, O \ {s}, own2, a2, z2) /\ Tabled(k, O \ {s})
    BY ONLY <1>10, <2>1, <2>2, ExpandSound
  <2> QED BY <2>3
<1>12. PICK rank2, m : Sound(k, in, {h.main}, R2, O2, own2, a2, z2, rank2, m)
  BY <1>11 DEF Regrown
<1>13. /\ Entered(k) = Entered(h) \ {p, s} /\ k.main = h.main
       /\ k.next = [h.next EXCEPT ![p] = h.next[q], ![h.prev[q]] = c, ![s] = h.recycled, ![q] = s]
       /\ k.prev = [h.prev EXCEPT ![h.next[q]] = p, ![c] = h.prev[q], ![q] = Null]
       /\ k.value = h.value /\ k.rule = h.rule
  BY <1>10 DEF Spliced
<1>14. /\ own[q] = q /\ own[h.prev[q]] = q /\ own[h.next[q]] = q /\ h.next[q] \in O
       /\ h.prev[q] \in Symbols /\ h.next[q] \in Symbols /\ h.prev[q] # q /\ q \in Symbols
       /\ h.next[h.prev[q]] = q /\ h.prev[q] \in R \cup O
  <2>1. h.next[q] \in O
    BY <1>2 DEF Sound, Bodied
  <2> QED BY <1>3, <2>1, SMTT(20) DEF Linked
\* The last symbol of a rule is never the one to be expanded.
<1>15. q \notin S
  <2> SUFFICES ASSUME q \in S PROVE FALSE
    OBVIOUS
  <2>0. q \in S \ {h.main}
    OBVIOUS
  <2>1. PICK w \in S : h.rule[h.prev[w]] = q
    BY <1>2, <2>0 DEF Spine
  <2>2. w \in R
    BY <1>4
  <2>3. own[w] = w /\ h.prev[w] \in R \cup O /\ own[h.prev[w]] = w /\ h.next[h.prev[w]] = w
    BY <1>3, <2>2 DEF Linked
  <2>4. CASE h.prev[w] \in O
    <3>1. h.prev[w] = s
      BY <2>1, <2>4 DEF Uses
    <3> QED BY <1>3, <1>8, <1>9, <2>2, <2>3, <3>1
  <2>5. CASE h.prev[w] \in R
    <3>1. own[h.prev[w]] = h.prev[w] /\ h.rule[h.prev[w]] = h.prev[w]
      BY <1>2, <1>3, <2>5 DEF Linked, Sound, Named
    <3>2. h.prev[q] = q
      BY <2>1, <2>3, <3>1
    <3> QED BY <1>14, <3>2
  <2> QED BY <2>3, <2>4, <2>5
<1>16. q # r /\ q # s
  BY <1>3, <1>15
\* Only the rule that is expanded, and the one it is expanded in, change.
<1>17. ASSUME NEW y \in Symbols, own[y] # q
       PROVE  /\ own[y] # r => k.next[y] = h.next[y] /\ k.prev[y] = h.prev[y]
              /\ a2[y] = a[y] /\ z2[y] = z[y]
  <2>1. own[p] = r /\ own[s] = r /\ own[c] = r
    BY <1>7 DEF p, c
  <2>2. own[y] # r => y \notin {p, s, c, q, h.prev[q], h.next[q]}
    BY <1>14, <1>17, <2>1
  <2> QED BY <1>3, <1>13, <1>17, <2>2, SMTT(20) DEF Storage
<1>18. own[h.main] = h.main /\ h.main # q /\ h.main # r /\ h.main # p
  BY <1>3, <1>4 DEF Linked, p
<1>19. k.prev[h.main] = e /\ Tip(k) = e /\ e \in O2 /\ a2[e] = a[e] /\ z2[e] = z[e]
  <2>1. h.prev[h.main] = e
    BY DEF Tip, e
  <2>2. k.prev[h.main] = h.prev[h.main]
    BY <1>3, <1>17, <1>18
  <2>3. e # s
    BY <1>5, <1>7, <1>18
  <2>4. a2[e] = a[e] /\ z2[e] = z[e]
    BY <1>3, <1>4, <1>5, <1>17, <1>18
  <2> QED BY <1>4, <1>13, <2>1, <2>2, <2>3, <2>4 DEF Tip
<1>20. Spine(k, R2, S)
  <2>1. ASSUME NEW x \in S \ {h.main} PROVE \E w \in S : k.rule[k.prev[w]] = x
    <3>1. PICK w \in S : h.rule[h.prev[w]] = x
      BY <1>2 DEF Spine
    <3>2. w \in R /\ w # q
      BY <1>4, <1>15
    <3>3. w \in Symbols /\ own[w] = w
      BY <1>3, <3>2 DEF Linked
    <3>4. w # h.next[q] /\ w # c
      BY <1>3, <1>8, <1>14, <3>2
    <3>5. k.prev[w] = h.prev[w]
      BY <1>3, <1>13, <3>2, <3>3, <3>4 DEF Storage
    <3> QED BY <1>13, <3>1, <3>5
  <2>2. S \subseteq R2
    BY <1>4, <1>15
  <2> QED BY <1>4, <1>13, <2>1, <2>2 DEF Spine
<1>21. Parsed(k, in, R2, O2, own2, a2, z2, rank2, m, S)
  <2>1. a2[h.main] = a[h.main] /\ z2[h.main] = z[h.main]
    BY <1>3, <1>17, <1>18
  <2> HIDE DEF R2, O2, own2, a2, z2
  <2> QED BY <1>2, <1>11, <1>12, <1>13, <1>20, <2>1 DEF Parsed
<1>22. ASSUME NEW x \in S \ {h.main}
       PROVE  x \in Symbols /\ own[x] = x /\ x # q /\ RuleSpan(a2, z2, x) = RuleSpan(a, z, x)
  <2>1. x \in R /\ x # q
    BY <1>4, <1>15
  <2>2. x \in Symbols /\ own[x] = x
    BY <1>3, <2>1 DEF Linked
  <2>3. a2[x] = a[x] /\ z2[x] = z[x]
    BY <1>17, <2>1, <2>2
  <2> QED BY <2>1, <2>2, <2>3 DEF RuleSpan
<1>23. ASSUME NEW x \in S \ {h.main}, x # r, TwoAbsent(h, x) PROVE TwoAbsent(k, x)
  <2> DEFINE y == h.next[x]
             w == h.next[y]
  <2>1. h.next[w] = x /\ Absent(h, h.value[y], h.value[w])
    BY <1>23 DEF TwoAbsent
  <2>2. own[x] = x /\ x # q /\ x \in Symbols /\ x \in R
    BY <1>4, <1>22
  <2>3. y \in R \cup O /\ own[y] = x
    BY <1>3, <2>2 DEF Linked
  <2>4. w \in R \cup O /\ own[w] = x
    BY <1>3, <2>3 DEF Linked
  <2>5. y \in Symbols /\ w \in Symbols
    BY <1>3, <2>3, <2>4
  <2> HIDE DEF y, w
  <2>6. k.next[x] = y /\ k.next[y] = w /\ k.next[w] = x
    <3>1. own[x] # r /\ own[y] # r /\ own[w] # r /\ own[x] # q /\ own[y] # q /\ own[w] # q
      BY <1>23, <2>2, <2>3, <2>4
    <3>2. k.next[x] = h.next[x] /\ k.next[y] = h.next[y] /\ k.next[w] = h.next[w]
      BY <1>17, <2>2, <2>5, <3>1
    <3> QED BY <2>1, <3>2 DEF y, w
  <2>7. ASSUME NEW v \in Entered(k) PROVE v \in Entered(h) /\ k.next[v] = h.next[v]
    <3>1. v \in Entered(h) /\ v # p /\ v # s
      BY <1>13, <2>7
    <3>2. v \in O /\ h.next[v] \in O
      BY <1>2, <3>1 DEF Tabled
    <3>3. v # q /\ v # h.prev[q] /\ v \in Symbols
      BY <1>3, <1>14, <3>2
    <3> QED BY <1>3, <1>13, <3>1, <3>3 DEF Storage
  <2>8. Absent(k, h.value[y], h.value[w])
    BY <1>13, <2>1, <2>7 DEF Absent
  <2> QED BY <1>13, <2>6, <2>8 DEF TwoAbsent
<1>24. Chain(k, O2, a2, z2, S, B)
  <2>1. \A i \in 1 .. Len(B) : B[i].at = "enter" /\ Pending(h, O, a, z, S, B[i]) /\ TwoAbsent(h, B[i].this)
                               => TwoAbsent(k, B[i].this)
    <3> SUFFICES ASSUME NEW i \in 1 .. Len(B), B[i].at = "enter", Pending(h, O, a, z, S, B[i]),
                        TwoAbsent(h, B[i].this)
                 PROVE  TwoAbsent(k, B[i].this)
      OBVIOUS
    <3> DEFINE x == B[i].this
    <3>1. x \in S \ {h.main}
      BY DEF Pending
    <3>2. RuleSpan(a, z, x) < RuleSpan(a, z, r)
      OBVIOUS
    <3>3. RuleSpan(a, z, r) \in Int
      BY <1>3, <1>4 DEF RuleSpan
    <3>4. TwoAbsent(h, x)
      OBVIOUS
    <3> HIDE DEF x
    <3>5. x # r
      BY <3>2, <3>3
    <3>6. TwoAbsent(k, x)
      BY <1>23, <3>1, <3>4, <3>5
    <3> QED BY <3>6 DEF x
  <2>2. \A x \in S \ {h.main} : RuleSpan(a2, z2, x) = RuleSpan(a, z, x)
    BY <1>22
  <2>3. Tip(k) \in O2 /\ Span(a2, z2, Tip(k)) = Span(a, z, Tip(h))
    <3>1. Tip(h) = e
      BY DEF e
    <3> QED BY <1>19, <3>1 DEF Span
  <2>4. k.main = h.main
    BY <1>13
  <2> HIDE DEF O2, a2, z2, own2, R2
  <2>5. /\ Tip(h) \in O => /\ Tip(k) \in O2
                           /\ \A x \in S \ {h.main} : RuleSpan(a, z, x) <= Span(a, z, Tip(h))
                                                   => RuleSpan(a, z, x) <= Span(a2, z2, Tip(k))
        /\ S \ {h.main} \subseteq S
    BY <2>3
  <2> QED BY <2>1, <2>2, <2>4, <2>5, ChainKept
<1>25. Resting(k, B, B, TRUE)
  BY DEF Resting
<1> HIDE DEF O2, a2, z2, own2, R2
<1> QED BY <1>21, <1>24, <1>25 DEF Parsing, Phase

\* the end of process_match (sequitur.c:252-262)
LEMMA UtilityDone ==
  ASSUME NEW h, NEW in, NEW R, NEW O, NEW own, NEW a, NEW z, NEW rank, NEW n, NEW S, NEW C,
         Parsed(h, in, R, O, own, a, z, rank, n, S), Chain(h, O, a, z, S, C), NoSquare(in),
         C # <<>>, Head(C).at = "utility", NEW s, s = h.next[Head(C).this],
         NEW used, used = IF h.rule[s] = Null THEN 2 ELSE h.refcnt[h.rule[s]], NEW k,
         k = IF used >= 2 THEN h
             ELSE IF used = 0 THEN [h EXCEPT !.fault = "abort"] ELSE expand_instance(h, s)
  PROVE  Parsing(k, in, Tail(C), TRUE)
<1> DEFINE f == Head(C)
           B == Tail(C)
           r == f.this
           q == h.rule[s]
           U == Uses(h, O, q)
<1>1. /\ Chain(h, O, a, z, S, B) /\ Pending(h, O, a, z, S, f)
      /\ \A i \in 1 .. Len(B) : B[i].at # "right" => RuleSpan(a, z, B[i].this) < RuleSpan(a, z, f.this)
  BY ChainTail
<1> HIDE DEF B, f
<1>2. /\ Sound(h, in, {h.main}, R, O, own, a, z, rank, n) /\ Tabled(h, O) /\ Spine(h, R, S)
  BY DEF Parsed
<1>3. /\ R \subseteq Symbols /\ O \subseteq Symbols
  BY <1>2, Gives, SMTT(20)
<1>4. r \in S \ {h.main} /\ Tip(h) \in O /\ S \subseteq R /\ s = h.next[r]
  BY <1>1, <1>2 DEF Pending, Spine, f
<1>5. \A i \in 1 .. Len(B) : B[i].at # "right" => RuleSpan(a, z, B[i].this) < RuleSpan(a, z, r)
  BY <1>1
<1> HIDE DEF r
<1>6. s \in O /\ h.next[s] \in O
  BY <1>2, <1>4 DEF Sound, Bodied
<1>7. CASE used >= 2
  <2>1. Resting(h, B, B, TRUE) /\ k = h
    BY <1>7 DEF Resting
  <2> QED BY <1>1, <2>1 DEF Parsing, Phase, B
<1>8. CASE ~ (used >= 2)
  <2>0. /\ used = IF h.rule[s] = Null THEN 2 ELSE h.refcnt[h.rule[s]]
        /\ k = IF used >= 2 THEN h
               ELSE IF used = 0 THEN [h EXCEPT !.fault = "abort"] ELSE expand_instance(h, s)
    OBVIOUS
  <2>1. q # Null /\ used = h.refcnt[q]
    BY ONLY <1>8, <2>0 DEF q
  <2>2. q \in R \ {h.main}
    <3>1. Letter(h, in, a, z, s) \/ Instance(h, in, R, a, z, s)
      BY <1>2, <1>6 DEF Sound, Named
    <3>2. ~ Letter(h, in, a, z, s)
      BY <2>1 DEF Letter
    <3> QED BY <3>1, <3>2 DEF Instance
  <2>3. used = Cardinality(U)
    BY <1>2, <2>1, <2>2 DEF Sound, Counted
  <2>4. s \in U /\ U \subseteq Symbols
    BY <1>3, <1>6 DEF Uses
  <2> HIDE DEF U
  <2>5. IsFiniteSet(U)
    BY <2>4, NullApart, FS_Subset
  <2>6. Cardinality(U) \in Nat /\ Cardinality(U) # 0
    BY <2>4, <2>5, FS_CardinalityType, FS_EmptySet
  <2>7. used = 1
    BY ONLY <1>8, <2>3, <2>6
  <2>8. \E x : U = {x}
    BY <2>3, <2>5, <2>7, FS_Singleton
  <2>9. Uses(h, O, q) = {s}
    BY <2>4, <2>8 DEF U
  <2>10. k = expand_instance(h, s)
    BY ONLY <2>0, <2>7
  <2>11. h.refcnt[q] = 1 /\ h.rule[s] = q
    BY <2>1, <2>7
  <2>12. Chain(h, O, a, z, S, B) /\ r \in S \ {h.main} /\ s = h.next[r] /\ Tip(h) \in O /\ s \in O
    BY <1>1, <1>4, <1>6
  <2> HIDE DEF q
  <2>13. Parsing(k, in, B, TRUE)
    <3>1. /\ Parsed(h, in, R, O, own, a, z, rank, n, S) /\ NoSquare(in) /\ q \in R \ {h.main}
          /\ Lower(B, a, z, r)
      BY <1>5, <2>2 DEF Lower
    <3> QED BY ONLY <2>9, <2>10, <2>11, <2>12, <3>1, Unfolds
  <2> QED BY <2>13 DEF B
<1> QED BY <1>7, <1>8

-----------------------------------------------------------------------------
(* A byte more, and the empty grammar.                                     *)

\* What stands for a part of the input still does when there is more of it.
LEMMA SoundMore ==
  ASSUME NEW h, NEW in, NEW E, NEW R, NEW O, NEW own, NEW a, NEW z, NEW rank, NEW n,
         Sound(h, in, E, R, O, own, a, z, rank, n), NEW b \in Letters, NEW in2, in2 = Append(in, b)
  PROVE  Sound(h, in2, E, R, O, own, a, z, rank, n)
<1>1. /\ Linked(h, R, O, own) /\ Stretched(h, in, R, O, own, a, z) /\ Named(h, in, R, O, a, z)
      /\ in \in Seq(Letters) /\ R \subseteq Symbols /\ O \subseteq Symbols
  BY DEF Sound, Linked
<1>2. /\ in2 \in Seq(Letters) /\ Len(in2) = Len(in) + 1 /\ Len(in) \in Nat
      /\ \A i \in 1 .. Len(in) : in2[i] = in[i]
  BY <1>1
<1>3. Stretched(h, in2, R, O, own, a, z)
  <2>1. \A r \in R : a[r] \in Int /\ a[r] <= Len(in)
    BY <1>1 DEF Stretched
  <2>2. \A r \in R : a[r] <= Len(in2)
    BY <1>2, <2>1
  <2> QED BY <1>1, <2>2 DEF Stretched
<1>4. ASSUME NEW s \in O PROVE Letter(h, in2, a, z, s) \/ Instance(h, in2, R, a, z, s)
  <2>1. a[s] \in Int /\ z[s] \in Int /\ 0 <= a[s] /\ a[s] < z[s] /\ z[s] <= Len(in)
    BY Inside
  <2>2. CASE Letter(h, in, a, z, s)
    <3>1. in2[z[s]] = in[z[s]]
      BY <1>2, <2>1
    <3> QED BY <2>2, <3>1 DEF Letter
  <2>3. CASE Instance(h, in, R, a, z, s)
    <3> DEFINE q == h.rule[s]
    <3>1. /\ q \in R \ {h.main} /\ h.value[s] = h.value[q]
          /\ z[s] - a[s] = a[q] - z[q] /\ SameText(in, a[s], z[q], z[s] - a[s])
      BY <2>3 DEF Instance
    <3> HIDE DEF q
    <3>2. z[q] \in Int /\ a[q] \in Int /\ 0 <= z[q] /\ a[q] <= Len(in)
      BY <1>1, <3>1 DEF Stretched
    <3>3. ASSUME NEW i \in 1 .. z[s] - a[s] PROVE in2[a[s] + i] = in2[z[q] + i]
      <4>1. a[s] + i \in 1 .. Len(in) /\ z[q] + i \in 1 .. Len(in)
        BY <1>2, <2>1, <3>1, <3>2, SMTT(20)
      <4>2. in[a[s] + i] = in[z[q] + i]
        BY <3>1 DEF SameText
      <4>3. in2[a[s] + i] = in[a[s] + i] /\ in2[z[q] + i] = in[z[q] + i]
        BY <1>2, <4>1
      <4> QED BY <4>2, <4>3
    <3>4. SameText(in2, a[s], z[q], z[s] - a[s])
      BY <3>3 DEF SameText
    <3> QED BY <3>1, <3>4 DEF Instance, q
  <2> QED BY <1>1, <2>2, <2>3 DEF Named
<1>5. Named(h, in2, R, O, a, z)
  BY <1>1, <1>4 DEF Named
<1> QED BY <1>2, <1>3, <1>5 DEF Sound

\* A stack of one activation on top of none.
LEMMA OneOnTop ==
  ASSUME NEW x
  PROVE  <<x>> \o <<>> = <<x>>
OBVIOUS

\* The loop of compress: a byte goes to the end of the main rule (comdec.c).
LEMMA Feeds ==
  ASSUME NEW h, NEW in, NEW R, NEW O, NEW own, NEW a, NEW z, NEW rank, NEW n, NEW S,
         Parsed(h, in, R, O, own, a, z, rank, n, S), NEW b \in Letters,
         NEW in2, in2 = Append(in, b), NEW k,
         k = InsertNew(new_symbol(h, b, Null), h.prev[h.main]), NEW fd
  PROVE  /\ k.prev[k.prev[k.main]] \in Symbols \cup {Null}
         /\ \/ Stuck(k)
            \/ Parsing(k, in2, <<Frame("check", k.prev[k.prev[k.main]], Null)>>, fd)
<1> DEFINE x == Next0(h)
           r == h.main
           E == {h.main}
           C == <<>>
<1>1. /\ Sound(h, in, E, R, O, own, a, z, rank, n) /\ Tabled(h, O)
      /\ z[r] = 0 /\ a[r] = Len(in)
  BY DEF Parsed
<1>2. /\ h \in Storage /\ h.fault = "none" /\ r \in Symbols /\ r \in R /\ Linked(h, R, O, own)
      /\ R \cap O = {} /\ R \subseteq Symbols /\ O \subseteq Symbols
      /\ a \in [Symbols -> Int] /\ z \in [Symbols -> Int] /\ in \in Seq(Letters)
      /\ x \in Symbols => x \notin R \cup O
  <2> HIDE DEF E
  <2> QED BY <1>1, Gives
<1>3. /\ in2 \in Seq(Letters) /\ Len(in2) = Len(in) + 1 /\ Len(in) \in Nat /\ in2[Len(in) + 1] = b
  BY <1>2
<1>4. CASE x \notin Symbols
  <2> DEFINE k1 == [h EXCEPT !.fault = "exhausted"]
  <2>1. k = k1
    BY <1>2, <1>4, AppendFails
  <2>2. Stuck(k)
    <3> HIDE DEF E
    <3> QED BY <1>1, <2>1, StuckWhenFull
  <2>3. k.prev = h.prev /\ k.main = r
    BY <1>2, <2>1 DEF Storage
  <2>4. h.prev[r] \in R \cup O
    BY <1>2 DEF Linked
  <2>5. h.prev[h.prev[r]] \in Symbols \cup {Null}
    BY <1>2, <2>4 DEF Storage
  <2> QED BY <2>2, <2>3, <2>5
<1>5. CASE x \in Symbols
  <2>1. \A s \in O : h.rule[s] # r
    <3> SUFFICES ASSUME NEW s \in O, h.rule[s] = r PROVE FALSE
      OBVIOUS
    <3>1. Letter(h, in, a, z, s) \/ Instance(h, in, R, a, z, s)
      BY <1>1 DEF Sound, Named
    <3> QED BY <1>2, <3>1, NullApart DEF Letter, Instance
  <2>2. Uses(h, O, r) = {}
    BY <2>1 DEF Uses
  <2>3. b \in Nat /\ b < FirstNonterminal /\ b # h.value[r]
    <3>1. h.value[r] >= FirstNonterminal /\ h.value[r] \in Nat
      BY <1>1, <1>2 DEF Sound, Named, Storage
    <3>2. b \in Nat /\ b < FirstNonterminal
      BY LettersAssumption
    <3> DEFINE w == h.value[r]
    <3>3. w >= FirstNonterminal /\ w \in Nat /\ FirstNonterminal \in Nat
      BY <3>1, LettersAssumption
    <3> HIDE DEF w
    <3>4. b # w
      BY ONLY <3>2, <3>3
    <3> QED BY <3>2, <3>4 DEF w
  <2>4. h.prev[r] # r => h.value[h.prev[r]] # h.value[r]
    <3>1. h.prev[r] # r => h.prev[r] \in O
      <4>1. h.prev[r] \in R \cup O /\ h.next[h.prev[r]] = r /\ own[h.next[h.prev[r]]] = own[h.prev[r]]
        BY <1>2 DEF Linked
      <4>2. h.prev[r] \in R => h.prev[r] = r
        BY <1>2, <4>1 DEF Linked
      <4> QED BY <4>1, <4>2
    <3>2. \A s \in O : h.value[s] # h.value[r]
      <4> HIDE DEF E
      <4> QED BY <1>1, Values
    <3> QED BY <3>1, <3>2
  <2>5. Null # x /\ Null \in Symbols \cup {Null} /\ x \notin R \cup O
    BY <1>2, <1>5, NullApart
  <2>6. Appended(h, k, x, r, b, Null)
    BY <1>1, <1>2, <1>5, <2>3, <2>4, <2>5, AppendFields
  <2> DEFINE O2 == O \cup {x}
             own2 == [own EXCEPT ![x] = r]
             a2 == [a EXCEPT ![x] = a[r], ![r] = a[r] + 1]
             z2 == [z EXCEPT ![x] = a[r] + 1]
             p == h.prev[r]
  <2>7. \E m : Sound(k, in2, E, R, O2, own2, a2, z2, rank, m)
    <3>1. Spells(h, in2, R, a, z, b, Null, a[r], 1) /\ a[r] + 1 <= Len(in2)
      BY <1>1, <1>3, <2>3 DEF Spells
    <3>2. x \in Symbols \ (R \cup O) /\ x = Next0(h) /\ Null # r /\ r \in R \cap E /\ 1 \in Nat \ {0}
      BY <1>2, <1>5, NullApart
    <3> HIDE DEF E, x
    <3>3. Sound(h, in2, E, R, O, own, a, z, rank, n)
      BY <1>1, SoundMore
    <3> HIDE DEF r
    <3> DEFINE l == 1
    <3>4. l = 1 /\ l \in Nat \ {0} /\ Spells(h, in2, R, a, z, b, Null, a[r], l) /\ a[r] + l <= Len(in2)
      BY <3>1, <3>2
    <3> HIDE DEF l
    <3>5. \E m : Sound(k, in2, E, R, O \cup {x}, [own EXCEPT ![x] = r],
                       [a EXCEPT ![x] = a[r], ![r] = a[r] + l], [z EXCEPT ![x] = a[r] + l], rank, m)
      BY <2>2, <2>6, <3>2, <3>3, <3>4, AppendSound, ZenonT(40)
    <3> QED BY <3>4, <3>5
  <2>8. PICK m : Sound(k, in2, E, R, O2, own2, a2, z2, rank, m)
    BY <2>7
  <2>9. /\ Served(k) /\ Entered(k) = Entered(h) /\ k.main = r
        /\ k.next = [h.next EXCEPT ![x] = r, ![p] = x] /\ k.prev = [h.prev EXCEPT ![x] = p, ![r] = x]
    BY <2>6 DEF Appended
  <2>10. Tabled(k, O2)
    <3>1. ASSUME NEW u \in Entered(h) PROVE u \in O2 /\ k.next[u] \in O2
      <4>1. u \in O /\ h.next[u] \in O /\ u \in Symbols /\ u # x
        BY <1>1, <1>2, <2>5 DEF Tabled
      <4>2. k.next[u] = h.next[u] \/ k.next[u] = x
        BY <1>2, <2>9, <4>1 DEF Storage
      <4> QED BY <4>1, <4>2
    <3> QED BY <2>9, <3>1 DEF Tabled
  <2>11. p \in R \cup O /\ p \in Symbols /\ h.next[p] = r /\ x # r /\ p # x
    BY <1>2, <2>5 DEF Linked
  <2>12. k.prev[r] = x /\ k.prev[x] = p /\ Tip(k) = x
    BY <1>2, <1>5, <2>9, <2>11 DEF Storage, Tip
  <2>13. z2[r] = 0 /\ a2[r] = Len(in2)
    BY <1>1, <1>2, <1>3, <1>5, <2>11
  <2>14. Spine(k, R, {r})
    BY <1>2, <2>9 DEF Spine
  <2> HIDE DEF O2, own2, a2, z2
  <2>15. Parsed(k, in2, R, O2, own2, a2, z2, rank, m, {r})
    BY <2>8, <2>9, <2>10, <2>13, <2>14 DEF Parsed
  <2>16. C \in Seq(Frames) /\ Len(C) = 0
    OBVIOUS
  <2>17. Chain(k, O2, a2, z2, {r}, C) /\ Coming(k, C)
    BY <2>16 DEF Chain, Coming
  <2>18. p \notin Entered(k)
    BY <1>1, <1>2, <2>9, <2>11 DEF Tabled
  <2> DEFINE st == <<Frame("check", p, Null)>>
  <2>19. st = <<Frame("check", p, Null)>> \o C
    BY OneOnTop
  <2> HIDE DEF C, st
  <2>20. Checking(k, R, O2, C, st)
    <3>1. x \in O2 /\ p \in R \cup O2
      BY <2>11 DEF O2
    <3>2. p = k.prev[Tip(k)] /\ Tip(k) \in O2
      BY <2>12, <3>1
    <3> QED BY <2>17, <2>18, <2>19, <3>1, <3>2 DEF Checking
  <2>21. Parsing(k, in2, st, fd)
    BY <2>15, <2>17, <2>20 DEF Parsing, Phase
  <2>22. k.prev[k.prev[k.main]] = p
    BY <2>9, <2>12
  <2> QED BY <2>11, <2>21, <2>22 DEF st
<1> QED BY <1>4, <1>5

\* init_symbols, init_rules, init_digram_hash and the main rule (comdec.c).
LEMMA StartFields ==
  /\ Start \in Storage /\ Start.fault = "none" /\ Start.main = 0 /\ Start.num = 1
  /\ Start.recycled = Null /\ Start.nextvalue = FirstNonterminal + 1
  /\ Start.next[0] = 0 /\ Start.prev[0] = 0 /\ Start.nextr[0] = 0 /\ Start.prevr[0] = 0
  /\ Start.rule[0] = 0 /\ Start.value[0] = FirstNonterminal /\ Start.refcnt[0] = 0
  /\ \A i \in Slots : Start.table[i] = Null
<1> DEFINE zero == [s \in Symbols |-> 0]
           null == [s \in Symbols |-> Null]
           h == [value |-> zero, refcnt |-> zero, next |-> null, prev |-> null, nextr |-> null,
                 prevr |-> null, rule |-> null, new |-> Null, num |-> 0, recycled |-> Null,
                 nextvalue |-> FirstNonterminal, main |-> Null, fault |-> "none",
                 table |-> [i \in Slots |-> Null]]
           e == new_symbol(h, FirstNonterminal, Null)
           k == new_rule(h)
<1>1. 0 \in Symbols /\ FirstNonterminal \in Nat /\ MaxSymbols \in Nat /\ Null \notin Symbols
  BY SizesAssumption, LettersAssumption, NullApart DEF Symbols
<1>2. zero \in [Symbols -> Nat] /\ null \in [Symbols -> Symbols \cup {Null}]
      /\ \A s \in Symbols : zero[s] = 0 /\ null[s] = Null
  BY <1>1
<1>3. h \in Storage
  <2> HIDE DEF zero, null
  <2> QED BY <1>1, <1>2 DEF Storage
<1>4. /\ h.value = zero /\ h.refcnt = zero /\ h.next = null /\ h.prev = null /\ h.nextr = null
      /\ h.prevr = null /\ h.rule = null /\ h.num = 0 /\ h.recycled = Null
      /\ h.nextvalue = FirstNonterminal /\ h.main = Null /\ h.fault = "none"
      /\ h.table = [i \in Slots |-> Null]
  <2> HIDE DEF zero, null
  <2> QED OBVIOUS
<1>5. Start = add_rule(k, k.new)
  BY DEF Start
<1> HIDE DEF h, zero, null
<1>6. Next0(h) = 0
  BY <1>4 DEF Next0
<1>7. Created(h, e, 0, FirstNonterminal, Null)
  <2>1. Next0(h) \in Symbols /\ Null \in Symbols \cup {Null} /\ Null # Next0(h)
    BY <1>1, <1>6
  <2> QED BY <1>1, <1>3, <1>4, <1>6, <2>1, NewSymbolFields
<1>8. /\ e \in Storage /\ e.fault = "none" /\ e.new = 0
      /\ e.value = [zero EXCEPT ![0] = FirstNonterminal] /\ e.refcnt[0] = 0
      /\ e.num = 1 /\ e.recycled = Null /\ e.nextvalue = FirstNonterminal /\ e.main = Null
      /\ e.table = [i \in Slots |-> Null]
  BY <1>1, <1>2, <1>4, <1>7 DEF Created
<1>9. k = [e EXCEPT !.nextvalue = @ + 1, !.rule[0] = 0, !.nextr[0] = 0, !.prevr[0] = 0,
                    !.next[0] = 0, !.prev[0] = 0]
  <2>1. new_symbol(h, h.nextvalue, Null) = e
    BY <1>4
  <2> HIDE DEF e
  <2> QED BY <1>8, <2>1 DEF new_rule
<1> HIDE DEF e, k
<1>10. /\ k \in Storage /\ k.fault = "none" /\ k.new = 0 /\ k.main = Null
       /\ k.value = e.value /\ k.refcnt = e.refcnt /\ k.num = 1 /\ k.recycled = Null
       /\ k.nextvalue = FirstNonterminal + 1 /\ k.table = e.table
       /\ k.next[0] = 0 /\ k.prev[0] = 0 /\ k.rule[0] = 0
  <2>1. /\ e.next \in [Symbols -> Symbols \cup {Null}] /\ e.prev \in [Symbols -> Symbols \cup {Null}]
        /\ e.nextr \in [Symbols -> Symbols \cup {Null}] /\ e.prevr \in [Symbols -> Symbols \cup {Null}]
        /\ e.rule \in [Symbols -> Symbols \cup {Null}] /\ e.nextvalue \in Nat
    BY <1>8 DEF Storage
  <2>2. /\ k.fault = "none" /\ k.new = 0 /\ k.main = Null
        /\ k.value = e.value /\ k.refcnt = e.refcnt /\ k.num = 1 /\ k.recycled = Null
        /\ k.nextvalue = e.nextvalue + 1 /\ k.table = e.table
        /\ k.next = [e.next EXCEPT ![0] = 0] /\ k.prev = [e.prev EXCEPT ![0] = 0]
        /\ k.nextr = [e.nextr EXCEPT ![0] = 0] /\ k.prevr = [e.prevr EXCEPT ![0] = 0]
        /\ k.rule = [e.rule EXCEPT ![0] = 0]
    BY <1>8, <1>9 DEF Storage
  <2>3. /\ k.next \in [Symbols -> Symbols \cup {Null}] /\ k.prev \in [Symbols -> Symbols \cup {Null}]
        /\ k.nextr \in [Symbols -> Symbols \cup {Null}] /\ k.prevr \in [Symbols -> Symbols \cup {Null}]
        /\ k.rule \in [Symbols -> Symbols \cup {Null}] /\ k.nextvalue \in Nat
    BY <1>1, <2>1, <2>2
  <2>4. k \in Storage
    BY <1>8, <1>9, <2>2, <2>3 DEF Storage
  <2> QED BY <1>1, <1>8, <2>1, <2>2, <2>4
<1>11. Start = [k EXCEPT !.main = 0, !.nextr[0] = 0, !.prevr[0] = 0]
  BY <1>5, <1>10 DEF add_rule
<1>12. /\ Start \in Storage /\ Start.fault = "none" /\ Start.main = 0
       /\ Start.value = k.value /\ Start.refcnt = k.refcnt /\ Start.num = 1 /\ Start.recycled = Null
       /\ Start.nextvalue = FirstNonterminal + 1 /\ Start.table = k.table /\ Start.rule = k.rule
       /\ Start.next = k.next /\ Start.prev = k.prev /\ Start.nextr[0] = 0 /\ Start.prevr[0] = 0
  BY <1>1, <1>10, <1>11 DEF Storage
<1> QED BY <1>1, <1>2, <1>8, <1>10, <1>12

\* The empty grammar parses the empty input.
LEMMA Starts ==
  ASSUME NEW fd
  PROVE  Parsing(Start, <<>>, <<>>, fd)
<1> DEFINE h == Start
           in == <<>>
           R == {0}
           O == {}
           E == {h.main}
           f == [s \in Symbols |-> 0]
           S == {h.main}
           C == <<>>
<1>1. 0 \in Symbols /\ FirstNonterminal \in Nat /\ MaxSymbols \in Nat \ {0} /\ Null \notin Symbols
  BY SizesAssumption, LettersAssumption, NullApart DEF Symbols
<1>2. in \in Seq(Letters) /\ Len(in) = 0 /\ C \in Seq(Frames) /\ Len(C) = 0 /\ C = <<>>
  OBVIOUS
<1>3. /\ h \in Storage /\ h.fault = "none" /\ h.main = 0 /\ h.num = 1
      /\ h.recycled = Null /\ h.nextvalue = FirstNonterminal + 1
      /\ h.next[0] = 0 /\ h.prev[0] = 0 /\ h.nextr[0] = 0 /\ h.prevr[0] = 0
      /\ h.rule[0] = 0 /\ h.value[0] = FirstNonterminal /\ h.refcnt[0] = 0
      /\ \A i \in Slots : h.table[i] = Null
  BY StartFields
<1>4. f \in [Symbols -> Symbols] /\ f \in [Symbols -> Int] /\ f[0] = 0
  BY <1>1
<1> HIDE DEF h, in, f, C
<1>5. Linked(h, R, O, f) /\ Stretched(h, in, R, O, f, f, f) /\ Ringed(h, R)
  BY <1>1, <1>2, <1>3, <1>4 DEF Linked, Stretched, Ringed
<1>6. Named(h, in, R, O, f, f)
  BY <1>1, <1>3 DEF Named
<1>7. Counted(h, R, O)
  <2>1. \A r : Uses(h, O, r) = {}
    BY DEF Uses
  <2>2. Cardinality({}) = 0
    BY FS_EmptySet
  <2> QED BY <1>3, <2>1, <2>2 DEF Counted
<1>8. Spared(h, R, O, f, 0)
  <2>1. 0 .. h.num - 1 = {0}
    BY <1>3
  <2>2. Waiting(h, R, O) = {}
    BY <2>1 DEF Waiting
  <2>3. h.num \in 0 .. MaxSymbols
    BY <1>1, <1>3
  <2> QED BY <1>3, <1>4, <2>1, <2>2, <2>3 DEF Spared
<1>9. Bodied(h, R, O, E)
  BY <1>3 DEF Bodied
<1>10. Sound(h, in, E, R, O, f, f, f, f, 0)
  BY <1>2, <1>3, <1>5, <1>6, <1>7, <1>8, <1>9 DEF Sound
<1>11. Tabled(h, O)
  <2>1. Entered(h) = {}
    BY <1>1, <1>3 DEF Entered
  <2>2. Served(h)
    BY <1>1, <1>3, <2>1 DEF Served
  <2> QED BY <2>1, <2>2 DEF Tabled
<1>12. Spine(h, R, S)
  BY <1>3 DEF Spine
<1>13. Parsed(h, in, R, O, f, f, f, f, 0, S)
  <2>1. f[h.main] = 0 /\ f[h.main] = Len(in)
    BY <1>2, <1>3, <1>4
  <2> HIDE DEF R, O, S
  <2> QED BY <1>10, <1>11, <1>12, <2>1 DEF Parsed
<1>14. Chain(h, O, f, f, S, C) /\ Resting(h, C, C, fd)
  BY <1>2 DEF Chain, Resting, Coming
<1> HIDE DEF R, O, S
<1>15. Parsing(h, in, C, fd)
  BY <1>13, <1>14 DEF Parsing, Phase
<1> QED BY <1>15 DEF h, in, C

-----------------------------------------------------------------------------
(* The steps.                                                              *)

\* What the topmost activation is in each phase.
RestTop(h, C, st, fd) ==
  /\ st = C /\ (~fd => Coming(h, C))
  /\ st # <<>> => Head(st).at \in {"right", "enter", "utility"}
CheckTop(h, R, O, C, st) ==
  /\ st # <<>> /\ Head(st).at = "check" /\ Head(st).other = Null /\ Tail(st) = C
  /\ Head(st).this \in R \cup O /\ Tip(h) \in O /\ Coming(h, C)
  /\ Head(st).this \in {Tip(h), h.prev[Tip(h)]} /\ Head(st).this \notin Entered(h)
MatchTop(h, O, C, st) ==
  /\ st # <<>> /\ Head(st).at = "match" /\ Tail(st) = C
  /\ Head(st).this \in O /\ Head(st).other \in O
  /\ Ends(h, O, Head(st).this) /\ Twin(h, Head(st).this, Head(st).other)
ReplaceTop(h, R, O, C, st) ==
  /\ st # <<>> /\ Head(st).at = "replace"
  /\ Head(st).this \in O /\ Head(st).other \in R
  /\ Repeated(h, R, O, Head(st).this, Head(st).other)
  /\ \E f \in Frames : /\ Tail(st) = <<f>> \o C /\ f.this = Head(st).other
                       /\ f.at = "utility" \/ (f.at = "enter" /\ Missing(h, Head(st).this))
TwinTop(h, R, O, C, st) ==
  \E s, o \in O, r \in R :
    /\ st # <<>> /\ Head(st).at = "replace"
    /\ Head(st).this = o /\ Head(st).other = r /\ Tail(st) = <<Frame("second", s, r)>> \o C
    /\ Repeated(h, R, O, s, r) /\ Twin(h, s, o) /\ Uses(h, O, r) = {}
    /\ h.prev[o] \notin R \/ h.next[h.next[o]] \notin R
SecondTop(h, R, O, C, st) ==
  \E s \in O, r \in R :
    /\ Repeated(h, R, O, s, r) /\ Missing(h, s)
    /\ st # <<>> /\ Head(st).at = "second" /\ Head(st).this = s /\ Head(st).other = r /\ Tail(st) = C
SideTop(h, R, O, C, st, fd) ==
  \E s \in O, r \in R, t \in O, p \in R \cup O :
    /\ Repeated(h, R, O, s, r) /\ Missing(h, s) /\ Single(h, O, r, t) /\ h.next[p] = t
    /\ st # <<>> /\ Head(st).other = Null
    /\ \/ /\ Head(st).at = "check" /\ Head(st).this = p /\ p \notin Entered(h)
          /\ Tail(st) = <<Frame("right", p, Null), Frame("second", s, r)>> \o C
       \/ /\ Head(st).at = "right" /\ Head(st).this = p /\ ~fd
          /\ Tail(st) = <<Frame("second", s, r)>> \o C
       \/ /\ Head(st).at = "check" /\ Head(st).this = t
          /\ Tail(st) = <<Frame("second", s, r)>> \o C

\* What is on top of the stack when the compressor rests, checks a digram or has a match.
LEMMA Forms ==
  ASSUME NEW h, NEW O, NEW a, NEW z, NEW S, NEW C, Chain(h, O, a, z, S, C),
         NEW R, R \subseteq Symbols, O \subseteq Symbols, NEW st, NEW fd
  PROVE  /\ Resting(h, C, st, fd) => st \in Seq(Activations) /\ RestTop(h, C, st, fd)
         /\ Checking(h, R, O, C, st) => st \in Seq(Activations) /\ CheckTop(h, R, O, C, st)
         /\ Matching(h, O, C, st) => st \in Seq(Activations) /\ MatchTop(h, O, C, st)
<1>1. C \in Seq(Frames) /\ C \in Seq(Activations)
  BY FramesAct DEF Chain
<1>2. C # <<>> => Head(C).at \in {"right", "enter", "utility"}
  BY ChainTail
<1>3. Resting(h, C, st, fd) => st \in Seq(Activations) /\ RestTop(h, C, st, fd)
  BY <1>1, <1>2 DEF Resting, RestTop
<1>4. ASSUME Checking(h, R, O, C, st)
      PROVE  st \in Seq(Activations) /\ CheckTop(h, R, O, C, st)
  <2>1. PICK s \in R \cup O :
          /\ st = <<Frame("check", s, Null)>> \o C
          /\ Tip(h) \in O /\ s \in {Tip(h), h.prev[Tip(h)]} /\ s \notin Entered(h) /\ Coming(h, C)
    BY <1>4 DEF Checking
  <2> DEFINE f == Frame("check", s, Null)
  <2>2. f \in Activations /\ f.at = "check" /\ f.this = s /\ f.other = Null
    BY DEF Frame, Activations, Ats
  <2> HIDE DEF f
  <2>3. st = <<f>> \o C
    BY <2>1 DEF f
  <2>4. st \in Seq(Activations) /\ st # <<>> /\ Head(st) = f /\ Tail(st) = C
    BY <1>1, <2>2, <2>3, OnTop
  <2> QED BY <2>1, <2>2, <2>4 DEF CheckTop
<1>5. ASSUME Matching(h, O, C, st)
      PROVE  st \in Seq(Activations) /\ MatchTop(h, O, C, st)
  <2>1. PICK s \in O, o \in O : st = <<Frame("match", s, o)>> \o C /\ Ends(h, O, s) /\ Twin(h, s, o)
    BY <1>5 DEF Matching
  <2> DEFINE f == Frame("match", s, o)
  <2>2. f \in Activations /\ f.at = "match" /\ f.this = s /\ f.other = o
    BY DEF Frame, Activations, Ats
  <2> HIDE DEF f
  <2>3. st = <<f>> \o C
    BY <2>1 DEF f
  <2>4. st \in Seq(Activations) /\ st # <<>> /\ Head(st) = f /\ Tail(st) = C
    BY <1>1, <2>2, <2>3, OnTop
  <2> QED BY <2>1, <2>2, <2>4 DEF MatchTop
<1> QED BY <1>3, <1>4, <1>5

\* What is on top of the stack when the last digram is to be replaced.
LEMMA ReplacingForm ==
  ASSUME NEW h, NEW O, NEW a, NEW z, NEW S, NEW C, Chain(h, O, a, z, S, C),
         NEW R, R \subseteq Symbols, O \subseteq Symbols, NEW st, Replacing(h, R, O, C, st)
  PROVE  st \in Seq(Activations) /\ ReplaceTop(h, R, O, C, st)
<1>1. C \in Seq(Frames) /\ C \in Seq(Activations)
  BY FramesAct DEF Chain
<1>2. PICK s \in O, r \in R, f \in Frames :
        /\ st = <<Frame("replace", s, r), f>> \o C /\ Repeated(h, R, O, s, r)
        /\ f.this = r /\ (f.at = "utility" \/ (f.at = "enter" /\ Missing(h, s)))
  BY DEF Replacing
<1> DEFINE x == Frame("replace", s, r)
<1>3. x \in Activations /\ x.at = "replace" /\ x.this = s /\ x.other = r /\ f \in Activations
  BY FramesAct DEF Frame, Activations, Ats
<1> HIDE DEF x
<1>4. st = <<x, f>> \o C
  BY <1>2 DEF x
<1>5. st \in Seq(Activations) /\ st # <<>> /\ Head(st) = x /\ Tail(st) = <<f>> \o C
  BY <1>1, <1>3, <1>4, TwoOnTop
<1> QED BY <1>2, <1>3, <1>5 DEF ReplaceTop

\* What is on top of the stack when the first of two digrams is to be replaced.
LEMMA DoublingForm ==
  ASSUME NEW h, NEW O, NEW a, NEW z, NEW S, NEW C, Chain(h, O, a, z, S, C),
         NEW R, R \subseteq Symbols, O \subseteq Symbols, NEW st, Doubling(h, R, O, C, st)
  PROVE  st \in Seq(Activations) /\ TwinTop(h, R, O, C, st)
<1>1. C \in Seq(Frames) /\ C \in Seq(Activations)
  BY FramesAct DEF Chain
<1>2. PICK s \in O, o \in O, r \in R :
        /\ st = <<Frame("replace", o, r), Frame("second", s, r)>> \o C
        /\ Repeated(h, R, O, s, r) /\ Twin(h, s, o) /\ Uses(h, O, r) = {}
        /\ h.prev[o] \notin R \/ h.next[h.next[o]] \notin R
  BY DEF Doubling
<1> DEFINE x == Frame("replace", o, r)
           y == Frame("second", s, r)
<1>3. x \in Activations /\ x.at = "replace" /\ x.this = o /\ x.other = r /\ y \in Activations
  BY DEF Frame, Activations, Ats
<1> HIDE DEF x, y
<1>4. st = <<x, y>> \o C
  BY <1>2 DEF x, y
<1>5. st \in Seq(Activations) /\ st # <<>> /\ Head(st) = x /\ Tail(st) = <<y>> \o C
  BY <1>1, <1>3, <1>4, TwoOnTop
<1> QED BY <1>2, <1>3, <1>5 DEF y, TwinTop

\* What is on top of the stack once the first of two digrams has been replaced.
LEMMA DoubledForm ==
  ASSUME NEW h, NEW O, NEW a, NEW z, NEW S, NEW C, Chain(h, O, a, z, S, C),
         NEW R, R \subseteq Symbols, O \subseteq Symbols, NEW st, NEW fd, Doubled(h, R, O, C, st, fd)
  PROVE  st \in Seq(Activations) /\ (SecondTop(h, R, O, C, st) \/ SideTop(h, R, O, C, st, fd))
<1>1. C \in Seq(Frames) /\ C \in Seq(Activations)
  BY FramesAct DEF Chain
<1>2. PICK s \in O, r \in R :
        /\ Repeated(h, R, O, s, r) /\ Missing(h, s)
        /\ \/ st = <<Frame("second", s, r)>> \o C
           \/ \E t \in O, p \in R \cup O :
                /\ Single(h, O, r, t) /\ h.next[p] = t
                /\ \/ /\ p \notin Entered(h)
                      /\ st = <<Frame("check", p, Null), Frame("right", p, Null), Frame("second", s, r)>> \o C
                   \/ ~fd /\ st = <<Frame("right", p, Null), Frame("second", s, r)>> \o C
                   \/ st = <<Frame("check", t, Null), Frame("second", s, r)>> \o C
  BY DEF Doubled
<1> DEFINE y == Frame("second", s, r)
           c(p) == Frame("check", p, Null)
           w(p) == Frame("right", p, Null)
<1>3. y \in Activations /\ y.at = "second" /\ y.this = s /\ y.other = r
  BY DEF Frame, Activations, Ats
<1>4. \A p \in R \cup O : /\ c(p) \in Activations /\ w(p) \in Activations
                         /\ c(p).at = "check" /\ c(p).this = p /\ w(p).at = "right" /\ w(p).this = p
                         /\ c(p).other = Null /\ w(p).other = Null
  BY DEF Frame, Activations, Ats
<1>5. CASE st = <<Frame("second", s, r)>> \o C
  <2> HIDE DEF y
  <2>1. st = <<y>> \o C
    BY <1>5 DEF y
  <2>2. st \in Seq(Activations) /\ st # <<>> /\ Head(st) = y /\ Tail(st) = C
    BY <1>1, <1>3, <2>1, OnTop
  <2> QED BY <1>2, <1>3, <2>2 DEF SecondTop
<1>6. ASSUME NEW t \in O, NEW p \in R \cup O, Single(h, O, r, t), h.next[p] = t, p \notin Entered(h),
             st = <<Frame("check", p, Null), Frame("right", p, Null), Frame("second", s, r)>> \o C
      PROVE  /\ st \in Seq(Activations) /\ st # <<>> /\ Head(st).at = "check" /\ Head(st).this = p
             /\ Head(st).other = Null
             /\ Tail(st) = <<Frame("right", p, Null), Frame("second", s, r)>> \o C
  <2> DEFINE cp == c(p)
             wp == w(p)
  <2>1. cp \in Activations /\ wp \in Activations /\ cp.at = "check" /\ cp.this = p /\ cp.other = Null
    BY <1>4
  <2> HIDE DEF y, c, w, cp, wp
  <2>2. st = <<cp, wp, y>> \o C
    BY <1>6 DEF y, c, w, cp, wp
  <2>3. st \in Seq(Activations) /\ st # <<>> /\ Head(st) = cp /\ Tail(st) = <<wp, y>> \o C
    BY <1>1, <1>3, <2>1, <2>2, ThreeOnTop
  <2> QED BY <2>1, <2>3 DEF y, c, w, cp, wp
<1>7. ASSUME NEW t \in O, NEW p \in R \cup O,
             st = <<Frame("right", p, Null), Frame("second", s, r)>> \o C
      PROVE  /\ st \in Seq(Activations) /\ st # <<>> /\ Head(st).at = "right" /\ Head(st).this = p
             /\ Head(st).other = Null
             /\ Tail(st) = <<Frame("second", s, r)>> \o C
  <2> DEFINE wp == w(p)
  <2>1. wp \in Activations /\ wp.at = "right" /\ wp.this = p /\ wp.other = Null
    BY <1>4
  <2> HIDE DEF y, c, w, wp
  <2>2. st = <<wp, y>> \o C
    BY <1>7 DEF y, w, wp
  <2>3. st \in Seq(Activations) /\ st # <<>> /\ Head(st) = wp /\ Tail(st) = <<y>> \o C
    BY <1>1, <1>3, <2>1, <2>2, TwoOnTop
  <2> QED BY <2>1, <2>3 DEF y
<1>8. ASSUME NEW t \in O,
             st = <<Frame("check", t, Null), Frame("second", s, r)>> \o C
      PROVE  /\ st \in Seq(Activations) /\ st # <<>> /\ Head(st).at = "check" /\ Head(st).this = t
             /\ Head(st).other = Null
             /\ Tail(st) = <<Frame("second", s, r)>> \o C
  <2> DEFINE cp == c(t)
  <2>1. cp \in Activations /\ cp.at = "check" /\ cp.this = t /\ cp.other = Null
    BY <1>4
  <2> HIDE DEF y, c, w, cp
  <2>2. st = <<cp, y>> \o C
    BY <1>8 DEF y, c, cp
  <2>3. st \in Seq(Activations) /\ st # <<>> /\ Head(st) = cp /\ Tail(st) = <<y>> \o C
    BY <1>1, <1>3, <2>1, <2>2, TwoOnTop
  <2> QED BY <2>1, <2>3 DEF y
<1> HIDE DEF y, c, w
<1>9. CASE ~ (st = <<Frame("second", s, r)>> \o C)
  <2>1. PICK t \in O, p \in R \cup O :
          /\ Single(h, O, r, t) /\ h.next[p] = t
          /\ \/ /\ p \notin Entered(h)
                /\ st = <<Frame("check", p, Null), Frame("right", p, Null), Frame("second", s, r)>> \o C
             \/ ~fd /\ st = <<Frame("right", p, Null), Frame("second", s, r)>> \o C
             \/ st = <<Frame("check", t, Null), Frame("second", s, r)>> \o C
    BY <1>2, <1>9
  <2>2. CASE /\ p \notin Entered(h)
             /\ st = <<Frame("check", p, Null), Frame("right", p, Null), Frame("second", s, r)>> \o C
    BY <1>2, <1>6, <2>1, <2>2 DEF SideTop
  <2>3. CASE ~fd /\ st = <<Frame("right", p, Null), Frame("second", s, r)>> \o C
    BY <1>2, <1>7, <2>1, <2>3 DEF SideTop
  <2>4. CASE st = <<Frame("check", t, Null), Frame("second", s, r)>> \o C
    BY <1>2, <1>8, <2>1, <2>4 DEF SideTop
  <2> QED BY <2>1, <2>2, <2>3, <2>4
<1> QED BY <1>5, <1>9

\* The top of the stack in every phase.
LEMMA Tops ==
  ASSUME NEW h, NEW in, NEW st, NEW fd, Parsing(h, in, st, fd)
  PROVE  \E R, O, own, a, z, rank, n, S, C :
           /\ Parsed(h, in, R, O, own, a, z, rank, n, S) /\ Chain(h, O, a, z, S, C)
           /\ R \subseteq Symbols /\ O \subseteq Symbols /\ st \in Seq(Activations)
           /\ \/ RestTop(h, C, st, fd) \/ CheckTop(h, R, O, C, st) \/ MatchTop(h, O, C, st)
              \/ ReplaceTop(h, R, O, C, st) \/ TwinTop(h, R, O, C, st)
              \/ SecondTop(h, R, O, C, st) \/ SideTop(h, R, O, C, st, fd)
<1>1. PICK R, O, own, a, z, rank, n, S, C :
        /\ Parsed(h, in, R, O, own, a, z, rank, n, S)
        /\ Chain(h, O, a, z, S, C) /\ Phase(h, R, O, C, st, fd)
  BY DEF Parsing
<1>2. R \subseteq Symbols /\ O \subseteq Symbols
  BY <1>1, Gives DEF Parsed
<1>3. /\ st \in Seq(Activations)
      /\ \/ RestTop(h, C, st, fd) \/ CheckTop(h, R, O, C, st) \/ MatchTop(h, O, C, st)
         \/ ReplaceTop(h, R, O, C, st) \/ TwinTop(h, R, O, C, st)
         \/ SecondTop(h, R, O, C, st) \/ SideTop(h, R, O, C, st, fd)
  <2>1. CASE Resting(h, C, st, fd)
    BY <1>1, <1>2, <2>1, Forms
  <2>2. CASE Checking(h, R, O, C, st)
    BY <1>1, <1>2, <2>2, Forms
  <2>3. CASE Matching(h, O, C, st)
    BY <1>1, <1>2, <2>3, Forms
  <2>4. CASE Replacing(h, R, O, C, st)
    BY <1>1, <1>2, <2>4, ReplacingForm
  <2>5. CASE Doubling(h, R, O, C, st)
    BY <1>1, <1>2, <2>5, DoublingForm
  <2>6. CASE Doubled(h, R, O, C, st, fd)
    BY <1>1, <1>2, <2>6, DoubledForm
  <2> QED BY <1>1, <2>1, <2>2, <2>3, <2>4, <2>5, <2>6 DEF Phase
<1> QED BY <1>1, <1>2, <1>3

\* What always holds of a state that parses.
LEMMA ParsingTyped ==
  ASSUME NEW h, NEW in, NEW st, NEW fd, Parsing(h, in, st, fd)
  PROVE  /\ h \in Storage /\ h.fault = "none" /\ h.main \in Symbols /\ h.num \in 0 .. MaxSymbols
         /\ in \in Seq(Letters) /\ st \in Seq(Activations)
<1>1. PICK R, O, own, a, z, rank, n, S, C :
        /\ Parsed(h, in, R, O, own, a, z, rank, n, S) /\ Chain(h, O, a, z, S, C)
        /\ R \subseteq Symbols /\ O \subseteq Symbols /\ st \in Seq(Activations)
        /\ \/ RestTop(h, C, st, fd) \/ CheckTop(h, R, O, C, st) \/ MatchTop(h, O, C, st)
           \/ ReplaceTop(h, R, O, C, st) \/ TwinTop(h, R, O, C, st)
           \/ SecondTop(h, R, O, C, st) \/ SideTop(h, R, O, C, st, fd)
  BY Tops
<1>2. Sound(h, in, {h.main}, R, O, own, a, z, rank, n)
  BY <1>1 DEF Parsed
<1>3. /\ h \in Storage /\ h.fault = "none" /\ h.main \in Symbols /\ h.num \in 0 .. MaxSymbols
      /\ in \in Seq(Letters)
  BY <1>2, Gives
<1> QED BY <1>1, <1>3

\* check_digram (sequitur.c:290-325)
LEMMA Checks ==
  ASSUME NEW h, NEW in, NEW st, NEW fd, Parsing(h, in, st, fd), st # <<>>, Head(st).at = "check",
         NEW s, s = Head(st).this, NEW m, m = digram_get(h, h.value[s], h.value[h.next[s]])
  PROVE  /\ Parsing(h, in, Tail(st), FALSE)
         /\ ~ IsHead(h, s) /\ ~ IsHead(h, h.next[s]) /\ m = Null
              => Parsing(digram_put(h, s), in, Tail(st), FALSE)
         /\ ~ IsHead(h, s) /\ ~ IsHead(h, h.next[s]) /\ m # Null /\ h.next[m] # s
              => Parsing(h, in, <<Frame("match", s, m)>> \o Tail(st), fd)
<1>1. PICK R, O, own, a, z, rank, n, S, C :
        /\ Parsed(h, in, R, O, own, a, z, rank, n, S) /\ Chain(h, O, a, z, S, C)
        /\ R \subseteq Symbols /\ O \subseteq Symbols /\ st \in Seq(Activations)
        /\ \/ RestTop(h, C, st, fd) \/ CheckTop(h, R, O, C, st) \/ MatchTop(h, O, C, st)
           \/ ReplaceTop(h, R, O, C, st) \/ TwinTop(h, R, O, C, st)
           \/ SecondTop(h, R, O, C, st) \/ SideTop(h, R, O, C, st, fd)
  BY Tops
<1>2. ~ RestTop(h, C, st, fd) /\ ~ MatchTop(h, O, C, st) /\ ~ ReplaceTop(h, R, O, C, st)
      /\ ~ TwinTop(h, R, O, C, st) /\ ~ SecondTop(h, R, O, C, st)
  BY DEF RestTop, MatchTop, ReplaceTop, TwinTop, SecondTop
<1>3. CASE CheckTop(h, R, O, C, st)
  <2>1. /\ Tail(st) = C /\ s \in R \cup O /\ Tip(h) \in O /\ Coming(h, C)
        /\ s \in {Tip(h), h.prev[Tip(h)]} /\ s \notin Entered(h)
    BY <1>3 DEF CheckTop
  <2>2. /\ Parsing(h, in, C, FALSE)
        /\ ~ IsHead(h, s) /\ ~ IsHead(h, h.next[s]) /\ m = Null => Parsing(digram_put(h, s), in, C, FALSE)
        /\ ~ IsHead(h, s) /\ ~ IsHead(h, h.next[s]) /\ m # Null /\ h.next[m] # s
              => Parsing(h, in, <<Frame("match", s, m)>> \o C, fd)
    <3>1. /\ Parsed(h, in, R, O, own, a, z, rank, n, S) /\ Chain(h, O, a, z, S, C)
          /\ m = digram_get(h, h.value[s], h.value[h.next[s]])
      BY <1>1
    <3> QED BY ONLY <2>1, <3>1, CheckEnd
  <2> QED BY <2>1, <2>2
<1>4. CASE SideTop(h, R, O, C, st, fd)
  <2>1. PICK q \in O, r \in R, t \in O, p \in R \cup O :
          /\ Repeated(h, R, O, q, r) /\ Missing(h, q) /\ Single(h, O, r, t) /\ h.next[p] = t
          /\ \/ /\ s = p /\ p \notin Entered(h)
                /\ Tail(st) = <<Frame("right", p, Null), Frame("second", q, r)>> \o C
             \/ /\ s = t /\ Tail(st) = <<Frame("second", q, r)>> \o C
    BY <1>4 DEF SideTop
  <2> DEFINE D == Tail(st)
  <2>2. CASE s = p /\ p \notin Entered(h) /\ D = <<Frame("right", p, Null), Frame("second", q, r)>> \o C
    <3> HIDE DEF D
    <3>1. /\ Parsed(h, in, R, O, own, a, z, rank, n, S) /\ Chain(h, O, a, z, S, C)
          /\ p \notin Entered(h) /\ D = <<Frame("right", p, Null), Frame("second", q, r)>> \o C
      BY <1>1, <2>2
    <3>2. Vain(h, in, p, D)
      BY ONLY <2>1, <3>1, CheckLeft
    <3> QED BY <2>2, <3>2 DEF D, Vain
  <2>3. CASE s = t /\ D = <<Frame("second", q, r)>> \o C
    <3> HIDE DEF D
    <3>1. /\ Parsed(h, in, R, O, own, a, z, rank, n, S) /\ Chain(h, O, a, z, S, C)
          /\ D = <<Frame("second", q, r)>> \o C
      BY <1>1, <2>3
    <3>2. Vain(h, in, t, D)
      BY ONLY <2>1, <3>1, CheckNew
    <3> QED BY <2>3, <3>2 DEF D, Vain
  <2> QED BY <2>1, <2>2, <2>3
<1> QED BY <1>1, <1>2, <1>3, <1>4

\* Only one phase has a match on top.
LEMMA MatchPhase ==
  ASSUME NEW h, NEW in, NEW st, NEW fd, Parsing(h, in, st, fd), st # <<>>, Head(st).at = "match"
  PROVE  \E R, O, own, a, z, rank, n, S :
           /\ Parsed(h, in, R, O, own, a, z, rank, n, S) /\ Chain(h, O, a, z, S, Tail(st))
           /\ Head(st).this \in O /\ Head(st).other \in O
           /\ Ends(h, O, Head(st).this) /\ Twin(h, Head(st).this, Head(st).other)
<1>1. PICK R, O, own, a, z, rank, n, S, C :
        /\ Parsed(h, in, R, O, own, a, z, rank, n, S) /\ Chain(h, O, a, z, S, C)
        /\ R \subseteq Symbols /\ O \subseteq Symbols /\ st \in Seq(Activations)
        /\ \/ RestTop(h, C, st, fd) \/ CheckTop(h, R, O, C, st) \/ MatchTop(h, O, C, st)
           \/ ReplaceTop(h, R, O, C, st) \/ TwinTop(h, R, O, C, st)
           \/ SecondTop(h, R, O, C, st) \/ SideTop(h, R, O, C, st, fd)
  BY Tops
<1>2. ~ RestTop(h, C, st, fd) /\ ~ CheckTop(h, R, O, C, st) /\ ~ ReplaceTop(h, R, O, C, st)
      /\ ~ TwinTop(h, R, O, C, st) /\ ~ SecondTop(h, R, O, C, st) /\ ~ SideTop(h, R, O, C, st, fd)
  BY DEF RestTop, CheckTop, ReplaceTop, TwinTop, SecondTop, SideTop
<1>3. /\ Tail(st) = C /\ Head(st).this \in O /\ Head(st).other \in O
      /\ Ends(h, O, Head(st).this) /\ Twin(h, Head(st).this, Head(st).other)
  BY <1>1, <1>2 DEF MatchTop
<1>4. Parsed(h, in, R, O, own, a, z, rank, n, S) /\ Chain(h, O, a, z, S, Tail(st))
  BY <1>1, <1>3
<1> QED BY <1>3, <1>4

\* the second activation of replace_digram by process_match (sequitur.c:245)
LEMMA Seconds ==
  ASSUME NEW h, NEW in, NEW st, NEW fd, Parsing(h, in, st, fd), st # <<>>, Head(st).at = "second",
         NEW s, s = Head(st).this, NEW r, r = Head(st).other
  PROVE  Parsing(h, in, <<Frame("replace", s, r), Frame("enter", r, Null)>> \o Tail(st), fd)
<1>1. PICK R, O, own, a, z, rank, n, S, C :
        /\ Parsed(h, in, R, O, own, a, z, rank, n, S) /\ Chain(h, O, a, z, S, C)
        /\ R \subseteq Symbols /\ O \subseteq Symbols /\ st \in Seq(Activations)
        /\ \/ RestTop(h, C, st, fd) \/ CheckTop(h, R, O, C, st) \/ MatchTop(h, O, C, st)
           \/ ReplaceTop(h, R, O, C, st) \/ TwinTop(h, R, O, C, st)
           \/ SecondTop(h, R, O, C, st) \/ SideTop(h, R, O, C, st, fd)
  BY Tops
<1>2. ~ RestTop(h, C, st, fd) /\ ~ CheckTop(h, R, O, C, st) /\ ~ MatchTop(h, O, C, st)
      /\ ~ ReplaceTop(h, R, O, C, st) /\ ~ TwinTop(h, R, O, C, st) /\ ~ SideTop(h, R, O, C, st, fd)
  BY DEF RestTop, CheckTop, MatchTop, ReplaceTop, TwinTop, SideTop
<1>3. s \in O /\ r \in R /\ Repeated(h, R, O, s, r) /\ Missing(h, s) /\ Tail(st) = C
  BY <1>1, <1>2 DEF SecondTop
<1> DEFINE f == Frame("enter", r, Null)
           D == <<Frame("replace", s, r), f>> \o C
<1>4. f \in Frames /\ f.this = r /\ f.at = "enter"
  BY <1>1, <1>3 DEF Frame, Frames
<1> HIDE DEF f
<1>5. Replacing(h, R, O, C, D)
  BY <1>3, <1>4 DEF Replacing
<1> HIDE DEF D
<1>6. Parsing(h, in, D, fd)
  BY <1>1, <1>5 DEF Parsing, Phase
<1> QED BY <1>3, <1>6 DEF D, f

\* replace_digram up to its first check (sequitur.c:161-183)
LEMMA Replaces ==
  ASSUME NEW h, NEW in, NEW st, NEW fd, Parsing(h, in, st, fd), st # <<>>, Head(st).at = "replace",
         NoSquare(in), NEW p, p = h.prev[Head(st).this], NEW r, r = Head(st).other, NEW k,
         k = InsertNonterminal(DeleteNext(DeleteNext(h, p), p), p, r)
  PROVE  p \in Symbols /\ Parsing(k, in, <<Frame("check", p, Null), Frame("right", p, Null)>> \o Tail(st), fd)
<1>1. PICK R, O, own, a, z, rank, n, S, C :
        /\ Parsed(h, in, R, O, own, a, z, rank, n, S) /\ Chain(h, O, a, z, S, C)
        /\ R \subseteq Symbols /\ O \subseteq Symbols /\ st \in Seq(Activations)
        /\ \/ RestTop(h, C, st, fd) \/ CheckTop(h, R, O, C, st) \/ MatchTop(h, O, C, st)
           \/ ReplaceTop(h, R, O, C, st) \/ TwinTop(h, R, O, C, st)
           \/ SecondTop(h, R, O, C, st) \/ SideTop(h, R, O, C, st, fd)
  BY Tops
<1>2. ~ RestTop(h, C, st, fd) /\ ~ CheckTop(h, R, O, C, st) /\ ~ MatchTop(h, O, C, st)
      /\ ~ SecondTop(h, R, O, C, st) /\ ~ SideTop(h, R, O, C, st, fd)
  BY DEF RestTop, CheckTop, MatchTop, SecondTop, SideTop
<1>3. CASE ReplaceTop(h, R, O, C, st)
  <2> DEFINE s == Head(st).this
  <2>1. PICK f \in Frames : /\ Tail(st) = <<f>> \o C /\ f.this = r
                            /\ f.at = "utility" \/ (f.at = "enter" /\ Missing(h, s))
    BY <1>3 DEF ReplaceTop
  <2>2. s \in O /\ r \in R /\ Repeated(h, R, O, s, r) /\ p = h.prev[s]
    BY <1>3 DEF ReplaceTop
  <2> HIDE DEF s
  <2>3. p \in Symbols /\ Parsing(k, in, <<Frame("check", p, Null), Frame("right", p, Null)>> \o (<<f>> \o C), fd)
    BY <1>1, <2>1, <2>2, ReplacesLast
  <2> QED BY <2>1, <2>3
<1>4. CASE TwinTop(h, R, O, C, st)
  <2>1. PICK s \in O, o \in O, q \in R :
           /\ Head(st).this = o /\ Head(st).other = q /\ Tail(st) = <<Frame("second", s, q)>> \o C
           /\ Repeated(h, R, O, s, q) /\ Twin(h, s, o) /\ Uses(h, O, q) = {}
           /\ h.prev[o] \notin R \/ h.next[h.next[o]] \notin R
    BY <1>4 DEF TwinTop
  <2>2. q = r /\ p = h.prev[o]
    BY <2>1
  <2>3. p \in Symbols /\ Parsing(k, in, <<Frame("check", p, Null), Frame("right", p, Null)>>
                                           \o (<<Frame("second", s, q)>> \o C), fd)
    BY <1>1, <2>1, <2>2, ReplacesTwin
  <2> QED BY <2>1, <2>3
<1> QED BY <1>1, <1>2, <1>3, <1>4

\* the second check of replace_digram (sequitur.c:184-187)
LEMMA Rights ==
  ASSUME NEW h, NEW in, NEW st, NEW fd, Parsing(h, in, st, fd), st # <<>>, Head(st).at = "right"
  PROVE  /\ fd => Parsing(h, in, Tail(st), fd)
         /\ ~ fd => Parsing(h, in, <<Frame("check", h.next[Head(st).this], Null)>> \o Tail(st), fd)
<1>1. PICK R, O, own, a, z, rank, n, S, C :
        /\ Parsed(h, in, R, O, own, a, z, rank, n, S) /\ Chain(h, O, a, z, S, C)
        /\ R \subseteq Symbols /\ O \subseteq Symbols /\ st \in Seq(Activations)
        /\ \/ RestTop(h, C, st, fd) \/ CheckTop(h, R, O, C, st) \/ MatchTop(h, O, C, st)
           \/ ReplaceTop(h, R, O, C, st) \/ TwinTop(h, R, O, C, st)
           \/ SecondTop(h, R, O, C, st) \/ SideTop(h, R, O, C, st, fd)
  BY Tops
<1>2. ~ CheckTop(h, R, O, C, st) /\ ~ MatchTop(h, O, C, st) /\ ~ ReplaceTop(h, R, O, C, st)
      /\ ~ TwinTop(h, R, O, C, st) /\ ~ SecondTop(h, R, O, C, st)
  BY DEF CheckTop, MatchTop, ReplaceTop, TwinTop, SecondTop
<1>3. CASE RestTop(h, C, st, fd)
  <2>1. st = C /\ (~fd => Coming(h, C))
    BY <1>3 DEF RestTop
  <2>2. /\ fd => Parsing(h, in, Tail(C), fd)
        /\ ~ fd => Parsing(h, in, <<Frame("check", h.next[Head(C).this], Null)>> \o Tail(C), fd)
    BY <1>1, <2>1, ChecksRight
  <2> QED BY <2>1, <2>2
<1>4. CASE SideTop(h, R, O, C, st, fd)
  <2>1. PICK s \in O, r \in R, t \in O, p \in R \cup O :
          /\ Repeated(h, R, O, s, r) /\ Missing(h, s) /\ Single(h, O, r, t) /\ h.next[p] = t
          /\ Head(st).this = p /\ ~fd /\ Tail(st) = <<Frame("second", s, r)>> \o C
    BY <1>4 DEF SideTop
  <2> DEFINE x == Frame("check", t, Null)
             y == Frame("second", s, r)
             D == <<x, y>> \o C
  <2>2. x \in Activations /\ y \in Activations /\ C \in Seq(Activations)
    <3>1. C \in Seq(Frames)
      BY <1>1 DEF Chain
    <3>2. x \in Activations /\ y \in Activations
      BY <1>1 DEF Frame, Activations, Ats
    <3> QED BY <3>1, <3>2, FramesAct
  <2>3. D = <<Frame("check", t, Null), Frame("second", s, r)>> \o C
    OBVIOUS
  <2> HIDE DEF D, x, y
  <2>4. Doubled(h, R, O, C, D, fd)
    BY <2>1, <2>3 DEF Doubled
  <2>5. Parsing(h, in, D, fd)
    BY <1>1, <2>4 DEF Parsing, Phase
  <2>6. D = <<x>> \o (<<y>> \o C)
    BY <2>2, Stacked DEF D
  <2>7. x = Frame("check", h.next[Head(st).this], Null) /\ Tail(st) = <<y>> \o C
    BY <2>1 DEF x, y
  <2> QED BY <2>1, <2>5, <2>6, <2>7
<1> QED BY <1>1, <1>2, <1>3, <1>4

\* An activation that waits is on top only when nothing else goes on.
LEMMA RestPhase ==
  ASSUME NEW h, NEW in, NEW st, NEW fd, Parsing(h, in, st, fd),
         st = <<>> \/ Head(st).at \in {"enter", "utility"}
  PROVE  \E R, O, own, a, z, rank, n, S :
           Parsed(h, in, R, O, own, a, z, rank, n, S) /\ Chain(h, O, a, z, S, st)
<1>1. PICK R, O, own, a, z, rank, n, S, C :
        /\ Parsed(h, in, R, O, own, a, z, rank, n, S) /\ Chain(h, O, a, z, S, C)
        /\ R \subseteq Symbols /\ O \subseteq Symbols /\ st \in Seq(Activations)
        /\ \/ RestTop(h, C, st, fd) \/ CheckTop(h, R, O, C, st) \/ MatchTop(h, O, C, st)
           \/ ReplaceTop(h, R, O, C, st) \/ TwinTop(h, R, O, C, st)
           \/ SecondTop(h, R, O, C, st) \/ SideTop(h, R, O, C, st, fd)
  BY Tops
<1>2. ~ CheckTop(h, R, O, C, st) /\ ~ MatchTop(h, O, C, st) /\ ~ ReplaceTop(h, R, O, C, st)
      /\ ~ TwinTop(h, R, O, C, st) /\ ~ SecondTop(h, R, O, C, st) /\ ~ SideTop(h, R, O, C, st, fd)
  BY DEF CheckTop, MatchTop, ReplaceTop, TwinTop, SecondTop, SideTop
<1>3. st = C
  BY <1>1, <1>2 DEF RestTop
<1> QED BY <1>1, <1>3

\* No word stands twice in a row if none ends so (FeedNoSquare).
LEMMA SquareFree ==
  ASSUME NEW in \in Seq(Letters), NoSquare(in), NEW b \in Letters, NEW in2, in2 = Append(in, b),
         ~ EndsInSquare(in2)
  PROVE  NoSquare(in2)
<1>1. /\ in2 \in Seq(Letters) /\ Len(in2) = Len(in) + 1 /\ Len(in) \in Nat
      /\ \A i \in 1 .. Len(in) : in2[i] = in[i]
  OBVIOUS
<1> SUFFICES ASSUME NEW i \in Nat, NEW n \in Nat \ {0}, i + n + n <= Len(in2), SameText(in2, i, i + n, n)
             PROVE  FALSE
  BY DEF NoSquare
<1>2. CASE i + n + n <= Len(in)
  <2>1. ASSUME NEW k \in 1 .. n PROVE in[i + k] = in[i + n + k]
    <3>1. i + k \in 1 .. Len(in) /\ i + n + k \in 1 .. Len(in)
      BY <1>1, <1>2
    <3>2. in2[i + k] = in2[i + n + k]
      BY DEF SameText
    <3> QED BY <1>1, <3>1, <3>2
  <2>2. SameText(in, i, i + n, n)
    BY <2>1 DEF SameText
  <2> QED BY <1>2, <2>2 DEF NoSquare
<1>3. CASE i + n + n = Len(in2)
  <2>1. ASSUME NEW k \in 0 .. n - 1 PROVE in2[Len(in2) - k] = in2[Len(in2) - k - n]
    <3> DEFINE l == n - k
    <3>1. l \in 1 .. n /\ Len(in2) - k = i + n + l /\ Len(in2) - k - n = i + l
      BY <1>1, <1>3
    <3> HIDE DEF l
    <3>2. in2[i + l] = in2[i + n + l]
      BY <3>1 DEF SameText
    <3> QED BY <3>1, <3>2
  <2>2. n \in 1 .. Len(in2) /\ 2 * n <= Len(in2)
    BY <1>1, <1>3
  <2> QED BY <2>1, <2>2 DEF EndsInSquare
<1> QED BY <1>1, <1>2, <1>3

Kept(h, in, st, fd) ==
  /\ h \in Storage /\ h.main \in Symbols /\ h.num \in 0 .. MaxSymbols
  /\ st \in Seq(Activations) /\ fd \in BOOLEAN
  /\ in \in Seq(Letters) /\ Len(in) <= BlockSize /\ NoSquare(in)
  /\ h.fault # "abort"
  /\ h.fault = "none" => Parsing(h, in, st, fd)

\* The inductive invariant: the storage holds a grammar of the input, whose text every
\* symbol and rule has a part of, and the activations are about to do what keeps it so.
GrammarInv == Kept(g, input, stack, found)

\* A state that parses satisfies the invariant.
LEMMA ParsingKept ==
  ASSUME NEW h, NEW in, NEW st, NEW fd \in BOOLEAN, Parsing(h, in, st, fd),
         Len(in) <= BlockSize, NoSquare(in)
  PROVE  Kept(h, in, st, fd)
BY ParsingTyped DEF Kept

\* A state with a full storage satisfies the invariant.
LEMMA StuckKept ==
  ASSUME NEW h, NEW in, NEW st \in Seq(Activations), NEW fd \in BOOLEAN, Stuck(h),
         in \in Seq(Letters), Len(in) <= BlockSize, NoSquare(in)
  PROVE  Kept(h, in, st, fd)
BY DEF Kept, Stuck

\* The invariant holds of the initial state.
LEMMA GrammarInit == Init => GrammarInv
<1> SUFFICES ASSUME Init PROVE GrammarInv
  OBVIOUS
<1>1. g = Start /\ stack = <<>> /\ found = FALSE /\ input = <<>>
  BY DEF Init
<1>2. Parsing(g, input, stack, found)
  BY <1>1, Starts
<1>3. Len(input) <= BlockSize /\ NoSquare(input) /\ found \in BOOLEAN
  <2>1. Len(input) = 0 /\ found \in BOOLEAN /\ BlockSize \in Nat
    BY <1>1, SizesAssumption
  <2>2. NoSquare(input)
    BY <2>1 DEF NoSquare
  <2> QED BY <2>1, <2>2
<1> QED BY <1>2, <1>3, ParsingKept DEF GrammarInv

\* Every step of the compressor keeps the invariant.
LEMMA GrammarStep == GrammarInv /\ [Next]_vars => GrammarInv'
<1> SUFFICES ASSUME GrammarInv, [Next]_vars PROVE GrammarInv'
  OBVIOUS
<1>0. Kept(g, input, stack, found)
  BY DEF GrammarInv
<1>1. SUFFICES Kept(g', input', stack', found')
  BY DEF GrammarInv
<1>2. /\ g \in Storage /\ g.main \in Symbols /\ g.num \in 0 .. MaxSymbols
      /\ stack \in Seq(Activations) /\ found \in BOOLEAN
      /\ input \in Seq(Letters) /\ Len(input) <= BlockSize /\ NoSquare(input)
      /\ g.fault = "none" => Parsing(g, input, stack, found)
  BY <1>0 DEF Kept
<1> DEFINE s == Head(stack).this
           o == Head(stack).other
           T == Tail(stack)
<1>3. stack # <<>> => T \in Seq(Activations) /\ Head(stack) \in Activations
  BY <1>2
<1>4. CASE check_digram
  <2>1. /\ Parsing(g, input, stack, found) /\ stack # <<>> /\ Head(stack).at = "check" /\ input' = input
    BY <1>2, <1>4 DEF check_digram, Top
  <2> DEFINE m == digram_get(g, g.value[s], g.value[g.next[s]])
             head == IsHead(g, s) \/ IsHead(g, g.next[s])
  <2>2. /\ Parsing(g, input, T, FALSE)
        /\ ~ head /\ m = Null => Parsing(digram_put(g, s), input, T, FALSE)
        /\ ~ head /\ m # Null /\ g.next[m] # s
             => Parsing(g, input, <<Frame("match", s, m)>> \o T, found)
    <3> HIDE DEF s, m, T
    <3>1. /\ Parsing(g, input, Tail(stack), FALSE)
          /\ ~ IsHead(g, s) /\ ~ IsHead(g, g.next[s]) /\ m = Null
              => Parsing(digram_put(g, s), input, Tail(stack), FALSE)
          /\ ~ IsHead(g, s) /\ ~ IsHead(g, g.next[s]) /\ m # Null /\ g.next[m] # s
              => Parsing(g, input, <<Frame("match", s, m)>> \o Tail(stack), found)
      BY <2>1, Checks DEF s, m
    <3> QED BY <3>1 DEF T
  <2>3. \/ (stack' = T /\ found' = FALSE /\ g' = g)
        \/ (~ head /\ m = Null /\ stack' = T /\ found' = FALSE /\ g' = digram_put(g, s))
        \/ (~ head /\ m # Null /\ g.next[m] # s /\ g' = g
              /\ stack' = <<Frame("match", s, m)>> \o T /\ found' = found)
    BY <1>4 DEF check_digram, Return, Become, This
  <2> HIDE DEF s, m, T, head
  <2>4. Parsing(g', input', stack', found') /\ found' \in BOOLEAN
    BY <1>2, <2>1, <2>2, <2>3
  <2> QED BY <1>2, <2>1, <2>4, ParsingKept
<1>5. CASE MatchRule
  <2>1. /\ Parsing(g, input, stack, found) /\ stack # <<>> /\ Head(stack).at = "match"
        /\ input' = input /\ g' = g /\ found' = found
    BY <1>2, <1>5 DEF MatchRule, Top, Become
  <2> DEFINE r == g.rule[g.prev[o]]
             D == <<Frame("replace", s, r), Frame("utility", r, Null)>> \o T
  <2>2. IsHead(g, g.prev[o]) /\ IsHead(g, g.next[g.next[o]]) /\ stack' = D
    BY <1>5 DEF MatchRule, Become, This, Other
  <2>3. PICK R, O, own, a, z, rank, n, S :
           /\ Parsed(g, input, R, O, own, a, z, rank, n, S) /\ Chain(g, O, a, z, S, T)
           /\ s \in O /\ o \in O /\ Ends(g, O, s) /\ Twin(g, s, o)
    BY <2>1, MatchPhase
  <2>4. Parsing(g, input, D, found)
    <3> HIDE DEF s, o, T
    <3>1. r = g.rule[g.prev[o]]
      OBVIOUS
    <3> HIDE DEF r
    <3> QED BY <2>2, <2>3, <3>1, MatchesRule
  <2> HIDE DEF D
  <2> QED BY <1>2, <2>1, <2>2, <2>4, ParsingKept
<1>6. CASE MatchNew
  <2>1. /\ Parsing(g, input, stack, found) /\ stack # <<>> /\ Head(stack).at = "match"
        /\ input' = input /\ found' = found
    BY <1>2, <1>6 DEF MatchNew, Top, Become
  <2> DEFINE j == new_rule(g)
             r == j.new
             D == <<Frame("replace", o, r), Frame("second", s, r)>> \o T
             k == IF j.fault # "none" THEN j
                  ELSE AppendCopy(AppendCopy(add_rule(j, r), r, s), r, g.next[s])
  <2>2. /\ ~ (IsHead(g, g.prev[o]) /\ IsHead(g, g.next[g.next[o]])) /\ stack' = D /\ g' = k
    BY <1>6 DEF MatchNew, Become, This, Other
  <2>3. PICK R, O, own, a, z, rank, n, S :
           /\ Parsed(g, input, R, O, own, a, z, rank, n, S) /\ Chain(g, O, a, z, S, T)
           /\ s \in O /\ o \in O /\ Ends(g, O, s) /\ Twin(g, s, o)
    BY <2>1, MatchPhase
  <2>4. r \in Symbols \cup {Null} /\ (Stuck(k) \/ Parsing(k, input, D, found))
    <3> HIDE DEF s, o, T
    <3>1. j = new_rule(g) /\ r = j.new
      OBVIOUS
    <3> HIDE DEF j, r
    <3>2. k = IF j.fault # "none" THEN j ELSE AppendCopy(AppendCopy(add_rule(j, r), r, s), r, g.next[s])
      OBVIOUS
    <3> HIDE DEF k
    <3>3. /\ NoSquare(input) /\ ~ (IsHead(g, g.prev[o]) /\ IsHead(g, g.next[g.next[o]]))
          /\ s \in O /\ o \in O
      BY <1>2, <2>2, <2>3
    <3>4. r \in Symbols \cup {Null}
      BY ONLY <2>3, <3>1, <3>2, <3>3, MatchesNew
    <3>5. Stuck(k) \/ Parsing(k, input, <<Frame("replace", o, r), Frame("second", s, r)>> \o T, found)
      BY ONLY <2>3, <3>1, <3>2, <3>3, MatchesNew
    <3> QED BY <3>4, <3>5
  <2> HIDE DEF k, j, r
  <2>5. D \in Seq(Activations)
    <3> DEFINE x == Frame("replace", o, r)
               y == Frame("second", s, r)
    <3>1. x \in Activations /\ y \in Activations /\ T \in Seq(Activations)
      BY <1>3, <2>1, <2>4 DEF Frame, Activations, Ats
    <3> HIDE DEF x, y, T
    <3>2. <<x, y>> \o T \in Seq(Activations)
      BY <3>1, TwoOnTop
    <3> QED BY <3>2 DEF x, y
  <2> HIDE DEF D
  <2> QED BY <1>2, <2>1, <2>2, <2>4, <2>5, ParsingKept, StuckKept
<1>7. CASE MatchSecond
  <2>1. /\ Parsing(g, input, stack, found) /\ stack # <<>> /\ Head(stack).at = "second"
        /\ input' = input /\ g' = g /\ found' = found
    BY <1>2, <1>7 DEF MatchSecond, Top, Become
  <2>2. stack' = <<Frame("replace", s, o), Frame("enter", o, Null)>> \o Tail(stack)
    BY <1>7 DEF MatchSecond, Become, This, Other
  <2>3. Parsing(g, input, stack', found)
    <3>1. Parsing(g, input, <<Frame("replace", s, o), Frame("enter", o, Null)>> \o Tail(stack), found)
      <4>1. s = Head(stack).this /\ o = Head(stack).other
        OBVIOUS
      <4> HIDE DEF s, o
      <4> QED BY <2>1, <4>1, Seconds
    <3> QED BY <2>2, <3>1
  <2> QED BY <1>2, <2>1, <2>3, ParsingKept
<1>8. CASE MatchEnter
  <2>1. /\ Parsing(g, input, stack, found) /\ stack # <<>> /\ Head(stack).at = "enter"
        /\ input' = input /\ found' = found
    BY <1>2, <1>8 DEF MatchEnter, Top, Become
  <2>2. g' = digram_put(g, g.next[s]) /\ stack' = <<Frame("utility", s, Null)>> \o Tail(stack)
    BY <1>8 DEF MatchEnter, Become, This
  <2>3. PICK R, O, own, a, z, rank, n, S :
           Parsed(g, input, R, O, own, a, z, rank, n, S) /\ Chain(g, O, a, z, S, stack)
    BY <2>1, RestPhase
  <2>4. Parsing(digram_put(g, g.next[s]), input, <<Frame("utility", s, Null)>> \o Tail(stack), found)
    <3>1. s = Head(stack).this
      OBVIOUS
    <3> HIDE DEF s
    <3> QED BY <2>1, <2>3, <3>1, EntersRule
  <2> HIDE DEF s
  <2>5. Parsing(g', input', stack', found')
    BY <2>1, <2>2, <2>4
  <2> QED BY <1>2, <2>1, <2>5, ParsingKept
<1>9. CASE MatchUtility
  <2>1. /\ Parsing(g, input, stack, found) /\ stack # <<>> /\ Head(stack).at = "utility"
        /\ input' = input /\ found' = TRUE /\ stack' = T
    BY <1>2, <1>9 DEF MatchUtility, Top, Return
  <2> DEFINE t == g.next[Head(stack).this]
             used == IF g.rule[t] = Null THEN 2 ELSE g.refcnt[g.rule[t]]
  <2>2. g' = IF used >= 2 THEN g
             ELSE IF used = 0 THEN [g EXCEPT !.fault = "abort"] ELSE expand_instance(g, t)
    BY <1>9 DEF MatchUtility, This
  <2>3. PICK R, O, own, a, z, rank, n, S :
           Parsed(g, input, R, O, own, a, z, rank, n, S) /\ Chain(g, O, a, z, S, stack)
    BY <2>1, RestPhase
  <2>4. Parsing(g', input, T, TRUE)
    <3>1. t = g.next[Head(stack).this]
      OBVIOUS
    <3> HIDE DEF t
    <3>2. used = IF g.rule[t] = Null THEN 2 ELSE g.refcnt[g.rule[t]]
      OBVIOUS
    <3> HIDE DEF used
    <3> QED BY <1>2, <2>1, <2>2, <2>3, <3>1, <3>2, UtilityDone
  <2> QED BY <1>2, <2>1, <2>4, ParsingKept
<1>10. CASE replace_digram
  <2>1. /\ Parsing(g, input, stack, found) /\ stack # <<>> /\ Head(stack).at = "replace"
        /\ input' = input /\ found' = found
    BY <1>2, <1>10 DEF replace_digram, Top, Become
  <2> DEFINE p == g.prev[s]
  <2>2. /\ g' = InsertNonterminal(DeleteNext(DeleteNext(g, p), p), p, o)
        /\ stack' = <<Frame("check", p, Null), Frame("right", p, Null)>> \o Tail(stack)
    BY <1>10 DEF replace_digram, Become, This, Other
  <2>3. Parsing(g', input, stack', found)
    <3>1. o = Head(stack).other /\ p = g.prev[Head(stack).this]
      OBVIOUS
    <3> HIDE DEF p, o
    <3>2. Parsing(g', input, <<Frame("check", p, Null), Frame("right", p, Null)>> \o Tail(stack), found)
      BY <1>2, <2>1, <2>2, <3>1, Replaces
    <3> QED BY <2>2, <3>2
  <2> QED BY <1>2, <2>1, <2>3, ParsingKept
<1>11. CASE ReplaceRight
  <2>1. /\ Parsing(g, input, stack, found) /\ stack # <<>> /\ Head(stack).at = "right"
        /\ input' = input /\ g' = g /\ found' = found
    BY <1>2, <1>11 DEF ReplaceRight, Top, Become, Return
  <2>2. IF found THEN stack' = Tail(stack)
        ELSE stack' = <<Frame("check", g.next[Head(stack).this], Null)>> \o Tail(stack)
    BY <1>11 DEF ReplaceRight, Become, Return, This
  <2>3. /\ found => Parsing(g, input, Tail(stack), found)
        /\ ~ found => Parsing(g, input, <<Frame("check", g.next[Head(stack).this], Null)>> \o Tail(stack), found)
    BY <2>1, Rights
  <2>4. Parsing(g, input, stack', found)
    BY <1>2, <2>2, <2>3
  <2> QED BY <1>2, <2>1, <2>4, ParsingKept
<1>12. CASE EndBlock
  <2>1. g' = Start /\ input' = <<>> /\ stack' = <<>> /\ found' = found
    BY <1>12 DEF EndBlock
  <2>2. Parsing(g', input', stack', found')
    BY <2>1, Starts
  <2>3. Len(input') <= BlockSize /\ NoSquare(input')
    BY <2>1, SizesAssumption DEF NoSquare
  <2> QED BY <1>2, <2>1, <2>2, <2>3, ParsingKept
<1>13. ASSUME NEW b \in Letters, FeedNoSquare(b) PROVE Kept(g', input', stack', found')
  <2>1. /\ Parsing(g, input, stack, found) /\ stack = <<>> /\ Len(input) < BlockSize
        /\ input' = Append(input, b) /\ found' = found /\ ~ EndsInSquare(input')
        /\ g' = InsertNew(new_symbol(g, b, Null), g.prev[g.main])
        /\ stack' = <<Frame("check", g'.prev[g'.prev[g'.main]], Null)>>
    BY <1>2, <1>13 DEF FeedNoSquare, Feed
  <2>2. PICK R, O, own, a, z, rank, n, S : Parsed(g, input, R, O, own, a, z, rank, n, S)
    BY <2>1, RestPhase
  <2>3. NoSquare(input') /\ input' \in Seq(Letters) /\ Len(input') <= BlockSize
    <3>1. NoSquare(input')
      BY <1>2, <2>1, SquareFree
    <3>2. input' \in Seq(Letters) /\ Len(input') = Len(input) + 1
      BY <1>2, <2>1
    <3> QED BY <1>2, <2>1, <3>1, <3>2, SizesAssumption
  <2> DEFINE p == g'.prev[g'.prev[g'.main]]
  <2>4. p \in Symbols \cup {Null} /\ (Stuck(g') \/ Parsing(g', input', <<Frame("check", p, Null)>>, found'))
    BY <2>1, <2>2, Feeds
  <2>5. stack' \in Seq(Activations)
    <3>1. Frame("check", p, Null) \in Activations
      BY <2>4 DEF Frame, Activations, Ats
    <3> QED BY <2>1, <3>1
  <2> HIDE DEF p
  <2>6. Stuck(g') \/ Parsing(g', input', stack', found')
    BY <2>1, <2>4 DEF p
  <2> QED BY <1>2, <2>1, <2>3, <2>5, <2>6, ParsingKept, StuckKept
<1>14. CASE UNCHANGED vars
  BY <1>0, <1>14 DEF vars
<1>15. CASE Next
  <2>1. CASE Digest
    BY <1>4, <1>5, <1>6, <1>7, <1>8, <1>9, <1>10, <1>11, <2>1 DEF Digest
  <2> QED BY <1>12, <1>13, <1>15, <2>1 DEF Next
<1> QED BY <1>14, <1>15

-----------------------------------------------------------------------------

\* The inductive invariant of the compressor holds throughout.
THEOREM GrammarAlways == Spec => []GrammarInv
BY GrammarInit, GrammarStep, PTL DEF Spec

\* None of the aborts of the compressor is ever reached (sequitur.c:89, 117, 271; rules.c:171).
THEOREM GrammarNoAbort == Spec => [](g.fault # "abort")
<1>1. GrammarInv => g.fault # "abort"
  BY DEF GrammarInv, Kept
<1> QED BY <1>1, GrammarAlways, PTL

\* The variables keep their types, and no link leads out of the storage (symbol.c:64-109).
THEOREM GrammarTyped == Spec => []TypeOK
<1>1. GrammarInv => TypeOK
  <2> SUFFICES ASSUME Kept(g, input, stack, found) PROVE TypeOK
    BY DEF GrammarInv
  <2>1. /\ g \in Storage /\ g.main \in Symbols /\ g.num \in 0 .. MaxSymbols
        /\ stack \in Seq(Activations) /\ found \in BOOLEAN
        /\ input \in Seq(Letters) /\ Len(input) <= BlockSize
    BY DEF Kept
  <2>2. \A k \in DOMAIN stack : stack[k] \in Activations
    BY <2>1
  <2>3. \A k \in DOMAIN stack : /\ stack[k].at \in Ats
                                /\ {stack[k].this, stack[k].other} \subseteq Symbols \cup {Null}
    BY <2>2 DEF Activations
  <2>4. /\ g.value \in [Symbols -> Nat] /\ g.refcnt \in [Symbols -> Nat]
        /\ {g.next, g.prev, g.nextr, g.prevr, g.rule} \subseteq Fields
        /\ {g.new, g.recycled} \subseteq Symbols \cup {Null} /\ g.nextvalue \in Nat
        /\ g.fault \in {"none", "abort", "exhausted"}
        /\ g.table \in [Slots -> Symbols \cup {Null, Tombstone}]
    BY <2>1 DEF Storage, Fields
  <2> QED BY <2>1, <2>3, <2>4 DEF TypeOK
<1> QED BY <1>1, GrammarAlways, PTL

-----------------------------------------------------------------------------
(* Walks along a field.                                                    *)

Further(field, ends, w, n) ==
  IF Len(w) < n - 1 \/ field[w[Len(w)]] \in ends \cup {Null} THEN w ELSE Append(w, field[w[Len(w)]])

\* The first n stages of a walk.
Stages(field, s, ends, n, f) ==
  f = [i \in 1 .. n |-> IF i = 1 THEN <<s>> ELSE Further(field, ends, f[i - 1], i)]

\* A walk has all of its stages.
LEMMA WalkStages ==
  ASSUME NEW field, NEW s, NEW ends
  PROVE  \E f : Stages(field, s, ends, MaxSymbols + 1, f) /\ Walk(field, s, ends) = f[MaxSymbols + 1]
<1> DEFINE Staged(n) == \E f : Stages(field, s, ends, n, f)
           T == {n \in Nat : n >= 1 /\ ~ Staged(n)}
           c == CHOOSE f : Stages(field, s, ends, MaxSymbols + 1, f)
<1>1. Walk(field, s, ends) = c[MaxSymbols + 1]
  BY DEF Walk, Stages, Further
<1>2. Staged(1)
  <2> DEFINE f == [i \in 1 .. 1 |-> <<s>>]
  <2>1. f = [i \in 1 .. 1 |-> IF i = 1 THEN <<s>> ELSE Further(field, ends, f[i - 1], i)]
    OBVIOUS
  <2>2. Stages(field, s, ends, 1, f)
    BY <2>1 DEF Stages
  <2> QED BY <2>2
<1>3. ASSUME NEW n \in Nat, n >= 1, Staged(n) PROVE Staged(n + 1)
  <2>1. PICK f : Stages(field, s, ends, n, f)
    BY <1>3
  <2>2. f = [i \in 1 .. n |-> IF i = 1 THEN <<s>> ELSE Further(field, ends, f[i - 1], i)]
    BY <2>1 DEF Stages
  <2> DEFINE e == [i \in 1 .. n + 1 |-> IF i = n + 1 THEN Further(field, ends, f[n], n + 1) ELSE f[i]]
  <2>3. ASSUME NEW i \in 1 .. n + 1
        PROVE  e[i] = IF i = 1 THEN <<s>> ELSE Further(field, ends, e[i - 1], i)
    <3>1. CASE i = 1
      <4>1. e[i] = f[1]
        BY <1>3, <3>1
      <4>2. 1 \in 1 .. n
        BY <1>3
      <4> HIDE DEF e
      <4> QED BY <2>2, <3>1, <4>1, <4>2
    <3>2. CASE i = n + 1
      <4>1. e[i] = Further(field, ends, f[n], n + 1) /\ e[i - 1] = f[n] /\ i # 1
        BY <1>3, <3>2
      <4> HIDE DEF e
      <4> QED BY <3>2, <4>1
    <3>3. CASE i # 1 /\ i # n + 1
      <4>1. i \in 1 .. n /\ i - 1 \in 1 .. n /\ i - 1 # n + 1 /\ i - 1 \in 1 .. n + 1
        BY <3>3
      <4>2. e[i] = f[i] /\ e[i - 1] = f[i - 1]
        BY <3>3, <4>1
      <4>3. f[i] = Further(field, ends, f[i - 1], i)
        BY <2>2, <3>3, <4>1
      <4> HIDE DEF e
      <4> QED BY <3>3, <4>2, <4>3
    <3> QED BY <3>1, <3>2, <3>3
  <2>4. Stages(field, s, ends, n + 1, e)
    <3>1. e = [i \in 1 .. n + 1 |-> e[i]]
      OBVIOUS
    <3> HIDE DEF e
    <3>2. e = [i \in 1 .. n + 1 |-> IF i = 1 THEN <<s>> ELSE Further(field, ends, e[i - 1], i)]
      BY <2>3, <3>1
    <3> QED BY <3>2 DEF Stages
  <2> QED BY <2>4
<1>4. T = {}
  <2> SUFFICES ASSUME T # {} PROVE FALSE
    OBVIOUS
  <2> HIDE DEF Staged
  <2>1. PICK m \in T : \A k \in T : m <= k
    <3>1. T \subseteq Nat
      OBVIOUS
    <3> HIDE DEF T
    <3> QED BY <3>1, LeastNat
  <2>2. m \in Nat /\ m >= 1 /\ ~ Staged(m)
    OBVIOUS
  <2>3. m # 1
    BY <1>2, <2>2
  <2>4. m - 1 \in Nat /\ m - 1 >= 1 /\ m - 1 \notin T /\ (m - 1) + 1 = m
    BY <2>1, <2>2, <2>3
  <2>5. Staged(m - 1)
    BY <2>4
  <2>6. Staged((m - 1) + 1)
    BY <1>3, <2>4, <2>5
  <2> QED BY <2>2, <2>4, <2>6
<1>5. Staged(MaxSymbols + 1)
  <2>1. MaxSymbols + 1 \in Nat /\ MaxSymbols + 1 >= 1
    BY SizesAssumption
  <2> HIDE DEF Staged
  <2> QED BY <1>4, <2>1
<1>6. Stages(field, s, ends, MaxSymbols + 1, c)
  BY <1>5
<1> QED BY <1>1, <1>6

\* X is what a walk from s meets: the places in mu increase along the field.
Path(field, s, ends, X, mu) ==
  /\ X \subseteq Symbols /\ s \in X /\ mu \in [Symbols -> Int] /\ \A x \in X : mu[x] >= 0
  /\ \A x \in X : field[x] \in ends \cup {Null} \/ (field[x] \in X /\ mu[x] < mu[field[x]])
  /\ \A x \in X \ {s} : x \notin ends \cup {Null} /\ \E p \in X : field[p] = x /\ mu[p] < mu[x]

Visited(w, field, s, ends, X, mu) ==
  /\ w \in Seq(X) /\ Len(w) >= 1 /\ w[1] = s
  /\ \A i \in 1 .. Len(w) : IF i = Len(w) THEN field[w[i]] \in ends \cup {Null} ELSE w[i + 1] = field[w[i]]
  /\ \A i, j \in 1 .. Len(w) : i < j => mu[w[i]] < mu[w[j]]
  /\ Elements(w) = X

\* The first n stages go no further than the path.
Halfway(w, n, field, s, ends, X, mu) ==
  /\ w \in Seq(X) /\ Len(w) >= 1 /\ Len(w) <= n /\ w[1] = s
  /\ \A i \in 1 .. Len(w) - 1 : w[i + 1] = field[w[i]]
  /\ \A i, j \in 1 .. Len(w) : i < j => mu[w[i]] < mu[w[j]]
  /\ Len(w) < n => field[w[Len(w)]] \in ends \cup {Null}

\* One more doubling of a walk.
LEMMA HalfwayFurther ==
  ASSUME NEW field, NEW s, NEW ends, NEW X, NEW mu, Path(field, s, ends, X, mu),
         NEW n \in Nat, n >= 2, NEW w, Halfway(w, n - 1, field, s, ends, X, mu)
  PROVE  Halfway(Further(field, ends, w, n), n, field, s, ends, X, mu)
<1> DEFINE x == field[w[Len(w)]]
<1>1. /\ w \in Seq(X) /\ Len(w) >= 1 /\ Len(w) <= n - 1 /\ w[1] = s /\ Len(w) \in Nat
      /\ \A i \in 1 .. Len(w) - 1 : w[i + 1] = field[w[i]]
      /\ \A i, j \in 1 .. Len(w) : i < j => mu[w[i]] < mu[w[j]]
      /\ Len(w) < n - 1 => x \in ends \cup {Null}
  BY DEF Halfway
<1>2. CASE x \in ends \cup {Null}
  <2>1. Further(field, ends, w, n) = w
    BY <1>2 DEF Further
  <2> QED BY <1>1, <1>2, <2>1 DEF Halfway
<1>3. CASE x \notin ends \cup {Null}
  <2>1. Len(w) = n - 1
    BY <1>1, <1>3
  <2> DEFINE v == Append(w, x)
  <2>2. Further(field, ends, w, n) = v
    BY <1>3, <2>1 DEF Further
  <2>3. w[Len(w)] \in X /\ x \in X /\ mu[w[Len(w)]] < mu[x] /\ mu \in [Symbols -> Int] /\ X \subseteq Symbols
    <3>1. w[Len(w)] \in X
      BY <1>1
    <3> QED BY <1>3, <3>1 DEF Path
  <2> HIDE DEF x
  <2>4. v \in Seq(X) /\ Len(v) = n /\ v[n] = x /\ \A i \in 1 .. n - 1 : v[i] = w[i] /\ w[i] \in X
    BY <1>1, <2>1, <2>3
  <2> HIDE DEF v
  <2>5. \A i \in 1 .. n - 1 : v[i + 1] = field[v[i]]
    <3> TAKE i \in 1 .. n - 1
    <3>1. CASE i = n - 1
      BY <2>1, <2>4, <3>1 DEF x
    <3>2. CASE i < n - 1
      <4>1. i \in 1 .. Len(w) - 1 /\ i + 1 \in 1 .. n - 1
        BY <2>1, <3>2
      <4> QED BY <1>1, <2>4, <4>1
    <3> QED BY <3>1, <3>2
  <2>6. \A i, j \in 1 .. n : i < j => mu[v[i]] < mu[v[j]]
    <3> TAKE i, j \in 1 .. n
    <3> HAVE i < j
    <3>1. CASE j < n
      BY <1>1, <2>1, <2>4, <3>1
    <3>2. CASE j = n
      <4>1. i \in 1 .. n - 1 /\ v[i] = w[i] /\ v[j] = x /\ w[n - 1] \in X /\ w[i] \in X
        BY <2>4, <3>2
      <4>2. mu[w[i]] \in Int /\ mu[w[n - 1]] \in Int /\ mu[x] \in Int /\ mu[w[n - 1]] < mu[x]
        BY <2>1, <2>3, <4>1
      <4>3. i = n - 1 \/ mu[w[i]] < mu[w[n - 1]]
        BY <1>1, <2>1, <4>1
      <4> QED BY <4>1, <4>2, <4>3
    <3> QED BY <3>1, <3>2
  <2>7. v[1] = s
    BY <1>1, <2>4
  <2> QED BY <2>2, <2>4, <2>5, <2>6, <2>7 DEF Halfway
<1> QED BY <1>2, <1>3

\* A walk along a path meets all of it, in its order.
LEMMA WalkVisits ==
  ASSUME NEW field, NEW s, NEW ends, NEW X, NEW mu, Path(field, s, ends, X, mu)
  PROVE  Visited(Walk(field, s, ends), field, s, ends, X, mu)
<1> DEFINE M == MaxSymbols + 1
           Good(w, n) == Halfway(w, n, field, s, ends, X, mu)
<1>1. PICK f : Stages(field, s, ends, M, f) /\ Walk(field, s, ends) = f[M]
  BY WalkStages
<1>2. M \in Nat /\ M >= 2 /\ Cardinality(Symbols) = MaxSymbols /\ IsFiniteSet(Symbols)
  <2>1. MaxSymbols \in Nat /\ MaxSymbols >= 1
    BY SizesAssumption
  <2>2. IsFiniteSet(Symbols) /\ Cardinality(Symbols) = MaxSymbols
    BY <2>1, FS_Interval DEF Symbols
  <2> QED BY <2>1, <2>2
<1>3. /\ X \subseteq Symbols /\ s \in X /\ mu \in [Symbols -> Int]
      /\ \A x \in X \ {s} : x \notin ends \cup {Null} /\ \E p \in X : field[p] = x /\ mu[p] < mu[x]
      /\ \A x \in X : mu[x] >= 0
  BY DEF Path
<1> HIDE DEF M
<1>4. /\ f[1] = <<s>>
      /\ \A i \in 1 .. M : i # 1 => f[i] = Further(field, ends, f[i - 1], i)
  <2>1. f = [i \in 1 .. M |-> IF i = 1 THEN <<s>> ELSE Further(field, ends, f[i - 1], i)]
    BY <1>1 DEF Stages
  <2> QED BY <1>2, <2>1
<1>5. Good(f[1], 1)
  <2>1. <<s>> \in Seq(X) /\ Len(<<s>>) = 1
    BY <1>3
  <2> QED BY <1>4, <2>1 DEF Halfway
<1> DEFINE T == {n \in Nat : n >= 1 /\ n <= M /\ ~ Good(f[n], n)}
<1>6. T = {}
  <2> SUFFICES ASSUME T # {} PROVE FALSE
    OBVIOUS
  <2> HIDE DEF Good
  <2>1. PICK m \in T : \A k \in T : m <= k
    <3>1. T \subseteq Nat
      OBVIOUS
    <3> HIDE DEF T
    <3> QED BY <3>1, LeastNat
  <2>2. m \in Nat /\ m >= 1 /\ m <= M /\ ~ Good(f[m], m)
    OBVIOUS
  <2>3. m # 1
    BY <1>5, <2>2
  <2>4. m - 1 \in Nat /\ m - 1 >= 1 /\ m - 1 <= M /\ m - 1 \notin T /\ m >= 2 /\ m \in 1 .. M
    BY <1>2, <2>1, <2>2, <2>3
  <2>5. Good(f[m - 1], m - 1)
    BY <2>4
  <2>6. Good(Further(field, ends, f[m - 1], m), m)
    BY <2>2, <2>4, <2>5, HalfwayFurther DEF Good
  <2> QED BY <1>4, <2>2, <2>3, <2>4, <2>6
<1> DEFINE w == f[M]
<1>7. Good(w, M)
  <2> HIDE DEF Good
  <2> QED BY <1>2, <1>6
<1> HIDE DEF T, w
<1>8. /\ w \in Seq(X) /\ Len(w) >= 1 /\ Len(w) <= M /\ w[1] = s /\ Len(w) \in Nat
      /\ \A i \in 1 .. Len(w) - 1 : w[i + 1] = field[w[i]]
      /\ \A i, j \in 1 .. Len(w) : i < j => mu[w[i]] < mu[w[j]]
      /\ Len(w) < M => field[w[Len(w)]] \in ends \cup {Null}
  BY <1>7 DEF Halfway
<1>9. Len(w) < M
  <2> SUFFICES ASSUME Len(w) = M PROVE FALSE
    BY <1>2, <1>8
  <2>1. \A i \in 1 .. M : w[i] \in Symbols /\ mu[w[i]] \in Int
    BY <1>3, <1>8
  <2>2. \A i, j \in 1 .. M : i # j => w[i] # w[j]
    <3> TAKE i, j \in 1 .. M
    <3> HAVE i # j
    <3>1. i < j \/ j < i
      OBVIOUS
    <3>2. mu[w[i]] < mu[w[j]] \/ mu[w[j]] < mu[w[i]]
      BY <1>8, <3>1
    <3> QED BY <2>1, <3>2
  <2> DEFINE e == [i \in 1 .. M |-> w[i]]
  <2>3. e \in [1 .. M -> Symbols] /\ \A i, j \in 1 .. M : i # j => e[i] # e[j]
    BY <2>1, <2>2
  <2>4. IsFiniteSet(1 .. M) /\ Cardinality(1 .. M) = M /\ Cardinality(Symbols) < M
    <3>1. IsFiniteSet(1 .. M) /\ Cardinality(1 .. M) = M
      BY <1>2, FS_Interval
    <3> QED BY <1>2, <3>1, SizesAssumption DEF M
  <2> HIDE DEF e
  <2>5. \E i, j \in 1 .. M : i # j /\ e[i] = e[j]
    BY <1>2, <2>3, <2>4, FS_PigeonHole
  <2> QED BY <2>3, <2>5
<1>10. Elements(w) = X
  <2>1. Elements(w) \subseteq X
    BY <1>8 DEF Elements
  <2> DEFINE V == X \ Elements(w)
             N == {mu[x] : x \in V}
  <2>2. ASSUME V # {} PROVE FALSE
    <3>1. N \subseteq Nat /\ N # {}
      BY <1>3, <2>2
    <3>2. PICK l \in N : \A k \in N : l <= k
      <4> HIDE DEF N
      <4> QED BY <3>1, LeastNat
    <3>3. PICK x \in V : mu[x] = l
      BY <3>2
    <3>4. x # s
      <4>1. s \in Elements(w)
        BY <1>8 DEF Elements
      <4> QED BY <4>1
    <3>5. x \notin ends \cup {Null}
      BY <1>3, <3>4
    <3>6. PICK p \in X : field[p] = x /\ mu[p] < mu[x]
      BY <1>3, <3>4
    <3>7. p \in Elements(w)
      <4>1. mu[p] \in Int /\ mu[x] \in Int
        BY <1>3
      <4>2. p \in V => mu[x] <= mu[p]
        BY <3>2, <3>3
      <4> HIDE DEF V
      <4>3. p \notin V
        BY <3>6, <4>1, <4>2
      <4> QED BY <4>3 DEF V
    <3>8. PICK i \in 1 .. Len(w) : p = w[i]
      BY <1>8, <3>7 DEF Elements
    <3>9. CASE i = Len(w)
      BY <1>8, <1>9, <3>5, <3>6, <3>8, <3>9
    <3>10. CASE i # Len(w)
      <4>1. i \in 1 .. Len(w) - 1 /\ i + 1 \in 1 .. Len(w)
        BY <1>8, <3>10
      <4>2. w[i + 1] = x
        BY <1>8, <3>6, <3>8, <4>1
      <4>3. x \in Elements(w)
        BY <1>8, <4>1, <4>2 DEF Elements
      <4> QED BY <4>3
    <3> QED BY <3>9, <3>10
  <2> QED BY <2>1, <2>2
<1>11. \A i \in 1 .. Len(w) : IF i = Len(w) THEN field[w[i]] \in ends \cup {Null} ELSE w[i + 1] = field[w[i]]
  <2> TAKE i \in 1 .. Len(w)
  <2>1. i # Len(w) => i \in 1 .. Len(w) - 1
    BY <1>8
  <2> QED BY <1>8, <1>9, <2>1
<1> QED BY <1>1, <1>8, <1>10, <1>11 DEF Visited, w

\* The symbols of a rule, the rules, and the symbols that wait, as the walks meet them.
Of(O, own, r) == {x \in O : own[x] = r}
BodyOrder(a, r) == [x \in Symbols |-> IF x = r THEN 0 ELSE a[x] + 1]

\* The symbols of a rule are met by a walk from its head along next.
LEMMA BodyPath ==
  ASSUME NEW h, NEW in, NEW E, NEW R, NEW O, NEW own, NEW a, NEW z, NEW rank, NEW n,
         Sound(h, in, E, R, O, own, a, z, rank, n), NEW r \in R
  PROVE  Path(h.next, r, {r}, {r} \cup Of(O, own, r), BodyOrder(a, r))
<1> DEFINE X == {r} \cup Of(O, own, r)
           mu == BodyOrder(a, r)
<1>1. /\ Linked(h, R, O, own) /\ Stretched(h, in, R, O, own, a, z) /\ r \in Symbols /\ O \subseteq Symbols
      /\ R \subseteq Symbols /\ R \cap O = {} /\ r \notin O
  BY DEF Sound, Linked
<1>2. X \subseteq Symbols /\ Null \notin Symbols
  BY <1>1, NullApart DEF Of
<1>3. a \in [Symbols -> Int] /\ z \in [Symbols -> Int] /\ \A s \in O : 0 <= a[s] /\ a[s] < z[s]
  BY <1>1, Inside DEF Stretched
<1>4. mu \in [Symbols -> Int] /\ mu[r] = 0 /\ \A x \in O : mu[x] = a[x] + 1 /\ mu[x] > 0
  BY <1>1, <1>3 DEF BodyOrder
<1> HIDE DEF mu
<1>5. \A x \in X : mu[x] >= 0
  <2> TAKE x \in X
  <2>1. x = r \/ x \in O
    BY DEF Of
  <2> QED BY <1>1, <1>4, <2>1
<1>6. ASSUME NEW x \in X, NEW y \in O, y = h.next[x] PROVE mu[x] < mu[y]
  <2>1. CASE x = r
    BY <1>4, <1>6, <2>1
  <2>2. CASE x # r
    <3>1. x \in O /\ z[x] = a[y]
      BY <1>1, <1>6, <2>2 DEF Of, Stretched
    <3>2. a[x] \in Int /\ a[y] \in Int /\ a[x] < a[y]
      BY <1>1, <1>3, <3>1
    <3> QED BY <1>4, <3>1, <3>2
  <2> QED BY <2>1, <2>2
<1>7. ASSUME NEW x \in X PROVE h.next[x] = r \/ (h.next[x] \in X /\ mu[x] < mu[h.next[x]])
  <2> DEFINE y == h.next[x]
  <2>1. y \in R \cup O /\ own[y] = r
    BY <1>1 DEF Of, Linked
  <2>2. y \in R => y = r
    BY <1>1, <2>1 DEF Linked
  <2> HIDE DEF y
  <2>3. y \in O => y \in X /\ mu[x] < mu[y]
    BY <1>6, <2>1 DEF Of, y
  <2> QED BY <2>1, <2>2, <2>3 DEF y
<1>8. ASSUME NEW x \in X \ {r} PROVE x \notin {r} \cup {Null} /\ \E p \in X : h.next[p] = x /\ mu[p] < mu[x]
  <2> DEFINE p == h.prev[x]
  <2>1. x \in O /\ own[x] = r
    BY DEF Of
  <2>2. p \in R \cup O /\ h.next[p] = x /\ own[p] = r
    <3>1. p \in R \cup O /\ h.next[p] = x
      BY <1>1, <2>1 DEF Linked
    <3> QED BY <1>1, <2>1, <3>1 DEF Linked
  <2>3. p \in R => p = r
    BY <1>1, <2>2 DEF Linked
  <2> HIDE DEF p
  <2>4. p \in X
    BY <2>2, <2>3 DEF Of
  <2>5. mu[p] < mu[x]
    BY <1>6, <2>1, <2>2, <2>4
  <2> QED BY <1>2, <2>2, <2>4, <2>5
<1> HIDE DEF X
<1> QED BY <1>2, <1>4, <1>5, <1>7, <1>8 DEF Path, X, mu

\* The rules are met by a walk from the main rule along nextr.
LEMMA RulesPath ==
  ASSUME NEW h, NEW in, NEW E, NEW R, NEW O, NEW own, NEW a, NEW z, NEW rank, NEW n,
         Sound(h, in, E, R, O, own, a, z, rank, n)
  PROVE  Path(h.nextr, h.main, {h.main}, R, h.value)
<1>1. h \in Storage /\ Ringed(h, R) /\ h.main \in R /\ R \subseteq Symbols /\ Null \notin Symbols
  BY NullApart DEF Sound, Named, Linked
<1>2. h.value \in [Symbols -> Int] /\ \A x \in R : h.value[x] >= 0
  BY <1>1 DEF Storage
<1>3. ASSUME NEW x \in R
      PROVE  h.nextr[x] = h.main \/ (h.nextr[x] \in R /\ h.value[x] < h.value[h.nextr[x]])
  BY <1>1, <1>2 DEF Ringed
<1>4. ASSUME NEW x \in R \ {h.main}
      PROVE  \E p \in R : h.nextr[p] = x /\ h.value[p] < h.value[x]
  <2> DEFINE p == h.prevr[x]
  <2>1. p \in R /\ h.nextr[p] = x
    BY <1>1 DEF Ringed
  <2>2. h.value[p] < h.value[x]
    BY <1>3, <2>1
  <2> QED BY <2>1, <2>2
<1> QED BY <1>1, <1>2, <1>3, <1>4 DEF Path

\* Each rank belongs to one of the symbols that wait for reuse.
LEMMA RanksAll ==
  ASSUME NEW h, NEW R, NEW O, NEW rank, NEW n, Spared(h, R, O, rank, n), NEW j \in 1 .. n
  PROVE  \E p \in Waiting(h, R, O) : rank[p] = j
<1> DEFINE P == Waiting(h, R, O)
<1>1. /\ n \in Nat /\ \A x \in P : rank[x] \in 1 .. n
      /\ n > 0 => h.recycled \in P /\ rank[h.recycled] = n
      /\ \A x \in P : rank[x] # 1 => h.next[x] \in P /\ rank[h.next[x]] = rank[x] - 1
  BY DEF Spared
<1> HIDE DEF P
<1> DEFINE U == {i \in Nat : i < n /\ \A p \in P : rank[p] # n - i}
<1>2. U = {}
  <2> SUFFICES ASSUME U # {} PROVE FALSE
    OBVIOUS
  <2>1. PICK i \in U : \A k \in U : i <= k
    <3>1. U \subseteq Nat
      OBVIOUS
    <3> HIDE DEF U
    <3> QED BY <3>1, LeastNat
  <2>2. i # 0
    <3> SUFFICES ASSUME i = 0 PROVE FALSE
      OBVIOUS
    <3>1. n > 0 /\ n - i = n /\ \A p \in P : rank[p] # n - i
      BY <1>1
    <3>2. h.recycled \in P /\ rank[h.recycled] = n
      BY <1>1, <3>1
    <3> QED BY <3>1, <3>2
  <2>3. i - 1 \in Nat /\ i - 1 < n /\ i - 1 \notin U
    <3>1. i \in Nat /\ i < n
      OBVIOUS
    <3>2. i - 1 \in Nat /\ i - 1 < n /\ ~ (i <= i - 1)
      BY <1>1, <2>2, <3>1
    <3> HIDE DEF U
    <3> QED BY <2>1, <3>2
  <2>4. PICK p \in P : rank[p] = n - (i - 1)
    BY <2>3
  <2>5. rank[p] # 1 /\ rank[p] - 1 = n - i
    BY <1>1, <2>4
  <2> QED BY <1>1, <2>5
<1>3. n - j \notin U /\ n - j \in Nat /\ n - j < n /\ n - (n - j) = j
  <2>1. n - j \in Nat /\ n - j < n /\ n - (n - j) = j
    BY <1>1
  <2> HIDE DEF U
  <2> QED BY <1>2, <2>1
<1>4. \E p \in P : rank[p] = j
  BY <1>3
<1> QED BY <1>4 DEF P

\* The symbols that wait for reuse are met by a walk along next.
LEMMA WaitingPath ==
  ASSUME NEW h, NEW R, NEW O, NEW rank, NEW n, Spared(h, R, O, rank, n)
  PROVE  IF h.recycled = Null THEN Waiting(h, R, O) = {}
         ELSE Path(h.next, h.recycled, {}, Waiting(h, R, O), [x \in Symbols |-> n - rank[x]])
<1> DEFINE P == Waiting(h, R, O)
           mu == [x \in Symbols |-> n - rank[x]]
<1>1. /\ n \in Nat /\ \A x \in P : rank[x] \in 1 .. n
      /\ n = 0 => h.recycled = Null
      /\ n > 0 => h.recycled \in P /\ rank[h.recycled] = n
      /\ \A x \in P : rank[x] = 1 => h.next[x] = Null
      /\ \A x \in P : rank[x] # 1 => h.next[x] \in P /\ rank[h.next[x]] = rank[x] - 1
      /\ rank \in [Symbols -> Int]
      /\ \A x, y \in P : rank[x] = rank[y] => x = y
  BY DEF Spared
<1>2. P \subseteq Symbols /\ Null \notin Symbols
  <2>1. h.num \in 0 .. MaxSymbols /\ MaxSymbols \in Nat
    BY SizesAssumption DEF Spared
  <2>2. 0 .. h.num - 1 \subseteq Symbols
    BY <2>1 DEF Symbols
  <2> QED BY <2>2, NullApart DEF Waiting
<1> HIDE DEF P
<1>3. CASE n = 0
  <2>1. P = {}
    BY <1>1, <1>3
  <2> QED BY <1>1, <1>3, <2>1 DEF P
<1>4. CASE n > 0
  <2>1. h.recycled \in P /\ rank[h.recycled] = n /\ h.recycled # Null
    BY <1>1, <1>2, <1>4
  <2>2. mu \in [Symbols -> Int] /\ \A x \in P : mu[x] = n - rank[x] /\ mu[x] >= 0
    BY <1>1, <1>2
  <2> HIDE DEF mu
  <2>3. \A x \in P : h.next[x] \in {} \cup {Null} \/ (h.next[x] \in P /\ mu[x] < mu[h.next[x]])
    <3> TAKE x \in P
    <3>1. CASE rank[x] = 1
      BY <1>1, <3>1
    <3>2. CASE rank[x] # 1
      <4>1. h.next[x] \in P /\ rank[h.next[x]] = rank[x] - 1 /\ rank[x] \in Int
        BY <1>1, <3>2
      <4>2. mu[x] = n - rank[x] /\ mu[h.next[x]] = n - (rank[x] - 1)
        BY <2>2, <4>1
      <4> QED BY <1>1, <4>1, <4>2
    <3> QED BY <3>1, <3>2
  <2>4. \A x \in P \ {h.recycled} :
          x \notin {} \cup {Null} /\ \E p \in P : h.next[p] = x /\ mu[p] < mu[x]
    <3> TAKE x \in P \ {h.recycled}
    <3>1. rank[x] \in 1 .. n /\ rank[x] # n
      BY <1>1, <2>1
    <3>2. rank[x] + 1 \in 1 .. n
      BY <1>1, <3>1
    <3>3. PICK p \in P : rank[p] = rank[x] + 1
      BY <3>2, RanksAll DEF P
    <3>4. h.next[p] \in P /\ rank[h.next[p]] = rank[x]
      BY <1>1, <3>1, <3>3
    <3>5. h.next[p] = x
      BY <1>1, <3>4
    <3>6. mu[p] < mu[x]
      <4>1. mu[p] = n - (rank[x] + 1) /\ mu[x] = n - rank[x]
        BY <2>2, <3>3
      <4> QED BY <1>1, <3>1, <4>1
    <3> QED BY <1>2, <3>5, <3>6
  <2>5. Path(h.next, h.recycled, {}, P, mu)
    BY <1>2, <2>1, <2>2, <2>3, <2>4 DEF Path
  <2> QED BY <2>1, <2>5 DEF P, mu
<1> QED BY <1>1, <1>3, <1>4

-----------------------------------------------------------------------------
(* What the properties' walks meet in the grammar.                         *)

Before(b, r, i) == IF i = 1 THEN r ELSE b[i - 1]

\* b is the right-hand side of r: each symbol follows the one before it, back to r.
Lined(b, h, O, own, r) ==
  /\ b \in Seq(O) /\ Elements(b) = Of(O, own, r)
  /\ \A i \in 1 .. Len(b) : b[i] = h.next[Before(b, r, i)]
  /\ h.next[Before(b, r, Len(b) + 1)] = r

\* The body of a rule, as the properties read it, is its list in order.
LEMMA BodyLined ==
  ASSUME NEW in, NEW E, NEW R, NEW O, NEW own, NEW a, NEW z, NEW rank, NEW n,
         Sound(g, in, E, R, O, own, a, z, rank, n), NEW r \in R
  PROVE  Lined(Body(r), g, O, own, r)
<1> DEFINE w == Walk(g.next, r, {r})
           X == {r} \cup Of(O, own, r)
           mu == BodyOrder(a, r)
           b == Tail(w)
<1>1. Path(g.next, r, {r}, X, mu)
  BY BodyPath
<1>2. Visited(w, g.next, r, {r}, X, mu)
  <2> HIDE DEF w, X, mu
  <2>1. Visited(Walk(g.next, r, {r}), g.next, r, {r}, X, mu)
    BY <1>1, WalkVisits
  <2> QED BY <2>1 DEF w
<1>3. Body(r) = b
  BY DEF Body
<1> HIDE DEF w
<1>4. /\ mu \in [Symbols -> Int] /\ X \subseteq Symbols /\ Null \notin R \cup O
      /\ Linked(g, R, O, own) /\ R \cap O = {}
  <2>1. Linked(g, R, O, own) /\ R \cap O = {} /\ R \subseteq Symbols /\ O \subseteq Symbols
    BY Gives
  <2> QED BY <1>1, <2>1, NullApart DEF Path
<1> HIDE DEF mu
<1>5. /\ w \in Seq(X) /\ Len(w) >= 1 /\ w[1] = r
      /\ \A i \in 1 .. Len(w) : IF i = Len(w) THEN g.next[w[i]] \in {r} \cup {Null} ELSE w[i + 1] = g.next[w[i]]
      /\ \A i, j \in 1 .. Len(w) : i < j => mu[w[i]] < mu[w[j]]
      /\ Elements(w) = X
  BY <1>2 DEF Visited
<1> HIDE DEF X
<1>6. Len(b) = Len(w) - 1 /\ b \in Seq(X) /\ \A i \in 1 .. Len(b) : b[i] = w[i + 1] /\ w[i + 1] \in X
  BY <1>5
<1> HIDE DEF b
<1>7. Len(w) \in Nat /\ Len(b) \in Nat /\ Len(w) = Len(b) + 1
  BY <1>5, <1>6
<1>8. ASSUME NEW i \in 1 .. Len(b) PROVE b[i] \in Of(O, own, r) /\ b[i] \in O
  <2>1. i + 1 \in 1 .. Len(w) /\ 1 \in 1 .. Len(w) /\ 1 < i + 1
    BY <1>7
  <2>2. mu[w[1]] < mu[w[i + 1]]
    BY <1>5, <2>1
  <2>3. w[1] \in X /\ w[i + 1] \in X
    BY <1>5, <2>1
  <2>4. w[i + 1] # r
    BY <1>4, <1>5, <2>2, <2>3
  <2> QED BY <1>6, <2>3, <2>4 DEF X, Of
<1>9. b \in Seq(O)
  BY <1>6, <1>8
<1>10. Elements(b) = Of(O, own, r)
  <2>1. ASSUME NEW x \in Of(O, own, r) PROVE x \in Elements(b)
    <3>1. x \in X /\ x # r
      BY <1>4 DEF X, Of
    <3>2. PICK i \in 1 .. Len(w) : w[i] = x
      BY <1>5, <3>1 DEF Elements
    <3>3. i # 1 /\ i - 1 \in 1 .. Len(b) /\ (i - 1) + 1 = i
      BY <1>5, <1>7, <3>1, <3>2
    <3>4. b[i - 1] = x
      BY <1>6, <3>2, <3>3
    <3> QED BY <1>9, <3>3, <3>4 DEF Elements
  <2> QED BY <1>8, <1>9, <2>1 DEF Elements
<1>11. \A i \in 1 .. Len(w) : Before(b, r, i) = w[i]
  <2> TAKE i \in 1 .. Len(w)
  <2>1. CASE i = 1
    BY <1>5, <2>1 DEF Before
  <2>2. CASE i # 1
    <3>1. i - 1 \in 1 .. Len(b) /\ (i - 1) + 1 = i
      BY <1>7, <2>2
    <3>2. b[i - 1] = w[i]
      BY <1>6, <3>1
    <3> QED BY <2>2, <3>2 DEF Before
  <2> QED BY <2>1, <2>2
<1>12. \A i \in 1 .. Len(b) : b[i] = g.next[Before(b, r, i)]
  <2> TAKE i \in 1 .. Len(b)
  <2>1. i \in 1 .. Len(w) /\ i # Len(w)
    BY <1>7
  <2>2. w[i + 1] = g.next[w[i]] /\ Before(b, r, i) = w[i]
    BY <1>5, <1>11, <2>1
  <2> QED BY <1>6, <2>2
<1>13. g.next[Before(b, r, Len(b) + 1)] = r
  <2>1. Len(w) \in 1 .. Len(w)
    BY <1>5, <1>7
  <2>2. w[Len(w)] \in X /\ X \subseteq R \cup O
    BY <1>5, <2>1 DEF X, Of
  <2>3. g.next[w[Len(w)]] \in {r} \cup {Null} /\ g.next[w[Len(w)]] # Null
    <3>1. g.next[w[Len(w)]] \in R \cup O
      BY <1>4, <2>2 DEF Linked
    <3> QED BY <1>4, <1>5, <2>1, <3>1
  <2> QED BY <1>7, <1>11, <2>1, <2>3
<1> QED BY <1>3, <1>9, <1>10, <1>12, <1>13 DEF Lined

\* The rules, the occurrences and the recycled symbols that the properties walk to.
LEMMA Accounts ==
  ASSUME NEW in, NEW E, NEW R, NEW O, NEW own, NEW a, NEW z, NEW rank, NEW n,
         Sound(g, in, E, R, O, own, a, z, rank, n)
  PROVE  Rules = R /\ Occurrences = O /\ Recycled = Waiting(g, R, O)
<1>1. Rules = R
  <2>1. Visited(Walk(g.nextr, g.main, {g.main}), g.nextr, g.main, {g.main}, R, g.value)
    BY RulesPath, WalkVisits
  <2> QED BY <2>1 DEF Visited, Rules
<1>2. Occurrences = O
  <2>1. \A r \in R : Elements(Body(r)) = Of(O, own, r)
    BY BodyLined DEF Lined
  <2>2. Occurrences = UNION {Of(O, own, r) : r \in R}
    BY <1>1, <2>1 DEF Occurrences
  <2>3. \A x \in O : own[x] \in R
    BY Inside
  <2>4. \A x \in O : x \in Of(O, own, own[x])
    BY DEF Of
  <2>5. \A r \in R : Of(O, own, r) \subseteq O
    BY DEF Of
  <2> QED BY <2>2, <2>3, <2>4, <2>5
<1>3. Recycled = Waiting(g, R, O)
  <2> DEFINE P == Waiting(g, R, O)
             mu == [x \in Symbols |-> n - rank[x]]
  <2>1. IF g.recycled = Null THEN P = {} ELSE Path(g.next, g.recycled, {}, P, mu)
    BY WaitingPath DEF Sound
  <2> HIDE DEF P, mu
  <2>2. ASSUME g.recycled # Null PROVE Elements(Walk(g.next, g.recycled, {})) = P
    <3>1. Path(g.next, g.recycled, {}, P, mu)
      BY <2>1, <2>2
    <3>2. Visited(Walk(g.next, g.recycled, {}), g.next, g.recycled, {}, P, mu)
      BY <3>1, WalkVisits
    <3> QED BY <3>2 DEF Visited
  <2>3. Recycled = P
    BY <2>1, <2>2 DEF Recycled
  <2> QED BY <2>3 DEF P
<1> QED BY <1>1, <1>2, <1>3

\* A rule's reference count is the number of its occurrences on the right-hand sides, on
\* which the decision to delete a rule rests (sequitur.c:264-275).
THEOREM GrammarCounts == Spec => []CountsTrue
<1>1. GrammarInv => CountsTrue
  <2> SUFFICES ASSUME GrammarInv, g.fault = "none" PROVE CountsTrue
    BY DEF CountsTrue, Running
  <2>1. PICK R, O, own, a, z, rank, n, S : Parsed(g, input, R, O, own, a, z, rank, n, S)
    BY Tops DEF GrammarInv, Kept
  <2>2. Sound(g, input, {g.main}, R, O, own, a, z, rank, n)
    BY <2>1 DEF Parsed
  <2>3. Rules = R /\ Occurrences = O
    BY <2>2, Accounts
  <2>4. \A r \in R : g.refcnt[r] = Cardinality({s \in O : g.rule[s] = r})
    BY <2>2 DEF Sound, Counted, Uses
  <2> QED BY <2>3, <2>4 DEF CountsTrue
<1> QED BY <1>1, GrammarAlways, PTL

\* Every symbol that was ever taken from the storage is a rule's head, or stands in one
\* rule, or waits for reuse, and is only one of these (symbol.c:64-109).
THEOREM GrammarAccounted == Spec => []StorageAccounted
<1>1. GrammarInv => StorageAccounted
  <2> SUFFICES ASSUME GrammarInv, g.fault = "none" PROVE StorageAccounted
    BY DEF StorageAccounted, Running
  <2>1. PICK R, O, own, a, z, rank, n, S : Parsed(g, input, R, O, own, a, z, rank, n, S)
    BY Tops DEF GrammarInv, Kept
  <2>2. Sound(g, input, {g.main}, R, O, own, a, z, rank, n)
    BY <2>1 DEF Parsed
  <2>3. Rules = R /\ Occurrences = O /\ Recycled = Waiting(g, R, O)
    BY <2>2, Accounts
  <2>4. R \cap O = {} /\ R \cup O \subseteq 0 .. g.num - 1
    BY <2>2 DEF Sound, Linked, Spared
  <2>5. /\ R \cup O \cup Waiting(g, R, O) = 0 .. g.num - 1
        /\ Waiting(g, R, O) \cap (R \cup O) = {}
    BY <2>4 DEF Waiting
  <2> QED BY <2>3, <2>4, <2>5 DEF StorageAccounted
<1> QED BY <1>1, GrammarAlways, PTL

\* The table points only at digrams of the grammar, and each is found by its own values
\* (sequitur.c:34-37, diagram_hash.c:32).
THEOREM GrammarTable == Spec => []TableSound
<1>1. GrammarInv => TableSound
  <2> SUFFICES ASSUME GrammarInv, g.fault = "none" PROVE TableSound
    BY DEF TableSound, Running
  <2>1. PICK R, O, own, a, z, rank, n, S : Parsed(g, input, R, O, own, a, z, rank, n, S)
    BY Tops DEF GrammarInv, Kept
  <2>2. Sound(g, input, {g.main}, R, O, own, a, z, rank, n) /\ Tabled(g, O)
    BY <2>1 DEF Parsed
  <2>3. Occurrences = O /\ g \in Storage
    BY <2>2, Accounts, Gives
  <2>4. ASSUME NEW s \in {g.table[i] : i \in Slots} \ {Null, Tombstone} PROVE s \in Entered(g)
    BY <2>3 DEF Entered, Storage
  <2>5. \A s \in Entered(g) : /\ s \in O /\ g.next[s] \in O
                              /\ digram_get(g, g.value[s], g.value[g.next[s]]) = s
    BY <2>2 DEF Tabled, Served, Lookup, First, Second
  <2> QED BY <2>3, <2>4, <2>5 DEF TableSound
<1> QED BY <1>1, GrammarAlways, PTL

-----------------------------------------------------------------------------
(* The activations.                                                        *)

LiveFrame(f, X) == {f.this, f.other} \subseteq X \cup {Null}
AllLive(D, X) == \A k \in 1 .. Len(D) : D[k].at # "right" => LiveFrame(D[k], X)

\* Activations are live if those below the topmost one are, and it is.
LEMMA AllLiveTop ==
  ASSUME NEW st \in Seq(Activations), st # <<>>, NEW X, AllLive(Tail(st), X),
         Head(st).at = "right" \/ LiveFrame(Head(st), X)
  PROVE  AllLive(st, X)
<1> SUFFICES ASSUME NEW k \in 1 .. Len(st), st[k].at # "right" PROVE LiveFrame(st[k], X)
  BY DEF AllLive
<1>1. CASE k = 1
  BY <1>1
<1>2. CASE k # 1
  <2> DEFINE D == Tail(st)
             j == k - 1
  <2>1. j \in 1 .. Len(D) /\ D[j] = st[k]
    BY <1>2
  <2>2. AllLive(D, X)
    OBVIOUS
  <2> HIDE DEF D, j
  <2> QED BY <2>1, <2>2 DEF AllLive
<1> QED BY <1>1, <1>2

\* The same for one and two activations on top of others.
LEMMA AllLiveOn ==
  ASSUME NEW C \in Seq(Activations), NEW X, AllLive(C, X), NEW y \in Activations,
         y.at = "right" \/ LiveFrame(y, X)
  PROVE  AllLive(<<y>> \o C, X) /\ <<y>> \o C \in Seq(Activations)
<1> DEFINE D == <<y>> \o C
<1>1. D \in Seq(Activations) /\ D # <<>> /\ Head(D) = y /\ Tail(D) = C
  BY OnTop
<1> HIDE DEF D
<1>2. AllLive(D, X)
  BY <1>1, AllLiveTop
<1> QED BY <1>1, <1>2 DEF D

\* Two live activations on top of live ones.
LEMMA AllLiveTwo ==
  ASSUME NEW C \in Seq(Activations), NEW X, AllLive(C, X), NEW y \in Activations, NEW x \in Activations,
         y.at = "right" \/ LiveFrame(y, X), x.at = "right" \/ LiveFrame(x, X)
  PROVE  AllLive(<<x, y>> \o C, X)
<1>1. AllLive(<<y>> \o C, X) /\ <<y>> \o C \in Seq(Activations)
  BY AllLiveOn
<1>2. AllLive(<<x>> \o (<<y>> \o C), X)
  <2> DEFINE D == <<y>> \o C
  <2>1. D \in Seq(Activations) /\ AllLive(D, X)
    BY <1>1
  <2> HIDE DEF D
  <2>2. AllLive(<<x>> \o D, X)
    BY <2>1, AllLiveOn
  <2> QED BY <2>2 DEF D
<1>3. <<x>> \o (<<y>> \o C) = <<x, y>> \o C
  BY Stacked
<1> QED BY <1>2, <1>3

\* Every activation that goes on with its symbols has symbols of the grammar.
LEMMA Alive ==
  ASSUME NEW h, NEW in, NEW st, NEW fd, Parsing(h, in, st, fd)
  PROVE  \E R, O, own, a, z, rank, n, S :
           /\ Parsed(h, in, R, O, own, a, z, rank, n, S) /\ st \in Seq(Activations)
           /\ AllLive(st, R \cup O)
           /\ st # <<>> /\ ~ fd => LiveFrame(Head(st), R \cup O)
<1>1. PICK R, O, own, a, z, rank, n, S, C :
        /\ Parsed(h, in, R, O, own, a, z, rank, n, S) /\ Chain(h, O, a, z, S, C)
        /\ R \subseteq Symbols /\ O \subseteq Symbols /\ st \in Seq(Activations)
        /\ \/ RestTop(h, C, st, fd) \/ CheckTop(h, R, O, C, st) \/ MatchTop(h, O, C, st)
           \/ ReplaceTop(h, R, O, C, st) \/ TwinTop(h, R, O, C, st)
           \/ SecondTop(h, R, O, C, st) \/ SideTop(h, R, O, C, st, fd)
  BY Tops
<1> DEFINE X == R \cup O
<1>2. Linked(h, R, O, own) /\ h.main \in R /\ S \subseteq R
  BY <1>1, Gives DEF Parsed, Spine
<1>3. C \in Seq(Frames) /\ C \in Seq(Activations)
  BY <1>1, FramesAct DEF Chain
<1>4. AllLive(C, X)
  <2> SUFFICES ASSUME NEW k \in 1 .. Len(C), C[k].at # "right" PROVE LiveFrame(C[k], X)
    BY DEF AllLive
  <2>1. C[k] \in Frames /\ Pending(h, O, a, z, S, C[k])
    BY <1>1, <1>3 DEF Chain
  <2>2. C[k].this \in R /\ C[k].other = Null
    BY <1>2, <2>1 DEF Pending, Frames
  <2> QED BY <2>2 DEF LiveFrame
<1>5. Tip(h) \in X /\ h.prev[Tip(h)] \in X
  BY <1>2 DEF Linked, Tip
<1> SUFFICES /\ AllLive(st, X)
             /\ st # <<>> /\ ~ fd => LiveFrame(Head(st), X)
  BY <1>1
<1>6. ASSUME st # <<>>, AllLive(Tail(st), X), LiveFrame(Head(st), X)
      PROVE  /\ AllLive(st, X)
             /\ st # <<>> /\ ~ fd => LiveFrame(Head(st), X)
  <2> HIDE DEF X
  <2> QED BY <1>1, <1>6, AllLiveTop
<1>7. CASE RestTop(h, C, st, fd)
  <2>1. st = C /\ (~fd => Coming(h, C))
    BY <1>7 DEF RestTop
  <2>2. ASSUME C # <<>>, ~ fd PROVE LiveFrame(Head(C), X)
    <3>1. Head(C) = C[1] /\ 1 \in 1 .. Len(C) /\ Head(C) \in Frames
      BY <1>3, <2>2
    <3>2. CASE Head(C).at = "right"
      <4>1. Head(C).this = h.prev[Tip(h)] /\ Head(C).other = Null
        BY <2>1, <2>2, <3>1, <3>2 DEF Coming, Frames
      <4> QED BY <1>5, <4>1 DEF LiveFrame
    <3>3. CASE Head(C).at # "right"
      <4> HIDE DEF X
      <4> QED BY <1>4, <3>1, <3>3 DEF AllLive
    <3> QED BY <3>2, <3>3
  <2> QED BY <1>4, <2>1, <2>2
<1>8. CASE CheckTop(h, R, O, C, st)
  <2>1. st # <<>> /\ Tail(st) = C /\ LiveFrame(Head(st), X)
    BY <1>8 DEF CheckTop, LiveFrame
  <2> QED BY <1>4, <1>6, <2>1
<1>9. CASE MatchTop(h, O, C, st)
  <2>1. st # <<>> /\ Tail(st) = C /\ LiveFrame(Head(st), X)
    BY <1>9 DEF MatchTop, LiveFrame
  <2> QED BY <1>4, <1>6, <2>1
<1>10. CASE ReplaceTop(h, R, O, C, st)
  <2>1. PICK f \in Frames : Tail(st) = <<f>> \o C /\ f.this = Head(st).other
    BY <1>10 DEF ReplaceTop
  <2>2. st # <<>> /\ LiveFrame(Head(st), X) /\ Head(st).other \in R
    BY <1>10 DEF ReplaceTop, LiveFrame
  <2>3. LiveFrame(f, X) /\ f \in Activations
    BY <2>1, <2>2, FramesAct DEF LiveFrame, Frames
  <2>4. AllLive(<<f>> \o C, X)
    <3> HIDE DEF X
    <3> QED BY <1>3, <1>4, <2>3, AllLiveOn
  <2> QED BY <1>6, <2>1, <2>2, <2>4
<1>11. CASE TwinTop(h, R, O, C, st)
  <2>1. PICK s \in O, o \in O, r \in R :
           /\ st # <<>> /\ Head(st).this = o /\ Head(st).other = r
           /\ Tail(st) = <<Frame("second", s, r)>> \o C
    BY <1>11 DEF TwinTop
  <2> DEFINE f == Frame("second", s, r)
  <2>2. LiveFrame(f, X) /\ f \in Activations
    BY <1>1 DEF LiveFrame, Frame, Activations, Ats
  <2>3. AllLive(<<f>> \o C, X)
    <3> HIDE DEF X, f
    <3> QED BY <1>3, <1>4, <2>2, AllLiveOn
  <2>4. LiveFrame(Head(st), X)
    BY <2>1 DEF LiveFrame
  <2> QED BY <1>6, <2>1, <2>3, <2>4
<1>12. CASE SecondTop(h, R, O, C, st)
  <2>1. st # <<>> /\ Tail(st) = C /\ LiveFrame(Head(st), X)
    BY <1>12 DEF SecondTop, LiveFrame
  <2> QED BY <1>4, <1>6, <2>1
<1>13. CASE SideTop(h, R, O, C, st, fd)
  <2>1. PICK s \in O, r \in R, t \in O, p \in R \cup O :
           /\ st # <<>> /\ Head(st).other = Null
           /\ \/ Head(st).this = p /\ Tail(st) = <<Frame("right", p, Null), Frame("second", s, r)>> \o C
              \/ Head(st).this = p /\ Tail(st) = <<Frame("second", s, r)>> \o C
              \/ Head(st).this = t /\ Tail(st) = <<Frame("second", s, r)>> \o C
    BY <1>13 DEF SideTop
  <2> DEFINE f == Frame("second", s, r)
             w == Frame("right", p, Null)
  <2>2. LiveFrame(f, X) /\ f \in Activations /\ w \in Activations /\ w.at = "right"
    BY <1>1 DEF LiveFrame, Frame, Activations, Ats
  <2>3. AllLive(<<f>> \o C, X) /\ AllLive(<<w, f>> \o C, X)
    <3> HIDE DEF X, f, w
    <3>1. AllLive(<<f>> \o C, X)
      BY <1>3, <1>4, <2>2, AllLiveOn
    <3>2. AllLive(<<w, f>> \o C, X)
      BY <1>3, <1>4, <2>2, AllLiveTwo
    <3> QED BY <3>1, <3>2
  <2>4. LiveFrame(Head(st), X)
    BY <2>1 DEF LiveFrame
  <2> QED BY <1>6, <2>1, <2>3, <2>4
<1> QED BY <1>1, <1>7, <1>8, <1>9, <1>10, <1>11, <1>12, <1>13

\* No activation goes on with a symbol that a deeper one has recycled (sequitur.c:149-277).
THEOREM GrammarFrames == Spec => []FramesLive
<1>1. GrammarInv => FramesLive
  <2> SUFFICES ASSUME GrammarInv, g.fault = "none" PROVE FramesLive
    BY DEF FramesLive, Running
  <2>1. PICK R, O, own, a, z, rank, n, S :
           /\ Parsed(g, input, R, O, own, a, z, rank, n, S) /\ stack \in Seq(Activations)
           /\ AllLive(stack, R \cup O)
           /\ stack # <<>> /\ ~ found => LiveFrame(Head(stack), R \cup O)
    BY Alive DEF GrammarInv, Kept
  <2>2. Rules = R /\ Occurrences = O
    BY <2>1, Accounts DEF Parsed
  <2>3. ASSUME NEW k \in DOMAIN stack, stack[k].at # "right" \/ (k = 1 /\ ~ found)
        PROVE  LiveFrame(stack[k], R \cup O)
    <3>1. k \in 1 .. Len(stack) /\ stack # <<>>
      BY <2>1
    <3>2. CASE stack[k].at # "right"
      BY <2>1, <3>1, <3>2 DEF AllLive
    <3>3. CASE k = 1 /\ ~ found
      BY <2>1, <3>1, <3>3
    <3> QED BY <2>3, <3>2, <3>3
  <2> QED BY <2>2, <2>3 DEF FramesLive, LiveFrame
<1> QED BY <1>1, GrammarAlways, PTL

-----------------------------------------------------------------------------
(* What the grammar stands for.                                            *)

\* The part of the input between two places.
Part(in, i, j) == SubSeq(in, i + 1, j)

\* A part of the input, byte by byte.
LEMMA Parts ==
  ASSUME NEW in \in Seq(Letters), NEW i \in Int, NEW j \in Int, 0 <= i, i <= j, j <= Len(in)
  PROVE  /\ Part(in, i, j) \in Seq(Letters) /\ Len(Part(in, i, j)) = j - i
         /\ \A k \in 1 .. j - i : Part(in, i, j)[k] = in[i + k]
<1>1. Part(in, i, j) \in Seq(Letters)
  <2>1. \A k \in i + 1 .. j : in[k] \in Letters
    OBVIOUS
  <2> QED BY <2>1 DEF Part
<1>2. Len(Part(in, i, j)) = j - i
  BY DEF Part
<1>3. \A k \in 1 .. j - i : Part(in, i, j)[k] = in[i + k]
  BY DEF Part
<1> QED BY <1>1, <1>2, <1>3

\* Two adjacent parts of the input make one.
LEMMA PartsJoin ==
  ASSUME NEW in \in Seq(Letters), NEW i \in Int, NEW j \in Int, NEW k \in Int,
         0 <= i, i <= j, j <= k, k <= Len(in)
  PROVE  Part(in, i, j) \o Part(in, j, k) = Part(in, i, k)
<1> DEFINE u == Part(in, i, j)
           v == Part(in, j, k)
           w == Part(in, i, k)
<1>1. /\ u \in Seq(Letters) /\ Len(u) = j - i /\ \A l \in 1 .. j - i : u[l] = in[i + l]
      /\ v \in Seq(Letters) /\ Len(v) = k - j /\ \A l \in 1 .. k - j : v[l] = in[j + l]
      /\ w \in Seq(Letters) /\ Len(w) = k - i /\ \A l \in 1 .. k - i : w[l] = in[i + l]
  <2>1. 0 <= j /\ i <= k /\ j <= Len(in)
    OBVIOUS
  <2>2. u \in Seq(Letters) /\ Len(u) = j - i /\ \A l \in 1 .. j - i : u[l] = in[i + l]
    BY <2>1, Parts
  <2>3. v \in Seq(Letters) /\ Len(v) = k - j /\ \A l \in 1 .. k - j : v[l] = in[j + l]
    BY <2>1, Parts
  <2>4. w \in Seq(Letters) /\ Len(w) = k - i /\ \A l \in 1 .. k - i : w[l] = in[i + l]
    BY <2>1, Parts
  <2> HIDE DEF u, v, w
  <2> QED BY <2>2, <2>3, <2>4
<1> HIDE DEF u, v, w
<1>2. u \o v \in Seq(Letters) /\ Len(u \o v) = k - i
  <2>1. u \in Seq(Letters) /\ v \in Seq(Letters) /\ Len(u) = j - i /\ Len(v) = k - j
    BY <1>1
  <2>2. u \o v \in Seq(Letters) /\ Len(u \o v) = Len(u) + Len(v)
    BY ONLY <2>1
  <2>3. (j - i) + (k - j) = k - i
    OBVIOUS
  <2> QED BY <2>1, <2>2, <2>3
<1>3. ASSUME NEW l \in 1 .. k - i PROVE (u \o v)[l] = w[l]
  <2>1. CASE l <= j - i
    BY <1>1, <2>1
  <2>2. CASE l > j - i
    <3> DEFINE m == l - (j - i)
    <3>1. m \in 1 .. k - j /\ j + m = i + l
      BY <2>2
    <3>2. (u \o v)[l] = v[m]
      <4>1. u \in Seq(Letters) /\ v \in Seq(Letters) /\ Len(u) = j - i /\ Len(v) = k - j
        BY <1>1
      <4>2. l > Len(u) /\ l \in 1 .. Len(u) + Len(v) /\ m = l - Len(u)
        BY <2>2, <4>1
      <4> HIDE DEF m
      <4> QED BY <4>1, <4>2
    <3> HIDE DEF m
    <3>3. v[m] = in[j + m] /\ w[l] = in[i + l]
      BY <1>1, <3>1
    <3> QED BY <3>1, <3>2, <3>3
  <2>3. l \in Int /\ (l <= j - i \/ l > j - i)
    OBVIOUS
  <2> QED BY ONLY <2>1, <2>2, <2>3
<1>4. u \o v = w
  BY <1>1, <1>2, <1>3, SameSeq
<1> QED BY <1>4 DEF u, v, w

\* Equal stretches of the input are equal parts of it.
LEMMA PartsSame ==
  ASSUME NEW in \in Seq(Letters), NEW i \in Int, NEW j \in Int, NEW l \in Nat,
         0 <= i, i + l <= Len(in), 0 <= j, j + l <= Len(in), SameText(in, i, j, l)
  PROVE  Part(in, i, i + l) = Part(in, j, j + l)
<1> DEFINE u == Part(in, i, i + l)
           v == Part(in, j, j + l)
<1>1. /\ u \in Seq(Letters) /\ Len(u) = l /\ \A k \in 1 .. l : u[k] = in[i + k]
      /\ v \in Seq(Letters) /\ Len(v) = l /\ \A k \in 1 .. l : v[k] = in[j + k]
  <2>1. i + l \in Int /\ j + l \in Int /\ i <= i + l /\ j <= j + l /\ (i + l) - i = l /\ (j + l) - j = l
    OBVIOUS
  <2>2. /\ u \in Seq(Letters) /\ Len(u) = (i + l) - i /\ \A k \in 1 .. (i + l) - i : u[k] = in[i + k]
    BY <2>1, Parts
  <2>3. /\ v \in Seq(Letters) /\ Len(v) = (j + l) - j /\ \A k \in 1 .. (j + l) - j : v[k] = in[j + k]
    BY <2>1, Parts
  <2> HIDE DEF u, v
  <2> QED BY <2>1, <2>2, <2>3
<1> HIDE DEF u, v
<1>2. u = v
  BY <1>1, SameSeq DEF SameText
<1> QED BY <1>2 DEF u, v

\* Meaning's functions.
TextOf(h, shorter, s) == IF IsNonterminal(h, s) THEN shorter[h.rule[s]] ELSE <<h.value[s]>>
Texts(h, shorter, body, f) ==
  f = [n \in 0 .. Len(body) |-> IF n = 0 THEN <<>> ELSE f[n - 1] \o TextOf(h, shorter, body[n])]
LineOf(h, shorter, body) == (CHOOSE f : Texts(h, shorter, body, f))[Len(body)]
WordsOf(h, bodies, shorter) == [r \in DOMAIN bodies |-> LineOf(h, shorter, bodies[r])]
Blank(bodies) == [r \in DOMAIN bodies |-> <<>>]
Words(h, bodies, m, f) ==
  f = [e \in 0 .. m |-> WordsOf(h, bodies, IF e = 0 THEN Blank(bodies) ELSE f[e - 1])]

\* The meaning of the grammar, as any function that satisfies its equations gives it.
LEMMA MeaningIs ==
  LET bodies == [r \in Rules |-> Body(r)]
      m == Cardinality(Rules)
  IN Meaning = (CHOOSE f : Words(g, bodies, m, f))[m][g.main]
<1> DEFINE bodies == [r \in Rules |-> Body(r)]
           m == Cardinality(Rules)
<1>1. Meaning = (CHOOSE f : f = [e \in 0 .. m |->
         [r \in Rules |-> LineOf(g, IF e = 0 THEN [q \in Rules |-> <<>>] ELSE f[e - 1], bodies[r])]])[m][g.main]
  BY DEF Meaning, LineOf, Texts, TextOf
<1>2. DOMAIN bodies = Rules
  OBVIOUS
<1> QED BY <1>1, <1>2 DEF Words, WordsOf, Blank

\* A line has a text, one symbol after the other.
LEMMA LineTexts ==
  ASSUME NEW h, NEW shorter, NEW body, Len(body) \in Nat
  PROVE  \E f : Texts(h, shorter, body, f) /\ LineOf(h, shorter, body) = f[Len(body)]
<1> DEFINE m == Len(body)
           More(t, i) == t \o TextOf(h, shorter, body[i])
           To(n, f) == f = [i \in 0 .. n |-> IF i = 0 THEN <<>> ELSE More(f[i - 1], i)]
           Has(n) == \E f : To(n, f)
           T == {n \in Nat : ~ Has(n)}
<1>1. Has(0)
  <2> DEFINE f == [i \in 0 .. 0 |-> <<>>]
  <2> HIDE DEF More
  <2>1. f = [i \in 0 .. 0 |-> IF i = 0 THEN <<>> ELSE More(f[i - 1], i)]
    OBVIOUS
  <2> QED BY <2>1
<1>2. ASSUME NEW n \in Nat, Has(n) PROVE Has(n + 1)
  <2> HIDE DEF More
  <2>1. PICK f : f = [i \in 0 .. n |-> IF i = 0 THEN <<>> ELSE More(f[i - 1], i)]
    BY <1>2
  <2> DEFINE e == [i \in 0 .. n + 1 |-> IF i = n + 1 THEN More(f[n], n + 1) ELSE f[i]]
  <2>2. ASSUME NEW i \in 0 .. n + 1
        PROVE  e[i] = IF i = 0 THEN <<>> ELSE More(e[i - 1], i)
    <3>1. CASE i = 0
      <4>1. e[i] = f[0] /\ 0 \in 0 .. n
        BY <3>1
      <4> HIDE DEF e
      <4> QED BY <2>1, <3>1, <4>1
    <3>2. CASE i = n + 1
      <4>1. e[i] = More(f[n], n + 1) /\ e[i - 1] = f[n] /\ i # 0
        BY <3>2
      <4> HIDE DEF e
      <4> QED BY <3>2, <4>1
    <3>3. CASE i # 0 /\ i # n + 1
      <4>1. i \in 0 .. n /\ i - 1 \in 0 .. n /\ i - 1 # n + 1 /\ i - 1 \in 0 .. n + 1
        BY <3>3
      <4>2. e[i] = f[i] /\ e[i - 1] = f[i - 1]
        BY <3>3, <4>1
      <4>3. f[i] = More(f[i - 1], i)
        BY <2>1, <3>3, <4>1
      <4> HIDE DEF e
      <4> QED BY <3>3, <4>2, <4>3
    <3> QED BY <3>1, <3>2, <3>3
  <2>3. To(n + 1, e)
    <3>1. e = [i \in 0 .. n + 1 |-> e[i]]
      OBVIOUS
    <3> HIDE DEF e
    <3>2. e = [i \in 0 .. n + 1 |-> IF i = 0 THEN <<>> ELSE More(e[i - 1], i)]
      BY <2>2, <3>1
    <3> QED BY <3>2
  <2> HIDE DEF To
  <2> QED BY <2>3
<1> HIDE DEF Has
<1>3. T = {}
  <2> SUFFICES ASSUME T # {} PROVE FALSE
    OBVIOUS
  <2>1. PICK k \in T : \A j \in T : k <= j
    <3>1. T \subseteq Nat
      OBVIOUS
    <3> HIDE DEF T
    <3> QED BY <3>1, LeastNat
  <2>2. k \in Nat /\ ~ Has(k)
    OBVIOUS
  <2>3. k - 1 \in Nat /\ k - 1 \notin T /\ (k - 1) + 1 = k
    <3>1. k # 0
      BY <1>1, <2>2
    <3>2. k - 1 \in Nat /\ ~ (k <= k - 1) /\ (k - 1) + 1 = k
      BY <2>2, <3>1
    <3> HIDE DEF T
    <3> QED BY <2>1, <3>2
  <2>4. Has(k - 1)
    BY <2>3
  <2>5. Has((k - 1) + 1)
    BY <1>2, <2>3, <2>4
  <2> QED BY <2>2, <2>3, <2>5
<1>4. Has(m)
  BY <1>3
<1>5. \E f : Texts(h, shorter, body, f)
  BY <1>4 DEF Has, Texts
<1> DEFINE c == CHOOSE f : Texts(h, shorter, body, f)
<1>6. Texts(h, shorter, body, c)
  BY <1>5
<1>7. LineOf(h, shorter, body) = c[m]
  BY DEF LineOf
<1> QED BY <1>6, <1>7

\* What a symbol of r stands for, if it is an occurrence, is told by shorter.
Told(h, in, O, own, a, z, r, shorter) ==
  \A s \in O : own[s] = r /\ h.value[s] >= FirstNonterminal
                 => shorter[h.rule[s]] = Part(in, z[h.rule[s]], a[h.rule[s]])

\* A symbol's text is its part of the input,
LEMMA TextRight ==
  ASSUME NEW h, NEW in, NEW E, NEW R, NEW O, NEW own, NEW a, NEW z, NEW rank, NEW n,
         Sound(h, in, E, R, O, own, a, z, rank, n), NEW shorter, NEW r, NEW s \in O, own[s] = r,
         Told(h, in, O, own, a, z, r, shorter)
  PROVE  TextOf(h, shorter, s) = Part(in, a[s], z[s])
<1>1. /\ a[s] \in Int /\ z[s] \in Int /\ 0 <= a[s] /\ a[s] < z[s] /\ z[s] <= Len(in) /\ Len(in) \in Nat
      /\ in \in Seq(Letters) /\ h.value[s] \in Nat /\ FirstNonterminal \in Nat
  BY Inside, Values, LettersAssumption DEF Sound
<1>2. CASE h.value[s] < FirstNonterminal
  <2>1. z[s] = a[s] + 1 /\ in[z[s]] = h.value[s]
    BY <1>2, Values DEF Letter
  <2>2. TextOf(h, shorter, s) = <<h.value[s]>>
    BY <1>1, <1>2 DEF TextOf, IsNonterminal
  <2> DEFINE u == Part(in, a[s], z[s])
  <2>3. u \in Seq(Letters) /\ Len(u) = z[s] - a[s] /\ \A k \in 1 .. z[s] - a[s] : u[k] = in[a[s] + k]
    <3>1. a[s] <= z[s]
      BY <1>1
    <3> QED BY <1>1, <3>1, Parts
  <2> HIDE DEF u
  <2>4. Len(u) = 1 /\ u[1] = h.value[s]
    <3>1. z[s] - a[s] = 1 /\ 1 \in 1 .. 1
      BY <1>1, <2>1
    <3>2. Len(u) = 1 /\ u[1] = in[a[s] + 1]
      BY <2>3, <3>1
    <3> QED BY <2>1, <3>2
  <2>5. u = <<h.value[s]>>
    <3> DEFINE v == h.value[s]
    <3> HIDE DEF v
    <3>1. u \in Seq(Letters) /\ Len(u) = 1 /\ u[1] = v
      BY <2>3, <2>4 DEF v
    <3>2. v \in Letters
      BY <3>1
    <3>3. <<v>> \in Seq(Letters) /\ Len(<<v>>) = 1 /\ <<v>>[1] = v
      BY <3>2
    <3>4. u = <<v>>
      BY <3>1, <3>3, SameSeq
    <3> QED BY <3>4 DEF v
  <2> QED BY <2>2, <2>5 DEF u
<1>3. CASE h.value[s] >= FirstNonterminal
  <2> DEFINE q == h.rule[s]
             l == z[s] - a[s]
  <2>1. Instance(h, in, R, a, z, s)
    BY <1>3, Values
  <2>2. q \in R /\ l = a[q] - z[q] /\ SameText(in, a[s], z[q], l)
    BY <2>1 DEF Instance
  <2>3. TextOf(h, shorter, s) = shorter[q]
    BY <1>3 DEF TextOf, IsNonterminal
  <2>4. shorter[q] = Part(in, z[q], a[q])
    BY <1>3 DEF Told
  <2> HIDE DEF q
  <2>5. z[q] \in Int /\ a[q] \in Int /\ 0 <= z[q] /\ a[q] <= Len(in)
    BY <2>2 DEF Sound, Stretched, Linked
  <2>6. l \in Nat /\ a[s] + l = z[s] /\ z[q] + l = a[q]
    BY <1>1, <2>2, <2>5
  <2> HIDE DEF l
  <2>7. Part(in, a[s], a[s] + l) = Part(in, z[q], z[q] + l)
    <3>1. a[s] + l <= Len(in) /\ z[q] + l <= Len(in)
      BY <1>1, <2>5, <2>6
    <3> QED BY <1>1, <2>2, <2>5, <2>6, <3>1, PartsSame
  <2> QED BY <2>3, <2>4, <2>6, <2>7
<1> QED BY <1>1, <1>2, <1>3

\* and a line's is that of its rule.
LEMMA LineRight ==
  ASSUME NEW h, NEW in, NEW E, NEW R, NEW O, NEW own, NEW a, NEW z, NEW rank, NEW n,
         Sound(h, in, E, R, O, own, a, z, rank, n), NEW shorter, NEW r \in R,
         Told(h, in, O, own, a, z, r, shorter), NEW b, Lined(b, h, O, own, r)
  PROVE  LineOf(h, shorter, b) = Part(in, z[r], a[r])
<1>1. /\ Linked(h, R, O, own) /\ Stretched(h, in, R, O, own, a, z) /\ in \in Seq(Letters)
      /\ R \subseteq Symbols /\ O \subseteq Symbols /\ R \cap O = {}
      /\ a \in [Symbols -> Int] /\ z \in [Symbols -> Int]
  BY Gives DEF Sound
<1>2. /\ b \in Seq(O) /\ Elements(b) = Of(O, own, r) /\ Len(b) \in Nat
      /\ \A i \in 1 .. Len(b) : b[i] = h.next[Before(b, r, i)]
      /\ h.next[Before(b, r, Len(b) + 1)] = r
  BY DEF Lined
<1>3. /\ a[r] \in Int /\ z[r] \in Int /\ 0 <= z[r] /\ z[r] <= a[r] /\ a[r] <= Len(in) /\ Len(in) \in Nat
      /\ r \in Symbols
  BY <1>1 DEF Stretched
<1>4. PICK c : Texts(h, shorter, b, c) /\ LineOf(h, shorter, b) = c[Len(b)]
  BY <1>2, LineTexts
<1>5. c[0] = <<>> /\ \A i \in 1 .. Len(b) : c[i] = c[i - 1] \o TextOf(h, shorter, b[i])
  <2>1. c = [i \in 0 .. Len(b) |-> IF i = 0 THEN <<>> ELSE c[i - 1] \o TextOf(h, shorter, b[i])]
    BY <1>4 DEF Texts
  <2>2. c[0] = <<>>
    <3>1. 0 \in 0 .. Len(b)
      BY <1>2
    <3> QED BY <2>1, <3>1
  <2>3. ASSUME NEW i \in 1 .. Len(b) PROVE c[i] = c[i - 1] \o TextOf(h, shorter, b[i])
    <3>1. i \in 0 .. Len(b) /\ i # 0
      BY <1>2
    <3> QED BY <2>1, <3>1
  <2> QED BY <2>2, <2>3
<1> DEFINE y(i) == Before(b, r, i + 1)
           Good(i) == c[i] = Part(in, z[r], z[y(i)])
           T == {i \in Nat : i <= Len(b) /\ ~ Good(i)}
<1>6. ASSUME NEW i \in 1 .. Len(b)
      PROVE  /\ b[i] \in O /\ own[b[i]] = r /\ y(i) = b[i] /\ y(i - 1) \in R \cup O
             /\ z[y(i - 1)] = a[b[i]] /\ z[r] <= a[b[i]] /\ a[b[i]] < z[b[i]] /\ z[b[i]] <= a[r]
  <2>1. b[i] \in O /\ b[i] \in Elements(b)
    BY <1>2 DEF Elements
  <2>2. own[b[i]] = r
    BY <1>2, <2>1 DEF Of
  <2>3. y(i) = b[i]
    BY <1>2 DEF Before
  <2>4. y(i - 1) \in R \cup O /\ b[i] = h.next[y(i - 1)]
    <3>1. (i - 1) + 1 = i
      OBVIOUS
    <3>2. CASE i = 1
      BY <1>2, <3>1, <3>2 DEF Before
    <3>3. CASE i # 1
      <4>1. i - 1 \in 1 .. Len(b)
        BY <1>2, <3>3
      <4>2. Before(b, r, i) = b[i - 1] /\ b[i - 1] \in O
        BY <1>2, <3>3, <4>1 DEF Before
      <4> QED BY <1>2, <3>1, <4>2
    <3> QED BY <3>2, <3>3
  <2> HIDE DEF y
  <2> QED BY <1>1, <2>1, <2>2, <2>3, <2>4 DEF Stretched
<1>7. y(0) = r /\ z[y(Len(b))] = a[r]
  <2>1. y(0) = r
    BY DEF Before
  <2>2. h.next[y(Len(b))] = r
    BY <1>2
  <2>3. y(Len(b)) \in R \cup O
    <3>1. CASE Len(b) = 0
      BY <2>1, <3>1
    <3>2. CASE Len(b) # 0
      <4>1. Len(b) \in 1 .. Len(b)
        BY <1>2, <3>2
      <4> HIDE DEF y
      <4> QED BY <1>6, <4>1
    <3> QED BY <3>1, <3>2
  <2> HIDE DEF y
  <2> QED BY <1>1, <2>1, <2>2, <2>3 DEF Stretched
<1> HIDE DEF y
<1>8. Good(0)
  <2> DEFINE u == Part(in, z[r], z[r])
  <2>1. u \in Seq(Letters) /\ Len(u) = z[r] - z[r]
    BY <1>1, <1>3, Parts
  <2> HIDE DEF u
  <2>2. u = <<>>
    BY <1>3, <2>1
  <2> QED BY <1>5, <1>7, <2>2 DEF u
<1>9. ASSUME NEW i \in 1 .. Len(b), Good(i - 1) PROVE Good(i)
  <2>1. TextOf(h, shorter, b[i]) = Part(in, a[b[i]], z[b[i]])
    BY <1>6, TextRight
  <2>2. c[i] = Part(in, z[r], a[b[i]]) \o Part(in, a[b[i]], z[b[i]])
    BY <1>5, <1>6, <1>9, <2>1
  <2>3. a[b[i]] \in Int /\ z[b[i]] \in Int
    BY <1>1, <1>6
  <2>4. Part(in, z[r], a[b[i]]) \o Part(in, a[b[i]], z[b[i]]) = Part(in, z[r], z[b[i]])
    <3>1. a[b[i]] <= z[b[i]] /\ z[b[i]] <= Len(in) /\ z[r] <= a[b[i]]
      BY <1>3, <1>6, <2>3
    <3> QED BY <1>1, <1>3, <2>3, <3>1, PartsJoin
  <2> QED BY <1>6, <2>2, <2>4
<1> HIDE DEF Good
<1>10. T = {}
  <2> SUFFICES ASSUME T # {} PROVE FALSE
    OBVIOUS
  <2>1. PICK k \in T : \A j \in T : k <= j
    <3>1. T \subseteq Nat
      OBVIOUS
    <3> HIDE DEF T
    <3> QED BY <3>1, LeastNat
  <2>2. k \in Nat /\ k <= Len(b) /\ ~ Good(k)
    OBVIOUS
  <2>3. k \in 1 .. Len(b) /\ k - 1 \in Nat /\ k - 1 <= Len(b) /\ ~ (k <= k - 1)
    <3>1. k # 0
      BY <1>8, <2>2
    <3> QED BY <1>2, <2>2, <3>1
  <2>4. k - 1 \notin T
    <3> HIDE DEF T
    <3> QED BY <2>1, <2>3
  <2>5. Good(k - 1)
    BY <2>3, <2>4
  <2> QED BY <1>9, <2>2, <2>3, <2>5
<1>11. Good(Len(b))
  BY <1>2, <1>10
<1> QED BY <1>4, <1>7, <1>11 DEF Good

\* The words of each depth, and the deepest.
LEMMA WordsMade ==
  ASSUME NEW h, NEW bodies, NEW m \in Nat
  PROVE  LET c == CHOOSE f : Words(h, bodies, m, f) IN
         /\ c[0] = WordsOf(h, bodies, Blank(bodies))
         /\ \A i \in 1 .. m : c[i] = WordsOf(h, bodies, c[i - 1])
<1> DEFINE More(t) == WordsOf(h, bodies, t)
           none == Blank(bodies)
           To(n, f) == f = [i \in 0 .. n |-> More(IF i = 0 THEN none ELSE f[i - 1])]
           Has(n) == \E f : To(n, f)
           T == {n \in Nat : ~ Has(n)}
           c == CHOOSE f : Words(h, bodies, m, f)
<1> HIDE DEF More, none
<1>1. Has(0)
  <2> DEFINE f == [i \in 0 .. 0 |-> More(none)]
  <2>1. f = [i \in 0 .. 0 |-> More(IF i = 0 THEN none ELSE f[i - 1])]
    OBVIOUS
  <2> QED BY <2>1
<1>2. ASSUME NEW n \in Nat, Has(n) PROVE Has(n + 1)
  <2>1. PICK f : f = [i \in 0 .. n |-> More(IF i = 0 THEN none ELSE f[i - 1])]
    BY <1>2
  <2> DEFINE e == [i \in 0 .. n + 1 |-> IF i = n + 1 THEN More(f[n]) ELSE f[i]]
  <2>2. ASSUME NEW i \in 0 .. n + 1
        PROVE  e[i] = More(IF i = 0 THEN none ELSE e[i - 1])
    <3>1. CASE i = 0
      <4>1. e[i] = f[0] /\ 0 \in 0 .. n
        BY <3>1
      <4> HIDE DEF e
      <4> QED BY <2>1, <3>1, <4>1
    <3>2. CASE i = n + 1
      <4>1. e[i] = More(f[n]) /\ e[i - 1] = f[n] /\ i # 0
        BY <3>2
      <4> HIDE DEF e
      <4> QED BY <3>2, <4>1
    <3>3. CASE i # 0 /\ i # n + 1
      <4>1. i \in 0 .. n /\ i - 1 \in 0 .. n /\ i - 1 # n + 1 /\ i - 1 \in 0 .. n + 1
        BY <3>3
      <4>2. e[i] = f[i] /\ e[i - 1] = f[i - 1]
        BY <3>3, <4>1
      <4>3. f[i] = More(f[i - 1])
        BY <2>1, <3>3, <4>1
      <4> HIDE DEF e
      <4> QED BY <3>3, <4>2, <4>3
    <3> QED BY <3>1, <3>2, <3>3
  <2>3. To(n + 1, e)
    <3>1. e = [i \in 0 .. n + 1 |-> e[i]]
      OBVIOUS
    <3> HIDE DEF e
    <3>2. e = [i \in 0 .. n + 1 |-> More(IF i = 0 THEN none ELSE e[i - 1])]
      BY <2>2, <3>1
    <3> QED BY <3>2
  <2> HIDE DEF To
  <2> QED BY <2>3
<1> HIDE DEF Has
<1>3. T = {}
  <2> SUFFICES ASSUME T # {} PROVE FALSE
    OBVIOUS
  <2>1. PICK k \in T : \A j \in T : k <= j
    <3>1. T \subseteq Nat
      OBVIOUS
    <3> HIDE DEF T
    <3> QED BY <3>1, LeastNat
  <2>2. k \in Nat /\ ~ Has(k)
    OBVIOUS
  <2>3. k - 1 \in Nat /\ k - 1 \notin T /\ (k - 1) + 1 = k
    <3>1. k # 0
      BY <1>1, <2>2
    <3>2. k - 1 \in Nat /\ ~ (k <= k - 1) /\ (k - 1) + 1 = k
      BY <2>2, <3>1
    <3> HIDE DEF T
    <3> QED BY <2>1, <3>2
  <2>4. Has(k - 1)
    BY <2>3
  <2>5. Has((k - 1) + 1)
    BY <1>2, <2>3, <2>4
  <2> QED BY <2>2, <2>3, <2>5
<1>4. \E f : Words(h, bodies, m, f)
  <2>1. Has(m)
    BY <1>3
  <2> QED BY <2>1 DEF Has, Words, More, none
<1>5. Words(h, bodies, m, c)
  BY <1>4
<1> HIDE DEF c
<1>6. c = [i \in 0 .. m |-> More(IF i = 0 THEN none ELSE c[i - 1])]
  BY <1>5 DEF Words, More, none
<1>7. c[0] = More(none)
  <2>1. 0 \in 0 .. m
    OBVIOUS
  <2> QED BY <1>6, <2>1
<1>8. ASSUME NEW i \in 1 .. m PROVE c[i] = More(c[i - 1])
  <2>1. i \in 0 .. m /\ i # 0
    OBVIOUS
  <2> QED BY <1>6, <2>1
<1> QED BY <1>7, <1>8 DEF More, none, c

\* How many rules stand for less than r: the depth at which its word is whole.
Shorter(R, main, a, z, r) == {q \in R \ {main} : RuleSpan(a, z, q) < RuleSpan(a, z, r)}
Depth(R, main, a, z, r) == Cardinality(Shorter(R, main, a, z, r))

\* The number of shorter rules decreases from a rule to a rule that it uses.
LEMMA Depths ==
  ASSUME NEW R, R \subseteq Symbols, NEW main \in R, NEW a \in [Symbols -> Int], NEW z \in [Symbols -> Int],
         NEW r \in R
  PROVE  /\ Depth(R, main, a, z, r) \in Nat /\ Cardinality(R) \in Nat
         /\ Depth(R, main, a, z, r) < Cardinality(R)
         /\ \A q \in R \ {main} : RuleSpan(a, z, q) < RuleSpan(a, z, r)
               => Depth(R, main, a, z, q) < Depth(R, main, a, z, r)
<1> DEFINE D(q) == Shorter(R, main, a, z, q)
<1>1. IsFiniteSet(R) /\ Cardinality(R) \in Nat
  BY NullApart, FS_Subset, FS_CardinalityType
<1>2. \A q \in R : RuleSpan(a, z, q) \in Int
  BY DEF RuleSpan
<1>3. ASSUME NEW q \in R
      PROVE  D(q) \subseteq R \ {main} /\ IsFiniteSet(D(q)) /\ Cardinality(D(q)) \in Nat /\ q \notin D(q)
  <2>1. D(q) \subseteq R \ {main} /\ q \notin D(q)
    BY <1>2 DEF Shorter
  <2> HIDE DEF D
  <2>2. D(q) \subseteq R
    BY <2>1
  <2>3. IsFiniteSet(D(q))
    BY <1>1, <2>2, FS_Subset
  <2> QED BY <2>1, <2>3, FS_CardinalityType
<1>4. Cardinality(D(r)) < Cardinality(R)
  <2> HIDE DEF D
  <2>1. IsFiniteSet(R \ {main}) /\ Cardinality(R \ {main}) = Cardinality(R) - 1
    BY <1>1, FS_RemoveElement
  <2>2. Cardinality(D(r)) <= Cardinality(R \ {main})
    BY <1>3, <2>1, FS_Subset
  <2> QED BY <1>1, <1>3, <2>1, <2>2
<1>5. ASSUME NEW q \in R \ {main}, RuleSpan(a, z, q) < RuleSpan(a, z, r)
      PROVE  Cardinality(D(q)) < Cardinality(D(r))
  <2>1. q \in D(r)
    BY <1>5 DEF Shorter
  <2>2. D(q) \subseteq D(r)
    BY <1>2, <1>5 DEF Shorter
  <2> HIDE DEF D
  <2>3. D(q) \subseteq D(r) \ {q}
    BY <1>3, <2>2
  <2>4. IsFiniteSet(D(r) \ {q}) /\ Cardinality(D(r) \ {q}) = Cardinality(D(r)) - 1
    BY <1>3, <2>1, FS_RemoveElement
  <2>5. Cardinality(D(q)) <= Cardinality(D(r) \ {q})
    BY <2>3, <2>4, FS_Subset
  <2> QED BY <1>3, <2>4, <2>5
<1> QED BY <1>1, <1>3, <1>4, <1>5 DEF Depth

Worded(h, bodies, m, c) ==
  /\ c[0] = WordsOf(h, bodies, Blank(bodies))
  /\ \A i \in 1 .. m : c[i] = WordsOf(h, bodies, c[i - 1])

AllLined(h, R, O, own, bodies) ==
  DOMAIN bodies = R /\ \A r \in R : Lined(bodies[r], h, O, own, r)

\* The texts of level i + 1 are right where those of level i are.
Rising(h, in, R, O, own, a, z, m, c) ==
  /\ \A r \in R : (\A s \in O : own[s] = r => h.value[s] < FirstNonterminal)
                     => c[0][r] = Part(in, z[r], a[r])
  /\ \A i \in 1 .. m : \A r \in R : Told(h, in, O, own, a, z, r, c[i - 1]) => c[i][r] = Part(in, z[r], a[r])
Risen(in, R, a, z, t) == \A r \in R : t[r] = Part(in, z[r], a[r])

\* The text of a rule is its part of the input from its depth on.
LEMMA RisesRight ==
  ASSUME NEW h, NEW in, NEW R, NEW O, NEW own, NEW a, NEW z, NEW rank, NEW n,
         Sound(h, in, {h.main}, R, O, own, a, z, rank, n),
         NEW m, m = Cardinality(R), NEW c, Rising(h, in, R, O, own, a, z, m, c)
  PROVE  Risen(in, R, a, z, c[m])
<1> DEFINE main == h.main
           dep(q) == Depth(R, main, a, z, q)
           Good(i) == \A r \in R \ {main} : dep(r) <= i => c[i][r] = Part(in, z[r], a[r])
           T == {i \in Nat : i <= m /\ ~ Good(i)}
<1>1. /\ main \in R /\ R \subseteq Symbols /\ a \in [Symbols -> Int] /\ z \in [Symbols -> Int]
      /\ in \in Seq(Letters) /\ FirstNonterminal \in Nat /\ \A s \in O : h.value[s] \in Nat
  BY Gives, Values, LettersAssumption
<1>2. /\ m \in Nat /\ \A r \in R : dep(r) \in Nat /\ dep(r) < m
      /\ \A q \in R \ {main}, r \in R : RuleSpan(a, z, q) < RuleSpan(a, z, r) => dep(q) < dep(r)
  BY <1>1, Depths
<1>3. /\ \A r \in R : (\A s \in O : own[s] = r => h.value[s] < FirstNonterminal)
                         => c[0][r] = Part(in, z[r], a[r])
      /\ \A i \in 1 .. m : \A r \in R : Told(h, in, O, own, a, z, r, c[i - 1]) => c[i][r] = Part(in, z[r], a[r])
  BY DEF Rising
<1> HIDE DEF main, dep
<1>4. ASSUME NEW s \in O, h.value[s] >= FirstNonterminal
      PROVE  /\ h.rule[s] \in R \ {main}
             /\ own[s] # main => own[s] \in R /\ dep(h.rule[s]) < dep(own[s])
  <2> DEFINE q == h.rule[s]
  <2>1. q \in R \ {main} /\ z[s] - a[s] = a[q] - z[q]
    BY <1>4, Values DEF Instance, main
  <2> HIDE DEF q
  <2>2. ASSUME own[s] # main PROVE own[s] \in R /\ RuleSpan(a, z, q) < RuleSpan(a, z, own[s])
    <3>1. own[s] \in R /\ own[s] \notin {h.main}
      BY <2>2, Inside DEF main
    <3>2. z[s] - a[s] < a[own[s]] - z[own[s]]
      BY <3>1, Inside
    <3> QED BY <2>1, <3>1, <3>2 DEF RuleSpan
  <2> QED BY <1>2, <2>1, <2>2 DEF q
<1>5. ASSUME NEW r \in R \ {main}, dep(r) <= 0 PROVE c[0][r] = Part(in, z[r], a[r])
  <2>1. ASSUME NEW s \in O, own[s] = r, ~ (h.value[s] < FirstNonterminal) PROVE FALSE
    <3>1. h.value[s] >= FirstNonterminal
      BY <1>1, <2>1
    <3>2. dep(h.rule[s]) < dep(r) /\ h.rule[s] \in R
      BY <1>4, <2>1, <3>1
    <3> QED BY <1>2, <1>5, <3>2
  <2> QED BY <1>3, <2>1
<1>6. ASSUME NEW i \in 1 .. m, Good(i - 1), NEW r \in R \ {main}, dep(r) <= i
      PROVE  c[i][r] = Part(in, z[r], a[r])
  <2>1. ASSUME NEW s \in O, own[s] = r, h.value[s] >= FirstNonterminal
        PROVE  c[i - 1][h.rule[s]] = Part(in, z[h.rule[s]], a[h.rule[s]])
    <3>1. dep(h.rule[s]) < dep(r) /\ h.rule[s] \in R \ {main}
      BY <1>4, <2>1
    <3>2. dep(h.rule[s]) <= i - 1
      BY <1>2, <1>6, <3>1
    <3> QED BY <1>6, <3>1, <3>2
  <2>2. Told(h, in, O, own, a, z, r, c[i - 1])
    BY <2>1 DEF Told
  <2> QED BY <1>3, <2>2
<1>7. Good(0)
  BY <1>5
<1>8. ASSUME NEW i \in 1 .. m, Good(i - 1) PROVE Good(i)
  BY <1>6, <1>8
<1> HIDE DEF Good
<1>9. T = {}
  <2> SUFFICES ASSUME T # {} PROVE FALSE
    OBVIOUS
  <2>1. PICK k \in T : \A j \in T : k <= j
    <3>1. T \subseteq Nat
      OBVIOUS
    <3> HIDE DEF T
    <3> QED BY <3>1, LeastNat
  <2>2. k \in Nat /\ k <= m /\ ~ Good(k)
    OBVIOUS
  <2>3. k \in 1 .. m /\ k - 1 \in Nat /\ k - 1 <= m /\ ~ (k <= k - 1)
    <3>1. k # 0
      BY <1>7, <2>2
    <3> QED BY <1>2, <2>2, <3>1
  <2>4. k - 1 \notin T
    <3> HIDE DEF T
    <3> QED BY <2>1, <2>3
  <2>5. Good(k - 1)
    BY <2>3, <2>4
  <2> QED BY <1>8, <2>2, <2>3, <2>5
<1>10. m \in 1 .. m /\ m - 1 \in Nat /\ m - 1 <= m
  <2>1. dep(main) \in Nat /\ dep(main) < m
    BY <1>1, <1>2
  <2> QED BY <1>2, <2>1
<1>11. Good(m - 1) /\ Good(m)
  BY <1>9, <1>10
<1>12. Told(h, in, O, own, a, z, main, c[m - 1])
  <2>1. ASSUME NEW s \in O, h.value[s] >= FirstNonterminal
        PROVE  c[m - 1][h.rule[s]] = Part(in, z[h.rule[s]], a[h.rule[s]])
    <3>1. h.rule[s] \in R \ {main}
      BY <1>4, <2>1
    <3>2. dep(h.rule[s]) <= m - 1
      BY <1>2, <3>1
    <3> QED BY <1>11, <3>1, <3>2 DEF Good
  <2> QED BY <2>1 DEF Told
<1>13. c[m][main] = Part(in, z[main], a[main])
  BY <1>1, <1>3, <1>10, <1>12
<1>14. ASSUME NEW r \in R \ {main} PROVE c[m][r] = Part(in, z[r], a[r])
  <2>1. dep(r) <= m
    BY <1>2
  <2> QED BY <1>11, <2>1 DEF Good
<1> QED BY <1>13, <1>14 DEF Risen

\* All of the input is a part of it.
LEMMA PartAll ==
  ASSUME NEW in \in Seq(Letters)
  PROVE  Part(in, 0, Len(in)) = in
<1> DEFINE u == Part(in, 0, Len(in))
<1>1. u \in Seq(Letters) /\ Len(u) = Len(in) - 0 /\ \A k \in 1 .. Len(in) - 0 : u[k] = in[0 + k]
  <2>1. Len(in) \in Int /\ 0 \in Int /\ 0 <= 0 /\ 0 <= Len(in) /\ Len(in) <= Len(in)
    OBVIOUS
  <2> QED BY <2>1, Parts
<1> HIDE DEF u
<1>2. Len(u) = Len(in) /\ \A k \in 1 .. Len(in) : u[k] = in[k]
  <2>1. Len(in) \in Nat /\ Len(in) - 0 = Len(in) /\ \A k \in 1 .. Len(in) : 0 + k = k
    OBVIOUS
  <2>2. Len(u) = Len(in) /\ \A k \in 1 .. Len(in) : u[k] = in[0 + k]
    BY <1>1, <2>1
  <2> QED BY <2>1, <2>2
<1>3. u = in
  BY <1>1, <1>2, SameSeq
<1> QED BY <1>3 DEF u

\* The meaning of the main rule is all of the input.
LEMMA WordsRight ==
  ASSUME NEW h, NEW in, NEW R, NEW O, NEW own, NEW a, NEW z, NEW rank, NEW n,
         Sound(h, in, {h.main}, R, O, own, a, z, rank, n), z[h.main] = 0, a[h.main] = Len(in),
         NEW bodies, AllLined(h, R, O, own, bodies),
         NEW m, m = Cardinality(R), NEW c, Worded(h, bodies, m, c)
  PROVE  c[m][h.main] = in
<1> USE DEF Worded, AllLined
<1>1. h.main \in R /\ in \in Seq(Letters)
  BY Gives
<1>2. ASSUME NEW shorter, NEW r \in R, Told(h, in, O, own, a, z, r, shorter)
      PROVE  WordsOf(h, bodies, shorter)[r] = Part(in, z[r], a[r])
  <2>1. Lined(bodies[r], h, O, own, r)
    OBVIOUS
  <2>2. LineOf(h, shorter, bodies[r]) = Part(in, z[r], a[r])
    BY <1>2, <2>1, LineRight
  <2> QED BY <2>2 DEF WordsOf
<1>3. ASSUME NEW r \in R, \A s \in O : own[s] = r => h.value[s] < FirstNonterminal
      PROVE  c[0][r] = Part(in, z[r], a[r])
  <2>1. ASSUME NEW s \in O, own[s] = r, h.value[s] >= FirstNonterminal PROVE FALSE
    <3>1. h.value[s] \in Nat /\ FirstNonterminal \in Nat
      BY Values, LettersAssumption
    <3> QED BY <1>3, <2>1, <3>1
  <2>2. Told(h, in, O, own, a, z, r, Blank(bodies))
    BY <2>1 DEF Told
  <2> QED BY <1>2, <2>2
<1>4. ASSUME NEW i \in 1 .. m, NEW r \in R, Told(h, in, O, own, a, z, r, c[i - 1])
      PROVE  c[i][r] = Part(in, z[r], a[r])
  <2>1. c[i] = WordsOf(h, bodies, c[i - 1])
    OBVIOUS
  <2> QED BY <1>2, <1>4, <2>1
<1>5. Rising(h, in, R, O, own, a, z, m, c)
  BY <1>3, <1>4 DEF Rising
<1> HIDE DEF Worded, AllLined
<1>6. Risen(in, R, a, z, c[m])
  BY <1>5, RisesRight
<1>7. c[m][h.main] = Part(in, 0, Len(in))
  BY <1>1, <1>6 DEF Risen
<1> QED BY <1>1, <1>7, PartAll

\* Nothing is lost, added or turned around: whatever is rewritten, at every call and return
\* of the recursion, the grammar stands for the input (sequitur.c:149-326).
THEOREM GrammarMeaning == Spec => []ExpandsToInput
<1>1. GrammarInv => ExpandsToInput
  <2> SUFFICES ASSUME GrammarInv, g.fault = "none" PROVE Meaning = input
    BY DEF ExpandsToInput, Running
  <2>1. PICK R, O, own, a, z, rank, n, S : Parsed(g, input, R, O, own, a, z, rank, n, S)
    BY Tops DEF GrammarInv, Kept
  <2>2. Sound(g, input, {g.main}, R, O, own, a, z, rank, n) /\ z[g.main] = 0 /\ a[g.main] = Len(input)
    BY <2>1 DEF Parsed
  <2>3. Rules = R
    BY <2>2, Accounts
  <2> DEFINE bodies == [r \in Rules |-> Body(r)]
             m == Cardinality(Rules)
             c == CHOOSE f : Words(g, bodies, m, f)
  <2>4. Meaning = c[m][g.main]
    BY MeaningIs
  <2>5. AllLined(g, R, O, own, bodies)
    BY <2>2, <2>3, BodyLined DEF AllLined
  <2>6. m = Cardinality(R) /\ m \in Nat
    <3>1. R \subseteq Symbols
      BY <2>2, Gives
    <3> QED BY <2>3, <3>1, NullApart, FS_Subset, FS_CardinalityType
  <2> HIDE DEF bodies, m
  <2>7. Worded(g, bodies, m, c)
    BY <2>6, WordsMade DEF Worded
  <2> HIDE DEF c
  <2>8. c[m][g.main] = input
    BY <2>2, <2>5, <2>6, <2>7, WordsRight
  <2> QED BY <2>4, <2>8
<1> QED BY <1>1, GrammarAlways, PTL

-----------------------------------------------------------------------------
(* What decompress puts together is what the grammar stands for.           *)

\* The values of symbols.
ValuesOf(h, w) == [k \in DOMAIN w |-> h.value[w[k]]]

\* A line is put together as Meaning does it, if each symbol's text is the same.
LEMMA LineSame ==
  ASSUME NEW h, NEW b, NEW S, b \in Seq(S), NEW below, NEW shorter,
         \A k \in 1 .. Len(b) : /\ TextOf(h, shorter, b[k]) \in Seq(Letters)
                                /\ Texted(h.value[b[k]], below) = TextOf(h, shorter, b[k])
  PROVE  LineIn(ValuesOf(h, b), below) = LineOf(h, shorter, b)
<1> DEFINE vs == ValuesOf(h, b)
           ss == [k \in DOMAIN vs |-> Texted(vs[k], below)]
           m == Len(b)
<1>1. DOMAIN b = 1 .. m /\ m \in Nat
  OBVIOUS
<1>2. DOMAIN vs = 1 .. m /\ \A k \in 1 .. m : vs[k] = h.value[b[k]]
  BY <1>1 DEF ValuesOf
<1> HIDE DEF vs, m
<1>3. DOMAIN ss = 1 .. m /\ \A k \in 1 .. m : ss[k] = TextOf(h, shorter, b[k])
  BY <1>2 DEF m
<1>4. ss \in Seq(Seq(Letters)) /\ Len(ss) = m
  <2>1. ss = [k \in 1 .. m |-> ss[k]]
    BY <1>3
  <2>2. \A k \in 1 .. m : ss[k] \in Seq(Letters)
    BY <1>3 DEF m
  <2> HIDE DEF ss
  <2>3. ss \in [1 .. m -> Seq(Letters)]
    BY <2>1, <2>2
  <2> QED BY <1>1, <2>3
<1>5. LineIn(vs, below) = FlattenSeq(ss)
  BY DEF LineIn
<1> HIDE DEF ss
<1>6. PICK c : Joining(ss, c) /\ FlattenSeq(ss) = c[m]
  BY <1>4, FlatJoins
<1>7. PICK f : Texts(h, shorter, b, f) /\ LineOf(h, shorter, b) = f[m]
  BY <1>1, LineTexts DEF m
<1>8. f[0] = <<>> /\ \A i \in 1 .. m : f[i] = f[i - 1] \o TextOf(h, shorter, b[i])
  <2>1. f = [i \in 0 .. m |-> IF i = 0 THEN <<>> ELSE f[i - 1] \o TextOf(h, shorter, b[i])]
    BY <1>7 DEF Texts, m
  <2>2. f[0] = <<>>
    <3>1. 0 \in 0 .. m
      BY <1>1
    <3> QED BY <2>1, <3>1
  <2>3. ASSUME NEW i \in 1 .. m PROVE f[i] = f[i - 1] \o TextOf(h, shorter, b[i])
    <3>1. i \in 0 .. m /\ i # 0
      BY <1>1
    <3> QED BY <2>1, <3>1
  <2> QED BY <2>2, <2>3
<1>9. c[0] = <<>> /\ \A i \in 1 .. m : c[i] = c[i - 1] \o TextOf(h, shorter, b[i])
  BY <1>3, <1>4, <1>6 DEF Joining
<1> DEFINE Same(i) == c[i] = f[i]
           T == {i \in Nat : i <= m /\ ~ Same(i)}
<1>10. Same(0) /\ \A i \in 1 .. m : Same(i - 1) => Same(i)
  BY <1>8, <1>9
<1> HIDE DEF Same
<1>11. T = {}
  <2> SUFFICES ASSUME T # {} PROVE FALSE
    OBVIOUS
  <2>1. PICK k \in T : \A j \in T : k <= j
    <3>1. T \subseteq Nat
      OBVIOUS
    <3> HIDE DEF T
    <3> QED BY <3>1, LeastNat
  <2>2. k \in Nat /\ k <= m /\ ~ Same(k)
    OBVIOUS
  <2>3. k \in 1 .. m /\ k - 1 \in Nat /\ k - 1 <= m /\ ~ (k <= k - 1)
    <3>1. k # 0
      BY <1>10, <2>2
    <3> QED BY <1>1, <2>2, <3>1
  <2>4. k - 1 \notin T
    <3> HIDE DEF T
    <3> QED BY <2>1, <2>3
  <2>5. Same(k - 1)
    BY <2>3, <2>4
  <2> QED BY <1>10, <2>2, <2>3, <2>5
<1>12. Same(m)
  BY <1>1, <1>11
<1> QED BY <1>5, <1>6, <1>7, <1>12 DEF Same, vs

\* What a symbol of r stands for, if it is an occurrence, is in the map.
Tells(h, in, O, own, a, z, r, below) ==
  \A s \in O : own[s] = r /\ h.value[s] >= FirstNonterminal
     => h.value[s] \in DOMAIN below /\ below[h.value[s]] = Part(in, z[h.rule[s]], a[h.rule[s]])

\* The line of a rule is its part of the input.
LEMMA LineInRight ==
  ASSUME NEW h, NEW in, NEW E, NEW R, NEW O, NEW own, NEW a, NEW z, NEW rank, NEW n,
         Sound(h, in, E, R, O, own, a, z, rank, n), NEW below, NEW r \in R,
         Tells(h, in, O, own, a, z, r, below), NEW b, Lined(b, h, O, own, r)
  PROVE  LineIn(ValuesOf(h, b), below) = Part(in, z[r], a[r])
<1> DEFINE shorter == [q \in R |-> below[h.value[q]]]
<1>1. in \in Seq(Letters) /\ FirstNonterminal \in Nat
  BY LettersAssumption DEF Sound
<1>2. ASSUME NEW s \in O, h.value[s] >= FirstNonterminal
      PROVE  h.rule[s] \in R /\ h.value[s] = h.value[h.rule[s]]
  BY <1>2, Values DEF Instance
<1>3. Told(h, in, O, own, a, z, r, shorter)
  <2>1. ASSUME NEW s \in O, own[s] = r, h.value[s] >= FirstNonterminal
        PROVE  shorter[h.rule[s]] = Part(in, z[h.rule[s]], a[h.rule[s]])
    <3>1. h.rule[s] \in R /\ h.value[s] = h.value[h.rule[s]]
      BY <1>2, <2>1
    <3>2. below[h.value[s]] = Part(in, z[h.rule[s]], a[h.rule[s]])
      BY <2>1 DEF Tells
    <3> QED BY <3>1, <3>2
  <2> HIDE DEF shorter
  <2> QED BY <2>1 DEF Told
<1>4. ASSUME NEW s \in O, own[s] = r
      PROVE  /\ TextOf(h, shorter, s) \in Seq(Letters)
             /\ Texted(h.value[s], below) = TextOf(h, shorter, s)
  <2>1. TextOf(h, shorter, s) = Part(in, a[s], z[s])
    <3> HIDE DEF shorter
    <3> QED BY <1>3, <1>4, TextRight
  <2>2. Part(in, a[s], z[s]) \in Seq(Letters)
    <3>1. /\ a[s] \in Int /\ z[s] \in Int /\ 0 <= a[s] /\ a[s] < z[s] /\ z[s] <= Len(in)
      BY Inside
    <3>2. a[s] <= z[s]
      BY <3>1
    <3> QED BY <1>1, <3>1, <3>2, Parts
  <2>3. CASE h.value[s] < FirstNonterminal
    <3>1. ~ (h.value[s] >= FirstNonterminal)
      BY <1>1, <2>3, Values
    <3>2. TextOf(h, shorter, s) = <<h.value[s]>>
      BY <3>1 DEF TextOf, IsNonterminal
    <3> QED BY <2>1, <2>2, <2>3, <3>2 DEF Texted
  <2>4. CASE ~ (h.value[s] < FirstNonterminal)
    <3>1. h.value[s] >= FirstNonterminal
      BY <1>1, <2>4, Values
    <3>2. TextOf(h, shorter, s) = shorter[h.rule[s]]
      BY <3>1 DEF TextOf, IsNonterminal
    <3>3. shorter[h.rule[s]] = below[h.value[s]]
      BY <1>2, <3>1
    <3>4. h.value[s] \in DOMAIN below
      BY <1>4, <3>1 DEF Tells
    <3> QED BY <2>1, <2>2, <2>4, <3>2, <3>3, <3>4 DEF Texted
  <2> QED BY <2>3, <2>4
<1> HIDE DEF shorter
<1>5. LineOf(h, shorter, b) = Part(in, z[r], a[r])
  BY <1>3, LineRight
<1>6. b \in Seq(O) /\ \A k \in 1 .. Len(b) : b[k] \in O /\ own[b[k]] = r
  <2>1. b \in Seq(O) /\ Elements(b) = Of(O, own, r)
    BY DEF Lined
  <2>2. ASSUME NEW k \in 1 .. Len(b) PROVE b[k] \in O /\ own[b[k]] = r
    <3>1. b[k] \in Elements(b)
      BY <2>1 DEF Elements
    <3> QED BY <2>1, <3>1 DEF Of
  <2> QED BY <2>1, <2>2
<1>7. LineIn(ValuesOf(h, b), below) = LineOf(h, shorter, b)
  BY <1>4, <1>6, LineSame
<1> QED BY <1>5, <1>7

\* The map has the values of all rules.
MapsAll(h, R, bodies, map) ==
  /\ DOMAIN map = {h.value[q] : q \in R}
  /\ \A q \in R : map[h.value[q]] = ValuesOf(h, bodies[q])

\* The last level has the text of the main rule's line, all of the input.
LEMMA LevelsRight ==
  ASSUME NEW h, NEW in, NEW R, NEW O, NEW own, NEW a, NEW z, NEW rank, NEW n,
         Sound(h, in, {h.main}, R, O, own, a, z, rank, n), z[h.main] = 0, a[h.main] = Len(in),
         NEW bodies, AllLined(h, R, O, own, bodies), NEW map, MapsAll(h, R, bodies, map),
         NEW m, m = Cardinality(R)
  PROVE  LineIn(ValuesOf(h, bodies[h.main]), Level(map, m)[m]) = in
<1> DEFINE c == Level(map, m)
           e == [i \in 0 .. m |-> [q \in R |-> c[i][h.value[q]]]]
<1>1. h.main \in R /\ R \subseteq Symbols /\ in \in Seq(Letters) /\ FirstNonterminal \in Nat
  BY Gives, LettersAssumption
<1>2. m \in Nat
  BY <1>1, NullApart, FS_Subset, FS_CardinalityType
<1>3. c[0] = LinesIn(map, NoRules) /\ \A i \in 1 .. m : c[i] = LinesIn(map, c[i - 1])
  BY <1>2, LevelsMade
<1> HIDE DEF c
<1>4. \A q \in R : h.value[q] \in DOMAIN map /\ map[h.value[q]] = ValuesOf(h, bodies[q])
  BY DEF MapsAll
<1>5. \A i \in 0 .. m : DOMAIN c[i] = DOMAIN map
  <2> TAKE i \in 0 .. m
  <2>1. \E below : c[i] = LinesIn(map, below)
    <3>1. CASE i = 0
      BY <1>3, <3>1
    <3>2. CASE i # 0
      <4>1. i \in 1 .. m
        BY <1>2, <3>2
      <4> QED BY <1>3, <4>1
    <3> QED BY <3>1, <3>2
  <2> QED BY <2>1 DEF LinesIn
<1>6. ASSUME NEW below, NEW r \in R, Tells(h, in, O, own, a, z, r, below)
      PROVE  /\ LinesIn(map, below)[h.value[r]] = Part(in, z[r], a[r])
             /\ LineIn(ValuesOf(h, bodies[r]), below) = Part(in, z[r], a[r])
  <2>1. Lined(bodies[r], h, O, own, r)
    BY DEF AllLined
  <2>2. LineIn(ValuesOf(h, bodies[r]), below) = Part(in, z[r], a[r])
    BY <1>6, <2>1, LineInRight
  <2> QED BY <1>4, <2>2 DEF LinesIn
<1>7. ASSUME NEW i \in 0 .. m, NEW r \in R, Told(h, in, O, own, a, z, r, e[i])
      PROVE  Tells(h, in, O, own, a, z, r, c[i])
  <2>1. ASSUME NEW s \in O, own[s] = r, h.value[s] >= FirstNonterminal
        PROVE  /\ h.value[s] \in DOMAIN c[i]
               /\ c[i][h.value[s]] = Part(in, z[h.rule[s]], a[h.rule[s]])
    <3>1. h.rule[s] \in R /\ h.value[s] = h.value[h.rule[s]]
      BY <2>1, Values DEF Instance
    <3>2. e[i][h.rule[s]] = Part(in, z[h.rule[s]], a[h.rule[s]])
      <4> HIDE DEF e
      <4> QED BY <1>7, <2>1 DEF Told
    <3>3. e[i][h.rule[s]] = c[i][h.value[h.rule[s]]]
      BY <3>1
    <3> QED BY <1>4, <1>5, <3>1, <3>2, <3>3
  <2> QED BY <2>1 DEF Tells
<1>8. ASSUME NEW i \in 0 .. m, NEW r \in R PROVE e[i][r] = c[i][h.value[r]]
  OBVIOUS
<1> HIDE DEF e
<1>9. ASSUME NEW r \in R, \A s \in O : own[s] = r => h.value[s] < FirstNonterminal
      PROVE  e[0][r] = Part(in, z[r], a[r])
  <2>1. ASSUME NEW s \in O, own[s] = r, h.value[s] >= FirstNonterminal PROVE FALSE
    <3>1. h.value[s] \in Nat
      BY Values
    <3> QED BY <1>1, <1>9, <2>1, <3>1
  <2>2. Tells(h, in, O, own, a, z, r, NoRules)
    BY <2>1 DEF Tells
  <2>3. 0 \in 0 .. m
    BY <1>2
  <2> QED BY <1>3, <1>6, <1>8, <2>2, <2>3
<1>10. ASSUME NEW i \in 1 .. m, NEW r \in R, Told(h, in, O, own, a, z, r, e[i - 1])
       PROVE  e[i][r] = Part(in, z[r], a[r])
  <2>1. i - 1 \in 0 .. m /\ i \in 0 .. m
    BY <1>2
  <2>2. Tells(h, in, O, own, a, z, r, c[i - 1])
    BY <1>7, <1>10, <2>1
  <2> QED BY <1>3, <1>6, <1>8, <2>1, <2>2
<1>11. Rising(h, in, R, O, own, a, z, m, e)
  BY <1>9, <1>10 DEF Rising
<1>12. Risen(in, R, a, z, e[m])
  BY <1>11, RisesRight
<1>13. Told(h, in, O, own, a, z, h.main, e[m])
  <2>1. \A s \in O : h.value[s] >= FirstNonterminal => h.rule[s] \in R
    BY Values DEF Instance
  <2> QED BY <1>12, <2>1 DEF Told, Risen
<1>14. m \in 0 .. m
  BY <1>2
<1>15. LineIn(ValuesOf(h, bodies[h.main]), c[m]) = Part(in, z[h.main], a[h.main])
  BY <1>1, <1>6, <1>7, <1>13, <1>14
<1>16. Part(in, z[h.main], a[h.main]) = in
  BY <1>1, PartAll
<1> QED BY <1>15, <1>16 DEF c

-----------------------------------------------------------------------------
(* What compress writes of its grammar.                                    *)

\* The heads of the rules, and the values of the symbols of each.
RuleHeads == Walk(g.nextr, g.main, {g.main})
RuleSymbols(r) == Walk(g.next, r, {r})
Outline == [j \in DOMAIN RuleHeads |-> ValuesOf(g, RuleSymbols(RuleHeads[j]))]

\* All nonterminals given out so far fit into the three bytes of get_encoded.
ValuesFit == g.nextvalue <= 65536

\* The values of a sequence of symbols.
LEMMA ValuesTyped ==
  ASSUME NEW h \in Storage, NEW w \in Seq(Symbols)
  PROVE  /\ ValuesOf(h, w) \in Seq(Nat) /\ Len(ValuesOf(h, w)) = Len(w)
         /\ \A k \in 1 .. Len(w) : ValuesOf(h, w)[k] = h.value[w[k]]
         /\ Len(w) >= 1 => Tail(ValuesOf(h, w)) = ValuesOf(h, Tail(w))
<1> DEFINE v == ValuesOf(h, w)
<1>1. DOMAIN w = 1 .. Len(w) /\ Len(w) \in Nat /\ \A k \in 1 .. Len(w) : w[k] \in Symbols
  OBVIOUS
<1>2. \A s \in Symbols : h.value[s] \in Nat
  BY DEF Storage
<1>3. v \in [1 .. Len(w) -> Nat] /\ \A k \in 1 .. Len(w) : v[k] = h.value[w[k]]
  BY <1>1, <1>2 DEF ValuesOf
<1> HIDE DEF v
<1>4. v \in Seq(Nat) /\ Len(v) = Len(w)
  BY <1>1, <1>3
<1>5. ASSUME Len(w) >= 1 PROVE Tail(v) = ValuesOf(h, Tail(w))
  <2> DEFINE t == Tail(w)
             u == ValuesOf(h, t)
             m == Len(w) - 1
  <2>1. t \in Seq(Symbols) /\ Len(t) = m /\ m \in Nat /\ \A k \in 1 .. m : t[k] = w[k + 1]
    BY <1>1, <1>5
  <2>2. DOMAIN t = 1 .. m
    BY <2>1
  <2> HIDE DEF t, m
  <2>3. u \in [1 .. m -> Nat] /\ \A k \in 1 .. m : u[k] = h.value[t[k]]
    <3>1. \A k \in 1 .. m : t[k] \in Symbols
      BY <2>1
    <3> QED BY <1>2, <2>2, <3>1 DEF ValuesOf
  <2> HIDE DEF u
  <2>4. u \in Seq(Nat) /\ Len(u) = m
    BY <2>1, <2>3
  <2>5. Tail(v) \in Seq(Nat) /\ Len(Tail(v)) = m /\ \A k \in 1 .. m : Tail(v)[k] = v[k + 1]
    BY <1>4, <1>5 DEF m
  <2>6. \A k \in 1 .. m : Tail(v)[k] = u[k]
    <3> TAKE k \in 1 .. m
    <3>1. k + 1 \in 1 .. Len(w)
      BY <1>1, <2>1 DEF m
    <3> QED BY <1>3, <2>1, <2>3, <2>5, <3>1
  <2>7. Tail(v) = u
    BY <2>4, <2>5, <2>6, SameSeq
  <2> QED BY <2>7 DEF u, t
<1> QED BY <1>3, <1>4, <1>5 DEF v

\* w are the symbols of a rule, its head first.
Headed(w, X, r) == w \in Seq(X) /\ Len(w) >= 1 /\ Len(w) \in Nat /\ w[1] = r /\ w \in Seq(Symbols)

\* The rule as compress walks along it.
LEMMA RuleWalked ==
  ASSUME NEW in, NEW E, NEW R, NEW O, NEW own, NEW a, NEW z, NEW rank, NEW n,
         Sound(g, in, E, R, O, own, a, z, rank, n), NEW r \in R
  PROVE  Headed(RuleSymbols(r), {r} \cup O, r) /\ Tail(RuleSymbols(r)) = Body(r)
<1> DEFINE w == RuleSymbols(r)
           X == {r} \cup Of(O, own, r)
           mu == BodyOrder(a, r)
<1>1. Path(g.next, r, {r}, X, mu)
  BY BodyPath
<1>2. Visited(w, g.next, r, {r}, X, mu)
  <2> HIDE DEF w, X, mu
  <2>1. Visited(Walk(g.next, r, {r}), g.next, r, {r}, X, mu)
    BY <1>1, WalkVisits
  <2> QED BY <2>1 DEF w, RuleSymbols
<1>3. Body(r) = Tail(w)
  BY DEF Body, RuleSymbols
<1> HIDE DEF w, mu
<1>4. w \in Seq(X) /\ Len(w) >= 1 /\ w[1] = r
  BY <1>2 DEF Visited
<1>5. X \subseteq {r} \cup O /\ {r} \cup O \subseteq Symbols
  <2>1. R \subseteq Symbols /\ O \subseteq Symbols
    BY Gives
  <2> QED BY <2>1 DEF Of
<1> HIDE DEF X
<1>6. w \in Seq({r} \cup O) /\ w \in Seq(Symbols) /\ Len(w) \in Nat
  BY <1>4, <1>5
<1>7. Headed(w, {r} \cup O, r)
  BY <1>4, <1>6 DEF Headed
<1> QED BY <1>3, <1>7 DEF w

\* The heads of the rules as compress walks along them.
LEMMA HeadsWalked ==
  ASSUME NEW in, NEW E, NEW R, NEW O, NEW own, NEW a, NEW z, NEW rank, NEW n,
         Sound(g, in, E, R, O, own, a, z, rank, n)
  PROVE  /\ Headed(RuleHeads, R, g.main) /\ Elements(RuleHeads) = R
         /\ \A i, j \in 1 .. Len(RuleHeads) : g.value[RuleHeads[i]] = g.value[RuleHeads[j]] => i = j
<1> DEFINE w == RuleHeads
<1>1. Visited(w, g.nextr, g.main, {g.main}, R, g.value)
  BY RulesPath, WalkVisits DEF RuleHeads
<1> HIDE DEF w
<1>2. /\ w \in Seq(R) /\ Len(w) >= 1 /\ w[1] = g.main /\ Elements(w) = R
      /\ \A i, j \in 1 .. Len(w) : i < j => g.value[w[i]] < g.value[w[j]]
  BY <1>1 DEF Visited
<1>3. R \subseteq Symbols /\ \A s \in Symbols : g.value[s] \in Nat
  <2>1. R \subseteq Symbols
    BY Gives
  <2>2. \A s \in Symbols : g.value[s] \in Nat
    BY DEF Sound, Storage
  <2> QED BY <2>1, <2>2
<1>4. Len(w) \in Nat /\ w \in Seq(Symbols) /\ \A i \in 1 .. Len(w) : w[i] \in Symbols
  BY <1>2, <1>3
<1>5. ASSUME NEW i \in 1 .. Len(w), NEW j \in 1 .. Len(w), g.value[w[i]] = g.value[w[j]] PROVE i = j
  <2>1. g.value[w[i]] \in Nat /\ g.value[w[j]] \in Nat
    BY <1>3, <1>4
  <2>2. ~ (i < j) /\ ~ (j < i)
    BY <1>2, <1>5, <2>1
  <2> QED BY <1>4, <2>2
<1> QED BY <1>2, <1>4, <1>5 DEF w, Headed

\* What the outline has of each rule.
Outlined(L, rs) ==
  /\ L \in Seq(Seq(Nat)) /\ Len(L) = Len(rs)
  /\ \A j \in 1 .. Len(rs) :
       /\ L[j] = ValuesOf(g, RuleSymbols(rs[j])) /\ Len(L[j]) = Len(RuleSymbols(rs[j])) /\ Len(L[j]) >= 1
       /\ L[j][1] = g.value[rs[j]] /\ Tail(L[j]) = ValuesOf(g, Body(rs[j]))
       /\ \A k \in 1 .. Len(L[j]) : L[j][k] = g.value[RuleSymbols(rs[j])[k]]

\* The outline lists the rules,
LEMMA OutlineIs ==
  ASSUME NEW in, NEW E, NEW R, NEW O, NEW own, NEW a, NEW z, NEW rank, NEW n,
         Sound(g, in, E, R, O, own, a, z, rank, n)
  PROVE  Outlined(Outline, RuleHeads)
<1> DEFINE rs == RuleHeads
           L == Outline
<1>1. rs \in Seq(R) /\ Len(rs) \in Nat
  BY HeadsWalked DEF Headed
<1>2. g \in Storage
  BY DEF Sound
<1>3. DOMAIN rs = 1 .. Len(rs) /\ L = [j \in DOMAIN rs |-> ValuesOf(g, RuleSymbols(rs[j]))]
  BY <1>1 DEF Outline
<1> HIDE DEF rs, L
<1>4. ASSUME NEW j \in 1 .. Len(rs)
      PROVE  /\ L[j] = ValuesOf(g, RuleSymbols(rs[j])) /\ Len(L[j]) = Len(RuleSymbols(rs[j])) /\ Len(L[j]) >= 1
             /\ L[j][1] = g.value[rs[j]] /\ Tail(L[j]) = ValuesOf(g, Body(rs[j]))
             /\ \A k \in 1 .. Len(L[j]) : L[j][k] = g.value[RuleSymbols(rs[j])[k]]
             /\ L[j] \in Seq(Nat)
  <2> DEFINE r == rs[j]
             w == RuleSymbols(r)
  <2>1. r \in R
    BY <1>1
  <2> HIDE DEF r
  <2>2. Headed(w, {r} \cup O, r) /\ Tail(w) = Body(r)
    BY <2>1, RuleWalked
  <2> HIDE DEF w
  <2>3. w \in Seq(Symbols) /\ Len(w) >= 1 /\ Len(w) \in Nat /\ w[1] = r
    BY <2>2 DEF Headed
  <2>4. /\ ValuesOf(g, w) \in Seq(Nat) /\ Len(ValuesOf(g, w)) = Len(w)
        /\ \A k \in 1 .. Len(w) : ValuesOf(g, w)[k] = g.value[w[k]]
        /\ Len(w) >= 1 => Tail(ValuesOf(g, w)) = ValuesOf(g, Tail(w))
    BY <1>2, <2>3, ValuesTyped
  <2>5. L[j] = ValuesOf(g, w)
    BY <1>3 DEF w, r
  <2>6. 1 \in 1 .. Len(w)
    BY <2>3
  <2>7. L[j][1] = g.value[r] /\ Tail(L[j]) = ValuesOf(g, Body(r))
    BY <2>2, <2>3, <2>4, <2>5, <2>6
  <2> QED BY <2>3, <2>4, <2>5, <2>7 DEF w, r
<1>5. DOMAIN L = 1 .. Len(rs)
  BY <1>3
<1>6. L \in Seq(Seq(Nat)) /\ Len(L) = Len(rs)
  <2>1. L = [j \in 1 .. Len(rs) |-> L[j]]
    BY <1>3
  <2>2. L \in [1 .. Len(rs) -> Seq(Nat)]
    BY <1>4, <2>1
  <2> QED BY <1>1, <2>2
<1>7. Outlined(L, rs)
  BY <1>4, <1>6 DEF Outlined
<1> QED BY <1>7 DEF L, rs

\* and is what process_compression writes.
LEMMA CompressionIs ==
  ASSUME NEW in, NEW E, NEW R, NEW O, NEW own, NEW a, NEW z, NEW rank, NEW n,
         Sound(g, in, E, R, O, own, a, z, rank, n)
  PROVE  process_compression = Block(Outline)
<1> DEFINE rs == RuleHeads
           L == Outline
<1>1. Outlined(L, rs) /\ rs \in Seq(R) /\ Len(rs) \in Nat
  BY OutlineIs, HeadsWalked DEF Headed
<1> HIDE DEF rs, L
<1>2. DOMAIN rs = 1 .. Len(rs) /\ DOMAIN L = 1 .. Len(rs)
  BY <1>1 DEF Outlined
<1>3. ASSUME NEW j \in 1 .. Len(rs) PROVE EncodedRule(rs[j]) = FlattenSeq(Coded(L[j]))
  <2> DEFINE w == RuleSymbols(rs[j])
  <2>1. L[j] = ValuesOf(g, w)
    BY <1>1 DEF Outlined
  <2>2. DOMAIN ValuesOf(g, w) = DOMAIN w /\ \A k \in DOMAIN w : ValuesOf(g, w)[k] = g.value[w[k]]
    BY DEF ValuesOf
  <2>3. EncodedRule(rs[j]) = FlattenSeq([k \in DOMAIN w |-> get_encoded(g.value[w[k]])])
    BY DEF EncodedRule, RuleSymbols
  <2> HIDE DEF w
  <2>4. Coded(L[j]) = [k \in DOMAIN w |-> get_encoded(g.value[w[k]])]
    BY <2>1, <2>2 DEF Coded
  <2> QED BY <2>3, <2>4
<1>4. Pieces(L) = [j \in 1 .. Len(rs) |-> (IF j = 1 THEN <<>> ELSE <<RD>>) \o EncodedRule(rs[j])]
  BY <1>2, <1>3 DEF Pieces, Delimited
<1>5. EncodedRules = FlattenSeq(Pieces(L))
  BY <1>2, <1>4 DEF EncodedRules, RuleHeads, rs
<1> QED BY <1>5 DEF process_compression, Block, L

\* Its values fit, and are told apart by their rules.
LEMMA OutlineListed ==
  ASSUME NEW in, NEW E, NEW R, NEW O, NEW own, NEW a, NEW z, NEW rank, NEW n,
         Sound(g, in, E, R, O, own, a, z, rank, n), ValuesFit
  PROVE  Listed(Outline)
<1> DEFINE rs == RuleHeads
           L == Outline
<1>1. /\ Outlined(L, rs) /\ Headed(rs, R, g.main)
      /\ \A i, j \in 1 .. Len(rs) : g.value[rs[i]] = g.value[rs[j]] => i = j
  BY OutlineIs, HeadsWalked
<1> HIDE DEF rs, L
<1>2. g.nextvalue \in Nat /\ \A s \in Symbols : g.value[s] \in Nat
  BY DEF Sound, Storage
<1>3. ASSUME NEW s \in R \cup O PROVE s \in Symbols /\ g.value[s] < g.nextvalue
  <2>1. /\ R \subseteq Symbols /\ O \subseteq Symbols /\ g.main \in R /\ Named(g, in, R, O, a, z)
        /\ FirstNonterminal \in Nat
    BY Gives, LettersAssumption DEF Sound
  <2>2. \A r \in R : g.value[r] >= FirstNonterminal /\ g.value[r] < g.nextvalue
    BY <2>1 DEF Named
  <2>3. CASE s \in R
    BY <2>1, <2>2, <2>3
  <2>4. CASE s \in O /\ g.value[s] < FirstNonterminal
    <3>1. g.value[g.main] >= FirstNonterminal /\ g.value[g.main] < g.nextvalue
      BY <2>1, <2>2
    <3>2. g.value[g.main] \in Nat /\ g.value[s] \in Nat
      BY <1>2, <2>1, <2>4
    <3> QED BY <1>2, <2>1, <2>4, <3>1, <3>2
  <2>5. CASE s \in O /\ ~ (g.value[s] < FirstNonterminal)
    <3>1. g.value[s] >= FirstNonterminal
      BY <1>2, <2>1, <2>5
    <3>2. g.rule[s] \in R /\ g.value[s] = g.value[g.rule[s]]
      BY <2>5, <3>1, Values DEF Instance
    <3> QED BY <2>1, <2>2, <2>5, <3>2
  <2> QED BY <2>3, <2>4, <2>5
<1>4. ASSUME NEW s \in R \cup O PROVE g.value[s] \in Fits
  <2> DEFINE v == g.value[s]
             m == g.nextvalue
  <2>1. v \in Nat /\ m \in Nat /\ v < m /\ m <= 65536
    BY <1>2, <1>3 DEF ValuesFit
  <2> HIDE DEF v, m
  <2>2. v <= 65535
    BY ONLY <2>1, SMT
  <2> QED BY <2>1, <2>2, FitsIs DEF v
<1>5. /\ L \in Seq(Seq(Nat)) /\ Len(L) = Len(rs) /\ Len(rs) >= 1 /\ rs \in Seq(R)
  BY <1>1 DEF Outlined, Headed
<1>6. ASSUME NEW j \in 1 .. Len(L), NEW k \in 1 .. Len(L[j]) PROVE L[j][k] \in Fits
  <2> DEFINE r == rs[j]
             w == RuleSymbols(r)
  <2>1. r \in R
    BY <1>5
  <2> HIDE DEF r
  <2>2. Headed(w, {r} \cup O, r)
    BY <2>1, RuleWalked
  <2>3. L[j][k] = g.value[w[k]] /\ Len(L[j]) = Len(w)
    BY <1>1, <1>5 DEF Outlined, r
  <2> HIDE DEF w
  <2>4. w[k] \in {r} \cup O
    BY <2>2, <2>3 DEF Headed
  <2>5. w[k] \in R \cup O
    BY <2>1, <2>4
  <2> QED BY <1>4, <2>3, <2>5
<1>7. \A j \in 1 .. Len(L) : Len(L[j]) >= 1 /\ L[j][1] = g.value[rs[j]]
  BY <1>1, <1>5 DEF Outlined
<1>8. ASSUME NEW i \in 1 .. Len(L), NEW j \in 1 .. Len(L), L[i][1] = L[j][1] PROVE i = j
  <2>1. i \in 1 .. Len(rs) /\ j \in 1 .. Len(rs)
    BY <1>5
  <2>2. g.value[rs[i]] = g.value[rs[j]]
    BY <1>7, <1>8
  <2> QED BY <1>1, <2>1, <2>2
<1>9. Listed(L)
  BY <1>5, <1>6, <1>7, <1>8 DEF Listed
<1> QED BY <1>9 DEF L

\* The maps of a reader that has all of the outline,
LEMMA AllMapped ==
  ASSUME NEW in, NEW E, NEW R, NEW O, NEW own, NEW a, NEW z, NEW rank, NEW n,
         Sound(g, in, E, R, O, own, a, z, rank, n), Listed(Outline),
         NEW map, MapHas(map, Outline, Len(Outline)),
         NEW bodies, bodies = [r \in R |-> Body(r)]
  PROVE  MapsAll(g, R, bodies, map)
<1> DEFINE rs == RuleHeads
           L == Outline
<1>1. Outlined(L, rs) /\ rs \in Seq(R) /\ Elements(rs) = R /\ DOMAIN rs = 1 .. Len(rs)
  <2>1. Outlined(L, rs) /\ rs \in Seq(R) /\ Elements(rs) = R
    BY OutlineIs, HeadsWalked DEF Headed
  <2> QED BY <2>1
<1>2. /\ DOMAIN map = {L[q][1] : q \in 1 .. Len(L)}
      /\ \A q \in 1 .. Len(L) : map[L[q][1]] = Tail(L[q])
  BY DEF MapHas
<1> HIDE DEF rs, L
<1>3. Len(L) = Len(rs)
  BY <1>1 DEF Outlined
<1>4. ASSUME NEW j \in 1 .. Len(L)
      PROVE  L[j][1] = g.value[rs[j]] /\ Tail(L[j]) = ValuesOf(g, Body(rs[j])) /\ rs[j] \in R
  BY <1>1, <1>3 DEF Outlined
<1>5. ASSUME NEW r \in R PROVE \E j \in 1 .. Len(L) : rs[j] = r
  BY <1>1, <1>3 DEF Elements
<1>6. DOMAIN map = {g.value[r] : r \in R}
  <2>1. \A v \in DOMAIN map : v \in {g.value[r] : r \in R}
    <3> TAKE v \in DOMAIN map
    <3>1. PICK j \in 1 .. Len(L) : v = L[j][1]
      BY <1>2
    <3> QED BY <1>4, <3>1
  <2>2. ASSUME NEW r \in R PROVE g.value[r] \in DOMAIN map
    <3>1. PICK j \in 1 .. Len(L) : rs[j] = r
      BY <1>5
    <3> QED BY <1>2, <1>4, <3>1
  <2> QED BY <2>1, <2>2
<1>7. ASSUME NEW r \in R PROVE map[g.value[r]] = ValuesOf(g, bodies[r])
  <2>1. PICK j \in 1 .. Len(L) : rs[j] = r
    BY <1>5
  <2> QED BY <1>2, <1>4, <2>1
<1> QED BY <1>6, <1>7 DEF MapsAll

\* which has as many entries as there are rules.
LEMMA MapCount ==
  ASSUME NEW h, NEW in, NEW E, NEW R, NEW O, NEW own, NEW a, NEW z, NEW rank, NEW n,
         Sound(h, in, E, R, O, own, a, z, rank, n), NEW bodies, NEW map, MapsAll(h, R, bodies, map)
  PROVE  Cardinality(DOMAIN map) = Cardinality(R)
<1> DEFINE V == DOMAIN map
           f == [r \in R |-> h.value[r]]
<1>1. IsFiniteSet(R)
  <2>1. R \subseteq Symbols
    BY Gives
  <2> QED BY <2>1, NullApart, FS_Subset
<1>2. V = {h.value[r] : r \in R}
  BY DEF MapsAll
<1>3. \A q, r \in R : h.value[q] = h.value[r] => q = r
  BY DEF Sound, Named
<1> HIDE DEF V
<1>4. f \in [R -> V] /\ \A r \in R : f[r] = h.value[r]
  BY <1>2
<1> HIDE DEF f
<1>5. f \in Injection(R, V)
  BY <1>3, <1>4 DEF Injection, IsInjective
<1>6. f \in Surjection(R, V)
  BY <1>2, <1>4 DEF Surjection
<1>7. ExistsBijection(R, V)
  BY <1>5, <1>6 DEF ExistsBijection, Bijection
<1>8. Cardinality(V) = Cardinality(R)
  BY <1>1, <1>7, FS_Bijection
<1> QED BY <1>8 DEF V

\* The reader that has read a block has the grammar's text, if it has a main rule.
LEMMA TextRead ==
  ASSUME NEW in, NEW R, NEW O, NEW own, NEW a, NEW z, NEW rank, NEW n,
         Sound(g, in, {g.main}, R, O, own, a, z, rank, n), z[g.main] = 0, a[g.main] = Len(in),
         Listed(Outline), NEW x \in Readers, NEW q, Behind(Outline, q, x)
  PROVE  x.curr_rule # NoRule /\ (x.main_rule # NoRule => Expansion(Mapped(x)) = in)
<1> DEFINE L == Outline
           N == Len(L)
           y == Mapped(x)
           map == y.rule_map
           bodies == [r \in R |-> Body(r)]
<1>1. N \in Nat /\ N >= 1 /\ N \in 1 .. N /\ 1 \in 1 .. N
  <2>1. N \in Nat /\ N >= 1
    BY DEF Listed
  <2> HIDE DEF N
  <2> QED BY <2>1
<1>2. Holds(L, x, N) /\ x.curr_rule = RuleOf(L[N])
  BY DEF Behind
<1> HIDE DEF L, N
<1>3. /\ x.main_rule = (IF N = 1 THEN NoRule ELSE RuleOf(L[1]))
      /\ DOMAIN x.rule_map = {L[j][1] : j \in 1 .. N - 1}
      /\ \A j \in 1 .. N - 1 : x.rule_map[L[j][1]] = Tail(L[j])
  BY <1>2 DEF Holds, MapHas
<1>4. /\ \A j \in 1 .. N : L[j][1] \in Nat /\ L[j][1] # Null
      /\ \A i, j \in 1 .. N : L[i][1] = L[j][1] => i = j
  <2>1. \A j \in 1 .. N : L[j][1] \in Nat
    BY ListedValues DEF L, N
  <2>2. Null \notin Nat
    BY DEF Null
  <2>3. \A i, j \in 1 .. N : L[i][1] = L[j][1] => i = j
    BY DEF Listed, L, N
  <2> QED BY <2>1, <2>2, <2>3
<1>5. x.curr_rule.head = L[N][1] /\ x.curr_rule.body = Tail(L[N]) /\ x.curr_rule.head \in Nat
  BY <1>1, <1>2, <1>4 DEF RuleOf
<1>6. x.curr_rule # NoRule
  BY <1>1, <1>4, <1>5 DEF NoRule
<1>7. ASSUME x.main_rule # NoRule PROVE Expansion(y) = in
  <2>1. /\ y.main_rule = x.main_rule
        /\ DOMAIN map = {x.curr_rule.head} \cup DOMAIN x.rule_map
        /\ map[x.curr_rule.head] = x.curr_rule.body
        /\ \A v \in DOMAIN x.rule_map : v # x.curr_rule.head => map[v] = x.rule_map[v]
    <3> HIDE DEF y
    <3>1. y = Mapped(x)
      BY DEF y
    <3> QED BY <1>5, <3>1, MappedFields
  <2> HIDE DEF map
  <2>2. 1 .. N = {N} \cup (1 .. N - 1) /\ N \notin 1 .. N - 1
    BY <1>1
  <2>3. DOMAIN map = {L[j][1] : j \in 1 .. N}
    BY <1>3, <1>5, <2>1, <2>2
  <2>4. \A j \in 1 .. N : map[L[j][1]] = Tail(L[j])
    <3> TAKE j \in 1 .. N
    <3>1. CASE j = N
      BY <1>5, <2>1, <3>1
    <3>2. CASE j # N
      <4>1. j \in 1 .. N - 1 /\ L[j][1] # L[N][1]
        BY <1>1, <1>4, <2>2, <3>2
      <4> QED BY <1>3, <1>5, <2>1, <4>1
    <3> QED BY <3>1, <3>2
  <2>5. MapHas(map, Outline, Len(Outline))
    BY <2>3, <2>4 DEF MapHas, L, N
  <2>6. bodies = [r \in R |-> Body(r)]
    OBVIOUS
  <2> HIDE DEF bodies
  <2>7. MapsAll(g, R, bodies, map)
    BY <2>5, <2>6, AllMapped
  <2>8. Cardinality(DOMAIN map) = Cardinality(R)
    BY <2>7, MapCount
  <2>9. AllLined(g, R, O, own, bodies)
    BY <2>6, BodyLined DEF AllLined
  <2> DEFINE m == Cardinality(R)
  <2>10. LineIn(ValuesOf(g, bodies[g.main]), Level(map, m)[m]) = in
    <3>1. m = Cardinality(R)
      OBVIOUS
    <3> HIDE DEF m
    <3> QED BY <2>7, <2>9, <3>1, LevelsRight
  <2>11. y.main_rule.body = ValuesOf(g, bodies[g.main])
    <3>1. y.main_rule.body = Tail(L[1])
      BY <1>3, <1>7, <2>1 DEF RuleOf
    <3>2. Outlined(L, RuleHeads) /\ Len(L) = N /\ RuleHeads[1] = g.main /\ g.main \in R
      BY OutlineIs, HeadsWalked, Gives DEF Headed, L, N
    <3>3. Tail(L[1]) = ValuesOf(g, Body(g.main))
      BY <1>1, <3>2 DEF Outlined
    <3> QED BY <2>6, <3>1, <3>2, <3>3
  <2>12. Expansion(y) = LineIn(y.main_rule.body, Level(map, Cardinality(DOMAIN map))[Cardinality(DOMAIN map)])
    BY ExpansionIs DEF map
  <2> QED BY <2>8, <2>10, <2>11, <2>12
<1> QED BY <1>6, <1>7

-----------------------------------------------------------------------------
(* The reader in a file of several blocks.                                 *)

\* w is the begin of s.
Begins(w, s) == \E u \in Seq(Letters) : w \o u = s

\* At the end of a block: its text, a whole block that comes next in what was sent.
Text(x) == Expansion(Mapped(x))
WholeText(x) == Text(x) \in Seq(Letters) /\ Len(Text(x)) = BlockSize

Emits(x, t) == [x EXCEPT !.out = @ \o t]

\* The turns at the begin of the first block, and of another one.
Entering(f, x, y) == f[x.pos] = SOB /\ x.prev = SOT /\ y = Cleared(Advanced(f, x, 1))
Leaving(f, s, x, y) ==
  /\ f[x.pos] = SOB /\ x.prev = EOB /\ x.curr_rule # NoRule /\ x.main_rule # NoRule
  /\ WholeText(x) /\ Begins(x.out \o Text(x), s)
  /\ y = Emits(Cleared(Advanced(f, x, 1)), Text(x))

\* A turn that leads from x to y, and one that leads to a crash.
Turn(f, s, x, y) ==
  x.pos \in 1 .. Len(f) /\ (InnerTurn(f, x, y) \/ Entering(f, x, y) \/ Leaving(f, s, x, y))
Crashing(f, x) ==
  /\ x.pos \in 1 .. Len(f) /\ f[x.pos] \in {SOB, EOT}
  /\ x.prev = EOB /\ x.curr_rule # NoRule /\ x.main_rule = NoRule

\* In more of a file the reader does the same.
LEMMA TurnLonger ==
  ASSUME NEW f \in Seq(Nat), NEW u \in Seq(Nat), NEW s, NEW x, NEW y
  PROVE  /\ Turn(f, s, x, y) => Turn(f \o u, s, x, y)
         /\ Crashing(f, x) => Crashing(f \o u, x)
<1> DEFINE e == f \o u
<1>1. ASSUME x.pos \in 1 .. Len(f) PROVE x.pos \in 1 .. Len(e) /\ e[x.pos] = f[x.pos]
  <2>1. Len(e) = Len(f) + Len(u) /\ Len(f) \in Nat /\ Len(u) \in Nat
    BY Cats
  <2>2. \A i \in 1 .. Len(f) : e[i] = f[i]
    OBVIOUS
  <2> HIDE DEF e
  <2> QED BY <1>1, <2>1, <2>2
<1>2. \A v \in Fits : Stands(f, x.pos - 1, get_encoded(v)) => Stands(e, x.pos - 1, get_encoded(v))
  <2> TAKE v \in Fits
  <2>1. Len(get_encoded(v)) \in Nat
    BY FitsIs, EncodedBytes
  <2> QED BY <2>1, StandsLonger
<1> HIDE DEF e
<1>3. ASSUME x.pos \in 1 .. Len(f), InnerTurn(f, x, y) PROVE InnerTurn(e, x, y)
  <2>1. \A n : Advanced(e, x, n) = Advanced(f, x, n)
    BY <1>1, <1>3 DEF Advanced
  <2>2. Marked(f, x, y) => Marked(e, x, y)
    BY <1>1, <1>3, <2>1 DEF Marked
  <2>3. Parting(f, x, y) => Parting(e, x, y)
    <3>1. Parted(e, x) = Parted(f, x)
      <4>1. Advanced(e, x, 1) = Advanced(f, x, 1)
        BY <2>1
      <4> QED BY ONLY <4>1, Zenon DEF Parted
    <3> QED BY <1>1, <1>3, <3>1 DEF Parting
  <2>4. Taking(f, x, y) => Taking(e, x, y)
    BY <1>2, <2>1 DEF Taking
  <2> QED BY <1>1, <1>3, <2>2, <2>3, <2>4 DEF InnerTurn
<1>4. ASSUME x.pos \in 1 .. Len(f) PROVE Advanced(e, x, 1) = Advanced(f, x, 1)
  BY <1>1, <1>4 DEF Advanced
<1>5. ASSUME x.pos \in 1 .. Len(f), Entering(f, x, y) PROVE Entering(e, x, y)
  BY <1>1, <1>4, <1>5 DEF Entering
<1>6. ASSUME x.pos \in 1 .. Len(f), Leaving(f, s, x, y) PROVE Leaving(e, s, x, y)
  BY <1>1, <1>4, <1>6 DEF Leaving
<1>7. Turn(f, s, x, y) => Turn(e, s, x, y)
  BY <1>1, <1>3, <1>5, <1>6 DEF Turn
<1>8. Crashing(f, x) => Crashing(e, x)
  BY <1>1 DEF Crashing
<1> QED BY <1>7, <1>8 DEF e

\* Concatenation is associative.
LEMMA CatAssoc ==
  ASSUME NEW S, NEW u \in Seq(S), NEW v \in Seq(S), NEW w \in Seq(S)
  PROVE  v \o w \in Seq(S) /\ u \o (v \o w) = (u \o v) \o w
OBVIOUS

\* When more is sent, it does the same.
LEMMA TurnMore ==
  ASSUME NEW f, NEW s, NEW v \in Seq(Letters), NEW x, x.out \in Seq(Letters), NEW y, Turn(f, s, x, y)
  PROVE  Turn(f, s \o v, x, y)
<1>1. ASSUME Leaving(f, s, x, y) PROVE Leaving(f, s \o v, x, y)
  <2> DEFINE w == x.out \o Text(x)
  <2>1. w \in Seq(Letters)
    <3>1. Text(x) \in Seq(Letters)
      BY <1>1 DEF Leaving, WholeText
    <3> QED BY <3>1, Cats
  <2>2. PICK u \in Seq(Letters) : w \o u = s
    BY <1>1 DEF Leaving, Begins
  <2> HIDE DEF w
  <2>3. u \o v \in Seq(Letters) /\ w \o (u \o v) = (w \o u) \o v
    <3>1. v \in Seq(Letters) /\ u \in Seq(Letters)
      BY <2>2
    <3> QED BY ONLY <2>1, <3>1, CatAssoc
  <2>4. Begins(w, s \o v)
    BY <2>2, <2>3 DEF Begins
  <2> QED BY <1>1, <2>4 DEF Leaving, w
<1> QED BY <1>1 DEF Turn

\* At the end of what is written: the mark of the transmission, or a block, was the last.
AtEnd(f, s, in, x) ==
  /\ x.pos = Len(f) + 1
  /\ \/ x.prev = SOT /\ x.out \o in = s
     \/ /\ x.prev = EOB /\ x.curr_rule # NoRule
        /\ x.main_rule # NoRule => WholeText(x) /\ (x.out \o Text(x)) \o in = s

\* The states of X lead from Fresh to the end of what is written.
Follows(f, s, in, X) ==
  /\ X \subseteq Readers /\ Fresh \in X
  /\ \A x \in X : AtEnd(f, s, in, x) \/ Crashing(f, x) \/ \E y \in X : Turn(f, s, x, y)
Ready(f, s, in) == \E X : Follows(f, s, in, X)

\* Before the first block only the mark of the transmission is written.
LEMMA ReadyFirst == Ready(<<SOT>>, <<>>, <<>>)
<1> DEFINE f == <<SOT>>
           y == Advanced(f, Fresh, 1)
           X == {Fresh, y}
<1>1. f \in Seq(Nat) /\ Len(f) = 1 /\ f[1] = SOT /\ SOT \in Nat
  BY SMT DEF SOT
<1>2. Fresh \in Readers
  <2>1. NoRule \in RuleRecords
    BY DEF NoRule, RuleRecords
  <2>2. NoRules \in RuleMaps
    <3>1. NoRules \in [{} -> Seq(Nat)]
      BY SMT DEF NoRules
    <3>2. {} \in SUBSET Nat
      OBVIOUS
    <3> QED BY <3>1, <3>2 DEF RuleMaps
  <2>3. <<>> \in Seq(Letters) /\ 1 \in Nat /\ 0 \in Nat
    OBVIOUS
  <2> QED BY <2>1, <2>2, <2>3 DEF Fresh, Readers
<1>3. Fresh.pos = 1 /\ Fresh.out = <<>>
  BY DEF Fresh
<1> HIDE DEF f
<1>4. y \in Readers /\ y.pos = 2 /\ y.prev = SOT /\ y.out = <<>>
  <2>1. MovedOn(Fresh, y, 1, SOT)
    <3> HIDE DEF y
    <3>1. y = Advanced(f, Fresh, 1) /\ f[Fresh.pos] = SOT /\ 1 \in Nat
      BY <1>1, <1>3 DEF y
    <3> QED BY <1>1, <1>2, <3>1, AdvancedFields
  <2> HIDE DEF y
  <2> QED BY <1>3, <2>1, SMT DEF MovedOn
<1>5. Turn(f, <<>>, Fresh, y)
  <2>1. Marked(f, Fresh, y)
    BY <1>1, <1>3 DEF Marked
  <2>2. Fresh.pos \in 1 .. Len(f)
    BY <1>1, <1>3
  <2> QED BY <2>1, <2>2 DEF Turn, InnerTurn
<1> HIDE DEF y
<1>6. AtEnd(f, <<>>, <<>>, y)
  <2>1. y.pos = Len(f) + 1 /\ y.out \o <<>> = <<>>
    BY <1>1, <1>4
  <2> QED BY <1>4, <2>1 DEF AtEnd
<1>7. Follows(f, <<>>, <<>>, X)
  BY <1>2, <1>4, <1>5, <1>6 DEF Follows
<1> QED BY <1>7 DEF Ready, f

\* A byte that is read is sent, and waits in the block.
LEMMA ReadyMore ==
  ASSUME NEW f, NEW s \in Seq(Letters), NEW in \in Seq(Letters), NEW b \in Letters, Ready(f, s, in)
  PROVE  Ready(f, Append(s, b), Append(in, b))
<1> DEFINE v == <<b>>
<1>1. v \in Seq(Letters) /\ Append(s, b) = s \o v /\ Append(in, b) = in \o v
  OBVIOUS
<1> HIDE DEF v
<1>2. PICK X : Follows(f, s, in, X)
  BY DEF Ready
<1>3. \A x \in X : x \in Readers /\ x.out \in Seq(Letters)
  BY <1>2 DEF Follows, Readers
<1>4. ASSUME NEW x \in X, AtEnd(f, s, in, x) PROVE AtEnd(f, s \o v, in \o v, x)
  <2>1. \A w \in Seq(Letters) : w \o (in \o v) = (w \o in) \o v
    BY <1>1, CatAssoc
  <2>2. CASE x.prev = SOT /\ x.out \o in = s
    BY <1>3, <1>4, <2>1, <2>2 DEF AtEnd
  <2>3. ASSUME x.main_rule # NoRule, WholeText(x), (x.out \o Text(x)) \o in = s
        PROVE  (x.out \o Text(x)) \o (in \o v) = s \o v
    <3>1. x.out \o Text(x) \in Seq(Letters)
      BY <1>3, <2>3, Cats DEF WholeText
    <3> QED BY <2>1, <2>3, <3>1
  <2>4. CASE x.prev = EOB
    BY <1>4, <2>2, <2>3, <2>4 DEF AtEnd
  <2> QED BY <1>4, <2>2, <2>4 DEF AtEnd
<1>5. ASSUME NEW x \in X, NEW y \in X, Turn(f, s, x, y) PROVE Turn(f, s \o v, x, y)
  BY <1>1, <1>3, <1>5, TurnMore
<1>6. Follows(f, s \o v, in \o v, X)
  BY <1>2, <1>4, <1>5 DEF Follows
<1> QED BY <1>1, <1>6 DEF Ready

\* A block is a sequence of bytes.
LEMMA BlockTyped ==
  ASSUME NEW L, Listed(L)
  PROVE  Block(L) \in Seq(Nat)
<1>1. FlattenSeq(Pieces(L)) \in Seq(Nat)
  BY PiecesTyped, JointJoins
<1>2. <<SOB>> \in Seq(Nat) /\ <<EOB>> \in Seq(Nat)
  <2>1. SOB \in Nat /\ EOB \in Nat
    BY SMT DEF SOB, EOB
  <2> QED BY <2>1
<1>3. <<SOB>> \o FlattenSeq(Pieces(L)) \in Seq(Nat)
  BY <1>1, <1>2, Cats
<1> QED BY <1>2, <1>3, Cats DEF Block

BegunAt(y, q, o) == y \in Readers /\ Began(y, q) /\ y.out = o

\* The fields of the states at the begin of a block.
LEMMA ClearedFields ==
  ASSUME NEW f, NEW x \in Readers, f[x.pos] \in Nat, NEW y, y = Cleared(Advanced(f, x, 1)),
         NEW t, NEW w, w = Emits(y, t)
  PROVE  BegunAt(y, x.pos, x.out) /\ (x.out \o t \in Seq(Letters) => BegunAt(w, x.pos, x.out \o t))
<1> DEFINE k == Advanced(f, x, 1)
           v == f[x.pos]
<1>1. MovedOn(x, k, 1, v)
  <2> HIDE DEF k, v
  <2>1. k = Advanced(f, x, 1) /\ 1 \in Nat /\ v \in Nat /\ f[x.pos] = v
    BY DEF k, v
  <2> QED BY <2>1, AdvancedFields
<1>2. y = Cleared(k)
  OBVIOUS
<1> HIDE DEF k, v
<1>3. k \in Readers /\ k.pos = x.pos + 1 /\ k.out = x.out
  BY <1>1 DEF MovedOn
<1>4. NoRule \in RuleRecords /\ NoRules \in RuleMaps
  <2>1. NoRule \in RuleRecords
    BY DEF NoRule, RuleRecords
  <2>2. NoRules \in [{} -> Seq(Nat)]
    BY SMT DEF NoRules
  <2>3. {} \in SUBSET Nat
    OBVIOUS
  <2> QED BY <2>1, <2>2, <2>3 DEF RuleMaps
<1>5. y = [k EXCEPT !.curr_rule = NoRule, !.main_rule = NoRule, !.rule_map = NoRules]
  BY <1>2 DEF Cleared
<1>6. y \in Readers /\ y.pos = x.pos + 1 /\ y.out = x.out /\ y.curr_rule = NoRule
      /\ y.main_rule = NoRule /\ y.rule_map = NoRules
  BY <1>3, <1>4, <1>5 DEF Readers
<1> HIDE DEF Readers
<1>7. ASSUME x.out \o t \in Seq(Letters)
      PROVE  /\ w \in Readers /\ w.pos = x.pos + 1 /\ w.out = x.out \o t /\ w.curr_rule = NoRule
             /\ w.main_rule = NoRule /\ w.rule_map = NoRules
  <2> DEFINE o == x.out \o t
  <2>1. o \in Seq(Letters) /\ w = [y EXCEPT !.out = o]
    BY <1>6, <1>7 DEF Emits
  <2> HIDE DEF o
  <2>2. w \in Readers /\ w.pos = y.pos /\ w.out = o /\ w.curr_rule = y.curr_rule
        /\ w.main_rule = y.main_rule /\ w.rule_map = y.rule_map
    BY ONLY <1>6, <2>1 DEF Readers
  <2> QED BY <1>6, <2>2 DEF o
<1> QED BY <1>6, <1>7 DEF Began, BegunAt

\* The states of X lead from Fresh to the end of a block, the text in of which comes next.
Passes(f, s, in, L, X) ==
  /\ X \subseteq Readers /\ Fresh \in X
  /\ \A x \in X : \/ x.out \o in = s /\ Behind(L, Len(f), x)
                  \/ Crashing(f, x) \/ \E y \in X : Turn(f, s, x, y)

\* A block is written.
LEMMA BlockAppends ==
  ASSUME NEW f \in Seq(Nat), NEW s \in Seq(Letters), NEW in \in Seq(Letters), Ready(f, s, in),
         NEW L, Listed(L), NEW u, u = Block(L), NEW e, e = f \o u
  PROVE  e \in Seq(Nat) /\ \E X : Passes(e, s, in, L, X)
<1> DEFINE p == Len(f)
           O == {o \in Seq(Letters) : o \o in = s}
<1>1. PICK X : Follows(f, s, in, X)
  BY DEF Ready
<1>2. u \in Seq(Nat)
  BY BlockTyped
<1>3. e \in Seq(Nat) /\ Len(e) = p + Len(u) /\ p \in Nat /\ Len(u) \in Nat /\ Len(e) \in Nat
  BY <1>2, Cats
<1>4. Stands(e, p, Block(L))
  BY <1>2, <1>3, StandsLonger
<1> HIDE DEF p, O
<1>5. PICK B : Reads(e, p, Len(e), L, O, B)
  <2>1. \E B : Reads(e, p, p + Len(Block(L)), L, O, B)
    BY <1>3, <1>4, BlockReads
  <2> QED BY <1>3, <2>1
<1>6. e[p + 1] = SOB /\ p + 1 \in 1 .. Len(e) /\ SOB \in Nat
  <2>1. PICK at : Placed(e, p, L, at)
    BY <1>3, <1>4, Places
  <2>2. e[p + 1] = SOB /\ p + 1 <= Len(e)
    BY <2>1 DEF Placed
  <2>3. SOB \in Nat
    BY SMT DEF SOB
  <2> QED BY <1>3, <2>2, <2>3
<1> DEFINE Y == X \cup B
<1>7. Y \subseteq Readers /\ Fresh \in Y
  BY <1>1, <1>5 DEF Follows, Reads
<1>8. ASSUME NEW x \in B
      PROVE  (x.out \o in = s /\ Behind(L, Len(e), x)) \/ \E y \in Y : Turn(e, s, x, y)
  <2>1. x.out \in O /\ (Behind(L, Len(e), x) \/ \E y \in B : InnerTurn(e, x, y))
    BY <1>5 DEF Reads
  <2>2. \A y : InnerTurn(e, x, y) => Turn(e, s, x, y)
    BY DEF Turn, InnerTurn
  <2> QED BY <2>1, <2>2 DEF O
<1>9. ASSUME NEW x \in X, AtEnd(f, s, in, x)
      PROVE  Crashing(e, x) \/ \E y \in Y : Turn(e, s, x, y)
  <2> DEFINE k == Cleared(Advanced(e, x, 1))
             w == Emits(k, Text(x))
  <2>1. x \in Readers /\ x.out \in Seq(Letters) /\ x.pos = p + 1 /\ e[x.pos] = SOB /\ x.pos \in 1 .. Len(e)
    BY <1>1, <1>6, <1>9 DEF Follows, AtEnd, Readers, p
  <2>2. BegunAt(k, p + 1, x.out) /\ (x.out \o Text(x) \in Seq(Letters) => BegunAt(w, p + 1, x.out \o Text(x)))
    <3> HIDE DEF w, k
    <3>1. k = Cleared(Advanced(e, x, 1)) /\ w = Emits(k, Text(x))
      BY DEF w, k
    <3>2. x \in Readers /\ e[x.pos] \in Nat
      BY <1>6, <2>1
    <3>3. BegunAt(k, x.pos, x.out) /\ (x.out \o Text(x) \in Seq(Letters) => BegunAt(w, x.pos, x.out \o Text(x)))
      BY ONLY <3>1, <3>2, ClearedFields
    <3> QED BY <2>1, <3>3
  <2>3. \A y \in Readers : Began(y, p + 1) /\ y.out \in O => y \in Y
    BY <1>5 DEF Reads
  <2>4. CASE x.prev = SOT /\ x.out \o in = s
    <3>1. Entering(e, x, k)
      BY <2>1, <2>4 DEF Entering
    <3> HIDE DEF k
    <3>2. k \in Y
      BY <2>1, <2>2, <2>3, <2>4 DEF O, BegunAt
    <3> QED BY <2>1, <3>1, <3>2 DEF Turn
  <2>5. CASE x.prev = EOB /\ x.curr_rule # NoRule /\ x.main_rule = NoRule
    BY <2>1, <2>5 DEF Crashing
  <2>6. CASE /\ x.prev = EOB /\ x.curr_rule # NoRule /\ x.main_rule # NoRule
             /\ WholeText(x) /\ (x.out \o Text(x)) \o in = s
    <3>1. x.out \o Text(x) \in Seq(Letters)
      BY <2>1, <2>6, Cats DEF WholeText
    <3>2. Begins(x.out \o Text(x), s)
      BY <2>6 DEF Begins
    <3>3. Leaving(e, s, x, w)
      BY <2>1, <2>6, <3>2 DEF Leaving
    <3> HIDE DEF w
    <3>4. w \in Y
      BY <2>2, <2>3, <2>6, <3>1 DEF O, BegunAt
    <3> QED BY <2>1, <3>3, <3>4 DEF Turn
  <2> QED BY <1>9, <2>4, <2>5, <2>6 DEF AtEnd
<1>10. ASSUME NEW x \in X
       PROVE  Crashing(e, x) \/ \E y \in Y : Turn(e, s, x, y)
  <2>1. AtEnd(f, s, in, x) \/ Crashing(f, x) \/ \E y \in X : Turn(f, s, x, y)
    BY <1>1 DEF Follows
  <2>2. CASE Crashing(f, x)
    BY <1>2, <2>2, TurnLonger
  <2>3. CASE \E y \in X : Turn(f, s, x, y)
    BY <1>2, <2>3, TurnLonger
  <2> QED BY <1>9, <2>1, <2>2, <2>3
<1> HIDE DEF O
<1>11. Passes(e, s, in, L, Y)
  BY <1>7, <1>8, <1>10 DEF Passes
<1> QED BY <1>3, <1>11

\* What a reader has behind a block L that is written for in.
Carries(L, in) ==
  Listed(L) /\ \A x \in Readers, q \in Nat :
    Behind(L, q, x) => x.curr_rule # NoRule /\ (x.main_rule # NoRule => Text(x) = in)

\* The grammar is written as a block for its input.
LEMMA GrammarCarries ==
  ASSUME GrammarInv, g.fault = "none", ValuesFit
  PROVE  Carries(Outline, input) /\ process_compression = Block(Outline)
<1>1. PICK R, O, own, a, z, rank, n, S : Parsed(g, input, R, O, own, a, z, rank, n, S)
  BY Tops DEF GrammarInv, Kept
<1>2. Sound(g, input, {g.main}, R, O, own, a, z, rank, n) /\ z[g.main] = 0 /\ a[g.main] = Len(input)
  BY <1>1 DEF Parsed
<1>3. Listed(Outline)
  BY <1>2, OutlineListed
<1>4. process_compression = Block(Outline)
  BY <1>2, CompressionIs
<1>5. ASSUME NEW x \in Readers, NEW q \in Nat, Behind(Outline, q, x)
      PROVE  x.curr_rule # NoRule /\ (x.main_rule # NoRule => Text(x) = input)
  BY <1>2, <1>3, <1>5, TextRead DEF Text
<1> QED BY <1>3, <1>4, <1>5 DEF Carries

\* After a full block the next one may follow.
LEMMA ReadyNext ==
  ASSUME NEW f \in Seq(Nat), NEW s \in Seq(Letters), NEW in \in Seq(Letters), Ready(f, s, in),
         NEW L, Carries(L, in), Len(in) = BlockSize, NEW e, e = f \o Block(L)
  PROVE  e \in Seq(Nat) /\ Ready(e, s, <<>>)
<1>1. Listed(L)
  BY DEF Carries
<1>2. e \in Seq(Nat) /\ \E X : Passes(e, s, in, L, X)
  BY <1>1, BlockAppends
<1>3. PICK X : Passes(e, s, in, L, X)
  BY <1>2
<1>4. ASSUME NEW x \in X, x.out \o in = s, Behind(L, Len(e), x) PROVE AtEnd(e, s, <<>>, x)
  <2>1. x \in Readers /\ Len(e) \in Nat
    BY <1>2, <1>3 DEF Passes
  <2>2. x.curr_rule # NoRule /\ (x.main_rule # NoRule => Text(x) = in)
    BY <1>4, <2>1 DEF Carries
  <2>3. x.pos = Len(e) + 1 /\ x.prev = EOB
    BY <1>4 DEF Behind
  <2>4. ASSUME x.main_rule # NoRule PROVE WholeText(x) /\ (x.out \o Text(x)) \o <<>> = s
    <3>1. Text(x) = in
      BY <2>2, <2>4
    <3>2. s \o <<>> = s
      OBVIOUS
    <3> QED BY <1>4, <3>1, <3>2 DEF WholeText
  <2> QED BY <2>2, <2>3, <2>4 DEF AtEnd
<1>5. Follows(e, s, <<>>, X)
  BY <1>3, <1>4 DEF Passes, Follows
<1> QED BY <1>2, <1>5 DEF Ready

\* The turn at the end of the transmission, and the end of the file.
LastTurn(f, s, x, y) ==
  /\ x.pos \in 1 .. Len(f) /\ f[x.pos] = EOT /\ x.prev = EOB
  /\ x.curr_rule # NoRule /\ x.main_rule # NoRule
  /\ Text(x) \in Seq(Letters) /\ Len(Text(x)) < BlockSize /\ x.out \o Text(x) = s
  /\ y = Emits(Advanced(f, x, 1), Text(x))
Ended(f, s, x) == x.pos = Len(f) + 1 /\ x.out = s

\* The states of X lead to the end of the file.
Leads(f, s, X) ==
  /\ X \subseteq Readers
  /\ \A x \in X : Ended(f, s, x) \/ Crashing(f, x) \/ \E y \in X : Turn(f, s, x, y) \/ LastTurn(f, s, x, y)
Followed(f, s, x) == \E X : x \in X /\ Leads(f, s, X)

\* The fields of the state after the last turn.
EndsWith(x, y, o) == y \in Readers /\ y.pos = x.pos + 1 /\ y.out = o
LEMMA LastFields ==
  ASSUME NEW f, NEW x \in Readers, f[x.pos] \in Nat, NEW t, x.out \o t \in Seq(Letters),
         NEW y, y = Emits(Advanced(f, x, 1), t)
  PROVE  EndsWith(x, y, x.out \o t)
<1> DEFINE k == Advanced(f, x, 1)
           v == f[x.pos]
           o == x.out \o t
<1>1. MovedOn(x, k, 1, v)
  <2> HIDE DEF k, v
  <2>1. k = Advanced(f, x, 1) /\ 1 \in Nat /\ v \in Nat /\ f[x.pos] = v
    BY DEF k, v
  <2> QED BY <2>1, AdvancedFields
<1>2. y = [k EXCEPT !.out = k.out \o t]
  BY DEF Emits
<1> HIDE DEF k, v
<1>3. k \in Readers /\ k.pos = x.pos + 1 /\ k.out = x.out
  BY <1>1 DEF MovedOn
<1>4. o \in Seq(Letters) /\ y = [k EXCEPT !.out = o]
  BY <1>2, <1>3
<1> HIDE DEF o
<1>5. y \in Readers /\ y.pos = k.pos /\ y.out = o
  BY ONLY <1>3, <1>4 DEF Readers
<1> QED BY <1>3, <1>5 DEF o, EndsWith

\* After the last block the mark of the end follows.
LEMMA ReadyLast ==
  ASSUME NEW f \in Seq(Nat), NEW s \in Seq(Letters), NEW in \in Seq(Letters), Ready(f, s, in),
         NEW L, Carries(L, in), Len(in) < BlockSize, NEW e, e = f \o Block(L) \o <<EOT>>
  PROVE  e \in Seq(Nat) /\ Followed(e, s, Fresh)
<1> DEFINE c == f \o Block(L)
           u == <<EOT>>
<1>1. Listed(L)
  BY DEF Carries
<1>2. c \in Seq(Nat) /\ \E X : Passes(c, s, in, L, X)
  BY <1>1, BlockAppends
<1>3. PICK X : Passes(c, s, in, L, X)
  BY <1>2
<1>4. u \in Seq(Nat) /\ Len(u) = 1 /\ u[1] = EOT /\ EOT \in Nat
  BY SMT DEF EOT
<1>5. e = c \o u
  OBVIOUS
<1> HIDE DEF c, u
<1>6. /\ e \in Seq(Nat) /\ Len(e) = Len(c) + 1 /\ Len(c) \in Nat /\ Len(c) + 1 \in 1 .. Len(e)
      /\ e[Len(c) + 1] = EOT
  <2>1. e \in Seq(Nat) /\ Len(e) = Len(c) + Len(u) /\ Len(c) \in Nat
    BY <1>2, <1>4, <1>5, Cats
  <2>2. Stands(e, Len(c), u)
    <3>1. Len(u) \in Nat /\ c \in Seq(Nat) /\ u \in Seq(Nat)
      BY <1>2, <1>4
    <3>2. Stands(c \o u, Len(c), u)
      BY ONLY <3>1, StandsLonger
    <3> QED BY <1>5, <3>2
  <2>3. e[Len(c) + 1] = EOT
    <3>1. 1 \in 1 .. Len(u)
      BY ONLY <1>4
    <3> QED BY <1>4, <2>2, <3>1 DEF Stands
  <2> DEFINE m == Len(c)
             n == Len(e)
  <2>4. m \in Nat /\ n = m + 1
    BY <1>4, <2>1
  <2> HIDE DEF m, n
  <2>5. m + 1 \in 1 .. n
    BY ONLY <2>4
  <2> QED BY <2>1, <2>3, <2>4, <2>5 DEF m, n
<1> DEFINE Z == {x \in Readers : Ended(e, s, x)}
           Y == X \cup Z
<1>7. ASSUME NEW x \in X, x.out \o in = s, Behind(L, Len(c), x)
      PROVE  Crashing(e, x) \/ \E y \in Y : LastTurn(e, s, x, y)
  <2>1. x \in Readers
    BY <1>3 DEF Passes
  <2>2. x.curr_rule # NoRule /\ (x.main_rule # NoRule => Text(x) = in)
    BY <1>6, <1>7, <2>1 DEF Carries
  <2>3. x.pos = Len(c) + 1 /\ x.prev = EOB
    BY <1>7 DEF Behind
  <2>4. CASE x.main_rule = NoRule
    BY <1>6, <2>2, <2>3, <2>4 DEF Crashing
  <2>5. CASE x.main_rule # NoRule
    <3> DEFINE y == Emits(Advanced(e, x, 1), Text(x))
    <3>1. Text(x) = in
      BY <2>2, <2>5
    <3>2. LastTurn(e, s, x, y)
      BY <1>6, <1>7, <2>2, <2>3, <2>5, <3>1 DEF LastTurn
    <3>3. x.out \o Text(x) \in Seq(Letters) /\ e[x.pos] \in Nat
      BY <1>4, <1>6, <1>7, <2>3, <3>1
    <3>4. EndsWith(x, y, x.out \o Text(x))
      <4> DEFINE t == Text(x)
      <4>1. y = Emits(Advanced(e, x, 1), t) /\ x.out \o t \in Seq(Letters)
        BY <3>3
      <4> HIDE DEF y, t
      <4>2. EndsWith(x, y, x.out \o t)
        BY ONLY <2>1, <3>3, <4>1, LastFields
      <4> QED BY <4>2 DEF t
    <3> HIDE DEF y
    <3>5. y \in Z
      BY <1>6, <1>7, <2>3, <3>1, <3>4 DEF Ended, EndsWith
    <3> QED BY <3>2, <3>5
  <2> QED BY <2>4, <2>5
<1>8. ASSUME NEW x \in X
      PROVE  Crashing(e, x) \/ \E y \in Y : Turn(e, s, x, y) \/ LastTurn(e, s, x, y)
  <2>1. \/ x.out \o in = s /\ Behind(L, Len(c), x)
        \/ Crashing(c, x) \/ \E y \in X : Turn(c, s, x, y)
    BY <1>3 DEF Passes
  <2>2. CASE Crashing(c, x)
    BY <1>2, <1>4, <1>5, <2>2, TurnLonger
  <2>3. CASE \E y \in X : Turn(c, s, x, y)
    <3>1. PICK y \in X : Turn(c, s, x, y)
      BY <2>3
    <3>2. Turn(e, s, x, y)
      BY <1>2, <1>4, <1>5, <3>1, TurnLonger
    <3> QED BY <3>2
  <2> QED BY <1>7, <2>1, <2>2, <2>3
<1>9. X \subseteq Readers /\ Fresh \in X
  BY <1>3 DEF Passes
<1>10. Leads(e, s, Y) /\ Fresh \in Y
  BY <1>8, <1>9 DEF Leads
<1> QED BY <1>6, <1>10 DEF Followed

-----------------------------------------------------------------------------
(* The turns that the reader takes.                                        *)

\* The marks differ.
LEMMA MarksApart ==
  /\ SOT # EOT /\ SOT # SOB /\ SOT # EOB /\ SOT # RD /\ EOT # SOB /\ EOT # EOB /\ EOT # RD
  /\ SOB # EOB /\ SOB # RD /\ EOB # RD /\ {SOT, EOT, SOB, EOB, RD} \subseteq Marks
BY SMT DEF SOT, EOT, SOB, EOB, RD, Marks

\* In the file, a turn is no end.
LEMMA InFile ==
  ASSUME file \in Seq(Nat), mode = "decompress", d.pos \in 1 .. Len(file), Read
  PROVE  Mark \/ FirstBlock \/ NextBlock \/ LastBlock \/ Delimiter \/ Symbol
<1> DEFINE m == Len(file)
           p == d.pos
<1>1. m \in Nat /\ p \in 1 .. m
  OBVIOUS
<1> HIDE DEF m, p
<1>2. ~ (p > m)
  BY ONLY <1>1
<1>3. ~ FileEnds
  BY <1>2 DEF FileEnds, m, p
<1> QED BY <1>3 DEF Read

\* A turn inside a block is the one that the reader takes.
LEMMA InnerTaken ==
  ASSUME file \in Seq(Nat), mode = "decompress", d \in Readers, NEW y, InnerTurn(file, d, y), Read
  PROVE  d' = y /\ mode' = mode
<1>1. d.pos \in 1 .. Len(file) /\ Curr = file[d.pos] /\ \A n : Past(n) = Advanced(file, d, n)
  BY DEF InnerTurn, Curr, Past, Advanced
<1>2. Mark \/ FirstBlock \/ NextBlock \/ LastBlock \/ Delimiter \/ Symbol
  BY <1>1, InFile
<1>3. CASE Marked(file, d, y)
  <2>1. Curr \in {SOT, EOB} /\ y = Past(1)
    BY <1>1, <1>3 DEF Marked
  <2>2. Mark
    BY <1>2, <2>1, MarksApart DEF FirstBlock, NextBlock, LastBlock, Delimiter, Symbol
  <2> QED BY <2>1, <2>2 DEF Mark
<1>4. CASE Parting(file, d, y)
  <2>1. Curr = RD /\ d.curr_rule # NoRule /\ y = Parted(file, d)
    BY <1>1, <1>4 DEF Parting
  <2>2. Delimiter
    BY <1>2, <2>1, MarksApart DEF FirstBlock, NextBlock, LastBlock, Mark, Symbol
  <2>3. /\ d' = [Mapped(Past(1)) EXCEPT !.curr_rule = NoRule,
                   !.main_rule = IF @ = NoRule THEN d.curr_rule ELSE @]
        /\ mode' = mode
    BY <2>1, <2>2 DEF Delimiter
  <2>4. Past(1) = Advanced(file, d, 1)
    BY <1>1
  <2>5. d' = Parted(file, d)
    BY ONLY <2>3, <2>4, Zenon DEF Parted
  <2> QED BY <2>1, <2>3, <2>5
<1>5. CASE Taking(file, d, y)
  <2>1. PICK v \in Fits : /\ Stands(file, d.pos - 1, get_encoded(v))
                          /\ y = Taken(Advanced(file, d, Len(get_encoded(v))), v)
    BY <1>5 DEF Taking
  <2>2. v \in Nat /\ v <= 65535
    BY <2>1, FitsIs
  <2>3. Written(v)
    <3> DEFINE w == get_encoded(v)
    <3>1. w \in Seq(Nat) /\ \A i \in 1 .. Len(w) : file[(d.pos - 1) + i] = w[i]
      BY <2>1, <2>2, EncodedBytes DEF Stands
    <3>2. d.pos \in Nat
      BY DEF Readers
    <3> HIDE DEF w
    <3>3. ASSUME NEW i \in DOMAIN w PROVE file[d.pos + (i - 1)] = w[i]
      <4>1. i \in 1 .. Len(w)
        BY <3>1
      <4>2. (d.pos - 1) + i = d.pos + (i - 1)
        BY <3>1, <3>2, <4>1
      <4> QED BY <3>1, <4>1, <4>2
    <3> QED BY <3>2, <3>3 DEF Written, w
  <2>4. Curr \notin Marks /\ get_decoded = [value |-> v, bytes |-> Len(get_encoded(v))]
    <3> HIDE DEF Fits
    <3> QED BY <2>2, <2>3, SymbolsReadAsWritten
  <2>5. Symbol
    BY <1>2, <2>4, MarksApart DEF FirstBlock, NextBlock, LastBlock, Mark, Delimiter
  <2>6. d' = Taken(Past(get_decoded.bytes), get_decoded.value) /\ mode' = mode
    BY <2>5 DEF Symbol
  <2>7. get_decoded.bytes = Len(get_encoded(v)) /\ get_decoded.value = v
    BY <2>4
  <2> QED BY <1>1, <2>1, <2>6, <2>7
<1> QED BY <1>3, <1>4, <1>5 DEF InnerTurn

\* The turn at the end of a block writes its text, if there is a main rule.
LEMMA ExpandingIs ==
  ASSUME NEW k, Expanding(k)
  PROVE  /\ d.main_rule = NoRule => mode' = "segv" /\ d' = d
         /\ d.curr_rule # NoRule /\ d.main_rule # NoRule /\ Text(d) \in Seq(Letters)
              => mode' = mode /\ d' = Emits(k, Text(d))
<1> DEFINE t == Expansion(Mapped(d))
<1>1. IF d.curr_rule = NoRule \/ d.main_rule = NoRule \/ Null \in Elements(t)
      THEN mode' = "segv" /\ UNCHANGED d
      ELSE d' = [k EXCEPT !.out = @ \o t] /\ UNCHANGED mode
  BY DEF Expanding
<1>2. t = Text(d)
  BY DEF Text
<1> HIDE DEF t
<1>3. t \in Seq(Letters) => Null \notin Elements(t)
  <2> SUFFICES ASSUME t \in Seq(Letters), Null \in Elements(t) PROVE FALSE
    OBVIOUS
  <2>1. Null \in Letters
    BY DEF Elements
  <2> QED BY <2>1, LettersAssumption, SMT DEF Null
<1> QED BY <1>1, <1>2, <1>3 DEF Emits

\* So is a turn at the begin or the end of a block.
LEMMA OuterTaken ==
  ASSUME file \in Seq(Nat), mode = "decompress", d \in Readers, d.pos \in 1 .. Len(file), Read
  PROVE  /\ \A y : Entering(file, d, y) \/ Leaving(file, sent, d, y) \/ LastTurn(file, sent, d, y)
                     => d' = y /\ mode' = mode
         /\ Crashing(file, d) => mode' = "segv" /\ d' = d
<1>1. Curr = file[d.pos] /\ Past(1) = Advanced(file, d, 1)
  BY DEF Curr, Past, Advanced
<1>2. Mark \/ FirstBlock \/ NextBlock \/ LastBlock \/ Delimiter \/ Symbol
  BY InFile
<1>3. ASSUME NEW y, Entering(file, d, y) PROVE d' = y /\ mode' = mode
  <2>1. Curr = SOB /\ d.prev = SOT /\ y = Cleared(Past(1))
    BY <1>1, <1>3 DEF Entering
  <2>2. FirstBlock
    BY <1>2, <2>1, MarksApart DEF Mark, NextBlock, LastBlock, Delimiter, Symbol
  <2> QED BY <2>1, <2>2 DEF FirstBlock
<1>4. ASSUME Curr = SOB, d.prev = EOB PROVE Expanding(Cleared(Past(1)))
  BY <1>2, <1>4, MarksApart DEF Mark, FirstBlock, NextBlock, LastBlock, Delimiter, Symbol
<1>5. ASSUME Curr = EOT, d.prev = EOB PROVE Expanding(Past(1))
  BY <1>2, <1>5, MarksApart DEF Mark, FirstBlock, NextBlock, LastBlock, Delimiter, Symbol
<1>6. ASSUME NEW y, Leaving(file, sent, d, y) PROVE d' = y /\ mode' = mode
  <2>1. /\ Curr = SOB /\ d.prev = EOB /\ d.curr_rule # NoRule /\ d.main_rule # NoRule
        /\ Text(d) \in Seq(Letters) /\ y = Emits(Cleared(Past(1)), Text(d))
    BY <1>1, <1>6 DEF Leaving, WholeText
  <2> QED BY <1>4, <2>1, ExpandingIs
<1>7. ASSUME NEW y, LastTurn(file, sent, d, y) PROVE d' = y /\ mode' = mode
  <2>1. /\ Curr = EOT /\ d.prev = EOB /\ d.curr_rule # NoRule /\ d.main_rule # NoRule
        /\ Text(d) \in Seq(Letters) /\ y = Emits(Past(1), Text(d))
    BY <1>1, <1>7 DEF LastTurn
  <2> QED BY <1>5, <2>1, ExpandingIs
<1>8. ASSUME Crashing(file, d) PROVE mode' = "segv" /\ d' = d
  BY <1>1, <1>4, <1>5, <1>8, ExpandingIs DEF Crashing
<1> QED BY <1>3, <1>6, <1>7, <1>8

\* o2 is o with the next block of s, or with what is left of it.
Handed(s, o, o2) ==
  \E n \in Len(o) + 1 .. Len(s) :
    /\ n = Len(o) + BlockSize \/ (n = Len(s) /\ n < Len(o) + BlockSize)
    /\ o2 = SubSeq(s, 1, n)

\* The text of a block is handed over.
LEMMA Hands ==
  ASSUME NEW o \in Seq(Letters), NEW t \in Seq(Letters), NEW w \in Seq(Letters), NEW s, s = (o \o t) \o w,
         Len(t) = BlockSize \/ (w = <<>> /\ Len(t) < BlockSize)
  PROVE  o \o t = o \/ Handed(s, o, o \o t)
<1> DEFINE v == o \o t
           n == Len(v)
<1>1. v \in Seq(Letters) /\ Len(v) = Len(o) + Len(t) /\ Len(o) \in Nat /\ Len(t) \in Nat
  BY Cats
<1>2. s = v \o w
  OBVIOUS
<1>3. t = <<>> => v = o
  OBVIOUS
<1> HIDE DEF v
<1>4. s \in Seq(Letters) /\ Len(s) = n + Len(w) /\ Len(w) \in Nat /\ n \in Nat
  BY <1>1, <1>2, Cats
<1>5. v = SubSeq(s, 1, n)
  BY <1>1, <1>2
<1>6. Len(t) = 0 => t = <<>>
  OBVIOUS
<1>7. ASSUME Len(t) # 0 PROVE Handed(s, o, v)
  <2> DEFINE i == Len(o)
             j == Len(t)
             k == Len(s)
             l == Len(w)
  <2>1. i \in Nat /\ j \in Nat \ {0} /\ l \in Nat /\ k = n + l /\ n = i + j /\ BlockSize \in Nat
    BY <1>1, <1>4, <1>7, SizesAssumption
  <2>2. w = <<>> => l = 0
    OBVIOUS
  <2>3. j = BlockSize \/ (l = 0 /\ j < BlockSize)
    BY <2>2
  <2> HIDE DEF i, j, k, l, n
  <2>4. n \in i + 1 .. k /\ (n = i + BlockSize \/ (n = k /\ n < i + BlockSize))
    BY ONLY <2>1, <2>3
  <2>5. n \in Len(o) + 1 .. Len(s) /\ (n = Len(o) + BlockSize \/ (n = Len(s) /\ n < Len(o) + BlockSize))
    BY <2>4 DEF i, k
  <2> QED BY <1>5, <2>5 DEF Handed
<1> QED BY <1>3, <1>6, <1>7 DEF v

\* Inside a block nothing is written.
LEMMA InnerOut ==
  ASSUME NEW f, NEW x \in Readers, NEW y, InnerTurn(f, x, y)
  PROVE  y.out = x.out
<1>1. "out" \in DOMAIN x
  BY DEF Readers
<1>2. \A n : "out" \in DOMAIN Advanced(f, x, n) /\ Advanced(f, x, n).out = x.out
  BY <1>1 DEF Advanced
<1>3. ASSUME NEW k, "out" \in DOMAIN k
      PROVE  /\ "out" \in DOMAIN Mapped(k) /\ Mapped(k).out = k.out
             /\ \A v : Taken(k, v).out = k.out
  <2>1. "out" \in DOMAIN Mapped(k) /\ Mapped(k).out = k.out
    <3> DEFINE m == [v \in DOMAIN k.rule_map \cup {k.curr_rule.head} |->
                       IF v = k.curr_rule.head THEN k.curr_rule.body ELSE k.rule_map[v]]
    <3>1. Mapped(k) = [k EXCEPT !.rule_map = m]
      BY DEF Mapped
    <3> HIDE DEF m
    <3> QED BY <1>3, <3>1
  <2>2. ASSUME NEW v PROVE Taken(k, v).out = k.out
    <3>1. \A r : [k EXCEPT !.curr_rule = r].out = k.out
      BY <1>3
    <3>2. \E r : Taken(k, v) = [k EXCEPT !.curr_rule = r]
      <4>1. Taken(k, v) = IF k.curr_rule = NoRule
                          THEN [k EXCEPT !.curr_rule = [k.curr_rule EXCEPT !.head = v]]
                          ELSE [k EXCEPT !.curr_rule = [k.curr_rule EXCEPT !.body = Append(k.curr_rule.body, v)]]
        BY DEF Taken
      <4> QED BY <4>1
    <3> QED BY <3>1, <3>2
  <2> QED BY <2>1, <2>2
<1>4. CASE Marked(f, x, y)
  BY <1>2, <1>4 DEF Marked
<1>5. CASE Parting(f, x, y)
  <2> DEFINE k == Mapped(Advanced(f, x, 1))
             r == IF k.main_rule = NoRule THEN x.curr_rule ELSE k.main_rule
  <2>1. y = [k EXCEPT !.curr_rule = NoRule, !.main_rule = r]
    BY <1>5 DEF Parting, Parted
  <2>2. "out" \in DOMAIN k /\ k.out = x.out
    BY <1>2, <1>3
  <2> HIDE DEF k, r
  <2> QED BY <2>1, <2>2
<1>6. CASE Taking(f, x, y)
  BY <1>2, <1>3, <1>6 DEF Taking
<1> QED BY <1>4, <1>5, <1>6 DEF InnerTurn

\* What a turn of the reader leads to.
Outcome ==
  \/ /\ mode' = "decompress" /\ Followed(file, sent, d')
     /\ d'.out = d.out \/ Handed(sent, d.out, d'.out)
  \/ mode' = "segv" /\ d' = d /\ d.main_rule = NoRule /\ d.curr_rule # NoRule
  \/ mode' = "returned" /\ d'.out = d.out /\ d.out = sent

\* The reader comes to the end of the file as foreseen.
LEMMA ReadTurns ==
  ASSUME file \in Seq(Nat), sent \in Seq(Letters), mode = "decompress", Followed(file, sent, d), Read
  PROVE  Outcome
<1>1. PICK X : d \in X /\ Leads(file, sent, X)
  BY DEF Followed
<1>2. /\ X \subseteq Readers /\ d \in Readers /\ d.out \in Seq(Letters)
      /\ \/ Ended(file, sent, d) \/ Crashing(file, d)
         \/ \E y \in X : Turn(file, sent, d, y) \/ LastTurn(file, sent, d, y)
  BY <1>1 DEF Leads, Readers
<1>3. \A y \in X : Followed(file, sent, y)
  BY <1>1 DEF Followed
<1>4. ASSUME d.pos \in 1 .. Len(file) PROVE file[d.pos] \in Nat
  BY <1>4
<1>5. CASE Ended(file, sent, d)
  <2> DEFINE m == Len(file)
  <2>1. m \in Nat /\ d.pos = m + 1 /\ d.out = sent
    BY <1>5 DEF Ended
  <2> HIDE DEF m
  <2>2. ~ (d.pos <= m)
    BY <2>1
  <2>3. FileEnds
    BY <2>2 DEF Read, Reading, Mark, FirstBlock, NextBlock, LastBlock, Delimiter, Symbol, m
  <2>4. d' = [Taken(d, 255) EXCEPT !.prev = 255] /\ mode' = "returned"
    BY <2>3 DEF FileEnds
  <2> DEFINE k == Taken(d, 255)
  <2>5. k \in Readers /\ k.out = d.out
    <3> DEFINE v == 255
    <3>1. k = Taken(d, v)
      OBVIOUS
    <3>2. v \in Nat
      OBVIOUS
    <3> HIDE DEF k, v
    <3> QED BY ONLY <1>2, <3>1, <3>2, TakenFields
  <2> HIDE DEF k
  <2>6. d'.out = k.out
    BY <2>4, <2>5 DEF Readers, k
  <2> QED BY <2>1, <2>4, <2>5, <2>6 DEF Outcome
<1>6. CASE Crashing(file, d)
  BY <1>2, <1>6, OuterTaken DEF Crashing, Outcome
<1>7. ASSUME NEW y \in X, Turn(file, sent, d, y) PROVE Outcome
  <2>1. d.pos \in 1 .. Len(file) /\ file[d.pos] \in Nat
    BY <1>4, <1>7 DEF Turn
  <2>2. CASE InnerTurn(file, d, y)
    BY <1>2, <1>3, <2>2, InnerTaken, InnerOut DEF Outcome
  <2> DEFINE k == Cleared(Advanced(file, d, 1))
             t == Text(d)
             z == Emits(k, t)
  <2>3. BegunAt(k, d.pos, d.out) /\ (d.out \o t \in Seq(Letters) => BegunAt(z, d.pos, d.out \o t))
    <3>1. k = Cleared(Advanced(file, d, 1)) /\ z = Emits(k, t)
      OBVIOUS
    <3> HIDE DEF k, t, z
    <3> QED BY ONLY <1>2, <2>1, <3>1, ClearedFields
  <2>4. CASE Entering(file, d, y)
    <3>1. d' = y /\ mode' = mode
      BY <1>2, <2>1, <2>4, OuterTaken
    <3>2. y = k
      BY <2>4 DEF Entering
    <3> QED BY <1>3, <2>3, <3>1, <3>2 DEF BegunAt, Outcome
  <2>5. CASE Leaving(file, sent, d, y)
    <3>1. d' = y /\ mode' = mode
      BY <1>2, <2>1, <2>5, OuterTaken
    <3>2. y = z /\ t \in Seq(Letters) /\ Len(t) = BlockSize /\ Begins(d.out \o t, sent)
      BY <2>5 DEF Leaving, WholeText
    <3> HIDE DEF t, z
    <3>3. d.out \o t \in Seq(Letters)
      BY <1>2, <3>2, Cats
    <3>4. y.out = d.out \o t
      BY <2>3, <3>2, <3>3 DEF BegunAt
    <3>5. PICK w \in Seq(Letters) : (d.out \o t) \o w = sent
      BY <3>2 DEF Begins
    <3> DEFINE o == d.out
    <3>6. o \in Seq(Letters) /\ sent = (o \o t) \o w
      BY <1>2, <3>5
    <3> HIDE DEF o
    <3>7. o \o t = o \/ Handed(sent, o, o \o t)
      BY ONLY <3>2, <3>5, <3>6, Hands
    <3> QED BY <1>3, <3>1, <3>4, <3>7 DEF Outcome, o
  <2> QED BY <1>7, <2>2, <2>4, <2>5 DEF Turn
<1>8. ASSUME NEW y \in X, LastTurn(file, sent, d, y) PROVE Outcome
  <2> DEFINE t == Text(d)
             o == d.out
  <2>1. /\ d.pos \in 1 .. Len(file) /\ file[d.pos] \in Nat
        /\ t \in Seq(Letters) /\ Len(t) < BlockSize /\ o \o t = sent
        /\ y = Emits(Advanced(file, d, 1), t)
    BY <1>4, <1>8 DEF LastTurn
  <2>2. d' = y /\ mode' = mode
    BY <1>2, <1>8, <2>1, OuterTaken
  <2>3. EndsWith(d, y, d.out \o t)
    <3>1. d.out \o t \in Seq(Letters)
      BY <2>1
    <3> HIDE DEF t
    <3> QED BY ONLY <1>2, <2>1, <3>1, LastFields
  <2>4. <<>> \in Seq(Letters) /\ sent = (o \o t) \o <<>>
    BY <2>1
  <2> HIDE DEF t, o
  <2>5. o \o t = o \/ Handed(sent, o, o \o t)
    <3> DEFINE w == <<>>
    <3>1. w \in Seq(Letters) /\ sent = (o \o t) \o w /\ w = <<>>
      BY <2>4
    <3>2. o \in Seq(Letters)
      BY <1>2 DEF o
    <3> HIDE DEF w
    <3> QED BY ONLY <2>1, <3>1, <3>2, Hands
  <2> QED BY <1>3, <2>2, <2>3, <2>5 DEF Outcome, EndsWith, o
<1> QED BY <1>2, <1>5, <1>6, <1>7, <1>8

-----------------------------------------------------------------------------
(* The transmission.                                                       *)

\* The inductive invariant: what is written leads a reader to the block that is being
\* compressed, and then to the end of the file.
TransmissionInv ==
  /\ GrammarInv /\ file \in Seq(Nat) /\ sent \in Seq(Letters)
  /\ mode \in {"compress", "decompress", "returned", "segv"}
  /\ mode = "compress" => d = Fresh /\ Ready(file, sent, input)
  /\ mode = "decompress" => Followed(file, sent, d)
  /\ mode = "returned" => d.out = sent
  /\ mode = "segv" => d.main_rule = NoRule /\ d.curr_rule # NoRule

\* The invariant holds of the initial states.
LEMMA TransmissionBegins == TransmissionInit => TransmissionInv
<1> SUFFICES ASSUME TransmissionInit PROVE TransmissionInv
  OBVIOUS
<1>1. /\ Init /\ mode = "compress" /\ sent = <<>> /\ file = <<SOT>> /\ d = Fresh
      /\ input = <<>>
  BY DEF TransmissionInit, Init
<1>2. GrammarInv
  BY <1>1, GrammarInit
<1>3. file \in Seq(Nat) /\ sent \in Seq(Letters)
  <2>1. SOT \in Nat
    BY SMT DEF SOT
  <2>2. <<SOT>> \in Seq(Nat)
    BY ONLY <2>1
  <2> QED BY <1>1, <2>2
<1>4. Ready(file, sent, input)
  BY ONLY <1>1, ReadyFirst
<1> QED BY <1>1, <1>2, <1>3, <1>4 DEF TransmissionInv

\* Digesting a byte leaves the input alone.
LEMMA DigestInput == Digest => input' = input
BY DEF Digest, check_digram, MatchRule, MatchNew, MatchSecond, MatchEnter, MatchUtility,
       replace_digram, ReplaceRight

\* They are steps of Sequitur.
LEMMA WriterSteps ==
  /\ \A b \in Letters : Byte(b) => Next
  /\ DigestByte \/ BlockFull \/ InputEnds => Next
BY DEF Byte, DigestByte, BlockFull, InputEnds, Next

\* The fields of a reader that has not begun.
LEMMA FreshOut == Fresh.out = <<>>
BY DEF Fresh

\* A byte is read.
LEMMA ByteKeeps ==
  ASSUME TransmissionInv, NEW b \in Letters, Byte(b)
  PROVE  TransmissionInv'
<1>1. /\ mode = "compress" /\ mode' = mode /\ file' = file /\ d' = d
      /\ sent' = Append(sent, b) /\ input' = Append(input, b)
  BY DEF Byte, FeedNoSquare, Feed
<1>2. GrammarInv'
  BY WriterSteps, GrammarStep DEF TransmissionInv
<1>3. /\ d = Fresh /\ Ready(file, sent, input) /\ sent \in Seq(Letters) /\ file \in Seq(Nat)
      /\ input \in Seq(Letters)
  BY <1>1 DEF TransmissionInv, GrammarInv, Kept
<1>4. Ready(file, Append(sent, b), Append(input, b))
  BY ONLY <1>3, b \in Letters, ReadyMore
<1>5. sent' \in Seq(Letters) /\ Ready(file', sent', input')
  BY <1>1, <1>3, <1>4
<1> QED BY <1>1, <1>2, <1>3, <1>5 DEF TransmissionInv

\* A step of the compressor inside a byte.
LEMMA DigestKeeps ==
  ASSUME TransmissionInv, DigestByte
  PROVE  TransmissionInv'
<1>1. /\ mode = "compress" /\ mode' = mode /\ file' = file /\ d' = d /\ sent' = sent
      /\ input' = input
  BY DigestInput DEF DigestByte
<1>2. GrammarInv'
  BY WriterSteps, GrammarStep DEF TransmissionInv
<1> QED BY <1>1, <1>2 DEF TransmissionInv

\* What is written at the end of a block.
LEMMA BlockEnds ==
  ASSUME TransmissionInv, ValuesFit, mode = "compress", EndBlock
  PROVE  /\ Carries(Outline, input) /\ process_compression = Block(Outline)
         /\ file \in Seq(Nat) /\ sent \in Seq(Letters) /\ input \in Seq(Letters)
         /\ Ready(file, sent, input) /\ input' = <<>> /\ GrammarInv' /\ d = Fresh
<1>1. g.fault = "none" /\ input' = <<>> /\ Next
  BY DEF EndBlock, Next
<1>2. GrammarInv'
  BY <1>1, GrammarStep DEF TransmissionInv
<1>3. Carries(Outline, input) /\ process_compression = Block(Outline)
  BY <1>1, GrammarCarries DEF TransmissionInv
<1> QED BY <1>1, <1>2, <1>3 DEF TransmissionInv, GrammarInv, Kept

\* The end of a full block.
LEMMA BlockKeeps ==
  ASSUME TransmissionInv, ValuesFit, BlockFull
  PROVE  TransmissionInv'
<1>1. /\ mode = "compress" /\ mode' = mode /\ file' = file \o process_compression /\ d' = d
      /\ sent' = sent /\ Len(input) = BlockSize /\ EndBlock
  BY DEF BlockFull
<1>2. /\ Carries(Outline, input) /\ process_compression = Block(Outline)
      /\ file \in Seq(Nat) /\ sent \in Seq(Letters) /\ input \in Seq(Letters)
      /\ Ready(file, sent, input) /\ input' = <<>> /\ GrammarInv' /\ d = Fresh
  BY <1>1, BlockEnds
<1> DEFINE L == Outline
           e == file \o Block(L)
<1>3. e = file \o Block(L) /\ Carries(L, input)
  BY <1>2
<1>4. file' = e
  BY <1>1, <1>2
<1> HIDE DEF L, e
<1>5. e \in Seq(Nat) /\ Ready(e, sent, <<>>)
  BY ONLY <1>1, <1>2, <1>3, ReadyNext
<1>6. file' \in Seq(Nat) /\ Ready(file', sent', input')
  BY <1>1, <1>2, <1>4, <1>5
<1> QED BY <1>1, <1>2, <1>6 DEF TransmissionInv

\* The end of the input.
LEMMA InputKeeps ==
  ASSUME TransmissionInv, ValuesFit, InputEnds
  PROVE  TransmissionInv'
<1>1. /\ mode = "compress" /\ mode' = "decompress" /\ file' = file \o process_compression \o <<EOT>>
      /\ d' = d /\ sent' = sent /\ Len(input) < BlockSize /\ EndBlock
  BY DEF InputEnds
<1>2. /\ Carries(Outline, input) /\ process_compression = Block(Outline)
      /\ file \in Seq(Nat) /\ sent \in Seq(Letters) /\ input \in Seq(Letters)
      /\ Ready(file, sent, input) /\ input' = <<>> /\ GrammarInv' /\ d = Fresh
  BY <1>1, BlockEnds
<1> DEFINE L == Outline
           e == file \o Block(L) \o <<EOT>>
<1>3. e = file \o Block(L) \o <<EOT>> /\ Carries(L, input)
  BY <1>2
<1>4. file' = e
  BY <1>1, <1>2
<1> HIDE DEF L, e
<1>5. e \in Seq(Nat) /\ Followed(e, sent, Fresh)
  BY ONLY <1>1, <1>2, <1>3, ReadyLast
<1>6. file' \in Seq(Nat) /\ Followed(file', sent', d')
  BY <1>1, <1>2, <1>4, <1>5
<1> QED BY <1>1, <1>2, <1>6 DEF TransmissionInv

\* A turn of the reader.
LEMMA ReadKeeps ==
  ASSUME TransmissionInv, Read
  PROVE  TransmissionInv' /\ mode = "decompress" /\ Outcome /\ sent' = sent
<1>1. mode = "decompress" /\ file' = file /\ sent' = sent /\ UNCHANGED vars
  BY DEF Read, Mark, FirstBlock, NextBlock, LastBlock, Delimiter, Symbol, FileEnds, Reading, vars
<1>2. GrammarInv'
  BY <1>1, GrammarStep DEF TransmissionInv
<1>3. file \in Seq(Nat) /\ sent \in Seq(Letters) /\ Followed(file, sent, d)
  BY <1>1 DEF TransmissionInv
<1>4. Outcome
  BY <1>1, <1>3, ReadTurns
<1>5. TransmissionInv'
  <2>1. CASE mode' = "decompress" /\ Followed(file, sent, d')
    BY <1>1, <1>2, <1>3, <2>1 DEF TransmissionInv
  <2>2. CASE mode' = "segv" /\ d' = d /\ d.main_rule = NoRule /\ d.curr_rule # NoRule
    BY <1>1, <1>2, <1>3, <2>2 DEF TransmissionInv
  <2>3. CASE mode' = "returned" /\ d'.out = d.out /\ d.out = sent
    BY <1>1, <1>2, <1>3, <2>3 DEF TransmissionInv
  <2> QED BY <1>4, <2>1, <2>2, <2>3 DEF Outcome
<1> QED BY <1>1, <1>4, <1>5

\* Every step of the transmission keeps the invariant.
LEMMA TransmissionKeeps ==
  TransmissionInv /\ ValuesFit /\ [TransmissionNext]_allVars => TransmissionInv'
<1> SUFFICES ASSUME TransmissionInv, ValuesFit, [TransmissionNext]_allVars PROVE TransmissionInv'
  OBVIOUS
<1>1. CASE UNCHANGED allVars
  <2>1. UNCHANGED vars /\ mode' = mode /\ file' = file /\ sent' = sent /\ d' = d /\ input' = input
    BY <1>1 DEF allVars, vars
  <2>2. GrammarInv'
    BY <2>1, GrammarStep DEF TransmissionInv
  <2> QED BY <2>1, <2>2 DEF TransmissionInv
<1>2. CASE TransmissionNext
  BY <1>1, <1>2, ByteKeeps, DigestKeeps, BlockKeeps, InputKeeps, ReadKeeps DEF TransmissionNext, Rest
<1> QED BY <1>1, <1>2

\* While the values of the symbols fit into two bytes, decompress crashes for one reason
\* only, in any blocks of any letters (comdec.c:401, 350).
THEOREM TransmissionCrashes == TransmissionSpec /\ []ValuesFit => []CrashesOnlyOnOneRule
<1>1. TransmissionInv => CrashesOnlyOnOneRule
  BY DEF TransmissionInv, CrashesOnlyOnOneRule
<1> QED BY <1>1, TransmissionBegins, TransmissionKeeps, PTL DEF TransmissionSpec

\* The mode as Delivery sees it.
Status == IF mode = "compress" THEN "open" ELSE IF mode = "returned" THEN "complete" ELSE "closed"

\* Each step of the transmission is a step of the delivery, or changes nothing there.
LEMMA StepDelivers ==
  ASSUME TransmissionInv, ValuesFit, [TransmissionNext]_allVars
  PROVE  [DeliveryRefined!Next]_<<sent, d.out, Status>>
<1> DEFINE Stutter == sent' = sent /\ d'.out = d.out /\ Status' = Status
<1>1. ASSUME NEW b \in Letters, Byte(b) PROVE DeliveryRefined!Next
  <2>1. mode = "compress" /\ mode' = mode /\ d' = d /\ sent' = Append(sent, b)
    BY <1>1 DEF Byte
  <2> QED BY <2>1 DEF DeliveryRefined!Next, DeliveryRefined!Send
<1>2. ASSUME DigestByte \/ BlockFull PROVE Stutter
  BY <1>2 DEF DigestByte, BlockFull, Status
<1>3. ASSUME InputEnds PROVE DeliveryRefined!Next
  <2>1. mode = "compress" /\ mode' = "decompress" /\ d' = d /\ sent' = sent
    BY <1>3 DEF InputEnds
  <2> QED BY <2>1 DEF DeliveryRefined!Next, DeliveryRefined!Close
<1>4. ASSUME Read PROVE Stutter \/ DeliveryRefined!Next
  <2>1. mode = "decompress" /\ Outcome /\ sent' = sent
    BY <1>4, ReadKeeps
  <2>2. CASE mode' \in {"decompress", "segv"} /\ d'.out = d.out
    BY <2>1, <2>2 DEF Status
  <2>3. CASE mode' = "decompress" /\ Handed(sent, d.out, d'.out)
    BY <2>1, <2>3 DEF Handed, DeliveryRefined!Next, DeliveryRefined!Deliver
  <2>4. CASE mode' = "returned" /\ d'.out = d.out /\ d.out = sent
    BY <2>1, <2>4 DEF DeliveryRefined!Next, DeliveryRefined!Complete
  <2> QED BY <2>1, <2>2, <2>3, <2>4 DEF Outcome
<1>5. ASSUME Rest \/ UNCHANGED allVars PROVE Stutter
  BY <1>5 DEF Rest, allVars, Status
<1> QED BY <1>1, <1>2, <1>3, <1>4, <1>5 DEF TransmissionNext

\* While the values of the symbols fit into two bytes, decompress gives back what compress
\* was given, in order and a block at a time, and all of it if it returns, for any letters,
\* any storage, any table and any size of the blocks (comdec.c:101-360).
THEOREM TransmissionDelivers == TransmissionSpec /\ []ValuesFit => Delivered
<1>1. TransmissionInit => DeliveryRefined!Init
  BY FreshOut DEF TransmissionInit, DeliveryRefined!Init
<1>2. TransmissionInv /\ ValuesFit /\ [TransmissionNext]_allVars
        => [DeliveryRefined!Next]_<<sent, d.out, Status>>
  BY StepDelivers
<1>3. TransmissionInv /\ ValuesFit /\ [TransmissionNext]_allVars
        => [DeliveryRefined!Next]_<<sent, d.out, IF mode = "compress" THEN "open"
              ELSE IF mode = "returned" THEN "complete" ELSE "closed">>
  BY <1>2 DEF Status
<1> QED BY <1>1, <1>3, TransmissionBegins, TransmissionKeeps, PTL
        DEF TransmissionSpec, Delivered, DeliveryRefined!Spec
=============================================================================
