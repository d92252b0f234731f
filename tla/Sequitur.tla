------------------------------ MODULE Sequitur ------------------------------
(***************************************************************************)
(* The compressor of hw1 (src/hw1/src: symbol.c, rules.c, diagram_hash.c,  *)
(* sequitur.c and the loop of compress in comdec.c): a grammar for the     *)
(* input so far is kept on circular lists of symbols, and rewritten after  *)
(* each byte so that no digram occurs twice and no rule is used once.      *)
(*                                                                         *)
(* check_digram, process_match and replace_digram call one another; their  *)
(* activations are the frames of `stack', and a step runs the topmost one  *)
(* up to its next call or to its end.                                      *)
(***************************************************************************)
EXTENDS Integers, Sequences, FiniteSets

CONSTANTS Letters,           \* the bytes of the input
          FirstNonterminal,  \* FIRST_NONTERMINAL
          BlockSize,         \* bsize: bytes in a block
          MaxSymbols,        \* MAX_SYMBOLS
          MaxDigrams         \* MAX_DIGRAMS, the slots of the digram table

Symbols == 0 .. MaxSymbols - 1
Slots == 0 .. MaxDigrams - 1
Null == -1
Tombstone == -2

ASSUME LettersAssumption == FirstNonterminal \in Nat /\ Letters \subseteq 0 .. FirstNonterminal - 1
ASSUME SizesAssumption == /\ BlockSize \in Nat \ {0}
                          /\ MaxSymbols \in Nat \ {0} /\ MaxDigrams \in Nat \ {0, 1}

VARIABLES
  g,        \* symbol_storage by field, the scalars of const.h, and the table
  stack,    \* activations, the topmost first
  found,    \* what the last check_digram returned
  input     \* the bytes of the block so far
vars == <<g, stack, found, input>>

IsHead(h, s) == h.rule[s] = s
IsNonterminal(h, s) == h.value[s] >= FirstNonterminal

-----------------------------------------------------------------------------
(* The digram table.  Probing starts at the hash and wraps around once.    *)

Hash(v1, v2) == (v1 * 37 + v2) % MaxDigrams
Slot(v1, v2, k) == (Hash(v1, v2) + k) % MaxDigrams

\* The slot in `ends' that is probed first, or Null.
FirstProbe(v1, v2, ends) ==
  LET hits == {k \in Slots : Slot(v1, v2, k) \in ends} IN
  IF hits = {} THEN Null
  ELSE Slot(v1, v2, CHOOSE k \in hits : \A j \in hits : k <= j)

Matches(h, s, v1, v2) == s >= 0 /\ h.value[s] = v1 /\ h.value[h.next[s]] = v2

digram_get(h, v1, v2) ==
  LET i == FirstProbe(v1, v2, {j \in Slots : h.table[j] = Null \/ Matches(h, h.table[j], v1, v2)})
  IN IF i = Null THEN Null ELSE h.table[i]

digram_delete(h, s) ==
  LET i == FirstProbe(h.value[s], h.value[h.next[s]], {j \in Slots : h.table[j] \in {Null, s}})
  IN IF i # Null /\ h.table[i] = s THEN [h EXCEPT !.table[i] = Tombstone] ELSE h

\* Vacant slots are searched for from the hash on; in that stretch, only slot 1 is
\* looked at for the digram itself.  After the wrap it is every slot.
digram_put(h, s) ==
  LET from == Hash(h.value[s], h.value[h.next[s]])
      i == FirstProbe(h.value[s], h.value[h.next[s]],
                      {j \in Slots : h.table[j] \in {Null, Tombstone} \/ (j < from /\ h.table[j] = s)})
  IN IF h.table[1] = s \/ i = Null \/ h.table[i] = s THEN h ELSE [h EXCEPT !.table[i] = s]

-----------------------------------------------------------------------------
(* Symbols and rules.  A new symbol is left in `new'.                      *)

\* Mutant: a recycled symbol is counted as a fresh one.
NewSymbolCountsTwice(h, value, rule) ==
  LET s == IF h.recycled # Null THEN h.recycled ELSE h.num
      isRule == value >= FirstNonterminal /\ rule # Null
      k == [h EXCEPT !.value[s] = value, !.refcnt[s] = 0, !.next[s] = Null, !.prev[s] = Null,
                     !.rule[s] = IF isRule THEN rule ELSE Null, !.new = s,
                     !.recycled = IF h.recycled # Null THEN h.next[s] ELSE Null, !.num = @ + 1]
  IN IF s \notin Symbols THEN [h EXCEPT !.fault = "exhausted"]
     ELSE IF isRule THEN [k EXCEPT !.refcnt[rule] = @ + 1] ELSE k

new_symbol(h, value, rule) ==
  LET s == IF h.recycled # Null THEN h.recycled ELSE h.num
      isRule == value >= FirstNonterminal /\ rule # Null
      k == [h EXCEPT !.value[s] = value, !.refcnt[s] = 0, !.next[s] = Null, !.prev[s] = Null,
                     !.nextr[s] = Null, !.prevr[s] = Null,
                     !.rule[s] = IF isRule THEN rule ELSE Null, !.new = s,
                     !.recycled = IF h.recycled # Null THEN h.next[s] ELSE Null,
                     !.num = IF h.recycled # Null THEN @ ELSE @ + 1]
  IN IF s \notin Symbols THEN [h EXCEPT !.fault = "exhausted"]
     ELSE IF isRule THEN [k EXCEPT !.refcnt[rule] = @ + 1] ELSE k

recycle_symbol(h, s) == [h EXCEPT !.next[s] = h.recycled, !.recycled = s]

\* new_rule(next_nonterminal_value++)
new_rule(h) ==
  LET k == new_symbol(h, h.nextvalue, Null)
      s == k.new
  IN IF k.fault # "none" THEN k
     ELSE [k EXCEPT !.nextvalue = @ + 1, !.rule[s] = s,
                    !.nextr[s] = s, !.prevr[s] = s, !.next[s] = s, !.prev[s] = s]

add_rule(h, s) ==
  IF h.main = Null THEN [h EXCEPT !.main = s, !.nextr[s] = s, !.prevr[s] = s]
  ELSE LET last == h.prevr[h.main] IN
       [h EXCEPT !.nextr = [@ EXCEPT ![s] = h.main, ![last] = s],
                 !.prevr = [@ EXCEPT ![h.main] = s, ![s] = last]]

delete_rule(h, s) ==
  LET k == [h EXCEPT !.nextr[h.prevr[s]] = h.nextr[s], !.prevr[h.nextr[s]] = h.prevr[s]]
  IN IF k.refcnt[s] = 0 THEN recycle_symbol(k, s) ELSE k

unref_rule(h, s) ==
  IF h.refcnt[s] = 0 THEN [h EXCEPT !.fault = "abort"] ELSE [h EXCEPT !.refcnt[s] = @ - 1]

-----------------------------------------------------------------------------
(* Lists of symbols.                                                       *)

\* In the middle of three of a kind: the table holds only one of their two digrams.
PutBack(h, s) ==
  IF /\ Null \notin {h.prev[s], h.next[s]}
     /\ h.value[s] = h.value[h.prev[s]] /\ h.value[s] = h.value[h.next[s]]
  THEN digram_put(h, s) ELSE h

\* Mutant: the digram that is cut stays in the table.
JoinSymbolsKeepsDigram(h, s, t) == [h EXCEPT !.next[s] = t, !.prev[t] = s]

join_symbols(h, s, t) ==
  [IF h.next[s] = Null THEN h ELSE PutBack(PutBack(digram_delete(h, s), t), s)
     EXCEPT !.next[s] = t, !.prev[t] = s]

insert_after(h, s, t) == join_symbols(join_symbols(h, t, h.next[s]), s, t)

\* insert_after(s, new_symbol(...))
InsertNew(h, s) == IF h.fault # "none" THEN h ELSE insert_after(h, s, h.new)

\* The end of delete_symbol: s has been cut out.
Discard(h, s) ==
  recycle_symbol(IF IsNonterminal(h, s) THEN unref_rule(h, h.rule[s]) ELSE h, s)

\* Mutant: the reference is not given back.
DeleteSymbolKeepsReference(h, s) ==
  recycle_symbol(digram_delete(join_symbols(h, h.prev[s], h.next[s]), s), s)

\* Mutant: the symbol is not recycled.
DiscardLeaks(h, s) == IF IsNonterminal(h, s) THEN unref_rule(h, h.rule[s]) ELSE h
DeleteSymbolLeaks(h, s) ==
  DiscardLeaks(digram_delete(join_symbols(h, h.prev[s], h.next[s]), s), s)

\* Mutant: the digram on the right stays in the table.
DeleteSymbolKeepsDigram(h, s) == Discard(join_symbols(h, h.prev[s], h.next[s]), s)

delete_symbol(h, s) ==
  IF IsHead(h, s) THEN [h EXCEPT !.fault = "abort"]
  ELSE Discard(digram_delete(join_symbols(h, h.prev[s], h.next[s]), s), s)

\* The end of expand_instance: the body of r stands in the place of s.
Expanded(h, s, r) ==
  delete_rule(unref_rule(recycle_symbol([h EXCEPT !.next[r] = Null, !.prev[r] = Null], s), r), r)

\* Mutant: only the first symbol of the rule takes the place of the nonterminal.
ExpandInstanceFirst(h, s) ==
  LET r == h.rule[s] IN
  Expanded(join_symbols(join_symbols(digram_delete(h, s), h.prev[s], h.next[r]),
                        h.next[r], h.next[s]), s, r)

expand_instance(h, s) ==
  LET r == h.rule[s] IN
  IF h.refcnt[r] # 1 THEN [h EXCEPT !.fault = "abort"]
  ELSE Expanded(join_symbols(join_symbols(digram_delete(h, s), h.prev[s], h.next[r]),
                             h.prev[r], h.next[s]), s, r)

-----------------------------------------------------------------------------
(* The algorithm.                                                          *)

Frame(at, s, t) == [at |-> at, this |-> s, other |-> t]
Start ==
  LET zero == [s \in Symbols |-> 0]
      null == [s \in Symbols |-> Null]
      h == [value |-> zero, refcnt |-> zero, next |-> null, prev |-> null, nextr |-> null,
            prevr |-> null, rule |-> null, new |-> Null, num |-> 0, recycled |-> Null,
            nextvalue |-> FirstNonterminal, main |-> Null, fault |-> "none",
            table |-> [i \in Slots |-> Null]]
      k == new_rule(h)
  IN add_rule(k, k.new)

\* init_rules, init_symbols, init_digram_hash and the main rule.  What earlier blocks
\* left in symbol_storage does not matter: new_symbol sets every field.
Init == g = Start /\ stack = <<>> /\ found = FALSE /\ input = <<>>

Top(at) == g.fault = "none" /\ stack # <<>> /\ Head(stack).at = at
This == Head(stack).this
Other == Head(stack).other
Return(value) == stack' = Tail(stack) /\ found' = value
Become(frames) == stack' = frames \o Tail(stack) /\ UNCHANGED found

\* One turn of the loop of compress, up to the call of check_digram.
Feed(b) ==
  /\ g.fault = "none" /\ stack = <<>> /\ Len(input) < BlockSize
  /\ g' = InsertNew(new_symbol(g, b, Null), g.prev[g.main])
  /\ input' = Append(input, b)
  /\ stack' = <<Frame("check", g'.prev[g'.prev[g'.main]], Null)>>
  /\ UNCHANGED found

\* The end of a block, because it is full or because the input ends: process_compression
\* writes the grammar, and all is reset for the next block or the next call.
EndBlock ==
  /\ g.fault = "none" /\ stack = <<>>
  /\ g' = Start /\ input' = <<>>
  /\ UNCHANGED <<stack, found>>

check_digram ==
  /\ Top("check")
  /\ UNCHANGED input
  /\ LET match == digram_get(g, g.value[This], g.value[g.next[This]]) IN
     IF IsHead(g, This) \/ IsHead(g, g.next[This])
     THEN Return(FALSE) /\ UNCHANGED g
     ELSE IF match = Null
     THEN Return(FALSE) /\ g' = digram_put(g, This)
     ELSE IF g.next[match] = This
     THEN Return(FALSE) /\ UNCHANGED g
     ELSE Become(<<Frame("match", This, match)>>) /\ UNCHANGED g

\* process_match when the match is the whole body of a rule
MatchRule ==
  /\ Top("match")
  /\ IsHead(g, g.prev[Other]) /\ IsHead(g, g.next[g.next[Other]])
  /\ LET r == g.rule[g.prev[Other]] IN
     Become(<<Frame("replace", This, r), Frame("utility", r, Null)>>)
  /\ UNCHANGED <<g, input>>

\* insert_after(rule->prev, new_symbol(s->value, s->rule))
AppendCopy(h, r, s) == InsertNew(new_symbol(h, h.value[s], h.rule[s]), h.prev[r])

\* process_match otherwise, up to the first replace_digram
MatchNew ==
  /\ Top("match")
  /\ ~(IsHead(g, g.prev[Other]) /\ IsHead(g, g.next[g.next[Other]]))
  /\ LET h == new_rule(g)
         r == h.new
     IN /\ g' = IF h.fault # "none" THEN h
                ELSE AppendCopy(AppendCopy(add_rule(h, r), r, This), r, g.next[This])
        /\ Become(<<Frame("replace", Other, r), Frame("second", This, r)>>)
  /\ UNCHANGED input

\* the second replace_digram
MatchSecond ==
  /\ Top("second")
  /\ Become(<<Frame("replace", This, Other), Frame("enter", Other, Null)>>)
  /\ UNCHANGED <<g, input>>

\* the new rule's digram goes into the table
MatchEnter ==
  /\ Top("enter")
  /\ g' = digram_put(g, g.next[This])
  /\ Become(<<Frame("utility", This, Null)>>)
  /\ UNCHANGED input

\* Mutant: a rule that is used once is good enough.
MatchUtilityOnce ==
  /\ Top("utility")
  /\ Return(TRUE)
  /\ UNCHANGED <<g, input>>

\* the end of process_match, and of the check_digram that called it
MatchUtility ==
  /\ Top("utility")
  /\ LET s == g.next[This]
         used == IF g.rule[s] = Null THEN 2 ELSE g.refcnt[g.rule[s]]
     IN g' = IF used >= 2 THEN g
             ELSE IF used = 0 THEN [g EXCEPT !.fault = "abort"] ELSE expand_instance(g, s)
  /\ Return(TRUE)
  /\ UNCHANGED input

DeleteNext(h, p) == IF h.fault # "none" THEN h ELSE delete_symbol(h, h.next[p])
InsertNonterminal(h, p, r) ==
  IF h.fault # "none" THEN h ELSE InsertNew(new_symbol(h, h.value[r], r), p)

replace_digram ==
  /\ Top("replace")
  /\ LET p == g.prev[This] IN
     /\ g' = InsertNonterminal(DeleteNext(DeleteNext(g, p), p), p, Other)
     /\ Become(<<Frame("check", p, Null), Frame("right", p, Null)>>)
  /\ UNCHANGED input

\* Mutant: while instead of if.
ReplaceRightLoops ==
  /\ Top("right")
  /\ IF found THEN Return(found)
     ELSE Become(<<Frame("check", g.next[This], Null), Head(stack)>>)
  /\ UNCHANGED <<g, input>>

\* the second check_digram of replace_digram
ReplaceRight ==
  /\ Top("right")
  /\ IF found THEN Return(found) ELSE Become(<<Frame("check", g.next[This], Null)>>)
  /\ UNCHANGED <<g, input>>

Digest == \/ check_digram \/ MatchRule \/ MatchNew \/ MatchSecond \/ MatchEnter
          \/ MatchUtility \/ replace_digram \/ ReplaceRight

\* Any input.
AnyNext == Digest \/ EndBlock \/ \E b \in Letters : Feed(b)
AnySpec == Init /\ [][AnyNext]_vars

\* Inputs in which no word stands twice in a row; the same then goes for symbols.
EndsInSquare(w) ==
  \E n \in 1 .. Len(w) : 2 * n <= Len(w) /\ \A k \in 0 .. n - 1 : w[Len(w) - k] = w[Len(w) - k - n]
FeedNoSquare(b) == ~EndsInSquare(Append(input, b)) /\ Feed(b)

Next == Digest \/ EndBlock \/ \E b \in Letters : FeedNoSquare(b)
Spec == Init /\ [][Next]_vars

\* The program runs on: WF_vars(Digest), with what enables Digest written out.
Digesting == g.fault = "none" /\ stack # <<>>
FairSpec == Spec /\ ([]<>~Digesting \/ []<><<Digest>>_vars)

-----------------------------------------------------------------------------
(* Properties.                                                             *)

Fields == [Symbols -> Symbols \cup {Null}]
Ats == {"check", "match", "second", "enter", "utility", "replace", "right"}

\* The variables keep their types: links are symbols, and the storage and the recycling
\* list never hand out a symbol beyond the end (symbol.c:64-109).
TypeOK ==
  /\ g.value \in [Symbols -> Nat] /\ g.refcnt \in [Symbols -> Nat]
  /\ {g.next, g.prev, g.nextr, g.prevr, g.rule} \subseteq Fields
  /\ {g.new, g.recycled} \subseteq Symbols \cup {Null} /\ g.main \in Symbols
  /\ g.num \in 0 .. MaxSymbols /\ g.nextvalue \in Nat
  /\ g.fault \in {"none", "abort", "exhausted"}
  /\ g.table \in [Slots -> Symbols \cup {Null, Tombstone}]
  /\ \A k \in DOMAIN stack : /\ stack[k].at \in Ats
                             /\ {stack[k].this, stack[k].other} \subseteq Symbols \cup {Null}
  /\ found \in BOOLEAN
  /\ input \in Seq(Letters) /\ Len(input) <= BlockSize

\* The symbols met from s along a field, until Null or a symbol of `ends' follows; more
\* than there are if neither ever does.
Walk(field, s, ends) ==
  LET at[n \in 1 .. MaxSymbols + 1] ==
        IF n = 1 THEN <<s>>
        ELSE LET w == at[n - 1]
                 x == field[w[Len(w)]]
             IN IF Len(w) < n - 1 \/ x \in ends \cup {Null} THEN w ELSE Append(w, x)
  IN at[MaxSymbols + 1]

Elements(seq) == {seq[k] : k \in DOMAIN seq}
Rules == Elements(Walk(g.nextr, g.main, {g.main}))
Body(r) == Tail(Walk(g.next, r, {r}))
Occurrences == UNION {Elements(Body(r)) : r \in Rules}
Recycled == IF g.recycled = Null THEN {} ELSE Elements(Walk(g.next, g.recycled, {}))

Running == g.fault = "none"
AtRest == Running /\ stack = <<>>

\* What the main rule stands for: rewriting goes no deeper than there are rules.
Meaning ==
  LET rules == Rules
      bodies == [r \in rules |-> Body(r)]
      word[d \in 0 .. Cardinality(rules)] ==
        LET shorter == IF d = 0 THEN [r \in rules |-> <<>>] ELSE word[d - 1]
            Text(s) == IF IsNonterminal(g, s) THEN shorter[g.rule[s]] ELSE <<g.value[s]>>
            Line(body) == LET text[n \in 0 .. Len(body)] ==
                                IF n = 0 THEN <<>> ELSE text[n - 1] \o Text(body[n])
                          IN text[Len(body)]
        IN [r \in rules |-> Line(bodies[r])]
  IN word[Cardinality(rules)][g.main]

\* Nothing is lost, added or turned around: whatever is rewritten, at every call and
\* return of the recursion, the grammar stands for the input ("replacing these digrams
\* by a nonterminal", sequitur.c:282).
ExpandsToInput == Running => Meaning = input

\* A rule's reference count is the number of its occurrences on the right-hand sides, on
\* which the decision to delete a rule rests (sequitur.c:264-275).
CountsTrue ==
  Running => LET used == Occurrences IN
             \A r \in Rules : g.refcnt[r] = Cardinality({s \in used : g.rule[s] = r})

\* Every symbol that was ever taken from the storage is a rule's head, or stands in one
\* rule, or waits for reuse, and is only one of these.
StorageAccounted ==
  Running => LET used == Occurrences  rules == Rules  spare == Recycled IN
    /\ rules \cup used \cup spare = 0 .. g.num - 1
    /\ spare \cap (rules \cup used) = {} /\ rules \cap used = {}

\* No activation goes on with a symbol that a deeper one has recycled.  (replace_digram
\* may keep one, but uses it only if its first check replaced nothing.)
FramesLive ==
  Running => LET alive == Rules \cup Occurrences IN
    \A k \in DOMAIN stack :
      stack[k].at # "right" \/ (k = 1 /\ ~found)
        => {stack[k].this, stack[k].other} \subseteq alive \cup {Null}

\* The table points only at digrams of the grammar, and each is found by its own values:
\* no pointer to a recycled symbol, none in a place that its present values do not lead
\* to (sequitur.c:34-37, diagram_hash.c:32).
TableSound ==
  Running => LET used == Occurrences IN
    \A s \in {g.table[i] : i \in Slots} \ {Null, Tombstone} :
      /\ s \in used /\ g.next[s] \in used
      /\ digram_get(g, g.value[s], g.value[g.next[s]]) = s

\* Rule utility: once a byte is digested, every rule is used twice or more, though only
\* the first symbol of a new rule is ever checked (sequitur.c:253-262).
RulesUseful ==
  AtRest => \A r \in Rules \ {g.main} : g.refcnt[r] >= 2 /\ Len(Body(r)) >= 2

\* The rewriting that one byte sets off always comes to an end, and not in an abort:
\* "attempting to delete a rule sentinel", "a rule with multiple references", "reference
\* count should not be zero", a negative count and exhausted storage never happen
\* (sequitur.c:89, 117, 271; rules.c:171).
AlwaysDigested == []<>AtRest
=============================================================================
