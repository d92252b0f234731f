---------------------------- MODULE Transmission ----------------------------
(***************************************************************************)
(* A transmission from compress to decompress (src/hw1/src/comdec.c): the  *)
(* compressor of Sequitur cuts its input into blocks and writes a grammar  *)
(* for each into a file, which another run of the program then reads back, *)
(* one step for each turn of the loop of decompress.                       *)
(***************************************************************************)
EXTENDS Sequitur, SequencesExt

CONSTANT MaxBytes   \* bound: bytes of input
ASSUME MaxBytesAssumption == MaxBytes \in Nat

VARIABLES
  mode,   \* compress, decompress, returned, or segv
  sent,   \* the input read by compress
  file,   \* the bytes written by compress
  d       \* the state of decompress
allVars == <<g, stack, found, input, mode, sent, file, d>>

\* The marks of sequitur.h:173-181.
SOT == 129
EOT == 130
SOB == 131
EOB == 132
RD  == 133

-----------------------------------------------------------------------------
(* The writer.                                                             *)

Continuation(v, unit) == 128 + ((v \div unit) % 64)

get_encoded(v) ==
  IF v > 65535 THEN <<>>
  ELSE IF v > 2047 THEN <<224 + v \div 4096, Continuation(v, 64), Continuation(v, 1)>>
  ELSE IF v > 127 THEN <<192 + v \div 64, Continuation(v, 1)>>
  ELSE <<v>>

\* A rule with its head, and the rules in the order of their ring.
EncodedRule(r) ==
  LET symbols == Walk(g.next, r, {r}) IN
  FlattenSeq([k \in DOMAIN symbols |-> get_encoded(g.value[symbols[k]])])
EncodedRules ==
  LET rules == Walk(g.nextr, g.main, {g.main}) IN
  FlattenSeq([k \in DOMAIN rules |->
                (IF k = 1 THEN <<>> ELSE <<RD>>) \o EncodedRule(rules[k])])

\* Mutant: a delimiter after every rule.
CompressionDelimitsAll == <<SOB>> \o EncodedRules \o <<RD, EOB>>

process_compression == <<SOB>> \o EncodedRules \o <<EOB>>

Byte(b) ==
  /\ mode = "compress" /\ Len(sent) < MaxBytes
  /\ FeedNoSquare(b)
  /\ sent' = Append(sent, b)
  /\ UNCHANGED <<mode, file, d>>

DigestByte == mode = "compress" /\ Digest /\ UNCHANGED <<mode, sent, file, d>>

BlockFull ==
  /\ mode = "compress" /\ Len(input) = BlockSize
  /\ EndBlock
  /\ file' = file \o process_compression
  /\ UNCHANGED <<mode, sent, d>>

InputEnds ==
  /\ mode = "compress" /\ Len(input) < BlockSize
  /\ EndBlock
  /\ file' = file \o process_compression \o <<EOT>>
  /\ mode' = "decompress"
  /\ UNCHANGED <<sent, d>>

-----------------------------------------------------------------------------
(* The reader.  A rule is complete before anything points to it, so that   *)
(* main_rule and rule_map are given by the values they point to.           *)

NoRule == [head |-> Null, body |-> <<>>]
NoRules == << >>
Fresh == [pos |-> 1, prev |-> 0, curr_rule |-> NoRule, main_rule |-> NoRule,
          rule_map |-> NoRules, out |-> <<>>]
Cleared(r) == [r EXCEPT !.curr_rule = NoRule, !.main_rule = NoRule, !.rule_map = NoRules]

Curr == file[d.pos]
Reading == mode = "decompress" /\ d.pos <= Len(file)
Past(n) == [d EXCEPT !.pos = d.pos + n, !.prev = Curr]

\* The value of a symbol and how many bytes it takes.  The four byte form is never written.
get_decoded ==
  IF Curr \in 224 .. 239
  THEN [value |-> (Curr % 16) * 4096 + (file[d.pos + 1] % 64) * 64 + (file[d.pos + 2] % 64), bytes |-> 3]
  ELSE IF Curr \in 192 .. 223
  THEN [value |-> (Curr % 32) * 64 + (file[d.pos + 1] % 64), bytes |-> 2]
  ELSE [value |-> Curr, bytes |-> 1]

Mapped(r) ==
  LET rule == r.curr_rule IN
  [r EXCEPT !.rule_map = [v \in DOMAIN @ \cup {rule.head} |-> IF v = rule.head THEN rule.body ELSE @[v]]]

\* process_decompression_new(main_rule).  Null stands where a missing rule is followed,
\* or rules without end: there are no more levels than rules.
Expansion(r) ==
  LET Text(v, below) == IF v < FirstNonterminal THEN <<v>>
                        ELSE IF v \in DOMAIN below THEN below[v] ELSE <<Null>>
      Line(body, below) == FlattenSeq([k \in DOMAIN body |-> Text(body[k], below)])
      level[n \in 0 .. Cardinality(DOMAIN r.rule_map)] ==
        LET below == IF n = 0 THEN NoRules ELSE level[n - 1]
        IN [v \in DOMAIN r.rule_map |-> Line(r.rule_map[v], below)]
  IN Line(r.main_rule.body, level[Cardinality(DOMAIN r.rule_map)])

\* The end of a block: the last rule enters the map and the main rule is expanded.
Expanding(after) ==
  LET text == Expansion(Mapped(d)) IN
  IF d.curr_rule = NoRule \/ d.main_rule = NoRule \/ Null \in Elements(text)
  THEN mode' = "segv" /\ UNCHANGED d
  ELSE d' = [after EXCEPT !.out = @ \o text] /\ UNCHANGED mode

Mark == Reading /\ Curr \in {SOT, EOB} /\ d' = Past(1) /\ UNCHANGED mode

\* Mutant: the file is rewound.
FirstBlockRewinds ==
  /\ Reading /\ Curr = SOB /\ d.prev = SOT
  /\ d' = [Cleared(Past(1)) EXCEPT !.pos = 1] /\ UNCHANGED mode

FirstBlock ==
  /\ Reading /\ Curr = SOB /\ d.prev = SOT
  /\ d' = Cleared(Past(1)) /\ UNCHANGED mode

\* Mutant: the rules of the old block stay.
NextBlockKeepsRules ==
  /\ Reading /\ Curr = SOB /\ d.prev = EOB
  /\ Expanding([Past(1) EXCEPT !.curr_rule = NoRule])

NextBlock == Reading /\ Curr = SOB /\ d.prev = EOB /\ Expanding(Cleared(Past(1)))

\* check_special returns the bytes written, and that is never 0 (which would make the
\* mark a symbol): the text of two rules is not empty.
LastBlock == Reading /\ Curr = EOT /\ d.prev = EOB /\ Expanding(Past(1))

Delimiter ==
  /\ Reading /\ Curr = RD
  /\ IF d.curr_rule = NoRule THEN mode' = "segv" /\ UNCHANGED d
     ELSE /\ d' = [Mapped(Past(1)) EXCEPT !.curr_rule = NoRule,
                     !.main_rule = IF @ = NoRule THEN d.curr_rule ELSE @]
          /\ UNCHANGED mode

\* A symbol: the head of a rule, or the next one of its body.
Taken(r, v) ==
  IF r.curr_rule = NoRule THEN [r EXCEPT !.curr_rule.head = v]
  ELSE [r EXCEPT !.curr_rule.body = Append(@, v)]

Symbol ==
  /\ Reading /\ Curr \notin {SOT, EOB, RD}
  /\ ~(Curr = SOB /\ d.prev \in {SOT, EOB}) /\ ~(Curr = EOT /\ d.prev = EOB)
  /\ d' = Taken(Past(get_decoded.bytes), get_decoded.value) /\ UNCHANGED mode

\* The turn that meets the end of the file takes EOF for a symbol of value 0xFF.
FileEnds ==
  /\ mode = "decompress" /\ d.pos > Len(file)
  /\ d' = [Taken(d, 255) EXCEPT !.prev = 255]
  /\ mode' = "returned"

Read ==
  /\ Mark \/ FirstBlock \/ NextBlock \/ LastBlock \/ Delimiter \/ Symbol \/ FileEnds
  /\ UNCHANGED <<g, stack, found, input, sent, file>>

\* The process that reads has ended.
Rest == mode \in {"returned", "segv"} /\ UNCHANGED allVars

TransmissionInit == Init /\ mode = "compress" /\ sent = <<>> /\ file = <<SOT>> /\ d = Fresh
TransmissionNext ==
  (\E b \in Letters : Byte(b)) \/ DigestByte \/ BlockFull \/ InputEnds \/ Read \/ Rest
\* decompress runs on: WF_allVars(Read), with what enables Read written out.  Nothing is
\* promised of the input that compress waits for.
TransmissionSpec ==
  /\ TransmissionInit /\ [][TransmissionNext]_allVars
  /\ []<>(mode # "decompress") \/ []<><<Read>>_allVars

-----------------------------------------------------------------------------
(* Properties.                                                             *)

\* decompress gives back what compress was given: a prefix of it in order, a block of
\* BlockSize bytes at a time, and all of it if decompress returns, whatever digrams the
\* compressor has missed because its table was full.
DeliveryRefined ==
  INSTANCE Delivery WITH
    out <- d.out,
    status <- IF mode = "compress" THEN "open"
              ELSE IF mode = "returned" THEN "complete" ELSE "closed"
Delivered == DeliveryRefined!Spec

\* A nonterminal is always found in the map, a delimiter always ends a rule, no rule
\* contains itself: decompress crashes for one reason only, a block without delimiter,
\* whose rule never becomes the main rule (comdec.c:401, 350).
CrashesOnlyOnOneRule == mode = "segv" => d.main_rule = NoRule /\ d.curr_rule # NoRule

\* decompress comes to an end with every file that compress writes.
AlwaysReturns == (mode = "decompress") ~> (mode \in {"returned", "segv"})
=============================================================================
