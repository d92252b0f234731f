------------------------------ MODULE Options -------------------------------
(***************************************************************************)
(* The command line of hw1 (validargs in src/hw1/src/comdec.c, main.c): what *)
(* the program does for a list of words, and where that differs from the    *)
(* usage message in const.h.  There is no state: the words are read once.   *)
(*                                                                         *)
(* A word is a sequence of characters, each given by its distance from '0'. *)
(***************************************************************************)
EXTENDS Integers, Sequences
LOCAL INSTANCE SequencesExt

CONSTANTS IntBits,    \* width of an int: 32 in the program
          HalfBits    \* width of the block size in global_options: 16 in the program

\* Every documented size fits.
ASSUME WidthsAssumption == {HalfBits, IntBits} \subseteq Nat /\ 11 < HalfBits /\ HalfBits < IntBits

HelpArg       == <<-3, 56>>
CompressArg   == <<-3, 51>>
DecompressArg == <<-3, 52>>
BlocksizeArg  == <<-3, 50>>

\* What gcc makes of n in a signed variable of so many bits.
Signed(n, bits) == ((n + 2 ^ (bits - 1)) % 2 ^ bits) - 2 ^ (bits - 1)

convert_string_int(word) ==
  IF \E i \in DOMAIN word : word[i] \notin 0 .. 9 THEN -1
  ELSE FoldLeft(LAMBDA n, c : Signed(10 * n + c, IntBits), 0, word)

Refused == [does |-> "usage", exit |-> "failure"]

\* global_options keeps the lower half of the number, and main shifts it back.
Compress(kbytes) == [does |-> "compress", bsize |-> 1024 * Signed(kbytes, HalfBits)]

BlockSizeGiven(word) ==
  LET block == convert_string_int(word) IN
  IF block = -1 \/ block > 1024 THEN Refused ELSE Compress(block)

\* What main does for the words after the program's name.  "-b" as the last word makes
\* it read the NULL behind argv.
main(argv) ==
  LET first(word)  == argv # <<>> /\ argv[1] = word
      second(word) == Len(argv) > 1 /\ argv[2] = word
  IN CASE first(HelpArg) -> [does |-> "usage", exit |-> "success"]
       [] first(DecompressArg) /\ Len(argv) = 1 -> [does |-> "decompress"]
       [] first(CompressArg) /\ Len(argv) = 1 -> Compress(1024)
       [] first(CompressArg) /\ argv = <<CompressArg, BlocksizeArg>> -> [does |-> "segv"]
       [] first(CompressArg) /\ second(BlocksizeArg) /\ Len(argv) > 2 -> BlockSizeGiven(argv[3])
       [] OTHER -> Refused

-----------------------------------------------------------------------------
(* What TLC evaluates.                                                     *)

LOCAL Word(n) == [i \in 1 .. 10 |-> (n \div 10 ^ (10 - i)) % 10]
LOCAL WithSize(n) == main(<<CompressArg, BlocksizeArg, Word(n)>>)
LOCAL Words == {HelpArg, CompressArg, DecompressArg, BlocksizeArg, Word(10), <<>>, <<1, -3, 5>>}
LOCAL Lines == UNION {[1 .. k -> Words] : k \in 0 .. 3}

\* The block size of the usage message, "in Kbytes, range [1, 1024]" (const.h:25), is
\* taken as it is, and one beyond it is refused as long as it fits into an int.
ASSUME SizesTaken ==
  /\ \A n \in 1 .. 1024 : WithSize(n) = [does |-> "compress", bsize |-> 1024 * n]
  /\ \A n \in 1025 .. 2 ^ (IntBits - 1) - 1 : WithSize(n) = Refused

\* What the range check misses: no limit to a block with 0 or an empty word, and with
\* numbers that overflow a size above or below the range.
ASSUME SizesMissed ==
  /\ {WithSize(0), main(<<CompressArg, BlocksizeArg, <<>>>>)} = {[does |-> "compress", bsize |-> 0]}
  /\ \E n \in 2 ^ (IntBits - 1) .. 2 ^ IntBits : WithSize(n) # Refused /\ WithSize(n).bsize > 1024 * 1024
  /\ \E n \in 2 ^ (IntBits - 1) .. 2 ^ IntBits : WithSize(n) # Refused /\ WithSize(n).bsize < 0

\* Of all lines of up to three words, those that are neither refused nor help are the
\* ones of the usage message, those with an empty size, and the crash.
ASSUME LinesTaken ==
  \A argv \in Lines :
    main(argv).does # "usage" <=>
      argv \in {<<DecompressArg>>, <<CompressArg>>, <<CompressArg, BlocksizeArg>>,
                <<CompressArg, BlocksizeArg, Word(10)>>, <<CompressArg, BlocksizeArg, <<>>>>}
=============================================================================
