------------------------------ MODULE MCVtree -------------------------------
(* TLC instance of Vtree.                                                   *)
EXTENDS Vtree

CONSTANTS top, d1, d2, locked, blind, f1, f2, f3, f4, f5, f6, gone

\* f1 and f2 are alike in number but not in device; f1, f3 and f4 share a bucket;
\* f5 and f6 are on a device of their own.
MCInode == top :> [dev |-> 1, ino |-> 1] @@ d1 :> [dev |-> 1, ino |-> 2]
           @@ d2 :> [dev |-> 2, ino |-> 2] @@ locked :> [dev |-> 1, ino |-> 8]
           @@ blind :> [dev |-> 1, ino |-> 9]
           @@ f1 :> [dev |-> 1, ino |-> 3] @@ f2 :> [dev |-> 2, ino |-> 3]
           @@ f3 :> [dev |-> 1, ino |-> 5] @@ f4 :> [dev |-> 1, ino |-> 7]
           @@ f5 :> [dev |-> 3, ino |-> 4] @@ f6 :> [dev |-> 3, ino |-> 5]

Dir(d, entries) == <<[name |-> Dot, node |-> d]>> \o
                   [i \in DOMAIN entries |-> [name |-> entries[i][1], node |-> entries[i][2]]]
Tree(intop, in1, in2) == top :> Dir(top, intop) @@ d1 :> Dir(d1, in1) @@ d2 :> Dir(d2, in2)
                      @@ locked :> Dir(locked, <<<<1, f2>>>>)
                      @@ blind :> Dir(blind, <<<<4, f4>>, <<1, f2>>, <<3, d2>>>>)

MCTrees == {
  \* directories side by side, hard links within and across them
  Tree(<<<<4, f1>>, <<2, d1>>, <<3, d2>>, <<1, f1>>>>,
       <<<<5, f3>>, <<6, f1>>>>, <<<<5, f2>>, <<6, f3>>>>),
  \* one below the other, with enough inodes to make a bucket grow
  Tree(<<<<3, f3>>, <<2, d1>>>>, <<<<4, d2>>, <<2, f1>>, <<3, f1>>>>,
       <<<<1, f4>>, <<2, f2>>, <<3, f3>>>>),
  \* two names for one directory, by a link, beside one that cannot be read
  Tree(<<<<2, d2>>, <<3, locked>>, <<1, d1>>>>, <<<<1, f1>>, <<3, d2>>>>,
       <<<<2, f4>>, <<1, f1>>>>),
  \* a directory that can be read and not entered
  Tree(<<<<2, blind>>, <<1, f1>>, <<3, d1>>>>, <<<<1, blind>>, <<3, f3>>>>, <<>>),
  \* names that lead nowhere, behind a directory and behind a file
  Tree(<<<<2, d1>>, <<3, gone>>, <<1, d2>>>>, <<<<1, f1>>, <<2, gone>>>>,
       <<<<1, gone>>, <<2, f2>>>>),
  \* a link upwards
  Tree(<<<<1, d1>>, <<2, d2>>>>, <<<<2, top>>, <<1, f1>>>>, <<<<1, f2>>>>),
  \* more than hash_clears has elements for, and from d1 on as many as it has
  Tree(<<<<3, f1>>, <<2, d1>>, <<4, f3>>>>, <<<<3, f2>>, <<1, d2>>, <<2, f5>>, <<4, f6>>>>,
       <<<<1, f4>>>>) }

Opt(letter) == [opt |-> letter, n |-> 0]
Height(n) == [opt |-> "h", n |-> n]

MCCommandLines ==
  [options : {<<>>, <<Opt("o"), Opt("d")>>, <<Opt("v")>>, <<Opt("q"), Opt("o")>>,
              <<Height(1)>>, <<Height(1), Opt("s")>>, <<Height(0), Opt("s"), Opt("v")>>,
              <<Height(2), Opt("v"), Opt("o")>>, <<Opt("s"), Height(1), Opt("q")>>,
              <<Opt("q"), Opt("d")>>, <<Height(2), Opt("d")>>},
   names : {<<>>, <<2>>, <<2, 1>>, <<0, 2, 0>>}]
=============================================================================
