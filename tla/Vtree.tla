------------------------------- MODULE Vtree --------------------------------
(* vtree (src/hw2/src/vtree.c), as the Makefile builds it: LINUX and        *)
(* MEMORY_BASED, without LSTAT, so that symbolic links are followed and a   *)
(* tree of names may have cycles.                                           *)
(*                                                                         *)
(* A name is a number, in the order strcmp gives the names; Dot is ".", and *)
(* "..", which no statement looks at, is left out.  stat(2) finds a node: a *)
(* directory, a file, or Gone, when the name leads nowhere and stat fails.  *)
(* The block counts go wherever the inode counts go and are left out, with  *)
(* all printing; what the visual display draws is decided by sub_dirs.      *)
(* No walk gets deeper than sub_dirs has levels, as FdLimit < MAX_V_DEPTH.  *)
EXTENDS InodeTable, TLC

CONSTANTS Dirs, Files, Gone,
          TopDir,        \* where vtree is started
          Readable,      \* the directories opendir can read
          Searchable,    \* the directories chdir can enter
          Inode,         \* the device and inode number of a node
          Trees,         \* the directory trees: for each directory its entries
          CommandLines,  \* the options, in order, and the names given
          FdLimit,       \* the directories the process can have open at once
          MAX_V_DEPTH    \* the levels sub_dirs has room for

Nodes == Dirs \cup Files
Dot == 0

ASSUME VtreeAssumption ==
  /\ TopDir \in Dirs \cap Searchable /\ Readable \subseteq Dirs /\ Searchable \subseteq Dirs
  /\ Gone \notin Nodes /\ Dirs \cap Files = {} /\ IsFiniteSet(Files)
  /\ FdLimit \in Nat /\ MAX_V_DEPTH \in Nat /\ FdLimit < MAX_V_DEPTH
  /\ \A n \in Nodes : Inode[n].ino \in Nat \ {0}
  /\ \A t \in Trees, d \in Dirs :
       /\ t[d] \in Seq([name : Nat, node : Nodes \cup {Gone}])
       /\ [name |-> Dot, node |-> d] \in Range(t[d])
       /\ \A i, j \in DOMAIN t[d] : t[d][i].name = t[d][j].name => i = j
  /\ \A c \in CommandLines : c.names \in Seq(Nat)

VARIABLES tree, opt, names,   \* what vtree is started on
          arg, phase,         \* the loop of main
          stack,              \* one frame per activation of down that has opened its directory
          cwd, stb, fds,      \* the working directory, the shared stat buffer, open directories
          sub_dirs,           \* per level the subdirectories still to come
          inodes, total_inodes, table, status

vars == <<tree, opt, names, arg, phase, stack, cwd, stb, fds, sub_dirs, inodes,
          total_inodes, table, status>>

-----------------------------------------------------------------------------
(* Options.                                                                *)

Defaults == [depth |-> 9999, sum |-> FALSE, dup_new |-> FALSE, quick |-> FALSE,
             visual |-> FALSE, sort |-> FALSE]

\* -q undoes what came before it, and only that.
Option(o, letter) ==
  CASE letter.opt = "h" -> [o EXCEPT !.depth = letter.n]
    [] letter.opt = "d" -> [o EXCEPT !.dup_new = TRUE]
    [] letter.opt = "s" -> [o EXCEPT !.sum = TRUE]
    [] letter.opt = "o" -> [o EXCEPT !.sort = TRUE]
    [] letter.opt = "v" -> [o EXCEPT !.visual = TRUE]
    [] letter.opt = "q" -> [o EXCEPT !.quick = TRUE, !.dup_new = FALSE, !.sum = FALSE]

Counting == ~opt.quick /\ ~opt.visual

-----------------------------------------------------------------------------
(* The file system.                                                        *)

Lookup(d, name) ==
  LET found == {e \in Range(tree[d]) : e.name = name} IN
  IF found = {} THEN Gone ELSE (CHOOSE e \in found : TRUE).node

\* What the stat buffer holds after stat(name): what it held before, if stat fails.
Stat(d, name, before) == IF Lookup(d, name) = Gone THEN before ELSE Lookup(d, name)

\* What it holds when chk_4_dir has looked up the first i entries of d in `here`.
StbAfter(d, here, before, i) ==
  LET found == {j \in 1 .. i : tree[d][j].name # Dot /\ Lookup(here, tree[d][j].name) # Gone}
  IN  IF found = {} THEN before ELSE Lookup(here, tree[d][Max(found)].name)

\* The places of the entries of d that down keeps: in the quick and the visual display those
\* that chk_4_dir takes for directories, which it does whenever the buffer holds one.
Listing(d, here, before) ==
  IF Counting THEN DOMAIN tree[d]
  ELSE {i \in DOMAIN tree[d] : /\ tree[d][i].name # Dot
                               /\ StbAfter(d, here, before, i) \in Dirs}

\* The elements of a set of numbers, the smallest first.
InOrder(S) ==
  [k \in 1 .. Cardinality(S) |-> CHOOSE n \in S : Cardinality({m \in S : m <= n}) = k]

\* The names that stand in these places of d, in the order in which down goes through them.
Sorted(d, list) ==
  IF opt.sort THEN InOrder({tree[d][i].name : i \in list})
  ELSE [k \in 1 .. Cardinality(list) |-> tree[d][InOrder(list)[k]].name]

-----------------------------------------------------------------------------
(* down and get_data.  cur_depth is the number of frames.                   *)

cur_depth == Len(stack)
Frame == stack[cur_depth]
Name == Frame.names[Frame.pos]
AtEnd == Frame.pos > Len(Frame.names)
Advanced == [stack EXCEPT ![cur_depth].pos = @ + 1]

\* down goes into a directory it could open.
Open(d, here, below, columns, before) ==
  LET there == IF d \in Searchable THEN d ELSE here IN
  \E list \in {Listing(d, there, before)} :
    /\ fds' = fds + 1
    /\ cwd' = there
    /\ stb' = IF Counting THEN before ELSE StbAfter(d, there, before, Len(tree[d]))
    /\ stack' = Append(below, [names |-> Sorted(d, list), pos |-> 1, home |-> here,
                               phase |-> IF Counting THEN "files" ELSE "dirs"])
    /\ sub_dirs' = IF opt.visual
                   THEN [columns EXCEPT ![Len(below) + 1] = @ + Cardinality(list)]
                   ELSE columns

\* get_data(name, TRUE) called in directory `here`.
Walk(name, here, below, columns, count) ==
  LET found == Stat(here, name, stb)
      opens == /\ found \in Dirs
               /\ opt.depth # Len(below) \/ opt.sum
               /\ Lookup(here, name) \in Readable
               /\ fds < FdLimit
  IN  /\ inodes' = IF found \in Dirs THEN count + 1 ELSE count
      /\ IF opens THEN Open(Lookup(here, name), here, below, columns, found)
         ELSE /\ stb' = found /\ cwd' = here /\ stack' = below /\ sub_dirs' = columns
              /\ UNCHANGED fds

\* get_data(name, FALSE): a file is counted unless its inode was met before.
GetData(found) ==
  \/ found \in Dirs /\ UNCHANGED <<inodes, table>>
  \/ /\ found \notin Dirs
     /\ \E moves \in BOOLEAN :
          \E r \in {h_enter(table, Inode[found].dev, Inode[found].ino, moves)} :
            /\ table' = r.table
            /\ inodes' = IF r.answer = "OLD" /\ ~opt.dup_new THEN inodes ELSE inodes + 1

\* CountFile, had it gone on to the next entry only after counting.
CountFileStays ==
  /\ status = "run" /\ stack # <<>> /\ Frame.phase = "files" /\ ~AtEnd
  /\ stb' = Stat(cwd, Name, stb)
  /\ GetData(stb')
  /\ status' = IF Overrun(table') THEN "overrun" ELSE status
  /\ stack' = IF stb' \in Dirs THEN stack ELSE Advanced
  /\ UNCHANGED <<tree, opt, names, arg, phase, cwd, fds, sub_dirs, total_inodes>>

\* Once something behind hash_clears has been overwritten, the model goes no further.
CountFile ==
  /\ status = "run" /\ stack # <<>> /\ Frame.phase = "files" /\ ~AtEnd
  /\ stb' = Stat(cwd, Name, stb)
  /\ GetData(stb')
  /\ status' = IF Overrun(table') THEN "overrun" ELSE status
  /\ stack' = Advanced
  /\ UNCHANGED <<tree, opt, names, arg, phase, cwd, fds, sub_dirs, total_inodes>>

\* The line of a directory that is displayed takes the counts with it.
Flush(displayed) ==
  IF displayed THEN inodes' = 0 /\ total_inodes' = total_inodes + inodes
  ELSE UNCHANGED <<inodes, total_inodes>>

FilesDone ==
  /\ status = "run" /\ stack # <<>> /\ Frame.phase = "files" /\ AtEnd
  /\ Flush(cur_depth < opt.depth)
  /\ stack' = [stack EXCEPT ![cur_depth].phase = "dirs", ![cur_depth].pos = 1]
  /\ UNCHANGED <<tree, opt, names, arg, phase, cwd, stb, fds, sub_dirs, table, status>>

SkipDot ==
  /\ status = "run" /\ stack # <<>> /\ Frame.phase = "dirs" /\ ~AtEnd /\ Name = Dot
  /\ stack' = Advanced
  /\ UNCHANGED <<tree, opt, names, arg, phase, cwd, stb, fds, sub_dirs, inodes,
                 total_inodes, table, status>>

\* WalkSub, had it told nobody that there is one subdirectory fewer.
WalkSubUntold ==
  /\ status = "run" /\ stack # <<>> /\ Frame.phase = "dirs" /\ ~AtEnd /\ Name # Dot
  /\ Walk(Name, cwd, Advanced, sub_dirs, inodes)
  /\ UNCHANGED <<tree, opt, names, arg, phase, total_inodes, table, status>>

\* One subdirectory fewer to come, then down into it.
WalkSub ==
  /\ status = "run" /\ stack # <<>> /\ Frame.phase = "dirs" /\ ~AtEnd /\ Name # Dot
  /\ Walk(Name, cwd, Advanced,
          IF Stat(cwd, Name, stb) \in Dirs THEN [sub_dirs EXCEPT ![cur_depth] = @ - 1]
          ELSE sub_dirs,
          inodes)
  /\ UNCHANGED <<tree, opt, names, arg, phase, total_inodes, table, status>>

\* The end of down: dp is freed, not closed, so its descriptor stays open.
Leave ==
  /\ status = "run" /\ stack # <<>> /\ Frame.phase = "dirs" /\ AtEnd
  /\ Flush(Counting /\ cur_depth = opt.depth)
  /\ sub_dirs' = [sub_dirs EXCEPT ![cur_depth] = 0]
  /\ stack' = Front(stack)
  /\ cwd' = Frame.home
  /\ UNCHANGED <<tree, opt, names, arg, phase, stb, fds, table, status>>

-----------------------------------------------------------------------------
(* vtree_main.                                                             *)

Argument ==
  /\ status = "run" /\ phase = "next" /\ arg <= Len(names)
  /\ phase' = "walk"
  /\ Walk(names[arg], TopDir, <<>>, sub_dirs, 0)
  /\ UNCHANGED <<tree, opt, names, arg, total_inodes, table, status>>

ArgumentDone ==
  /\ status = "run" /\ phase = "walk" /\ stack = <<>>
  /\ phase' = "next"
  /\ arg' = arg + 1
  /\ total_inodes' = total_inodes + inodes
  /\ UNCHANGED <<tree, opt, names, stack, cwd, stb, fds, sub_dirs, inodes, table, status>>

\* The clean-up: freeing what is not allocated may abort the process or go unnoticed.
Exit ==
  /\ status = "run" /\ phase = "next" /\ arg > Len(names)
  /\ \/ ReadsBeyond(table) /\ status' = "overrun"
     \/ ~ReadsBeyond(table) /\ status' = "exit"
     \/ ~ReadsBeyond(table) /\ ~FreesWell(table) /\ status' = "abort"
  /\ UNCHANGED <<tree, opt, names, arg, phase, stack, cwd, stb, fds, sub_dirs, inodes,
                 total_inodes, table>>

Ended == status # "run" /\ UNCHANGED vars

Init ==
  /\ tree \in Trees
  /\ \E c \in CommandLines :
       /\ opt = FoldLeft(Option, Defaults, c.options)
       /\ names = IF c.names = <<>> THEN <<Dot>> ELSE c.names
  /\ arg = 1 /\ phase = "next" /\ stack = <<>>
  /\ cwd = TopDir /\ stb = Gone /\ fds = 0
  /\ sub_dirs = [level \in 1 .. FdLimit |-> 0]
  /\ inodes = 0 /\ total_inodes = 0
  /\ table = EmptyTable
  /\ status = "run"

Step == \/ Argument \/ ArgumentDone \/ Exit
        \/ CountFile \/ FilesDone \/ SkipDot \/ WalkSub \/ Leave
Next == Step \/ Ended
Spec == Init /\ [][Next]_vars
FairSpec == Spec /\ WF_vars(Step)

-----------------------------------------------------------------------------
(* Properties.                                                             *)

\* The directories get_data(name, TRUE) meets, each with the path that leads there: what
\* the tree and the options ask for, whatever order down takes.
Entries(d) == {e \in Range(tree[d]) : e.name # Dot}
EnteredAt(d, level) == d \in Readable /\ (level # opt.depth \/ opt.sum)
Entered(v) == EnteredAt(v.dir, Len(v.path) - 1)

Met[level \in 0 .. Cardinality(Dirs)] ==
  IF level = 0
  THEN {[path |-> <<i>>, dir |-> Lookup(TopDir, names[i])] :
          i \in {j \in DOMAIN names : Lookup(TopDir, names[j]) \in Dirs}}
  ELSE UNION {{[path |-> Append(v.path, e.name), dir |-> e.node] :
                 e \in {x \in Entries(v.dir) : x.node \in Dirs}} :
              v \in {w \in Met[level - 1] : Entered(w)}}

AllMet == UNION {Met[level] : level \in 0 .. Cardinality(Dirs) - 1}
Acyclic == Met[Cardinality(Dirs)] = {}
Found(kind) == UNION {{<<v.path, e>> : e \in {x \in Entries(v.dir) : x.node \in kind}} :
                      v \in {w \in AllMet : Entered(w)}}

\* The directories met on a level, whichever path leads there.
DirsNamed == {Lookup(TopDir, names[i]) : i \in DOMAIN names} \cap Dirs
DirsBelow(D, level) ==
  {e.node : e \in UNION {Entries(d) : d \in {x \in D : EnteredAt(x, level)}}} \cap Dirs
DirsAt[level \in 0 .. FdLimit] ==
  IF level = 0 THEN DirsNamed ELSE DirsBelow(DirsAt[level - 1], level - 1)

\* Every directory that is opened can be entered.
AllEntered == \A level \in 0 .. FdLimit : \A d \in DirsAt[level] :
                EnteredAt(d, level) => d \in Searchable

\* One for each directory met and, in the display that counts, one for each inode of a
\* file, or with -d for each name of a file.
Expected ==
  Cardinality(AllMet)
    + (IF ~Counting THEN 0
       ELSE IF opt.dup_new THEN Cardinality(Found(Files))
       ELSE Cardinality({Inode[f[2].node] : f \in Found(Files)}))

\* Each name that leads nowhere may add a directory and, with -d, a file.
Misread == Cardinality({i \in DOMAIN names : Lookup(TopDir, names[i]) = Gone})
             + Cardinality(Found({Gone})) * (IF opt.dup_new THEN 2 ELSE 1)

\* vtree has come to its end in a tree without cycles, and could go wherever the tree and
\* the options lead.
Complete ==
  /\ status \in {"exit", "abort"} /\ Acyclic /\ AllEntered
  /\ Cardinality({v \in AllMet : Entered(v)}) <= FdLimit

\* The grand total has every directory as often as a path leads to it (vtree.c:493-498) and
\* every inode of a file once, however many names and paths lead to it (vtree.c:508-513),
\* or with -d every name, for any order of entries and any mixture of levels displayed,
\* summed and cut off: no count is lost or taken twice on the way from `inodes` through
\* the lines to `total_inodes`.  A name that leads nowhere is taken for what was looked at
\* before it (vtree.c:464-479), which is all that the total may be out by.
TotalsExact == Complete => total_inodes \in Expected .. Expected + Misread

\* Wherever down stands, sub_dirs tells for every open level how many subdirectories are
\* still to come, and is clean below: so a column goes on exactly as far as its last
\* branch, which gets the corner (vtree.c:205-209).  Where chdir fails, names are looked up
\* one level too high, and one that leads nowhere there may be a directory to the listing
\* and a file to the walk: hence the condition, as for names that lead nowhere at all.
CornersRight ==
  opt.visual /\ AllEntered /\ (\A d \in Dirs : \A e \in Range(tree[d]) : e.node # Gone)
  => \A level \in DOMAIN sub_dirs :
       sub_dirs[level] = IF level <= cur_depth
                         THEN Len(stack[level].names) + 1 - stack[level].pos
                         ELSE 0

\* The files that have a name, and whether their devices and inodes together are fewer than
\* the elements of hash_clears.
Linked == {e.node : e \in UNION {Range(tree[d]) : d \in Dirs}} \cap Files
LinkedDevices == {Inode[f].dev : f \in Linked}
LinkedInodes == {<<Inode[f].dev, Inode[f].ino>> : f \in Linked}
FewInodes == Cardinality(LinkedDevices) + Cardinality(LinkedInodes) < CLEARS

\* As long as hash_clears is not overrun, main frees what the table has allocated, all of
\* it, and a process that dies in doing so has had a bucket that grew; and hash_clears is
\* overrun only by a tree whose devices and inodes fill it: its elements are written
\* without a look at their number (hash.c:30, 67, 114, 124, vtree.c:679-680).
ClearsSound ==
  /\ status # "overrun" => /\ ~Overrun(table)
                           /\ table.live \subseteq Range(table.clears)
                           /\ ~Grown(table) => FreesWell(table)
  /\ status = "abort" => Grown(table)
  /\ FewInodes => status # "overrun"

\* vtree comes to an end, in a tree with cycles too: every activation of down that goes on
\* keeps a descriptor for good, and there are only so many (vtree.c:259, 446).  Where it
\* overruns hash_clears, the model ends.
VtreeReturns == <>(status # "run")
=============================================================================
