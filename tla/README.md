# A verification project for Systems-Fundamental-II

The repository holds five independent C programs, the homeworks of a systems course. This
directory holds TLA+ modules translated from their source, TLC configurations that check
them on small instances, and TLAPS proofs for the parts where every instance matters.
`PROJECT.json` maps every definition that models code to its lines, and lists the runs, the
mutants that show each property can fail, the hazards, the findings and the theorems.

Run from this directory:

    tlc -workers 2 -config pbx_calls.cfg MCPBX     # any run: its cfg and its MC module
    tlapm PBXProofs.tla                            # one of the eight modules of proofs

The modules of proofs are `PBXProofs`, `ExchangeProofs`, `TesterProofs`, `PolyaProofs`,
`SfmmProofs`, `VtreeProofs`, `SequiturProofs` and `GrammarProofs`; each takes between some
seconds and twenty minutes.

## 1. The system

| Program | What it is | State | Why it is hard | Modelled |
|---|---|---|---|---|
| hw5 PBX | telephone exchange server: one thread per TCP client | slot table of the switch, one TU (state, extension, partner's number) per client, two kinds of semaphore | threads, nested locks, socket writes under locks, clients that vanish, numbers reused; lines that cross in transit | `Exchange`, `PBX`, `Tester` |
| hw4 Polya | master process that hands variants of a problem to worker processes | worker table, current problem and its memory, pipes, signal flags | signals that merge, a handler that runs between any two steps, late and cancelled answers, freed memory | `Polya`, `Miner` |
| hw3 sfmm | malloc, free, realloc, memalign on a growing heap | headers, footers, ten free lists, the wilderness | boundary tags that must agree after any sequence of calls | `Sfmm` |
| hw1 sequitur | grammar-based compressor and its decompressor | symbols with a recycling list, circular rules, digram hash table, block markers | recursive rewriting that must keep two grammar invariants and a table of pointers in step | `Sequitur`, `Transmission`, `Delivery`, `Options` |
| hw2 vtree | prints a directory tree, counting each inode once | a hash table of inodes per device, a list of allocations, counts and levels in globals, one stat buffer | recursion over shared globals, growing arrays, clean-up of moved memory, descriptors that are never closed | `InodeTable`, `Vtree` |
| hw0 | prints a line | none | - | no |

### 1.1 hw5: the exchange (`src/hw5/src`)

*State.* `struct pbx`: `isFree[ext]` (1 means taken), `telephone_units[ext]`,
`registered_tu`, and the semaphore `mutex_pbx`. `struct tu`: `state`, `extension_number`,
`connected` (the partner's *number*, not its pointer), `mutex_tu`. A TU is malloced when a
client connects and freed when its thread unregisters it.

*Operations.* `main` accepts a connection and starts `pbx_client_service`, which registers
a TU, reads lines, dispatches `pickup`, `hangup`, `dial n` and `chat`, and unregisters at end
of file. `tu_pickup`, `tu_hangup`, `tu_dial` take `mutex_pbx`, then the own `mutex_tu`, then
(for a call) the partner's, change up to four fields, print the new states into both
sockets, and unlock. `tu_chat` does the same with one print. `pbx_shutdown` frees the switch
on SIGHUP.

*Interaction.* Threads meet in the slot table and in each other's TU; the environment is the
socket: a `dprintf` can block, fail once, or raise SIGPIPE. The test client
(`util/tester.c`) sends commands at random and compares every notice with a table of the
states it may then be told, in which it allows for notices that crossed its command.

*What makes it correct.* The operations of `pbx.h` happen as if at one instant; the locks are
held where they are counted on and never left behind; a slot never points to a freed TU;
both ends of a call agree; a client always knows its state; every operation ends; a test
client raises no false alarm and gets an answer to every command.

### 1.2 hw4: the solver (`src/hw4/src`)

*State.* The master's `workers_array` (status, problem id, pointer to the problem being
solved, pid, pipes), `problems_remaining`, the current problem and its memory
(`problem.c`), and the pending SIGCHLD. A worker's `cancel_solution` flag and its place in
the read-solve-answer loop; both pipes.

*Operations.* The master forks workers; in its loop it assigns a variant to each idle worker,
continues stopped workers with SIGCONT, reads results, posts them, and sends SIGHUP to
workers on a solved problem; at the end it closes pipes, sends SIGTERM and SIGCONT. The
SIGCHLD handler reaps and advances statuses. A worker stops itself, reads a problem when
continued, solves or is cancelled, writes its result.

*What makes it correct.* The table, which is kept by counting signals, describes the real
workers; exactly one problem or result is on its way for each busy worker, so neither pipe
can block; a problem is solved only by a result for it; the master ends, having solved
everything once, and leaves no worker behind.

### 1.3 hw3: the allocator (`src/hw3/src/sfmm.c`)

*State.* The heap, cut into blocks by header words (size and two flags); a footer in free
blocks, written into the first word of the following block (`prev_footer`); ten circular
lists, the last one for the wilderness, the block at the end of the heap.

*Operations.* `sf_malloc` looks in the lists, then in the wilderness, then grows the heap;
`sf_free` validates, coalesces in one of four cases and puts the result into a list;
`sf_realloc` shrinks in place or moves; `sf_memalign` over-allocates and gives back both
ends. The library `sfutil.o` (no source) supplies pages.

*What makes it correct.* Live payloads are disjoint and inside the heap; headers tile the
heap; each block is either live or in exactly the right list; footers equal headers; no two
free neighbours; valid pointers are never refused; nothing outside a block is touched.

### 1.4 hw1: sequitur (`src/hw1/src`)

*State.* `symbol_storage` with a stack of recycled symbols; rules as circular lists with a
reference count at the head, linked in a ring from `main_rule`; `digram_table`, open
addressing with tombstones, which holds pointers to the first symbols of digrams.

*Operations.* `compress` appends a byte to the main rule with `insert_after` and calls
`check_digram`, which calls `process_match`, which calls `replace_digram` (twice when it makes
a new rule), which calls `check_digram`; `expand_instance` removes a rule that is used once.
At the end of a block the grammar is written in a UTF-8-like code with markers 0x81-0x85, and
everything is reset. `decompress` reads blocks back.

*What makes it correct.* The grammar expands to the input; no digram occurs twice except
overlapping; every rule is used twice or more; the table holds the digrams of the grammar and
no pointer to a recycled symbol; no activation goes on with a symbol that a deeper one
recycled; decompress inverts compress, block by block.

### 1.5 hw2: vtree (`src/hw2/src`)

*State.* Per device a table of 257 buckets, each a growing array of inode numbers; the list
`hash_clears` of memory to free. The options; the level `cur_depth`, the counts `inodes` and
`total_inodes`, the columns `sub_dirs` of the visual display and the buffer `stb` of `stat`,
all of them globals that every activation of `down` shares; the working directory and the
open directories of the process.

*Operations.* `vtree_main` parses the options and calls `get_data` for each name. `get_data`
counts a directory and descends with `down`, or counts a file if `h_enter(dev, ino)` answers
NEW. `down` opens and enters a directory, lists it, counts its files, prints its line, and
calls `get_data` for its subdirectories.

*What makes it correct.* OLD exactly for what was entered before; every inode of a file is counted
once, on whichever line (a directory is counted for every path, see section 4); the columns end at
the last branch; every allocation is freed once, and noted where there is room; the walk ends, in trees
with cycles too.

## 2. Modules and how they correspond to the code

### Exchange (abstract)

What `pbx.h` promises: units, their extension, their state and their partner, with
`pickup`, `hangup`, `dial`, plugging and unplugging as indivisible steps that move both ends
of a call at once ("simultaneously transitions", pbx.h:134). No threads, locks or numbers for
partners.

### PBX

A connection `c` stands for its descriptor, its thread and its TU, which are made one for
one. `pc[c]` is the thread's place. Each P, each V, each store another thread could see and
each `dprintf` is an action:

| Action group | Code |
|---|---|
| `Accept`, `AcceptFails` | the accept loop in `main.c` |
| registering: lock, take the slot, print, unlock | `pbx_register`, with `FreeIndex` as its search loop |
| reading a line, a stale line, end of file | `pbx_client_service` and `rio` calls of `server.c` |
| `Decide` and what follows: peer's lock, own store, peer's store, the link, the prints, unlocking | `tu_pickup`, `tu_hangup`, `tu_dial`, `tu_chat`; `PeerAfter` and `path` are the branches |
| unregistering: lock, clear the slot, free | `pbx_unregister` |
| `Client...` | external: what a client and its kernel may do |

`Dprintf` is the one place where the kernel's behaviour is described: to an open client a
write blocks while `SockCap` notices are unread (with `SockCap` = 0 the client reads at
once), to a closed one it may be answered by a reset, after a reset it fails once, and after
that it raises SIGPIPE, which the server neither handles nor ignores. `PeerFault` is the NULL
dereference that follows when a partner has unplugged. `registered_tu`, `life` (unborn,
live, freed), and `told` (the last notice a client was sent) complete the state. What a fresh
`malloc` leaves in `connected` is the constant `Garbage`.

### Tester

The test clients, composed with `Exchange`: an operation of the server and the lines it
prints are one step (`Serve`), as the switch is locked throughout; that `PBX` implements
`Exchange`, and that what is printed is true, is `ExchangeRefined` and `ToldIsTrue` of `PBX`.
`toServer` and `toTester` are the lines on their way, at most `Room` in each. `tester` is the place in
`test()`: reading, about to send, or the way its process ended (`unexpected` is a failed
test). The table `next_states` is not copied entry by entry: `NextStates` computes it from the
answer to a command (`Answer`) and the moves the other end can cause (`Moved`), which is how its
35 entries are made up. `Shutdown` is SIGHUP at the server, which frees the switch and exits;
unread commands then make the kernel reset their connection. A delay is no step of its own.

### Polya

`Main` is the master between two points where its handler may run, `Handler` the SIGCHLD
handler with one `Reap` for each `waitpid`, `Worker(w)` the process `w`. The kernel as Linux
does it is external: SIGCHLD is one pending bit, `waitpid` reports only the latest stop or
continue of a child, signals reach a stopped process when it continues. `chunk` is the
memory a problem is malloced in, so that a pointer to a freed or reused problem can be told
from a good one. `RealTime` = TRUE adds the timing the code relies on: the sleeps in the
worker are longer than the master needs to get to `sigsuspend` and to reap, and no worker stops
itself before the master is there. With FALSE, time proves nothing: then a SIGCHLD can come in
the window between the last entry of the table and `sigsuspend` (master.c:193-205), where the
master is at `wait` before `Suspend`, and its handler runs too early to wake it. `JobControl`
says whether somebody (the kernel, for the orphaned group of a shell's job) continues stopped
workers when the master exits. Events are left out, as are hashes: what a solver returns is a
solution of the problem it was given, or nothing. It returns nothing when it has been canceled,
or when it has tried all its nonces in vain (worker.c:111), which is the case of the pairs of a
problem and a worker in the constant `Hopeless`.

### Miner

The hash solver's search, as operators: the first nonce of a variant, the counter that goes
through the nonces, and the nonce that `solve` returns for any set of solutions. The `ASSUME`s
at its end are evaluated by TLC in `MCPolya`, for nonces of three bytes with three values
each and all sets of one or two solutions: the counter counts, the variants are spaced, each
search finds the first solution at or after its start, and variant 0 misses none. The searches
do overlap (each goes on to the end of the space), against crypto_miner.c:119-120.

### Sfmm

Positions are 16-byte-aligned units of 64 bytes; `heap.hdr[p]` and `heap.foot[p]` are the
two words of `struct sf_block` at position `p` with their exact numeric values, flags
included, because the code adds and subtracts sizes and flags in one expression.
`heap.foot[p]` is the `prev_footer` stored *in* block `p`, as in the C structure. `next` and
`prev` are the links of blocks and list heads. An access to a place that is no block position
ends in the fault `wild`, an `abort()` in the fault `abort`. With `Writes` = TRUE a client
overwrites its whole payload (`Overwritten`): it clears the footer word and the links that lie
in it. Each C function has its operator, applied to the record `heap` in the order of the
calls. The operators were compared with the compiled program: about six thousand random
calls of malloc, free, realloc and memalign on one and on three pages, comparing all words
and links after each, without a difference.

`AnySpec` lets any client make any call. `Spec` restricts the clients, because the code does
not survive all of them (section 4): *queue* clients give everything back from the lowest
address, *stack* clients from the highest, *swap* clients give back any block and at once ask
for as much again. All ask for `CarefulSizes`, with which the wilderness is never used up (section
5.4); only queue clients write into the last 8 bytes of a block. The quota keeps the run small.

### Sequitur

`g` holds the fields of all symbols (by index into `symbol_storage`, with -1 for NULL), the
scalars of `const.h` and `digram_table`. Each C function that calls none of the three
recursive ones is an operator on `g` with its C name. The recursion is a stack of frames:
`check`, `match`, `replace` are calls, `second`, `enter`, `utility` and `right` the places
in `process_match` and `replace_digram` to come back to, with the local variables still needed
there. A step runs the topmost frame to its next call or its end; `found` is what
`check_digram` returned. The hash, the probing, tombstones and the comparison with slot 1 in
`digram_put` are as in the code; `abort()` and exhausted storage are faults. `EndBlock` is the
reset between blocks.

`AnySpec` takes any input; `Spec` only inputs in which no word stands twice in a row, because
for others the compressor loses data (section 4).

### Delivery (abstract) and Transmission

`Delivery` is what `compress` and `decompress` promise together: bytes are sent until the
input ends, then delivered in order, a block at a time (exactly `BlockSize` bytes, but for the
last), and the delivery is complete only when all have arrived.

`Transmission` extends `Sequitur` with the file between two runs of the program. `Byte`,
`DigestByte`, `BlockFull` and `InputEnds` are the loop of `compress`; `process_compression`
writes the grammar with the code's UTF-8 arithmetic on bytes and symbol values. The reader has
one action for each way through the loop of `decompress`: `Mark`, `FirstBlock`, `NextBlock`
and `LastBlock` (the branches of `check_special`), `Delimiter`, `Symbol`, and `FileEnds`, the
turn that takes EOF for a symbol. Its state `d` has `prev`, `curr_rule`, `main_rule` and
`rule_map`; since a rule is complete before anything points to it, these hold the rule itself
instead of a pointer. `FIRST_NONTERMINAL` is a constant, so that the values at which an
encoding grows by a byte are met with few rules. The symbols that `decompress` allocates are
not counted: they are no more than `compress` had. A NULL that is followed, or a rule that
contains itself, ends in `segv`.

### Options

The command line of the same program: `convert_string_int` with the width of an `int`,
`validargs` and the dispatch in `main` (together `main`), from a list of words to what the
program does. Its `ASSUME`s are evaluated in `MCTransmission`, with ints of 14 bits and halves of
12: the sizes of the usage message are taken and the ones above refused, and of all lines of
up to three words only the documented ones, the one with an empty size and the crash get past the
check. A size of 0, or one that overflows to something at most 1024, gets past it too
(const.h:25 says [1, 1024]); `-c -b` alone follows a NULL (comdec.c:528).

### InodeTable and Vtree

`InodeTable` is `hash.c` as operators on a record `t`: the tables, the one used last, the
addresses that are allocated and those that the end of `main` will free. A bucket's keys are
as they lie in memory: element 0 is never written, and the last key of a full bucket lies one
past its array. `EnterKey` grows such a bucket by `EXTEND` (100 in the code); whether `realloc`
moves the keys is a choice. The search compares `keys[0]` first, which is 0, and then takes the
key for new: inode 0 would never be found (`Seen`). `hash_clears`, the addresses to free, has
`CLEARS` elements (257*50 in the code), and nothing looks at their number when an address is
noted, nor when `main` goes through them up to a NULL. `Overrun` says that one has been noted
behind the array, `ReadsBeyond` that the loop of `main` reads there; what happens then depends on
what lies behind it, so the model ends in the status `overrun`. `Exit` has a disjunct for this,
one for the normal end, and one for the abort of a `free` that is wrong.

`Vtree` is the walk. An activation of `down` that could open its directory is a frame of
`stack`: what it keeps of the directory, how far it has got, the directory to return to, and
which of its two loops it is in. `cur_depth` is the number of frames.

| Action | Code |
|---|---|
| `Argument`, `ArgumentDone`, `Exit` | the loop of `vtree_main` over the names, and its end |
| `CountFile`, `FilesDone` | the loop over the files in `down`, and the line it prints |
| `SkipDot`, `WalkSub` | the loop over the subdirectories, with `get_data` (`Walk`) and the head of `down` (`Open`) |
| `Leave` | the end of `down` |

The file system does not change while it is walked. A tree maps each directory to its entries;
names are numbers in the order `strcmp` gives them. `Stat` looks a name up in the working
directory, as `stat` does, and leaves `stb` as it was for a name that leads nowhere (`Gone`),
since `is_directory` ignores what `stat` returns: so `Listing`, what `chk_4_dir` keeps of a
directory, depends on the names before. `Sorted` is the list after the bubble sort. The build is that of the Makefile, LINUX and
MEMORY_BASED without LSTAT, so that links are followed. `fds` only grows: `down` frees its
directory stream without closing it, and the descriptor is lost. `FdLimit` is less than
`MAX_V_DEPTH` (256), the levels that `sub_dirs` has room for.

## 3. Runs that pass

| Run | Instance | Asks | States |
|---|---|---|---|
| `pbx_calls` | 4 connections, 3 slots, 3 descriptors, prints never block, quiet clients | do locks and stores implement the promises (`ExchangeRefined`), do both ends agree, does chat arrive | 706,612 |
| `pbx_unplug` | 2 connections, 2 slots, buffer of one notice, clients that close at any time | locks, slots, notices; every operation ends (liveness) | 828,320 |
| `tester` | 2 test clients, 2 numbers, 2 lines in each direction of a connection | no false alarm; does a tester get ahead of its answers; does every command get one (liveness) | 208,511 |
| `polya_miner` | 2 workers, 3 problems, one worker tries one of them in vain, hash solver, `RealTime`, `JobControl` | does the table tell where the workers are, does every answer count as it should (`AnswersCount`), is nobody killed, does the master return with all solved and do the workers end (liveness) | 279,466 |
| `sfmm_careful` | pages of 8 units, 3 pages, requests of 4, 4 and 8 units (one fills its block), the three careful clients | the heap's invariants | 11,778 |
| `sequitur_words` | all square-free inputs of up to 18 bytes over three letters, 24 symbols, 31 slots | meaning, counts, storage, table, activations, utility, an end to every rewriting (liveness) | 41,543 |
| `transmission` | up to 15 bytes in blocks of 10, each block square-free, letters of one and two bytes (one has a mark as its second byte), the second rule of three bytes, 4 slots for digrams | does the reader deliver what was sent (`Delivered`, a refinement), block by block, does it end (liveness), and crash for one reason only | 292,198 |
| `vtree` | seven trees of up to five directories, three devices, 44 command lines, 2 buckets that grow by 2, room for 7 addresses in `hash_clears`, 12 descriptors | is every inode of a file counted once and every directory once for each path to it (`TotalsExact`), do columns end where they should, is memory freed once as long as `hash_clears` has room, does the walk end (liveness) | 8,980 |

*Why the bounds are enough.* `pbx_calls`: a call has two ends, the third unit is the
stranger who dials a busy one or sits in a reused slot, and the fourth connection meets the
descriptor limit. No step involves a third unit, and connections are interchangeable
(symmetry, used where no liveness is checked). `pbx_unplug` needs only the two ends of a call,
but every state of a socket, and a buffer that is full after one notice. `polya_miner`: with
two workers one can solve while the other is late; with three problems the memory of a
problem can be freed, reused by the next one, and freed again under the late worker. The second
worker tries the second problem in vain, so that a problem can be left to one worker while the
other gets it again and again.
`sfmm_careful`: one page has to be extended to satisfy the largest request, and the sizes
give three list classes, all four cases of `coalesce_blocks`, first-fit hits and misses, and
splitting of the wilderness; splitting a *listed* block is what the careful clients avoid. The
sizes are `CarefulSizes`, as the theorems of section 5.4 need them, which the run checks.
`sequitur_words`: 18 bytes over three letters are enough for every action to fire, rules
inside rules, expanded rules, recycled heads, tombstones and colliding hashes (31 slots are
probed past their end); 24 symbols are the least that never run out, so every one of them is
recycled and used again. `transmission`: two blocks meet every reset between blocks, and ten
bytes are enough for rules inside rules; 0x7FF, the main rule, and 0x800, the first other
one, are the values where encodings change length. The digram table has four slots, so that it fills with digrams and
tombstones, and lookups and insertions fail as they would for a long input in the real one.
`tester`: two clients are the two ends of a call, and also dial themselves; two lines
in a connection are the least in which an answer stands behind a crossing notice.
`vtree`: the trees have hard links within and across directories, equal inode numbers on several
devices, two paths to one directory, a directory that cannot be read and one that cannot be
entered, names that lead nowhere, a bucket that grows, and a link upwards; the command lines
mix the displays with levels, `-s`, `-d`, `-o` and several names. The trees without cycle
need fewer than 12 descriptors for a name; with the link upwards all 12 are used up, which is
how that walk ends. Seven elements of `hash_clears` leave room in the first six trees, also when a
bucket grows, so that the abort is reached; the
seventh tree notes more, and from one of its directories just seven, so that the array is overrun by a write,
or by the read at the end.
In `pbx_calls`, `ExtensionsIdentify` is checked up to a table that is just full.

*Deadlock* is checked in all runs but `sfmm_split`, where a faulted or full
heap has no next call. PBX and Polya have an explicit `Rest` for the states in which the
process has ended or nothing is left to do.

*Fairness.* PBX: a thread inside the switch keeps running (the threads are preemptively
scheduled and semaphores are granted, of which only one is contended at a time since
`mutex_pbx` is the outermost lock), and a client that has a notice to read reads it. Nothing
is assumed of new input, of connecting, or of threads that have not entered. The assumption
on clients is one the code *needs*: with a client that never reads, `dprintf` blocks inside
the switch. Polya: the master, its handler and every worker process keep running.
Tester: a tester runs on; a service thread that can take the switch and write infinitely often
does so at last (strong fairness, as the semaphore wakes its waiters in turn). `TestersGoOn` has
the condition that connections do not stay full, because the code needs it: a tester that
sends while nobody reads, and a server that writes with the switch locked, can wait for each
other for ever. Nothing is assumed of SIGHUP.
Sequitur: the program runs on while an activation is left; no input is promised. The fairness
formula there is weak fairness with its ENABLED written out (`Digesting`). Transmission: the
reading process runs on, written the same way. Vtree: the program runs on (`WF_vars(Step)`).

Each property is broken by a mutant of the code listed in `PROJECT.json`: an index one past
the table, an unlock of the wrong unit, a link stored on one side only, a notice printed to
the wrong client, a pointer kept from an earlier problem, a footer that is not written, a list
unlinked in one direction, a symbol recycled with its digram still in the table, and so on.

## 4. Runs that show disagreements

| Run | What the code does | What it is said to do |
|---|---|---|
| `pbx_stale_partner` | unregistering leaves the freed number in the partner; the next client with this number receives the partner's chat (pbx.c:114) | chat goes "to the peer TU" (pbx.h:211) |
| `polya_leftover` | the master leaves its loop with workers running, continues all, sleeps a second and sends SIGTERM; a worker that stops itself in between stays stopped for ever, where no shell continues it (master.c:331) | once all workers are idle, each is sent a SIGTERM and terminates (polya.h:297-301) |
| `sfmm_split` | splitting a listed block damages three headers; later two payloads overlap (sfmm.c:322) | a valid region is returned (sfmm.h:183-184) |
| `sequitur_loss` | a digram that is cut goes back into the table instead of its neighbour; the grammar loses part of the input (sequitur.c:58) | "there will still be one left ... put the digram back" (sequitur.c:46-48) |

`polya_leftover` uses the specification with fairness, so the counterexample is not a system
that just stops. The run of Sequitur was checked against the compiled compressor: `aaaaabaabab`
is given back as `aaaaabbab`.

The compiled `decompress` ends in a segmentation fault for the output of `compress` on `abc`,
as `CrashesOnlyOnOneRule` says: a block of one rule has no delimiter, and only a delimiter
makes a rule the main rule (comdec.c:401). An empty block, which ends an input of a whole number
of blocks, is such a block.

More disagreements are known without a run of their own. A symbol above 0xFFFF is written as
no byte at all (comdec.c:43), against "one to four bytes using UTF-8 encoding"
(sequitur.h:183-184): with `FirstNonterminal` = 65535 `Delivered` fails. With `RealTime` = FALSE the
master can wait for ever, against polya.h:295-302: `MasterReturns` fails. One worker is enough: it
stops, and the handler reaps it, while the master is between its last table entry and `sigsuspend`
(master.c:193-205), which then waits for a signal that has come already; with two, a merged signal
does the same. A client that finds the table full
is registered as extension 0, which somebody already has (pbx.c:71), against pbx.h:120: with
`NExt` = 2 `ExtensionsIdentify` fails.
`sf_free` reads the footer word of an allocated block, which belongs to the client, and aborts
if the client's data there is even (sfmm.c:388), against sfmm.h:212; this is why only queue
clients fill their blocks in `sfmm_careful`. SIGHUP frees the switch at
once (pbx.c:59), where pbx.h:69-70 promises to wait for all threads. The master of Polya posts
results with a pointer to a problem that may have been freed (master.c:288), against
polya.h:196-197; the model has the step, and `AnswersCount` shows that with real hashes it
happens only to answers that come too late: one that solves the current problem is judged by the right pointer and
clears it, and no other does. It also leaves its loop while workers are still running
(master.c:218), against polya.h:297-298. In Sequitur the digram at the right end of an
expanded rule is not entered (sequitur.c:131), and the compiled compressor's output for
`abcbabcacbc` has the digram bc twice, against sequitur.c:247. vtree remembers the address of
a bucket again when it has grown (hash.c:124) and frees it twice: the compiled program, run on
a directory of 40000 files, prints its result and aborts, against the normal exit that
hw2_tests.c:50 asserts; `ClearsSound` says that nothing else makes it abort as long as `hash_clears` has
room. That array is overrun when 12850 addresses have been noted (hash.c:30, 67, 114, 124): by 50
devices with a file in every bucket, well within the tables there are, or by a file system of some 1.3
million files. A directory that two paths or two arguments lead to is counted twice, with all that
is below it in directories (vtree.c:494), against "There is one inode for each distinct file or directory that is
encountered" (hw2_tests.c:162-163) and vtree.1:9; the inodes of its files are not.
`Expected` counts as the code does, a directory for each path: in the third tree of `MCVtree`, with the arguments
2 and 1 and `-h 1`, the total is 5, where there are 4. It does not close
directories (vtree.c:446): with 1024 descriptors, 182 of 1200 subdirectories "can't" be read.
With a limit of 20000 and a link upwards the stack overflows, and a walk deeper than 256 levels
writes past `sub_dirs`. The number of inodes, "excluding directories" by vtree.1:22, includes
them, and names that lead nowhere (`Misread` in `TotalsExact`).

## 5. What is proved

Each result holds for every value of the constants that the `ASSUME`s of its modules allow,
and for behaviours of any length; where it needs more, the last column says what.

| Theorem | Says | Needs |
|---|---|---|
| `TypeCorrect` (PBXProofs) | `[]TypeOK`: in particular the index `pbx_register` stores is in the table | |
| `LocksAreDisciplined` | `[]LockDiscipline` | |
| `SlotsAreSound` | `[]SlotsSound`: no slot points to a freed TU, even after slot 0 was taken over | |
| `NoticesAreTrue` | `[]ToldIsTrue` | |
| `ExtensionsAreIdentifying` | `[]ExtensionsIdentify` | room |
| `ImplementsExchange` | `PBX!Spec => ExchangeRefined`: the threads implement the exchange of `pbx.h` | room, quiet |
| `CallsAreSymmetric`, `ChatsReachPartners` | `[]CallsSymmetric`, `[]ChatReachesPartner` | room, quiet |
| `CallsCoupled` (ExchangeProofs) | the two ends of every call of the abstract exchange agree | |
| `TesterTypeCorrect`, `NoAlarmIsFalse`, `AheadOnlyWhenIdle` (TesterProofs) | `[]TesterTypeOK`, `[]NoFalseAlarm`, `[]AheadOnlyOnHook` | |
| `TypeCorrect` (PolyaProofs) | `[]TypeOK`: no freed problem is written to a worker | |
| `SolvedInTheEnd` | when the master has left its loop, every problem is solved, each once | |
| `AnswersDoCount` | `AnswersCount`: the answer that solves the current problem clears it, no other does, and a solution cancels those who work at its problem and nobody else | miner, time |
| `TableIsSound`, `NobodyIsKilled` | `[]StatusSound`, `[]NobodyKilled` | miner, time |
| `SfmmTypes`, `SfmmNeverFails`, `SfmmLiveApart` (SfmmProofs) | `[]TypeOK`, `[]NeverFails`, `[]LiveApart` | sizes |
| `SfmmHeapTiles`, `SfmmListsSound`, `SfmmFreeSound` | `[]HeapTiles`, `[]ListsSound`, `[]FreeSound` | sizes |
| `EnterRemembers` (VtreeProofs) | `h_enter` answers OLD exactly for what it was asked before, but for inode 0, and notes few addresses | |
| `CleanUpIsSound` | `[]ClearsSound`: `main` frees well unless a bucket grew or `hash_clears` was overrun, which takes as many devices and inodes as it has elements | |
| `CornersEndColumns` | `[]CornersRight`: each column of the visual display ends at its last branch | |
| `EachInodeOnce` | every file the walk counts is counted once, and none is forgotten, until `hash_clears` is overrun | |
| `PutIsFound`, `DeleteIsLost`, `PutOverwritesNothing` (SequiturProofs) | what the digram table answers after `digram_put` and `digram_delete` | a sound table |
| `GrammarMeaning` (GrammarProofs) | `[]ExpandsToInput`: at every call and return of the recursion the grammar stands for the input | |
| `GrammarNoAbort` | no abort of the compressor is reached | |
| `GrammarCounts`, `GrammarAccounted` | `[]CountsTrue`, `[]StorageAccounted` | |
| `GrammarTable`, `GrammarFrames` | `[]TableSound`, `[]FramesLive` | |
| `GrammarAlways`, `GrammarTyped` | `[]GrammarInv`, the inductive invariant, and `[]TypeOK` | |
| `SymbolsReadAsWritten` | the decoder reads every value up to 65535 that the encoder wrote, over as many bytes | |
| `TransmissionDelivers` (GrammarProofs) | `Delivered`: compress, its file and decompress together implement `Delivery` | values |
| `TransmissionCrashes` | `[]CrashesOnlyOnOneRule` | values |

*What the last column stands for.* Room: `FdLimit <= NExt`, the process runs out of descriptors
before the table runs out of slots. This is how the code is built: `PBX_MAX_EXTENSIONS` is
`FD_SETSIZE` (pbx.h:49), which is 1024, the usual limit of descriptors; without it the findings
of section 4 break `ExtensionsIdentify`. Quiet: `Unplugging = "quiet"`, a client closes its connection only
while its unit is on hook, in the run `pbx_calls` too; the code does not survive the others, as
`pbx_stale_partner` shows. Miner: `Kind = "miner"`, a solution fits its own problem only and carries its number. With the
trivial solver, whose results all carry the number 0 and fit anything, TLC finds the three
properties violated. Time: `RealTime`, the sleeps of master.c:248 and worker.c:72 are long
enough; the code has nothing else to rely on, and with `RealTime = FALSE` the merged signal of
section 4 breaks the table. Sizes: `CarefulSizes`. Block sizes are multiples of some number D of units, such that
k pages less prologue and epilogue leave a remainder of two units or more by D, for every k there can be.
For the real page of 64 units any D that is 4, 8, 16, 32 or 64 will do, whatever the number of pages.
Without it the wilderness can be taken whole, and what then grows carries a wrong flag (sfmm.c:230):
with pages of 10 units, sizes of 130, 184 and 320 bytes and a quota of 20 units TLC finds `NeverFails` violated. Values: `[]ValuesFit`, no block needs so many nonterminals that a value is beyond 65535, where
`get_encoded` writes nothing (comdec.c:43, 65); it follows neither from the size of the storage, which is
used again and again within a block, nor from anything else that is proved here.

### 5.1 The switch

`IInv` of `PBXProofs` has five parts, each proved to be kept by every step in a lemma of its
own, with one step per action:

1. `TypeOK`. The only action that could break it is taking a slot, so it rests on
   `FreeIndexLemma` (the search yields an index in the table, a free one if there is one),
   which rests on `LeastElement`.
2. `Shape`: where a thread is decides which branch it is on and whether its TU is unborn,
   live or freed. None of the other parts is inductive without it: the same program point
   serves several operations.
3. `Held`: `LockDiscipline`, and no thread takes itself for its partner. Without the second
   half a thread could lock its own unit twice, and the unlock would break the first.
4. `Slots`: `SlotsSound`, and a unit about to be freed is no longer in the table. `Held`
   gives that the table changes under `mutex_pbx` only.
5. `Told`: `ToldIsTrue`, and what is still to be printed while units are locked. Here
   `Held` says that a unit that is not locked is not being changed.

For the calls `QInv` is put on top of it: `Owns` and `RoomLeft` (a unit keeps its slot until it
gives it back, and there is one for each to come), `Closed` (a client that has left, has left an
idle unit that no thread is about), `Intent` (what an operation found when it tested the states
still holds when it stores), and `Calls`, the invariant `Coupled` of the abstract exchange
read through the refinement mapping. So the argument goes round: that the ends agree is not
shown of the threads, with their stores in between, but of the exchange, in `ExchangeProofs`;
each step of a thread is then shown to be a step of the exchange or none, *given* that the ends
agree before it; and so they agree after it. `Bars` says what the mapping comes to, with nobody
between two stores and with the one thread that can be. The results about the code are then read off where nobody is
between stores.

### 5.2 The test client

`TInv` says, for each client, how the lines on its connection continue what it knows. `After` is
the state it will have been told after so many of them. `LinesFollow`: each line follows from
the one before it, as a move of the other end or as an answer. `AnswerAt`: the answer to the last
command is the last answer of all. `Ahead`: the client has not waited for an answer only
if it is idle and its commands leave it so. `StaysIdle`: then nothing but that last answer takes
it out of the idle states, and so notices and answers that cross cannot contradict each other.
`UpToDate`: after all lines it has been told the state of its unit. `Expects` says that
its expected set is the one of the table for this situation; that the
table then allows the next line is `Allowed`, a case analysis of its entries. `m`, the position
of the answer, is guessed anew after each step. The two ends of a call enter through `Coupled`,
the invariant of the exchange. The proof is for any set of clients, any capacity of the channels and
any numbers dialled.

### 5.3 Polya

`Typed` adds to `TypeOK` that whatever is on its way to or from a worker was given to it, so that
the pointer the master posts a result with is one it stored. `Accounts` keeps the books of the
problems: they are made in order and solved in order, all but the current one are solved. Both hold for all
solvers and all timings. `Table` is the invariant of the table: each worker is in one of a few
*situations* (`Starting`, `Idle`, `Given`, `Working`, `Ended`), each of which fixes status,
place in the worker's loop, what `waitpid` has to tell, and how much is in its pipes; or its
status is behind by exactly one report (`Reported`). The timing enters in two places: a worker does not
continue into a second stop before the first was reaped, and it stops before the master looks.
`Spared` and `Numbered` make `NobodyKilled` follow: SIGHUP goes only to a worker that has its handler installed.

`AnswersDoCount` rests on what the table says of the problems. `Noted`: the number in the table is
that of the problem that is in a worker's pipe, in its hands, or in its answer; for this a problem may only be
assigned when nothing else is on its way, which is what `Table` says of an idle worker. `Kept`: where
that number is the one of the current problem, the pointer beside it is to the current problem. It
is kept when memory is used again because problems are numbered in order, and no number that has been noted is
as high as that of a new problem. So the answer that solves the current problem is
found by its pointer (`RightlyJudged`), and comparing numbers finds those who work at it and nobody
else (`RightlyFreed`).

### 5.4 The allocator

The properties of Sfmm are about words in memory; the invariant is about what they mean. `Row`
says that there is a row of blocks, told by a function `t` from each to its end (`Tiles`), that
it consists of the client's blocks, at most one *hole* `H` among them, and the wilderness `w`;
that headers and footers say so (`TaggedWith`), and that the lists hold the hole, in the list of its size, and the
wilderness, each in a ring of its own (`Linked`). One hole is what the habits of the careful
clients come to: the queue has it in front, the swapper where it has just freed, and asks for its
size at once, the stack never has one (`Behaved`). With `Spaced`, all blocks begin
at multiples of D, no request takes all of the wilderness or all but a unit (`WildernessLeft`), and `OddFeet` is the
reason why `validate_pointer` does not abort: the word behind a block, which it takes for a footer, is odd, as long
as the client leaves the last bytes of its blocks alone. The queue does not, but it has no need: it
frees the first block, whose footer word belongs to the prologue, or the one behind the hole.

Each operation of the code has a lemma that takes a row to a row: `InitHeapSound`, `GrowHeapSound` and
`GrowToSound`, `AllocateWildernessSound`, `AllocateHoleSound`, `OverwrittenSound` (the client writing
all it was given), and one for each of the four cases of `coalesce_blocks`, with where the block is put afterwards
(`FreeNoneSound`, `FreeNextSound`, `FreePrevSound`, `FreeBothSound`). `MallocFromWilderness`,
`MallocFromHole` and `DoFreeSound` put them together, `NextSound` adds the clients. That the
properties follow takes two more facts about walks in memory, both recursive functions: a ring
of one block is a list of one (`RingList`), and the chain of headers meets every block and
ends at the epilogue (`RowChain`). Nothing is assumed of `Quota`: the theorems hold when the heap
is full and `sf_malloc` fails, too. The split of a listed block (section 4) is never reached, which is not assumed but proved.

### 5.5 vtree

`TableSound` is the invariant of `hash.c` as a condition on a table: types, one table per
device, buckets that have an address once they are used, and the books of what is allocated
and remembered. Each of the three things `h_enter` can do to a table (find or make the
device's table, grow a bucket, push a key) has a lemma with the table's contents (`Has`) before
and after; `EnterRemembers` puts them together, and counts the addresses noted: one with a new
device, one at most with a new inode. `Bounded` carries that through the walk, as `hash_clears` can be no
fuller than the devices and inodes of the tree make it, however many of its files share a bucket. `WalkInv` then carries `TableSound` through the
walk, and `EachInodeOnce` is an action property of it: it speaks of the step that counts a
file, for any tree, any options and any number of buckets.

`ColumnsInv` is the invariant behind `CornersRight`. `Levels` bounds the depth: every activation
of `down` holds a descriptor for good, so there are never more than `FdLimit` of them, and that is
less than the levels of `sub_dirs`. `Columns` says of each activation (`FrameSound`) that it
stands in a directory of its level (`DirsAt`) that was to be entered, and goes
through names that lead to directories from there (`Subs`); and of each column that it counts the
names to come. Without the first half the second is not inductive: if `chdir` failed, or if
`chk_4_dir` had kept a name that leads nowhere, the walk would take fewer off the column than the listing
has put on. `ListingSound` shows that `chk_4_dir` is right in an entered directory without dead
names, although it looks at a buffer that others have written; `SortedSound` that the
bubble sort, or no sort, keeps the number of names. `WalkKeepsColumns` is the step into a
directory, `AdvancedSound` and `LeaveSound` are the others.

### 5.6 sequitur

`Served` is what the table must be for lookups to be right: each digram is in one slot only,
and its two values lead to it. `PutIsFound` and `DeleteIsLost` say that both operations keep
this, and what they change of the answers: one digram is found, or is found no more, all others
are found as before, tombstones and wrapped probes included. `PutIsFound` has the hypotheses that
no like digram is in the table, which the callers have looked up, and that a slot is vacant,
without which the table stays as it is; the digram must not be the one in slot 1, the other
exit of the code, which follows from the first. TLC confirms that these hypotheses hold where
`sequitur_words` enters a digram. `SymbolsReadAsWritten` is arithmetic on the bytes of one
symbol, with the marks: 0x81 to 0x85 never stand where a symbol begins.

*The grammar.* `Sound` says what the symbol storage is when all is well. There are rules `R` and
symbols `O` on right-hand sides; each list is circular, with its head (`Linked`); the rules are in a
ring in the order of their values (`Ringed`); the counts are those of the uses (`Counted`); the other
symbols of the storage wait for reuse, each at a rank of its own (`Spared`); every rule has
two symbols or more (`Bodied`), but for the main rule and a rule just being made. The meaning is put without recursion: each
symbol `s` stands for one stretch of the input, from `a[s]` to `z[s]`, where the next one begins
(`Stretched`), and each rule for the stretch of its list. A terminal is the byte of its
stretch, and a nonterminal stands for a stretch that has the same text as the one of its
rule (`Named`). So a rule has only to be compared with its uses, and never to be expanded.
Each operation of the code has a lemma in `SequiturProofs` that takes such a storage to such a
storage: `AppendSound`, `NewRuleSound`, `RecycleFields`, `DeleteFields`, `ReplaceSound` (a
digram gives way to a nonterminal), `ExpandSound` (the only use of a rule gives way to its list).

The recursion is what makes the invariant hard. Between two calls the grammar is rewritten by
activations that others know nothing of, which go on with the symbols they had. The
invariant bounds what can be on the stack by lengths of text. As no word comes twice in a row, no
digram overlaps its twin, and no two neighbours have the same value (`NoTwins`, `NoSelf`). When a byte is added, all that
can be checked is at the end of the main rule; a rewriting shortens the main rule there and makes its last symbol stand
for more. So (`Chain`) the activations of `process_match` that wait have each a rule of its own,
longer than those of the activations below and no longer than the last symbol of the main rule,
and nothing they wait to do is disturbed: a rule of a deeper activation, having more text, cannot
be the one that a waiting activation is about to enter into the table or to test for underuse. `Spine` is a set of
rules each of which ends another, from the main rule down: they cannot be expanded, because the only symbol
tested for underuse is a first one. `Phase` says what the activation on top is
about to do; it has six forms, among them the one in the middle of two replacements, where the second check
of `replace_digram` finds nothing because what stands on the left was checked before. `GrammarStep` goes
through the eight actions of the recursion and the byte that comes for the six forms.

The invariant says that the grammar stands for the input, but the properties say so as a walk and an
expansion would find it. The second part of `GrammarProofs` closes the gap: `WalkVisits` shows that
`Walk`, which doubles its reach at every turn, meets the nodes of a circular list, each once, in
order, and all of them, and from that `Accounts` gets that `Rules`, `Occurrences` and `Recycled`
are the sets of the invariant. `WordsRight` shows that as many rounds of expansion as there are rules
give each rule its text: the round at which a rule is right is the number of rules that are shorter (`Depths`).

*The transmission.* What stands in the file is a sequence of bytes put together by `FlattenSeq`; what the reader does
with it depends on where it is and on what it has read. Three facts lead from one to the other. `Places` gives every
symbol of a block its place: where it stands, and where the next one begins (`FlatJoins`, `StandsEach`).
`BlockReads`: a reader at the begin of a block goes through it, symbol by symbol and rule by rule, and
has then the rules of the block, the last one still in `curr_rule` (`Behind`). `TextRead`: what it expands
from that map is the text of the grammar. Its levels are counted by the map and not by the grammar, and so it is compared with the
stretches once more (`LevelsRight`, with the map's size from `MapCount`).

The invariant, `TransmissionInv`, has to say while bytes are still being compressed that a reader will come
through what is written later. It does so by a set of states of the reader (`Ready`): from each a turn of the
loop leads to another state of the set, or the program crashes as foreseen, or all that is written so far has been
read. A turn stays what it is when more is written or sent (`TurnLonger`, `TurnMore`), so each block adds
the states in which it is read (`BlockAppends`), and the last one the end (`ReadyLast`, `Followed`). No
induction over the file is needed: once `compress` has ended, the state of `decompress` is in the
set, and `ReadTurns` shows that the turn it takes is the one that leads on. `StepDelivers` reads the
steps of `Delivery` off these turns.

### 5.7 What takes the place of induction

Induction theorems of the library take a predicate as a parameter, which the provers here
cannot instantiate. `LeastNat` (SequiturProofs, SfmmProofs, VtreeProofs) takes its place: a nonempty set of
natural numbers has a least element, from the library's theorem that < is well-founded on Nat. The least
counterexample then gives induction for the one claim at hand: the first probe that hits is
one that exists, and a recursive function like `DirsAt` or `Chain` is defined up to any number
(`DirsAtExists`, `Iterated`) and stays in a set that its steps do not leave (`IteratedIn`).

## 6. What is only model-checked, and what is not modelled

*Model-checked only.* All liveness (`SwitchIsLeft`, `TestersGoOn`, `MasterReturns`,
`WorkersEnd`, `AlwaysDigested`, `AlwaysReturns`, and that vtree's walk ends): it needs fairness
and ENABLED, which the prover does not handle. `RulesUseful` of Sequitur: that a rule is never left
with one use rests on where its uses came from and on what the table held then, and the
invariant of section 5.6 does not remember that (with a full table a digram is missed, and the next one
to come is taken for new; TLC finds no violation with tables of 2 to 7 slots either).
That the values of a block fit into two bytes is an assumption of the theorems about Transmission; TLC
checks these properties without it, in blocks that need a few rules.
`TotalsExact` of Vtree speaks of all paths from the arguments, a recursively defined set, against
sums over the stack; its local half is `EachInodeOnce`.
What the operators of `Miner` and `Options` compute is checked by evaluation (`ASSUME`s), as they
use RECURSIVE operators or bits.

*Not modelled.* In PBX: what threads do with the switch that SIGHUP has freed, until the
process is gone (the rest of SIGHUP is in `Tester`); lines that were read before the
client closed its connection, which the loop of server.c:18-24 still carries out (`ReadLine` drops them); numbers dialled outside the table, which index arrays unchecked
(undefined behaviour without a useful set of outcomes), and signals other than SIGPIPE. In Tester: `-l`, options, setting up the connection. In Polya: failing `fork`, `pipe` and `malloc`; workers killed from outside; the
hashing. In Sfmm: words that are not at block positions, the comparison of a footer word with
an address (sfmm.c:383), which no footer is large enough to meet, but only a client's data (the clients
of the model write zeroes), the display functions of `sfutil.o`.
`sf_realloc` and `sf_memalign` are modelled and available in `AnySpec`, but not in a run that
passes: shrinking compares payload sizes with block sizes and does not round the remainder
right, and the ends `sf_memalign` gives back go through the splitting code. In Sequitur: repeated letters
lose data, so nothing is claimed for those inputs. In Transmission: failing
output, whose return values the code ignores, and files that `compress` did not write. In
vtree: what is printed, block counts (they go wherever the inode counts go), allocation that
fails, more devices than there are tables, what is overwritten behind `hash_clears`, inode 0 (no file system
of Linux gives it to a file), paths longer than NAMELEN, walks deeper than
`sub_dirs`, and `direct.c`, which is not compiled. hw0, the tests, `csapp.c` apart from the
wrappers PBX calls, and the parsing of options in hw4 and hw5.

The main hazards of every program, also of those not modelled yet, are in `PROJECT.json`,
each at its line, with the properties that cover it or the reason why none does. Lesser ones
are only noted here: `pbx_init` clears slot 0 over and over and relies on zeroed memory for
the rest (pbx.c:48); the master does not wait for its workers (master.c:347) and does not
survive a failed fork (master.c:165); `sf_realloc` frees the old block also when no new one
could be had (sfmm.c:698), and `sf_memalign` uses a failed allocation (sfmm.c:718); vtree
clears one element too many of two arrays (vtree.c:653); `decompress` returns EOF, the code
for failure, also on success (comdec.c:418).

## 7. Plan

Done: every module of section 2, and the proofs of section 5. What is left:

1. `RulesUseful`: the invariant of section 5.6 would have to remember, for each rule, where its uses are and which
   digrams the table has missed.
2. A bound on the nonterminals of a block by its length, which would replace `ValuesFit` by an assumption on `BlockSize`.
3. `TotalsExact` of Vtree, as an invariant that relates the sums on the stack to the set of files already counted.
4. Liveness stays with TLC.
