-------------------------------- MODULE PBX ---------------------------------
(***************************************************************************)
(* The telephone exchange server of hw5 (src/hw5/src: pbx.c, server.c,     *)
(* main.c): one service thread per client connection, all of them working  *)
(* on the switch `pbx' under the semaphore mutex_pbx and on telephone units *)
(* under their own mutex_tu.                                               *)
(*                                                                         *)
(* A connection stands for its file descriptor, for the thread that serves *)
(* it and for the TU this thread mallocs: the three are made one for one.   *)
(* Every P, every V, every store that another thread could see and every   *)
(* dprintf is a step of its own.  The kernel's side of a socket is external *)
(* and modelled by what the calls on it return (net, unread).               *)
(***************************************************************************)
EXTENDS Integers, FiniteSets

CONSTANTS Conns,        \* connections that may ever be made
          NExt,         \* PBX_MAX_EXTENSIONS
          SockCap,      \* notices a socket buffers before dprintf blocks;
                        \* 0: clients read each notice as it is sent
          FdLimit,      \* connections the process has descriptors for
          Unplugging,   \* how clients unplug: see ClientCloses
          Garbage,      \* what malloc may leave in `connected', which nobody sets
          NoConn        \* the NULL of TU pointers, "nobody" for semaphores

Ext == 0 .. NExt - 1
NoExt == -1             \* no extension: any number outside the slot table

ASSUME ConnsAssumption == IsFiniteSet(Conns) /\ NoConn \notin Conns
ASSUME BoundsAssumption == NExt \in Nat \ {0} /\ SockCap \in Nat /\ FdLimit \in Nat
ASSUME EnvAssumption == Unplugging \in {"quiet", "orderly", "any"} /\ Garbage \subseteq Ext \cup {NoExt}

TUStates == {"ON HOOK", "RINGING", "DIAL TONE", "RING BACK", "BUSY SIGNAL",
             "CONNECTED", "ERROR"}
InCall == {"RINGING", "RING BACK", "CONNECTED"}

\* One line of client input as pbx_client_service dispatches it.
NoInput == [op |-> "none", ext |-> 0]
Commands == [op : {"pickup", "hangup", "chat"}, ext : {0}] \cup [op : {"dial"}, ext : Ext]

\* The path through an operation once its state test is made.
TwoUnit == {"answer", "refuse", "cancel", "end", "ring", "chat"}
Paths == TwoUnit \cup {"none", "alone", "register", "register_failed", "unregister"}

VARIABLES
  isFree, telephone_units, registered_tu,   \* struct pbx; isFree = 1 means taken
  mutex_pbx,                                \* who has P'ed it, or NoConn
  state, extension_number, connected,       \* struct tu, by connection
  mutex_tu,
  life,                                     \* is the TU malloced, in use, freed
  pc, input, path,                          \* per service thread
  net, unread, told,                        \* per client socket (external)
  server                                    \* the process

switch == <<isFree, telephone_units, registered_tu>>
units  == <<state, extension_number, connected, life>>
locks  == <<mutex_pbx, mutex_tu>>
sock   == <<net, unread, told>>
vars   == <<switch, units, locks, pc, input, path, sock, server>>

Switching == {"reg_take", "reg_print", "lock_tu", "body", "lock_peer", "own",
              "peer", "link", "print_own", "print_peer", "v_peer", "v_tu",
              "v_pbx", "unreg_tu", "unreg_clear", "unreg_free"}
Points == Switching \cup
          {"unborn", "reg_lock", "read", "lock", "lock_stale", "unreg_lock", "done"}

\* A notice is what print_state writes: a state and, for two of them, a number.
Notice(u) == <<state[u], IF state[u] = "ON HOOK" THEN extension_number[u]
                         ELSE IF state[u] = "CONNECTED" THEN connected[u] ELSE NoExt>>
NoNotice == <<"none", NoExt>>

\* The variables keep their types; what could break it is an index or a pointer that the
\* search of pbx_register or the lookup of a partner computes (pbx.c:64-140).
TypeOK ==
  /\ isFree \in [Ext -> {0, 1}]
  /\ telephone_units \in [Ext -> Conns \cup {NoConn}]
  /\ registered_tu \in Int
  /\ mutex_pbx \in Conns \cup {NoConn}
  /\ mutex_tu \in [Conns -> Conns \cup {NoConn}]
  /\ state \in [Conns -> TUStates]
  /\ extension_number \in [Conns -> Ext \cup {NoExt}]
  /\ connected \in [Conns -> Ext \cup {NoExt}]
  /\ life \in [Conns -> {"unborn", "live", "freed"}]
  /\ pc \in [Conns -> Points]
  /\ input \in [Conns -> Commands \cup {NoInput}]
  /\ path \in [Conns -> Paths]
  /\ net \in [Conns -> {"open", "fin", "rst", "dead"}]
  /\ unread \in [Conns -> 0 .. SockCap]
  /\ told \in [Conns -> (TUStates \cup {"none"}) \X (Ext \cup {NoExt})]
  /\ server \in {"up", "exit", "sigsegv", "sigpipe"}

\* pbx_init, before the first accept.
Init ==
  /\ isFree = [e \in Ext |-> 0]
  /\ telephone_units = [e \in Ext |-> NoConn]
  /\ registered_tu = 0
  /\ mutex_pbx = NoConn
  /\ mutex_tu = [c \in Conns |-> NoConn]
  /\ state = [c \in Conns |-> "ON HOOK"]
  /\ extension_number = [c \in Conns |-> NoExt]
  /\ connected = [c \in Conns |-> NoExt]
  /\ life = [c \in Conns |-> "unborn"]
  /\ pc = [c \in Conns |-> "unborn"]
  /\ input = [c \in Conns |-> NoInput]
  /\ path = [c \in Conns |-> "none"]
  /\ net = [c \in Conns |-> "open"]
  /\ unread = [c \in Conns |-> 0]
  /\ told = [c \in Conns |-> NoNotice]
  /\ server = "up"

-----------------------------------------------------------------------------
(* Building blocks.                                                        *)

Step(t, from, to) ==
  /\ server = "up"
  /\ pc[t] = from
  /\ pc' = [pc EXCEPT ![t] = to]

\* P and V of csapp.c: sem_wait blocks while somebody else is inside.
P_pbx(t) == mutex_pbx = NoConn /\ mutex_pbx' = t /\ UNCHANGED mutex_tu
P_tu(t, u) == /\ mutex_tu[u] = NoConn
              /\ mutex_tu' = [mutex_tu EXCEPT ![u] = t]
              /\ UNCHANGED mutex_pbx
V_pbx == mutex_pbx' = NoConn /\ UNCHANGED mutex_tu
V_tu(u) == mutex_tu' = [mutex_tu EXCEPT ![u] = NoConn] /\ UNCHANGED mutex_pbx

(* One dprintf on u's descriptor, by what the kernel does with it.  To an  *)
(* open client it blocks while the buffer is full.  To one that has closed *)
(* it succeeds, and the client's kernel may answer with a reset.  A pending *)
(* reset is reported once, as -1; writing after that raises SIGPIPE, which *)
(* the server neither handles nor ignores.                                 *)
Dprintf(u, notice) ==
  \/ /\ net[u] = "open"
     /\ \/ SockCap = 0 /\ UNCHANGED unread
        \/ unread[u] < SockCap /\ unread' = [unread EXCEPT ![u] = @ + 1]
     /\ told' = [told EXCEPT ![u] = notice]
     /\ UNCHANGED <<net, server>>
  \/ /\ net[u] = "fin"
     /\ \E after \in {"fin", "dead"} : net' = [net EXCEPT ![u] = after]
     /\ UNCHANGED <<unread, told, server>>
  \/ /\ net[u] = "rst"
     /\ net' = [net EXCEPT ![u] = "dead"]
     /\ UNCHANGED <<unread, told, server>>
  \/ /\ net[u] = "dead"
     /\ server' = "sigpipe"
     /\ UNCHANGED sock

-----------------------------------------------------------------------------
(* main: the accept loop.  No descriptor is ever closed, so connections,    *)
(* not current clients, are what the limit counts; Accept of csapp.c exits  *)
(* the process when accept fails.                                          *)

Accepted == {c \in Conns : pc[c] # "unborn"}

Accept(t) ==
  /\ Cardinality(Accepted) < FdLimit
  /\ Step(t, "unborn", "reg_lock")
  /\ UNCHANGED <<switch, units, locks, input, path, sock, server>>

AcceptFails(t) ==
  /\ server = "up"
  /\ pc[t] = "unborn"
  /\ Cardinality(Accepted) >= FdLimit
  /\ server' = "exit"
  /\ UNCHANGED <<switch, units, locks, pc, input, path, sock>>

-----------------------------------------------------------------------------
(* pbx_register                                                            *)

\* Mutant: the slots are searched from the end, counted from 1 but not counted back.
FreeIndexOffByOne ==
  IF \E e \in Ext : isFree[e] = 0
  THEN CHOOSE e \in 1 .. NExt : isFree[e - 1] = 0 /\ \A f \in e .. NExt - 1 : isFree[f] # 0
  ELSE 0

\* Mutant: isFree is read by its name, not by its use (1 stands for taken).
FreeIndexByName ==
  IF \E e \in Ext : isFree[e] = 1 THEN CHOOSE e \in Ext : isFree[e] = 1 ELSE 0

\* The first free index; 0, as index is initialised, when the loop finds none.
FreeIndex ==
  IF \E e \in Ext : isFree[e] = 0
  THEN CHOOSE e \in Ext : isFree[e] = 0 /\ \A f \in 0 .. e - 1 : isFree[f] # 0
  ELSE 0

RegisterLock(t) ==
  /\ Step(t, "reg_lock", "reg_take")
  /\ P_pbx(t)
  /\ UNCHANGED <<switch, units, input, path, sock, server>>

RegisterTake(t) ==
  /\ Step(t, "reg_take", "reg_print")
  /\ isFree' = [isFree EXCEPT ![FreeIndex] = 1]
  /\ telephone_units' = [telephone_units EXCEPT ![FreeIndex] = t]
  /\ registered_tu' = registered_tu + 1
  /\ extension_number' = [extension_number EXCEPT ![t] = FreeIndex]
  /\ state' = [state EXCEPT ![t] = "ON HOOK"]
  /\ life' = [life EXCEPT ![t] = "live"]
  /\ \E g \in Garbage : connected' = [connected EXCEPT ![t] = g]
  /\ mutex_tu' = [mutex_tu EXCEPT ![t] = t]
  /\ UNCHANGED <<mutex_pbx, input, path, sock, server>>

\* dprintf's -1 ends the registration with NULL, the slot left as it is.
RegisterPrint(t) ==
  /\ Step(t, "reg_print", "v_tu")
  /\ Dprintf(t, Notice(t))
  /\ path' = [path EXCEPT ![t] = IF net[t] = "rst" THEN "register_failed" ELSE "register"]
  /\ UNCHANGED <<switch, units, locks, input>>

-----------------------------------------------------------------------------
(* pbx_client_service: the service loop.                                   *)

\* fscanf gets a line; which one is settled when its operation starts.
ReadLine(t) ==
  /\ net[t] = "open"
  /\ Step(t, "read", "lock")
  /\ UNCHANGED <<switch, units, locks, input, path, sock, server>>

ReadEOF(t) ==
  /\ net[t] \in {"fin", "dead"}
  /\ Step(t, "read", "unreg_lock")
  /\ UNCHANGED <<switch, units, locks, input, path, sock, server>>

\* A read error leaves user_input as it was, and feof does not report it: the
\* last line is dispatched again.  Before the first line no command matches.
ReadError(t) ==
  /\ net[t] = "rst"
  /\ Step(t, "read", IF input[t] = NoInput THEN "read" ELSE "lock_stale")
  /\ net' = [net EXCEPT ![t] = "dead"]
  /\ UNCHANGED <<switch, units, locks, input, path, unread, told, server>>

\* Quiet unplugging includes that nobody dials a unit whose client has closed.
Lines == {cmd \in Commands :
            Unplugging = "quiet" /\ cmd.op = "dial" /\ telephone_units[cmd.ext] # NoConn
              => net[telephone_units[cmd.ext]] = "open"}

Lock(t) ==
  /\ \/ /\ Step(t, "lock", "lock_tu")
        /\ \E cmd \in Lines : input' = [input EXCEPT ![t] = cmd]
     \/ /\ Step(t, "lock_stale", "lock_tu")
        /\ UNCHANGED input
  /\ P_pbx(t)
  /\ UNCHANGED <<switch, units, path, sock, server>>

LockTU(t) ==
  /\ Step(t, "lock_tu", "body")
  /\ P_tu(t, t)
  /\ UNCHANGED <<switch, units, input, path, sock, server>>

-----------------------------------------------------------------------------
(* The bodies of tu_pickup, tu_hangup, tu_dial and tu_chat up to the point *)
(* where they either have changed this unit alone or need the other one.   *)

Chosen(t, op) == pc[t] = "body" /\ input[t].op = op

\* The operation concerns this unit only; its state becomes s.
Solo(t, s) ==
  /\ Step(t, "body", "print_own")
  /\ state' = [state EXCEPT ![t] = s]
  /\ path' = [path EXCEPT ![t] = "alone"]
  /\ UNCHANGED <<switch, extension_number, connected, life, locks, input, sock, server>>

\* The operation goes on to lock the unit at the other end.
Pair(t, how) ==
  /\ Step(t, "body", "lock_peer")
  /\ path' = [path EXCEPT ![t] = how]
  /\ UNCHANGED <<switch, units, locks, input, sock, server>>

PickUp(t) ==
  /\ Chosen(t, "pickup")
  /\ \/ state[t] = "ON HOOK" /\ Solo(t, "DIAL TONE")
     \/ state[t] = "RINGING" /\ Pair(t, "answer")
     \/ state[t] \notin {"ON HOOK", "RINGING"} /\ Solo(t, state[t])

HangUp(t) ==
  /\ Chosen(t, "hangup")
  /\ \/ state[t] \notin InCall /\ Solo(t, "ON HOOK")
     \/ state[t] = "RINGING" /\ Pair(t, "refuse")
     \/ state[t] = "RING BACK" /\ Pair(t, "cancel")
     \/ state[t] = "CONNECTED" /\ Pair(t, "end")

\* Mutant: any registered extension can be rung, whatever its state.
DialNeverBusy(t) ==
  LET ext == input[t].ext IN
  /\ Chosen(t, "dial")
  /\ \/ state[t] # "DIAL TONE" /\ Solo(t, state[t])
     \/ /\ state[t] = "DIAL TONE"
        /\ \/ isFree[ext] = 0 /\ Solo(t, "ERROR")
           \/ isFree[ext] # 0 /\ telephone_units[ext] # t /\ Pair(t, "ring")
           \/ isFree[ext] # 0 /\ telephone_units[ext] = t /\ Solo(t, "BUSY SIGNAL")

Dial(t) ==
  LET ext == input[t].ext IN
  /\ Chosen(t, "dial")
  /\ \/ state[t] # "DIAL TONE" /\ Solo(t, state[t])
     \/ /\ state[t] = "DIAL TONE"
        /\ \/ isFree[ext] = 0 /\ Solo(t, "ERROR")
           \/ /\ isFree[ext] # 0
              /\ state[telephone_units[ext]] = "ON HOOK"
              /\ Pair(t, "ring")
           \/ /\ isFree[ext] # 0
              /\ state[telephone_units[ext]] # "ON HOOK"
              /\ Solo(t, "BUSY SIGNAL")

Chat(t) ==
  /\ Chosen(t, "chat")
  /\ \/ state[t] = "CONNECTED" /\ Pair(t, "chat")
     \/ state[t] # "CONNECTED" /\ Solo(t, state[t])

-----------------------------------------------------------------------------
(* The part the two-unit operations share, in the order of the code: P of  *)
(* the peer, own state, peer's state, the two `connected' of a dial, the   *)
(* two notices, the V's.                                                   *)

\* telephone_units[tu->connected], or telephone_units[ext] in tu_dial.
PeerExt(t) == IF path[t] = "ring" THEN input[t].ext ELSE connected[t]
TUAt(e) == IF e \in Ext THEN telephone_units[e] ELSE NoConn
PeerOf(t) == TUAt(PeerExt(t))

OwnAfter == [how \in TwoUnit \ {"chat"} |->
  IF how = "answer" THEN "CONNECTED" ELSE IF how = "ring" THEN "RING BACK" ELSE "ON HOOK"]

\* Mutant: hanging up leaves the other end of a connected call as it was.
PeerAfterStays == [how \in TwoUnit \ {"chat"} |->
  IF how \in {"answer", "end"} THEN "CONNECTED"
  ELSE IF how = "ring" THEN "RINGING"
  ELSE IF how = "cancel" THEN "ON HOOK" ELSE "DIAL TONE"]

PeerAfter == [how \in TwoUnit \ {"chat"} |->
  IF how = "answer" THEN "CONNECTED"
  ELSE IF how = "ring" THEN "RINGING"
  ELSE IF how = "cancel" THEN "ON HOOK" ELSE "DIAL TONE"]

LockPeer(t) ==
  /\ Step(t, "lock_peer", IF path[t] = "chat" THEN "print_own" ELSE "own")
  /\ PeerOf(t) # NoConn
  /\ P_tu(t, PeerOf(t))
  /\ UNCHANGED <<switch, units, input, path, sock, server>>

\* The slot is NULL, or there is no such slot: ->mutex_tu faults.
PeerFault(t) ==
  /\ server = "up"
  /\ pc[t] = "lock_peer"
  /\ PeerOf(t) = NoConn
  /\ server' = "sigsegv"
  /\ UNCHANGED <<switch, units, locks, pc, input, path, sock>>

WriteOwn(t) ==
  /\ Step(t, "own", "peer")
  /\ state' = [state EXCEPT ![t] = OwnAfter[path[t]]]
  /\ UNCHANGED <<switch, extension_number, connected, life, locks, input, path, sock, server>>

WritePeer(t) ==
  /\ Step(t, "peer", IF path[t] = "ring" THEN "link" ELSE "print_own")
  /\ state' = [state EXCEPT ![PeerOf(t)] = PeerAfter[path[t]]]
  /\ UNCHANGED <<switch, extension_number, connected, life, locks, input, path, sock, server>>

\* Mutant: the called unit is not told who calls.
LinkOneWay(t) ==
  /\ Step(t, "link", "print_own")
  /\ connected' = [connected EXCEPT ![t] = input[t].ext]
  /\ UNCHANGED <<switch, state, extension_number, life, locks, input, path, sock, server>>

Link(t) ==
  /\ Step(t, "link", "print_own")
  /\ connected' = [connected EXCEPT ![t] = input[t].ext, ![PeerOf(t)] = extension_number[t]]
  /\ UNCHANGED <<switch, state, extension_number, life, locks, input, path, sock, server>>

PrintOwn(t) ==
  /\ Step(t, "print_own", IF path[t] \in TwoUnit THEN "print_peer" ELSE "v_tu")
  /\ Dprintf(t, Notice(t))
  /\ UNCHANGED <<switch, units, locks, input, path>>

\* Mutant: print_state(tu) a second time, where the peer is meant.
PrintOwnTwice(t) ==
  /\ Step(t, "print_peer", "v_peer")
  /\ Dprintf(t, Notice(t))
  /\ UNCHANGED <<switch, units, locks, input, path>>

\* print_state(peer), or the CHAT line, which changes no state.
PrintPeer(t) ==
  /\ Step(t, "print_peer", "v_peer")
  /\ Dprintf(PeerOf(t), IF path[t] = "chat" THEN told[PeerOf(t)] ELSE Notice(PeerOf(t)))
  /\ UNCHANGED <<switch, units, locks, input, path>>

\* Mutant: V of the own mutex where the peer's is meant.
UnlockOwnTwice(t) ==
  /\ Step(t, "v_peer", "v_tu")
  /\ V_tu(t)
  /\ UNCHANGED <<switch, units, input, path, sock, server>>

UnlockPeer(t) ==
  /\ Step(t, "v_peer", "v_tu")
  /\ V_tu(PeerOf(t))
  /\ UNCHANGED <<switch, units, input, path, sock, server>>

UnlockTU(t) ==
  /\ Step(t, "v_tu", "v_pbx")
  /\ V_tu(t)
  /\ UNCHANGED <<switch, units, input, path, sock, server>>

\* The line read last matters to ReadError alone; once that cannot follow any
\* more the model forgets it.
ReadErrorMayFollow(t) == Unplugging = "any" /\ net[t] \in {"open", "rst"}

\* Back to the loop, or the end of the thread.
UnlockPbx(t) ==
  /\ Step(t, "v_pbx", IF path[t] \in {"register_failed", "unregister"} THEN "done" ELSE "read")
  /\ V_pbx
  /\ path' = [path EXCEPT ![t] = "none"]
  /\ input' = [input EXCEPT ![t] = IF ReadErrorMayFollow(t) THEN @ ELSE NoInput]
  /\ UNCHANGED <<switch, units, sock, server>>

-----------------------------------------------------------------------------
(* pbx_unregister: the unit leaves, its call partner is not looked at.     *)

UnregisterLock(t) ==
  /\ Step(t, "unreg_lock", "unreg_tu")
  /\ P_pbx(t)
  /\ UNCHANGED <<switch, units, input, path, sock, server>>

UnregisterLockTU(t) ==
  /\ Step(t, "unreg_tu", "unreg_clear")
  /\ P_tu(t, t)
  /\ UNCHANGED <<switch, units, input, path, sock, server>>

\* Mutant: the slot is marked free but still points to the unit.
UnregisterKeepsPointer(t) ==
  /\ Step(t, "unreg_clear", "unreg_free")
  /\ isFree' = [isFree EXCEPT ![extension_number[t]] = 0]
  /\ V_tu(t)
  /\ UNCHANGED <<telephone_units, registered_tu, units, input, path, sock, server>>

UnregisterClear(t) ==
  /\ Step(t, "unreg_clear", "unreg_free")
  /\ telephone_units' = [telephone_units EXCEPT ![extension_number[t]] = NoConn]
  /\ isFree' = [isFree EXCEPT ![extension_number[t]] = 0]
  /\ V_tu(t)
  /\ UNCHANGED <<registered_tu, units, input, path, sock, server>>

UnregisterFree(t) ==
  /\ Step(t, "unreg_free", "v_pbx")
  /\ life' = [life EXCEPT ![t] = "freed"]
  /\ registered_tu' = registered_tu - 1
  /\ path' = [path EXCEPT ![t] = "unregister"]
  /\ UNCHANGED <<isFree, telephone_units, state, extension_number, connected, locks,
                 input, sock, server>>

-----------------------------------------------------------------------------
(* Clients (external) and the death of the process.                        *)

ClientReads(c) ==
  /\ server = "up"
  /\ net[c] = "open" /\ unread[c] > 0
  /\ unread' = [unread EXCEPT ![c] = @ - 1]
  /\ UNCHANGED <<switch, units, locks, pc, input, path, net, told, server>>

\* The thread inside the switch, if any, is neither dialing c nor at work on it.
Undisturbed(c) ==
  \A t \in Conns : pc[t] \in Switching =>
    /\ path[t] \in TwoUnit => PeerOf(t) # c
    /\ pc[t] \in {"lock_tu", "body"} => input[t] # [op |-> "dial", ext |-> extension_number[c]]

(* A client closes its end: "quiet", only while its unit is idle and nobody *)
(* is about to ring it; "orderly", at any time but with every notice read;  *)
(* "any", also with notices still unread or because the network has given   *)
(* the connection up, and then what arrives is a reset.                     *)
ClientCloses(c) ==
  /\ server = "up"
  /\ net[c] = "open"
  /\ pc[c] \notin {"unborn", "done"}
  /\ Unplugging = "quiet" =>
                    /\ pc[c] = "read" /\ state[c] = "ON HOOK" /\ unread[c] = 0
                    /\ Undisturbed(c)
  /\ \E after \in (IF unread[c] = 0 THEN {"fin"} ELSE {}) \cup (IF Unplugging = "any" THEN {"rst"} ELSE {}) :
        net' = [net EXCEPT ![c] = after]
  /\ unread' = [unread EXCEPT ![c] = 0]
  /\ told' = [told EXCEPT ![c] = NoNotice]
  /\ UNCHANGED <<switch, units, locks, pc, input, path, server>>

\* The process is gone, or all threads are and accept waits for ever.
Ended == \/ server # "up"
         \/ \A c \in Conns : pc[c] = "done"

Rest == Ended /\ UNCHANGED vars

-----------------------------------------------------------------------------
Register(t) == RegisterLock(t) \/ RegisterTake(t) \/ RegisterPrint(t)
Serve(t) == ReadLine(t) \/ ReadEOF(t) \/ ReadError(t) \/ Lock(t) \/ LockTU(t)
Decide(t) == PickUp(t) \/ HangUp(t) \/ Dial(t) \/ Chat(t)
Finish(t) == \/ LockPeer(t) \/ PeerFault(t) \/ WriteOwn(t) \/ WritePeer(t) \/ Link(t)
             \/ PrintOwn(t) \/ PrintPeer(t) \/ UnlockPeer(t) \/ UnlockTU(t) \/ UnlockPbx(t)
Unregister(t) == \/ UnregisterLock(t) \/ UnregisterLockTU(t) \/ UnregisterClear(t)
                 \/ UnregisterFree(t)
Thread(t) == Register(t) \/ Serve(t) \/ Decide(t) \/ Finish(t) \/ Unregister(t)
Client(c) == ClientReads(c) \/ ClientCloses(c)

Next == \/ \E t \in Conns : Accept(t) \/ AcceptFails(t) \/ Thread(t) \/ Client(t)
        \/ Rest

Spec == Init /\ [][Next]_vars

(* A thread inside the switch is run whenever it can run, and a client that *)
(* keeps its connection open keeps reading it.  Nothing is assumed of a     *)
(* thread that waits for mutex_pbx: sem_wait promises no order of arrival.  *)
Fairness == \A t \in Conns : /\ WF_vars(pc[t] \in Switching /\ Thread(t))
                             /\ WF_vars(ClientReads(t))
FairSpec == Spec /\ Fairness

-----------------------------------------------------------------------------
(* Properties.                                                             *)

\* What a thread holds at each point: mutex_pbx throughout an operation, its
\* own unit's mutex and, for two-unit operations, the other unit's.
HoldsOwn(t) == pc[t] \in {"reg_print", "body", "lock_peer", "own", "peer", "link",
                          "print_own", "print_peer", "v_peer", "v_tu", "unreg_clear"}
HoldsPeer(t) == \/ pc[t] \in {"own", "peer", "link", "print_peer", "v_peer"}
                \/ pc[t] = "print_own" /\ path[t] \in TwoUnit

\* The nesting mutex_pbx / own mutex_tu / peer's mutex_tu is never broken: one
\* thread at most is inside the switch, it owns every lock it counts on, and no
\* unit stays locked behind a thread that has left (pbx.c:155-185 and its kin).
LockDiscipline ==
  /\ \A t \in Conns : pc[t] \in Switching <=> mutex_pbx = t
  /\ \A t \in Conns : HoldsOwn(t) => mutex_tu[t] = t
  /\ \A t \in Conns : HoldsPeer(t) => PeerOf(t) # NoConn /\ mutex_tu[PeerOf(t)] = t
  /\ \A u \in Conns : mutex_tu[u] # NoConn =>
        LET t == mutex_tu[u] IN \/ HoldsOwn(t) /\ u = t
                                \/ HoldsPeer(t) /\ u = PeerOf(t)

\* The slot table never dangles: a slot is taken exactly when it points to a TU,
\* and that TU is allocated, not freed, and knows itself by this number, so that
\* tu_dial's telephone_units[ext]->state reads a live unit (pbx.c:255-262).
SlotsSound ==
  /\ \A e \in Ext : isFree[e] = 1 <=> telephone_units[e] # NoConn
  /\ \A e \in Ext : telephone_units[e] # NoConn =>
        /\ life[telephone_units[e]] = "live"
        /\ extension_number[telephone_units[e]] = e
  /\ \A t \in Conns : pc[t] = "body" => life[t] = "live"

\* A client that is still connected and whose unit nobody is working on has been
\* told the state its unit is in, whoever changed it last ("In all cases, a
\* notification of the new state is sent", pbx.h:138).
ToldIsTrue ==
  \A u \in Conns : life[u] = "live" /\ net[u] = "open" /\ mutex_tu[u] = NoConn
                     => told[u] = Notice(u)

\* Both ends of a call agree, whenever the switch is at rest: each is the other's
\* partner and their states match.  Two stores under two locks, and an extension
\* number instead of a pointer, stand between the code and this.
Opposite == [s \in InCall |-> IF s = "RINGING" THEN "RING BACK"
                              ELSE IF s = "RING BACK" THEN "RINGING" ELSE "CONNECTED"]
Partnered(u) ==
  LET v == TUAt(connected[u]) IN
  /\ v \notin {NoConn, u}
  /\ state[v] = Opposite[state[u]]
  /\ connected[v] = extension_number[u]
CallsSymmetric ==
  mutex_pbx = NoConn =>
    \A u \in Conns : life[u] = "live" /\ state[u] \in InCall => Partnered(u)

\* A chat line goes to the unit the sender is connected to and to nobody else
\* ("the specified message is sent ... to the peer TU", pbx.h:211).
ChatReachesPartner ==
  \A t \in Conns : pc[t] = "print_peer" /\ path[t] = "chat" => Partnered(t)

\* While the table has room, registered units have distinct extensions, whichever order
\* they came and went in: a number "is used to identify a particular TU in calls to
\* tu_dial" (pbx.h:120).
ExtensionsIdentify ==
  \A u, v \in Conns : u # v /\ life[u] = "live" /\ life[v] = "live"
                        => extension_number[u] # extension_number[v]

\* Whoever enters the switch leaves it, though it writes to sockets inside: no
\* call, notice or unregistration can hang the exchange as long as clients read.
SwitchIsLeft ==
  \A t \in Conns : pc[t] \in Switching ~> (pc[t] \notin Switching \/ server # "up")

-----------------------------------------------------------------------------
(* The refinement: a two-unit operation takes effect as a whole when its    *)
(* own state is stored; until the other stores are made they are added here. *)

Plugged(u) == life[u] = "live" /\ telephone_units[extension_number[u]] = u

Storing(t, u) == pc[t] = "peer" /\ PeerOf(t) = u
Linking(t) == pc[t] \in {"peer", "link"} /\ path[t] = "ring"

PhoneBar == [u \in Conns |->
  IF ~Plugged(u) THEN "ON HOOK"
  ELSE IF \E t \in Conns : Storing(t, u)
       THEN PeerAfter[path[CHOOSE t \in Conns : Storing(t, u)]]
       ELSE state[u]]

LinkBar(u) ==
  IF Linking(u) THEN input[u].ext
  ELSE IF \E t \in Conns : Linking(t) /\ PeerOf(t) = u
       THEN extension_number[CHOOSE t \in Conns : Linking(t) /\ PeerOf(t) = u]
       ELSE connected[u]

PartnerBar == [u \in Conns |-> IF PhoneBar[u] \in InCall THEN TUAt(LinkBar(u))
                                                        ELSE NoConn]

X == INSTANCE Exchange WITH
       Units <- Conns, NoUnit <- NoConn,
       line <- [u \in Conns |-> IF Plugged(u) THEN extension_number[u] ELSE NoExt],
       phone <- PhoneBar,
       partner <- PartnerBar

\* The threads, locks and stores of pbx.c do what pbx.h says, each operation in
\* one step, for clients that unplug quietly.
ExchangeRefined == X!ExchangeSpec
=============================================================================
