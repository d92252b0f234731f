----------------------------- MODULE PBXProofs ------------------------------
(***************************************************************************)
(* Invariance proofs for PBX, for any number of connections, any table     *)
(* size (also with more clients than slots), any socket buffer and every   *)
(* way of unplugging.  Then its calls: while the process runs out of       *)
(* descriptors before the table runs out of slots, extensions identify the *)
(* units, for every way of unplugging; when clients also unplug quietly,   *)
(* the threads implement the Exchange, and the ends of every call agree.   *)
(***************************************************************************)
EXTENDS PBX, FiniteSetTheorems, TLAPS

\* The points at which a thread works on its own, registered unit.
Registered == {"reg_print", "read", "lock", "lock_stale", "lock_tu", "body", "lock_peer",
               "own", "peer", "link", "print_own", "print_peer", "v_peer", "v_tu",
               "unreg_lock", "unreg_tu", "unreg_clear", "unreg_free"}

\* A thread's point determines which path it can be on and how far its TU's life is.
Shape ==
  \A t \in Conns :
    /\ pc[t] \in {"lock_peer", "print_peer", "v_peer"} => path[t] \in TwoUnit
    /\ pc[t] \in {"own", "peer"} => path[t] \in TwoUnit \ {"chat"}
    /\ pc[t] = "link" => path[t] = "ring"
    /\ pc[t] = "v_tu" => path[t] # "unregister"
    /\ pc[t] = "print_own" => path[t] \in TwoUnit \cup {"alone"}
    /\ pc[t] \in {"unborn", "reg_lock", "reg_take"} => life[t] = "unborn"
    /\ pc[t] \in Registered => life[t] = "live"
    /\ pc[t] = "v_pbx" /\ path[t] # "unregister" => life[t] = "live"
    /\ life[t] = "live" => extension_number[t] \in Ext

-----------------------------------------------------------------------------
(* A non-empty set of table indices has a least element.                   *)
LEMMA LeastElement ==
  ASSUME NEW n \in Nat, NEW S, S \subseteq 0 .. n, S # {}
  PROVE  \E e \in S : \A f \in S : e <= f
<1> DEFINE UpTo(e) == {f \in S : f <= e}
           T == {UpTo(e) : e \in S}
<1>1. IsFiniteSet(S)
  <2>1. IsFiniteSet(0 .. n)
    BY FS_Interval
  <2> QED
    BY <2>1, FS_Subset
<1>2. IsWellFoundedOn(StrictSubsetOrdering(S), SUBSET S)
  BY <1>1, FS_FiniteSubsetsOfFinite, FS_StrictSubsetOrderingWellFounded
<1>3. T \subseteq SUBSET S /\ T # {}
  OBVIOUS
<1>4. PICK U \in T : \A V \in T : ~(<<V, U>> \in StrictSubsetOrdering(S))
  <2> HIDE DEF T
  <2> QED BY <1>2, <1>3, WFMin
<1>5. PICK e \in S : U = UpTo(e)
  BY <1>4
<1>6. ASSUME NEW f \in S, ~(e <= f)
      PROVE  FALSE
  <2>1. f < e /\ \A g \in S : g \in Int
    BY <1>6
  <2>2. UpTo(f) \subseteq UpTo(e)
    <3> SUFFICES ASSUME NEW g \in S, g <= f PROVE g <= e
      OBVIOUS
    <3> QED
      BY <2>1
  <2>3. UpTo(f) # UpTo(e)
    BY <2>1
  <2>4. <<UpTo(f), UpTo(e)>> \in StrictSubsetOrdering(S)
    <3> HIDE DEF UpTo
    <3>1. UpTo(f) \in SUBSET S /\ UpTo(e) \in SUBSET S
      BY DEF UpTo
    <3> QED
      BY <2>2, <2>3, <3>1 DEF StrictSubsetOrdering
  <2> QED
    BY <1>4, <1>5, <2>4
<1> QED
  BY <1>6

(* The search loop of pbx_register: it always yields an index of the table, *)
(* and a free one whenever there is one.                                   *)
LEMMA FreeIndexLemma ==
  ASSUME isFree \in [Ext -> {0, 1}]
  PROVE  /\ FreeIndex \in Ext
         /\ (\E e \in Ext : isFree[e] = 0) => isFree[FreeIndex] = 0
<1>1. 0 \in Ext
  BY BoundsAssumption DEF Ext
<1>2. CASE \E e \in Ext : isFree[e] = 0
  <2> DEFINE Free == {e \in Ext : isFree[e] = 0}
  <2>1. Free \subseteq 0 .. NExt - 1 /\ Free # {} /\ NExt - 1 \in Nat
    BY <1>2, BoundsAssumption DEF Ext
  <2>2. PICK e \in Free : \A f \in Free : e <= f
    BY <2>1, LeastElement
  <2>4. e \in Ext /\ isFree[e] = 0 /\ \A f \in 0 .. e - 1 : isFree[f] # 0
    BY <2>2, BoundsAssumption DEF Ext
  <2> QED
    BY <1>2, <2>4 DEF FreeIndex
<1>3. CASE ~ \E e \in Ext : isFree[e] = 0
  BY <1>1, <1>3 DEF FreeIndex
<1> QED
  BY <1>2, <1>3

-----------------------------------------------------------------------------
(* Type correctness.                                                       *)
Notices == (TUStates \cup {"none"}) \X (Ext \cup {NoExt})

\* The states written by the operations are states.
LEMMA StateNames ==
  /\ "ON HOOK" \in TUStates /\ "DIAL TONE" \in TUStates /\ "BUSY SIGNAL" \in TUStates
  /\ "ERROR" \in TUStates
  /\ \A how \in TwoUnit \ {"chat"} : OwnAfter[how] \in TUStates /\ PeerAfter[how] \in TUStates
<1>1. \A how \in TwoUnit \ {"chat"} : OwnAfter[how] \in TUStates
  BY DEF TUStates, TwoUnit, OwnAfter
<1>2. \A how \in TwoUnit \ {"chat"} : PeerAfter[how] \in TUStates
  BY DEF TUStates, TwoUnit, PeerAfter
<1> QED
  BY <1>1, <1>2 DEF TUStates

\* Every command has an extension, used or not.
LEMMA InputType ==
  ASSUME NEW cmd \in Commands \cup {NoInput}
  PROVE  cmd.ext \in Ext
  BY BoundsAssumption DEF Commands, NoInput, Ext

\* Whatever the operation, its body ends in Solo or in Pair.
LEMMA DecideCases ==
  ASSUME TypeOK, NEW t \in Conns, Decide(t)
  PROVE  \/ \E s \in TUStates : Solo(t, s)
         \/ \E how \in TwoUnit : Pair(t, how)
<1>1. state[t] \in TUStates
  BY DEF TypeOK
<1>2. CASE PickUp(t)
  BY <1>1, <1>2, StateNames DEF PickUp, TwoUnit
<1>3. CASE HangUp(t)
  BY <1>1, <1>3, StateNames DEF HangUp, TwoUnit
<1>4. CASE Dial(t)
  BY <1>1, <1>4, StateNames DEF Dial, TwoUnit
<1>5. CASE Chat(t)
  BY <1>1, <1>5, StateNames DEF Chat, TwoUnit
<1> QED
  BY <1>2, <1>3, <1>4, <1>5 DEF Decide

\* What a client writes is a command.
LEMMA LinesAreCommands == Lines \subseteq Commands
  BY DEF Lines

\* No notice yet is a notice.
LEMMA NoNoticeType == NoNotice \in Notices
  BY DEF NoNotice, Notices

\* What a unit is told is a notice.
LEMMA NoticeType ==
  ASSUME TypeOK, NEW u \in Conns
  PROVE  Notice(u) \in Notices /\ told[u] \in Notices
  BY DEF TypeOK, Notice, Notices

\* A write to a socket keeps the sockets and the process well-formed.
LEMMA DprintfType ==
  ASSUME TypeOK, NEW u, NEW notice, u \in Conns => notice \in Notices, Dprintf(u, notice)
  PROVE  /\ net' \in [Conns -> {"open", "fin", "rst", "dead"}]
         /\ unread' \in [Conns -> 0 .. SockCap]
         /\ told' \in [Conns -> Notices]
         /\ server' \in {"up", "exit", "sigsegv", "sigpipe"}
<1>1. CASE net[u] = "open" /\ u \in Conns
  <2>1. unread' \in [Conns -> 0 .. SockCap]
    BY <1>1, BoundsAssumption DEF TypeOK, Dprintf
  <2>2. told' \in [Conns -> Notices] /\ UNCHANGED <<net, server>>
    BY <1>1 DEF TypeOK, Dprintf, Notices
  <2> QED
    BY <2>1, <2>2 DEF TypeOK
<1>2. CASE u \notin Conns
  BY <1>2 DEF TypeOK, Dprintf, Notices, sock
<1>3. CASE net[u] # "open"
  BY <1>3 DEF TypeOK, Dprintf, Notices, sock
<1> QED
  BY <1>1, <1>2, <1>3

\* Every step keeps the types.
LEMMA TypeStep ==
  ASSUME TypeOK, Shape, [Next]_vars
  PROVE  TypeOK'
<1> USE BoundsAssumption DEF TypeOK, Step, Points, Switching, Paths, switch, units, locks, sock
<1>1. ASSUME NEW t \in Conns, Accept(t) PROVE TypeOK'
  BY <1>1 DEF Accept
<1>2. ASSUME NEW t \in Conns, AcceptFails(t) PROVE TypeOK'
  BY <1>2 DEF AcceptFails
<1>3. ASSUME NEW t \in Conns, RegisterLock(t) PROVE TypeOK'
  BY <1>3 DEF RegisterLock, P_pbx
<1>4. ASSUME NEW t \in Conns, RegisterTake(t) PROVE TypeOK'
  <2>1. FreeIndex \in Ext
    BY FreeIndexLemma
  <2>2. PICK g \in Garbage : connected' = [connected EXCEPT ![t] = g]
    BY <1>4 DEF RegisterTake
  <2>3. connected' \in [Conns -> Ext \cup {NoExt}]
    BY <2>2, EnvAssumption
  <2>4. state' \in [Conns -> TUStates]
    BY <1>4, StateNames DEF RegisterTake
  <2>5. /\ isFree' \in [Ext -> {0, 1}]
        /\ telephone_units' \in [Ext -> Conns \cup {NoConn}]
        /\ registered_tu' \in Int
    <3>1. /\ isFree' = [isFree EXCEPT ![FreeIndex] = 1]
          /\ telephone_units' = [telephone_units EXCEPT ![FreeIndex] = t]
          /\ registered_tu' = registered_tu + 1
      BY <1>4 DEF RegisterTake
    <3> HIDE DEF TypeOK
    <3>2. /\ isFree \in [Ext -> {0, 1}]
          /\ telephone_units \in [Ext -> Conns \cup {NoConn}]
          /\ registered_tu \in Int
      BY DEF TypeOK
    <3> QED
      BY <3>1, <3>2, <2>1
  <2>6. /\ extension_number' \in [Conns -> Ext \cup {NoExt}]
        /\ life' \in [Conns -> {"unborn", "live", "freed"}]
        /\ mutex_tu' \in [Conns -> Conns \cup {NoConn}]
    BY <1>4, <2>1 DEF RegisterTake
  <2>7. pc' \in [Conns -> Points]
    BY <1>4 DEF RegisterTake
  <2> QED
    BY <1>4, <2>3, <2>4, <2>5, <2>6, <2>7 DEF RegisterTake
<1>5. ASSUME NEW t \in Conns, RegisterPrint(t) PROVE TypeOK'
  BY <1>5, NoticeType, DprintfType DEF RegisterPrint, Notices
<1>6. ASSUME NEW t \in Conns, ReadLine(t) PROVE TypeOK'
  BY <1>6 DEF ReadLine
<1>7. ASSUME NEW t \in Conns, ReadEOF(t) PROVE TypeOK'
  BY <1>7 DEF ReadEOF
<1>8. ASSUME NEW t \in Conns, ReadError(t) PROVE TypeOK'
  BY <1>8 DEF ReadError
<1>9. ASSUME NEW t \in Conns, Lock(t) PROVE TypeOK'
  <2>1. input' \in [Conns -> Commands \cup {NoInput}]
    <3>1. CASE UNCHANGED input
      BY <3>1
    <3>2. ASSUME NEW cmd \in Lines, input' = [input EXCEPT ![t] = cmd]
          PROVE  input' \in [Conns -> Commands \cup {NoInput}]
      BY <3>2, LinesAreCommands
    <3> QED
      BY <1>9, <3>1, <3>2 DEF Lock
  <2> QED
    BY <1>9, <2>1 DEF Lock, P_pbx
<1>10. ASSUME NEW t \in Conns, LockTU(t) PROVE TypeOK'
  BY <1>10 DEF LockTU, P_tu
<1>11. ASSUME NEW t \in Conns, NEW s \in TUStates, Solo(t, s) PROVE TypeOK'
  BY <1>11 DEF Solo
<1>12. ASSUME NEW t \in Conns, NEW how \in TwoUnit, Pair(t, how) PROVE TypeOK'
  BY <1>12 DEF Pair
<1>13. ASSUME NEW t \in Conns, LockPeer(t) PROVE TypeOK'
  BY <1>13 DEF LockPeer, P_tu
<1>14. ASSUME NEW t \in Conns, PeerFault(t) PROVE TypeOK'
  BY <1>14 DEF PeerFault
<1>15. ASSUME NEW t \in Conns, WriteOwn(t) PROVE TypeOK'
  <2>1. OwnAfter[path[t]] \in TUStates
    BY <1>15, StateNames DEF Shape, WriteOwn
  <2> QED
    BY <1>15, <2>1 DEF WriteOwn
<1>16. ASSUME NEW t \in Conns, WritePeer(t) PROVE TypeOK'
  <2>1. PeerAfter[path[t]] \in TUStates
    BY <1>16, StateNames DEF Shape, WritePeer
  <2> QED
    BY <1>16, <2>1 DEF WritePeer
<1>17. ASSUME NEW t \in Conns, Link(t) PROVE TypeOK'
  BY <1>17, InputType DEF Link
<1>18. ASSUME NEW t \in Conns, PrintOwn(t) PROVE TypeOK'
  BY <1>18, NoticeType, DprintfType DEF PrintOwn, Notices
<1>19. ASSUME NEW t \in Conns, PrintPeer(t) PROVE TypeOK'
  BY <1>19, NoticeType, DprintfType DEF PrintPeer, Notices
<1>20. ASSUME NEW t \in Conns, UnlockPeer(t) PROVE TypeOK'
  BY <1>20 DEF UnlockPeer, V_tu
<1>21. ASSUME NEW t \in Conns, UnlockTU(t) PROVE TypeOK'
  BY <1>21 DEF UnlockTU, V_tu
<1>22. ASSUME NEW t \in Conns, UnlockPbx(t) PROVE TypeOK'
  BY <1>22 DEF UnlockPbx, V_pbx
<1>23. ASSUME NEW t \in Conns, UnregisterLock(t) PROVE TypeOK'
  BY <1>23 DEF UnregisterLock, P_pbx
<1>24. ASSUME NEW t \in Conns, UnregisterLockTU(t) PROVE TypeOK'
  BY <1>24 DEF UnregisterLockTU, P_tu
<1>25. ASSUME NEW t \in Conns, UnregisterClear(t) PROVE TypeOK'
  BY <1>25 DEF UnregisterClear, V_tu
<1>26. ASSUME NEW t \in Conns, UnregisterFree(t) PROVE TypeOK'
  BY <1>26 DEF UnregisterFree
<1>27. ASSUME NEW t \in Conns, ClientReads(t) PROVE TypeOK'
  BY <1>27 DEF ClientReads
<1>28. ASSUME NEW t \in Conns, ClientCloses(t) PROVE TypeOK'
  <2>1. told' \in [Conns -> Notices]
    BY <1>28, NoNoticeType DEF ClientCloses, Notices
  <2>2. PICK after \in {"fin", "rst"} : net' = [net EXCEPT ![t] = after]
    BY <1>28 DEF ClientCloses
  <2>3. net' \in [Conns -> {"open", "fin", "rst", "dead"}]
    BY <2>2
  <2>4. UNCHANGED <<switch, units, locks, pc, input, path, server>>
    BY <1>28 DEF ClientCloses
  <2>5. unread' = [unread EXCEPT ![t] = 0]
    BY <1>28 DEF ClientCloses
  <2>6. unread' \in [Conns -> 0 .. SockCap]
    BY <2>5
  <2> QED
    BY <2>1, <2>3, <2>4, <2>6 DEF Notices
<1>29. CASE UNCHANGED vars
  BY <1>29 DEF vars
<1> HIDE DEF TypeOK, Points, Switching, Paths
<1>30. ASSUME NEW t \in Conns, Decide(t) PROVE TypeOK'
  BY <1>11, <1>12, <1>30, DecideCases
<1> QED
  BY <1>1, <1>2, <1>3, <1>4, <1>5, <1>6, <1>7, <1>8, <1>9, <1>10, <1>11, <1>12, <1>13,
     <1>14, <1>15, <1>16, <1>17, <1>18, <1>19, <1>20, <1>21, <1>22, <1>23, <1>24, <1>25,
     <1>26, <1>27, <1>28, <1>29, <1>30
     DEF Next, Thread, Register, Serve, Finish, Unregister, Client, Rest

\* Every step keeps points, paths and lives in line.
LEMMA ShapeStep ==
  ASSUME TypeOK, Shape, [Next]_vars
  PROVE  Shape'
<1> USE DEF TypeOK, Shape, Step, Registered, TwoUnit, switch, units
<1>1. ASSUME NEW t \in Conns, Accept(t) PROVE Shape'
  BY <1>1 DEF Accept
<1>2. ASSUME NEW t \in Conns, AcceptFails(t) PROVE Shape'
  BY <1>2 DEF AcceptFails
<1>3. ASSUME NEW t \in Conns, RegisterLock(t) PROVE Shape'
  BY <1>3 DEF RegisterLock
<1>4. ASSUME NEW t \in Conns, RegisterTake(t) PROVE Shape'
  <2>1. /\ pc[t] = "reg_take" /\ pc' = [pc EXCEPT ![t] = "reg_print"]
        /\ life' = [life EXCEPT ![t] = "live"]
        /\ extension_number' = [extension_number EXCEPT ![t] = FreeIndex]
        /\ UNCHANGED path
    BY <1>4 DEF RegisterTake
  <2>2. FreeIndex \in Ext
    BY FreeIndexLemma
  <2> HIDE DEF TypeOK
  <2>3. /\ pc \in [Conns -> Points] /\ life \in [Conns -> {"unborn", "live", "freed"}]
        /\ extension_number \in [Conns -> Ext \cup {NoExt}]
    BY DEF TypeOK
  <2> QED
    BY <2>1, <2>2, <2>3
<1>5. ASSUME NEW t \in Conns, RegisterPrint(t) PROVE Shape'
  BY <1>5 DEF RegisterPrint
<1>6. ASSUME NEW t \in Conns, ReadLine(t) PROVE Shape'
  BY <1>6 DEF ReadLine
<1>7. ASSUME NEW t \in Conns, ReadEOF(t) PROVE Shape'
  BY <1>7 DEF ReadEOF
<1>8. ASSUME NEW t \in Conns, ReadError(t) PROVE Shape'
  BY <1>8 DEF ReadError
<1>9. ASSUME NEW t \in Conns, Lock(t) PROVE Shape'
  BY <1>9 DEF Lock
<1>10. ASSUME NEW t \in Conns, LockTU(t) PROVE Shape'
  BY <1>10 DEF LockTU
<1>11. ASSUME NEW t \in Conns, NEW s \in TUStates, Solo(t, s) PROVE Shape'
  BY <1>11 DEF Solo
<1>12. ASSUME NEW t \in Conns, NEW how \in TwoUnit, Pair(t, how) PROVE Shape'
  BY <1>12 DEF Pair
<1>13. ASSUME NEW t \in Conns, LockPeer(t) PROVE Shape'
  BY <1>13 DEF LockPeer
<1>14. ASSUME NEW t \in Conns, PeerFault(t) PROVE Shape'
  BY <1>14 DEF PeerFault
<1>15. ASSUME NEW t \in Conns, WriteOwn(t) PROVE Shape'
  BY <1>15 DEF WriteOwn
<1>16. ASSUME NEW t \in Conns, WritePeer(t) PROVE Shape'
  BY <1>16 DEF WritePeer
<1>17. ASSUME NEW t \in Conns, Link(t) PROVE Shape'
  BY <1>17 DEF Link
<1>18. ASSUME NEW t \in Conns, PrintOwn(t) PROVE Shape'
  BY <1>18 DEF PrintOwn
<1>19. ASSUME NEW t \in Conns, PrintPeer(t) PROVE Shape'
  BY <1>19 DEF PrintPeer
<1>20. ASSUME NEW t \in Conns, UnlockPeer(t) PROVE Shape'
  BY <1>20 DEF UnlockPeer
<1>21. ASSUME NEW t \in Conns, UnlockTU(t) PROVE Shape'
  BY <1>21 DEF UnlockTU
<1>22. ASSUME NEW t \in Conns, UnlockPbx(t) PROVE Shape'
  BY <1>22 DEF UnlockPbx
<1>23. ASSUME NEW t \in Conns, UnregisterLock(t) PROVE Shape'
  BY <1>23 DEF UnregisterLock
<1>24. ASSUME NEW t \in Conns, UnregisterLockTU(t) PROVE Shape'
  BY <1>24 DEF UnregisterLockTU
<1>25. ASSUME NEW t \in Conns, UnregisterClear(t) PROVE Shape'
  BY <1>25 DEF UnregisterClear
<1>26. ASSUME NEW t \in Conns, UnregisterFree(t) PROVE Shape'
  BY <1>26 DEF UnregisterFree
<1>27. ASSUME NEW t \in Conns, ClientReads(t) PROVE Shape'
  BY <1>27 DEF ClientReads
<1>28. ASSUME NEW t \in Conns, ClientCloses(t) PROVE Shape'
  BY <1>28 DEF ClientCloses
<1>29. CASE UNCHANGED vars
  BY <1>29 DEF vars
<1> HIDE DEF TypeOK, Shape, Registered, TwoUnit
<1>30. ASSUME NEW t \in Conns, Decide(t) PROVE Shape'
  BY <1>11, <1>12, <1>30, DecideCases
<1> QED
  BY <1>1, <1>2, <1>3, <1>4, <1>5, <1>6, <1>7, <1>8, <1>9, <1>10, <1>11, <1>12, <1>13,
     <1>14, <1>15, <1>16, <1>17, <1>18, <1>19, <1>20, <1>21, <1>22, <1>23, <1>24, <1>25,
     <1>26, <1>27, <1>28, <1>29, <1>30
     DEF Next, Thread, Register, Serve, Finish, Unregister, Client, Rest

-----------------------------------------------------------------------------
(* Locks.                                                                  *)

\* A thread never takes its own unit for the other end of the call: it would wait
\* for itself.  With this LockDiscipline is inductive.
Held == LockDiscipline /\ \A t \in Conns : HoldsPeer(t) => PeerOf(t) # t

\* Every step keeps the lock discipline.
LEMMA LockStep ==
  ASSUME TypeOK, Shape, Held, [Next]_vars
  PROVE  Held'
<1> USE ConnsAssumption DEF TypeOK, Shape, Held, LockDiscipline, HoldsOwn, HoldsPeer, Switching, Step, TwoUnit,
        PeerOf, PeerExt, TUAt, switch, units, locks
<1>1. ASSUME NEW t \in Conns, Accept(t) PROVE Held'
  BY <1>1 DEF Accept
<1>2. ASSUME NEW t \in Conns, AcceptFails(t) PROVE Held'
  BY <1>2 DEF AcceptFails
<1>3. ASSUME NEW t \in Conns, RegisterLock(t) PROVE Held'
  BY <1>3 DEF RegisterLock, P_pbx
<1>4. ASSUME NEW t \in Conns, RegisterTake(t) PROVE Held'
  <2>1. /\ pc[t] = "reg_take" /\ pc' = [pc EXCEPT ![t] = "reg_print"]
        /\ mutex_tu' = [mutex_tu EXCEPT ![t] = t] /\ mutex_pbx' = mutex_pbx
    BY <1>4 DEF RegisterTake
  <2>2. mutex_pbx = t /\ \A u \in Conns \ {t} : pc[u] \notin Switching
    BY <2>1
  <2>3. \A u \in Conns : mutex_tu[u] = NoConn
    BY <2>1, <2>2
  <2>4. \A u \in Conns : pc'[u] = IF u = t THEN "reg_print" ELSE pc[u]
    BY <2>1
  <2>5. \A u \in Conns : mutex_tu'[u] = IF u = t THEN t ELSE NoConn
    BY <2>1, <2>3
  <2>6. \A u \in Conns : /\ HoldsOwn(u)' <=> u = t
                         /\ ~HoldsPeer(u)'
    BY <2>2, <2>4
  <2>7. \A u \in Conns : pc'[u] \in Switching <=> mutex_pbx' = u
    BY <2>1, <2>2, <2>4
  <2>8. LockDiscipline'
    <3> HIDE DEF TypeOK, Shape, Held, HoldsOwn, HoldsPeer, Switching, PeerOf
    <3> QED
      BY <2>5, <2>6, <2>7
  <2> HIDE DEF HoldsPeer, LockDiscipline, PeerOf
  <2> QED
    BY <2>6, <2>8
<1>5. ASSUME NEW t \in Conns, RegisterPrint(t) PROVE Held'
  BY <1>5 DEF RegisterPrint
<1>6. ASSUME NEW t \in Conns, ReadLine(t) PROVE Held'
  BY <1>6 DEF ReadLine
<1>7. ASSUME NEW t \in Conns, ReadEOF(t) PROVE Held'
  BY <1>7 DEF ReadEOF
<1>8. ASSUME NEW t \in Conns, ReadError(t) PROVE Held'
  BY <1>8 DEF ReadError
<1>9. ASSUME NEW t \in Conns, Lock(t) PROVE Held'
  BY <1>9 DEF Lock, P_pbx
<1>10. ASSUME NEW t \in Conns, LockTU(t) PROVE Held'
  BY <1>10 DEF LockTU, P_tu
<1>11. ASSUME NEW t \in Conns, NEW s \in TUStates, Solo(t, s) PROVE Held'
  BY <1>11 DEF Solo
<1>12. ASSUME NEW t \in Conns, NEW how \in TwoUnit, Pair(t, how) PROVE Held'
  BY <1>12 DEF Pair
<1>13. ASSUME NEW t \in Conns, LockPeer(t) PROVE Held'
  <2>1. /\ pc[t] = "lock_peer"
        /\ pc' = [pc EXCEPT ![t] = IF path[t] = "chat" THEN "print_own" ELSE "own"]
        /\ PeerOf(t) # NoConn /\ mutex_tu[PeerOf(t)] = NoConn
        /\ mutex_tu' = [mutex_tu EXCEPT ![PeerOf(t)] = t]
        /\ UNCHANGED <<mutex_pbx, path>>
    <3> HIDE DEF TypeOK, Shape, Held, LockDiscipline, PeerOf
    <3> QED
      BY <1>13 DEF LockPeer, P_tu
  <2>2. \A u \in Conns : PeerOf(u)' = PeerOf(u)
    <3> HIDE DEF TypeOK, Shape, Held, LockDiscipline
    <3> QED
      BY <1>13 DEF LockPeer
  <2>3. /\ mutex_tu \in [Conns -> Conns \cup {NoConn}] /\ pc \in [Conns -> Points]
        /\ path[t] \in TwoUnit /\ (PeerOf(t) # NoConn => PeerOf(t) \in Conns)
    BY <2>1
  <2> HIDE DEF TypeOK, Shape, PeerOf
  <2> QED
    BY <2>1, <2>2, <2>3
<1>14. ASSUME NEW t \in Conns, PeerFault(t) PROVE Held'
  BY <1>14 DEF PeerFault
<1>15. ASSUME NEW t \in Conns, WriteOwn(t) PROVE Held'
  BY <1>15 DEF WriteOwn
<1>16. ASSUME NEW t \in Conns, WritePeer(t) PROVE Held'
  BY <1>16 DEF WritePeer
<1>17. ASSUME NEW t \in Conns, Link(t) PROVE Held'
  <2>1. /\ pc[t] = "link" /\ pc' = [pc EXCEPT ![t] = "print_own"]
        /\ UNCHANGED <<mutex_pbx, mutex_tu, path, input, telephone_units>>
    <3> HIDE DEF TypeOK, Shape, Held, LockDiscipline, PeerOf
    <3> QED
      BY <1>17 DEF Link
  <2>2. path[t] = "ring" /\ PeerOf(t)' = PeerOf(t)
    BY <2>1
  <2>3. mutex_tu \in [Conns -> Conns \cup {NoConn}] /\ pc \in [Conns -> Points]
    BY <2>1
  <2> HIDE DEF TypeOK, Shape, PeerOf
  <2> QED
    BY <2>1, <2>2, <2>3
<1>18. ASSUME NEW t \in Conns, PrintOwn(t) PROVE Held'
  BY <1>18 DEF PrintOwn
<1>19. ASSUME NEW t \in Conns, PrintPeer(t) PROVE Held'
  <2>1. /\ pc[t] = "print_peer" /\ pc' = [pc EXCEPT ![t] = "v_peer"]
        /\ UNCHANGED <<mutex_pbx, mutex_tu, path>>
    <3> HIDE DEF TypeOK, Shape, Held, LockDiscipline, PeerOf
    <3> QED
      BY <1>19 DEF PrintPeer
  <2>2. \A u \in Conns : PeerOf(u)' = PeerOf(u)
    <3> HIDE DEF TypeOK, Shape, Held, LockDiscipline
    <3> QED
      BY <1>19 DEF PrintPeer
  <2>3. /\ mutex_tu \in [Conns -> Conns \cup {NoConn}] /\ pc \in [Conns -> Points]
        /\ path[t] \in TwoUnit
    BY <2>1
  <2> HIDE DEF TypeOK, Shape, PeerOf
  <2> QED
    BY <2>1, <2>2, <2>3
<1>20. ASSUME NEW t \in Conns, UnlockPeer(t) PROVE Held'
  <2>1. /\ pc[t] = "v_peer" /\ pc' = [pc EXCEPT ![t] = "v_tu"]
        /\ mutex_tu' = [mutex_tu EXCEPT ![PeerOf(t)] = NoConn]
        /\ UNCHANGED <<mutex_pbx, path>>
    <3> HIDE DEF TypeOK, Shape, Held, LockDiscipline, PeerOf
    <3> QED
      BY <1>20 DEF UnlockPeer, V_tu
  <2>2. \A u \in Conns : PeerOf(u)' = PeerOf(u)
    <3> HIDE DEF TypeOK, Shape, Held, LockDiscipline
    <3> QED
      BY <1>20 DEF UnlockPeer
  <2>3. /\ mutex_tu \in [Conns -> Conns \cup {NoConn}] /\ pc \in [Conns -> Points]
        /\ path[t] \in TwoUnit
    BY <2>1
  <2> HIDE DEF TypeOK, Shape, PeerOf
  <2> QED
    BY <2>1, <2>2, <2>3
<1>21. ASSUME NEW t \in Conns, UnlockTU(t) PROVE Held'
  BY <1>21 DEF UnlockTU, V_tu
<1>22. ASSUME NEW t \in Conns, UnlockPbx(t) PROVE Held'
  BY <1>22 DEF UnlockPbx, V_pbx
<1>23. ASSUME NEW t \in Conns, UnregisterLock(t) PROVE Held'
  BY <1>23 DEF UnregisterLock, P_pbx
<1>24. ASSUME NEW t \in Conns, UnregisterLockTU(t) PROVE Held'
  BY <1>24 DEF UnregisterLockTU, P_tu
<1>25. ASSUME NEW t \in Conns, UnregisterClear(t) PROVE Held'
  BY <1>25 DEF UnregisterClear, V_tu
<1>26. ASSUME NEW t \in Conns, UnregisterFree(t) PROVE Held'
  BY <1>26 DEF UnregisterFree
<1>27. ASSUME NEW t \in Conns, ClientReads(t) PROVE Held'
  BY <1>27 DEF ClientReads
<1>28. ASSUME NEW t \in Conns, ClientCloses(t) PROVE Held'
  <2>1. UNCHANGED <<switch, units, locks, pc, input, path, server>>
    BY <1>28 DEF ClientCloses
  <2> QED
    BY <2>1
<1>29. CASE UNCHANGED vars
  BY <1>29 DEF vars
<1> HIDE DEF TypeOK, Shape, Held, LockDiscipline, Switching, TwoUnit
<1>30. ASSUME NEW t \in Conns, Decide(t) PROVE Held'
  BY <1>11, <1>12, <1>30, DecideCases
<1> QED
  BY <1>1, <1>2, <1>3, <1>4, <1>5, <1>6, <1>7, <1>8, <1>9, <1>10, <1>11, <1>12, <1>13,
     <1>14, <1>15, <1>16, <1>17, <1>18, <1>19, <1>20, <1>21, <1>22, <1>23, <1>24, <1>25,
     <1>26, <1>27, <1>28, <1>29, <1>30
     DEF Next, Thread, Register, Serve, Finish, Unregister, Client, Rest

-----------------------------------------------------------------------------
(* The slot table.                                                         *)

\* Between the two halves of an unregistration the slot is already empty.
Slots == /\ SlotsSound
         /\ \A t \in Conns : pc[t] = "unreg_free" => telephone_units[extension_number[t]] = NoConn

\* Every step keeps the slot table sound.
LEMMA SlotStep ==
  ASSUME TypeOK, Shape, LockDiscipline, Slots, [Next]_vars
  PROVE  Slots'
<1> USE ConnsAssumption DEF TypeOK, Shape, Registered, Slots, SlotsSound, Step, switch, units
<1>1. ASSUME NEW t \in Conns, Accept(t) PROVE Slots'
  BY <1>1 DEF Accept
<1>2. ASSUME NEW t \in Conns, AcceptFails(t) PROVE Slots'
  BY <1>2 DEF AcceptFails
<1>3. ASSUME NEW t \in Conns, RegisterLock(t) PROVE Slots'
  BY <1>3 DEF RegisterLock
<1>4. ASSUME NEW t \in Conns, RegisterTake(t) PROVE Slots'
  <2>1. /\ pc[t] = "reg_take" /\ pc' = [pc EXCEPT ![t] = "reg_print"]
        /\ life[t] = "unborn" /\ life' = [life EXCEPT ![t] = "live"]
        /\ FreeIndex \in Ext
        /\ isFree' = [isFree EXCEPT ![FreeIndex] = 1]
        /\ telephone_units' = [telephone_units EXCEPT ![FreeIndex] = t]
        /\ extension_number' = [extension_number EXCEPT ![t] = FreeIndex]
    BY <1>4, FreeIndexLemma DEF RegisterTake
  <2>2. \A u \in Conns : pc[u] # "unreg_free"
    BY <2>1 DEF LockDiscipline, Switching
  <2>3. \A e \in Ext : telephone_units[e] # t
    BY <2>1
  <2>4. \A e \in Ext : isFree'[e] = 1 <=> telephone_units'[e] # NoConn
    BY <2>1
  <2>5. \A e \in Ext : telephone_units'[e] # NoConn =>
           /\ life'[telephone_units'[e]] = "live"
           /\ extension_number'[telephone_units'[e]] = e
    BY <2>1, <2>3
  <2>6. \A u \in Conns : /\ pc'[u] = "body" => life'[u] = "live"
                         /\ pc'[u] # "unreg_free"
    BY <2>1, <2>2
  <2> HIDE DEF TypeOK, Shape
  <2> QED
    BY <2>4, <2>5, <2>6
<1>5. ASSUME NEW t \in Conns, RegisterPrint(t) PROVE Slots'
  BY <1>5 DEF RegisterPrint
<1>6. ASSUME NEW t \in Conns, ReadLine(t) PROVE Slots'
  BY <1>6 DEF ReadLine
<1>7. ASSUME NEW t \in Conns, ReadEOF(t) PROVE Slots'
  BY <1>7 DEF ReadEOF
<1>8. ASSUME NEW t \in Conns, ReadError(t) PROVE Slots'
  BY <1>8 DEF ReadError
<1>9. ASSUME NEW t \in Conns, Lock(t) PROVE Slots'
  <2>1. /\ UNCHANGED <<switch, units>>
        /\ pc' = [pc EXCEPT ![t] = "lock_tu"]
    BY <1>9 DEF Lock
  <2> QED
    BY <2>1
<1>10. ASSUME NEW t \in Conns, LockTU(t) PROVE Slots'
  BY <1>10 DEF LockTU
<1>11. ASSUME NEW t \in Conns, NEW s \in TUStates, Solo(t, s) PROVE Slots'
  BY <1>11 DEF Solo
<1>12. ASSUME NEW t \in Conns, NEW how \in TwoUnit, Pair(t, how) PROVE Slots'
  BY <1>12 DEF Pair
<1>13. ASSUME NEW t \in Conns, LockPeer(t) PROVE Slots'
  BY <1>13 DEF LockPeer
<1>14. ASSUME NEW t \in Conns, PeerFault(t) PROVE Slots'
  BY <1>14 DEF PeerFault
<1>15. ASSUME NEW t \in Conns, WriteOwn(t) PROVE Slots'
  BY <1>15 DEF WriteOwn
<1>16. ASSUME NEW t \in Conns, WritePeer(t) PROVE Slots'
  BY <1>16 DEF WritePeer
<1>17. ASSUME NEW t \in Conns, Link(t) PROVE Slots'
  BY <1>17 DEF Link
<1>18. ASSUME NEW t \in Conns, PrintOwn(t) PROVE Slots'
  BY <1>18 DEF PrintOwn
<1>19. ASSUME NEW t \in Conns, PrintPeer(t) PROVE Slots'
  BY <1>19 DEF PrintPeer
<1>20. ASSUME NEW t \in Conns, UnlockPeer(t) PROVE Slots'
  BY <1>20 DEF UnlockPeer
<1>21. ASSUME NEW t \in Conns, UnlockTU(t) PROVE Slots'
  BY <1>21 DEF UnlockTU
<1>22. ASSUME NEW t \in Conns, UnlockPbx(t) PROVE Slots'
  BY <1>22 DEF UnlockPbx, locks
<1>23. ASSUME NEW t \in Conns, UnregisterLock(t) PROVE Slots'
  BY <1>23 DEF UnregisterLock, Registered
<1>24. ASSUME NEW t \in Conns, UnregisterLockTU(t) PROVE Slots'
  BY <1>24 DEF UnregisterLockTU
<1>25. ASSUME NEW t \in Conns, UnregisterClear(t) PROVE Slots'
  BY <1>25 DEF UnregisterClear, LockDiscipline, Switching, V_tu
<1>26. ASSUME NEW t \in Conns, UnregisterFree(t) PROVE Slots'
  BY <1>26 DEF UnregisterFree, LockDiscipline, Switching
<1>27. ASSUME NEW t \in Conns, ClientReads(t) PROVE Slots'
  BY <1>27 DEF ClientReads
<1>28. ASSUME NEW t \in Conns, ClientCloses(t) PROVE Slots'
  <2>1. UNCHANGED <<switch, units, pc>>
    BY <1>28 DEF ClientCloses
  <2> QED
    BY <2>1
<1>29. CASE UNCHANGED vars
  BY <1>29 DEF vars
<1> HIDE DEF TypeOK, Shape, Slots, SlotsSound, Registered
<1>30. ASSUME NEW t \in Conns, Decide(t) PROVE Slots'
  BY <1>11, <1>12, <1>30, DecideCases
<1> QED
  BY <1>1, <1>2, <1>3, <1>4, <1>5, <1>6, <1>7, <1>8, <1>9, <1>10, <1>11, <1>12, <1>13,
     <1>14, <1>15, <1>16, <1>17, <1>18, <1>19, <1>20, <1>21, <1>22, <1>23, <1>24, <1>25,
     <1>26, <1>27, <1>28, <1>29, <1>30
     DEF Next, Thread, Register, Serve, Finish, Unregister, Client, Rest

-----------------------------------------------------------------------------
(* Notices.                                                                *)

\* u's client, if it is still there, knows the state of u.
Knows(u) == net[u] = "open" => told[u] = Notice(u)

\* Thread t is past its notice to u, or, in a chat, leaves u as it found it.
Informed(t, u) ==
  \/ u = t /\ pc[t] \in {"print_peer", "v_peer", "v_tu", "unreg_clear"}
  \/ u = PeerOf(t) /\ pc[t] = "v_peer"
  \/ u = PeerOf(t) /\ path[t] = "chat" /\ pc[t] \in {"print_own", "print_peer"}

MustKnow(u) == \/ life[u] = "live" /\ mutex_tu[u] = NoConn
               \/ \E t \in Conns : Informed(t, u)

Told == \A u \in Conns : MustKnow(u) => Knows(u)

\* Nothing a notice to u depends on changes.
Same(u) == /\ net'[u] = net[u] /\ told'[u] = told[u] /\ state'[u] = state[u]
           /\ extension_number'[u] = extension_number[u] /\ connected'[u] = connected[u]

\* Told is kept by a step that changes nothing a notice depends on, unless the client
\* is told anew.
LEMMA ToldKept ==
  ASSUME Told, \A u \in Conns : MustKnow(u)' => Knows(u)' \/ (MustKnow(u) /\ Same(u))
  PROVE  Told'
<1>1. \A u \in Conns : Knows(u) /\ Same(u) => Knows(u)'
  BY DEF Knows, Same, Notice
<1> QED
  BY <1>1 DEF Told

\* A write to a socket leaves its client knowing the notice, and no other client
\* knowing anything else.
LEMMA DprintfTells ==
  ASSUME TypeOK, NEW u \in Conns, NEW notice, Dprintf(u, notice)
  PROVE  /\ net'[u] = "open" => net[u] = "open" /\ told'[u] = notice
         /\ \A v \in Conns \ {u} : net'[v] = net[v] /\ told'[v] = told[v]
<1>1. CASE net[u] = "open"
  BY <1>1 DEF TypeOK, Dprintf
<1>2. CASE net[u] # "open"
  BY <1>2 DEF TypeOK, Dprintf, sock
<1> QED
  BY <1>1, <1>2

\* Every step keeps the clients told.
LEMMA ToldStep ==
  ASSUME TypeOK, Shape, Held, Slots, Told, [Next]_vars
  PROVE  Told'
<1> DEFINE Keeps == \A u \in Conns : MustKnow(u)' => Knows(u)' \/ (MustKnow(u) /\ Same(u))
<1> SUFFICES Keeps
  BY ToldKept
<1> USE ConnsAssumption DEF TypeOK, Shape, Registered, Held, LockDiscipline, HoldsOwn, HoldsPeer,
        Switching, TwoUnit, PeerOf, PeerExt, TUAt, MustKnow, Informed, Same, Step, switch, units,
        locks, sock
<1>1. ASSUME NEW t \in Conns, Accept(t) PROVE Keeps
  BY <1>1 DEF Accept
<1>2. ASSUME NEW t \in Conns, AcceptFails(t) PROVE Keeps
  BY <1>2 DEF AcceptFails
<1>3. ASSUME NEW t \in Conns, RegisterLock(t) PROVE Keeps
  BY <1>3 DEF RegisterLock, P_pbx
<1>4. ASSUME NEW t \in Conns, RegisterTake(t) PROVE Keeps
  <2>1. /\ pc[t] = "reg_take" /\ pc' = [pc EXCEPT ![t] = "reg_print"]
        /\ mutex_tu' = [mutex_tu EXCEPT ![t] = t]
        /\ UNCHANGED <<net, told, path, input>>
    BY <1>4 DEF RegisterTake
  <2>2. \A u \in Conns \ {t} : Same(u) /\ life'[u] = life[u]
    <3>1. /\ extension_number' = [extension_number EXCEPT ![t] = FreeIndex]
          /\ state' = [state EXCEPT ![t] = "ON HOOK"]
          /\ life' = [life EXCEPT ![t] = "live"]
      BY <1>4 DEF RegisterTake
    <3>2. \E g \in Garbage : connected' = [connected EXCEPT ![t] = g]
      BY <1>4 DEF RegisterTake
    <3>3. UNCHANGED <<net, told>>
      BY <2>1
    <3>4. \A u \in Conns \ {t} : connected'[u] = connected[u]
      BY <3>2
    <3>5. \A u \in Conns \ {t} : /\ extension_number'[u] = extension_number[u]
                                 /\ state'[u] = state[u] /\ life'[u] = life[u]
      <4>1. /\ extension_number \in [Conns -> Ext \cup {NoExt}]
            /\ state \in [Conns -> TUStates]
            /\ life \in [Conns -> {"unborn", "live", "freed"}]
        OBVIOUS
      <4> HIDE DEF TypeOK, Shape, Held, LockDiscipline
      <4> QED
        BY <3>1, <4>1
    <3> QED
      BY <3>3, <3>4, <3>5 DEF Same
  <2>3. \A u \in Conns : pc'[u] = IF u = t THEN "reg_print" ELSE pc[u]
    BY <2>1
  <2>4. \A u \in Conns \ {t} : pc[u] \notin Switching
    BY <2>1
  <2>5. \A u, w \in Conns : ~Informed(u, w)'
    BY <2>3, <2>4
  <2>6. \A u \in Conns : MustKnow(u)' => u # t /\ life'[u] = "live" /\ mutex_tu'[u] = NoConn
    BY <2>1, <2>5
  <2>7. \A u \in Conns : MustKnow(u)' => u # t /\ MustKnow(u)
    BY <2>1, <2>2, <2>6
  <2> HIDE DEF MustKnow, Same
  <2> QED
    BY <2>2, <2>7
<1>5. ASSUME NEW t \in Conns, RegisterPrint(t) PROVE Keeps
  <2>1. /\ Dprintf(t, Notice(t)) /\ UNCHANGED <<switch, units, locks, input>>
        /\ pc[t] = "reg_print"
    BY <1>5 DEF RegisterPrint
  <2>2. /\ net'[t] = "open" => told'[t] = Notice(t)
        /\ \A v \in Conns \ {t} : net'[v] = net[v] /\ told'[v] = told[v]
    <3> HIDE DEF TypeOK
    <3> QED
      BY <2>1, DprintfTells
  <2>3. Notice(t)' = Notice(t)
    BY <2>1 DEF Notice
  <2>4. Knows(t)'
    BY <2>2, <2>3 DEF Knows
  <2>5. \A v \in Conns \ {t} : Same(v)
    BY <2>1, <2>2
  <2>6. \A u \in Conns \ {t} : MustKnow(u)' => MustKnow(u)
    BY <1>5 DEF RegisterPrint
  <2> HIDE DEF MustKnow, Same
  <2> QED
    BY <2>4, <2>5, <2>6
<1>6. ASSUME NEW t \in Conns, ReadLine(t) PROVE Keeps
  BY <1>6 DEF ReadLine
<1>7. ASSUME NEW t \in Conns, ReadEOF(t) PROVE Keeps
  BY <1>7 DEF ReadEOF
<1>8. ASSUME NEW t \in Conns, ReadError(t) PROVE Keeps
  <2>1. /\ pc' = [pc EXCEPT ![t] = IF input[t] = NoInput THEN "read" ELSE "lock_stale"]
        /\ pc[t] = "read" /\ UNCHANGED <<switch, units, locks, path, input, told>>
        /\ net' = [net EXCEPT ![t] = "dead"]
    BY <1>8 DEF ReadError
  <2>2. Knows(t)' /\ \A v \in Conns \ {t} : Same(v)
    BY <2>1 DEF Knows
  <2>3. \A u \in Conns : MustKnow(u)' => MustKnow(u)
    BY <2>1
  <2> HIDE DEF MustKnow, Same
  <2> QED
    BY <2>2, <2>3
<1>9. ASSUME NEW t \in Conns, Lock(t) PROVE Keeps
  BY <1>9 DEF Lock, P_pbx
<1>10. ASSUME NEW t \in Conns, LockTU(t) PROVE Keeps
  BY <1>10 DEF LockTU, P_tu
<1>11. ASSUME NEW t \in Conns, NEW s \in TUStates, Solo(t, s) PROVE Keeps
  BY <1>11 DEF Solo
<1>12. ASSUME NEW t \in Conns, NEW how \in TwoUnit, Pair(t, how) PROVE Keeps
  BY <1>12 DEF Pair
<1>13. ASSUME NEW t \in Conns, LockPeer(t) PROVE Keeps
  BY <1>13 DEF LockPeer, P_tu, Slots, SlotsSound
<1>14. ASSUME NEW t \in Conns, PeerFault(t) PROVE Keeps
  BY <1>14 DEF PeerFault
<1>15. ASSUME NEW t \in Conns, WriteOwn(t) PROVE Keeps
  BY <1>15 DEF WriteOwn
<1>16. ASSUME NEW t \in Conns, WritePeer(t) PROVE Keeps
  <2>1. /\ pc[t] = "peer" /\ path[t] # "chat"
        /\ pc' = [pc EXCEPT ![t] = IF path[t] = "ring" THEN "link" ELSE "print_own"]
        /\ state' = [state EXCEPT ![PeerOf(t)] = PeerAfter[path[t]]]
        /\ UNCHANGED <<switch, extension_number, connected, life, locks, input, path, sock>>
    BY <1>16 DEF WritePeer
  <2>2. PeerOf(t) \in Conns /\ mutex_tu[PeerOf(t)] = t
    BY <2>1
  <2>3. \A w \in Conns \ {t} : pc'[w] = pc[w] /\ pc[w] \notin Switching
    BY <2>1
  <2>4. \A w, u \in Conns : ~Informed(w, u)'
    BY <2>1, <2>3
  <2>5. \A u \in Conns : MustKnow(u)' => MustKnow(u) /\ u # PeerOf(t)
    BY <2>1, <2>2, <2>4
  <2>6. \A u \in Conns : u # PeerOf(t) => Same(u)
    BY <2>1
  <2> HIDE DEF MustKnow, Same
  <2> QED
    BY <2>5, <2>6
<1>17. ASSUME NEW t \in Conns, Link(t) PROVE Keeps
  <2>1. /\ UNCHANGED <<switch, state, extension_number, life, locks, input, path, sock>>
        /\ pc' = [pc EXCEPT ![t] = "print_own"] /\ pc[t] = "link"
        /\ connected' = [connected EXCEPT ![t] = input[t].ext,
                                          ![PeerOf(t)] = extension_number[t]]
    BY <1>17 DEF Link
  <2>2. \A u \in Conns : u # t /\ u # PeerOf(t) => Same(u)
    <3> HIDE DEF PeerOf
    <3> QED
      BY <2>1
  <2>3. path[t] = "ring" /\ mutex_tu[t] = t /\ mutex_tu[PeerOf(t)] = t /\ t # NoConn
    BY <2>1
  <2>4. \A w \in Conns \ {t} : pc[w] \notin Switching
    BY <2>1
  <2>5. \A w, u \in Conns : ~Informed(w, u)'
    BY <2>1, <2>3, <2>4
  <2>6. \A u \in Conns : MustKnow(u)' => MustKnow(u) /\ u # t /\ u # PeerOf(t)
    <3> HIDE DEF PeerOf, Informed
    <3> QED
      BY <2>1, <2>3, <2>5
  <2> HIDE DEF MustKnow, Same, PeerOf
  <2> QED
    BY <2>2, <2>6
<1>18. ASSUME NEW t \in Conns, PrintOwn(t) PROVE Keeps
  <2>1. /\ Dprintf(t, Notice(t)) /\ UNCHANGED <<switch, units, locks, input>>
        /\ pc[t] = "print_own"
    BY <1>18 DEF PrintOwn
  <2>2. /\ net'[t] = "open" => told'[t] = Notice(t)
        /\ \A v \in Conns \ {t} : net'[v] = net[v] /\ told'[v] = told[v]
    <3> HIDE DEF TypeOK
    <3> QED
      BY <2>1, DprintfTells
  <2>3. Notice(t)' = Notice(t)
    BY <2>1 DEF Notice
  <2>4. Knows(t)'
    BY <2>2, <2>3 DEF Knows
  <2>5. \A v \in Conns \ {t} : Same(v)
    BY <2>1, <2>2
  <2>6. \A u \in Conns \ {t} : MustKnow(u)' => MustKnow(u)
    <3>1. /\ pc' = [pc EXCEPT ![t] = IF path[t] \in TwoUnit THEN "print_peer" ELSE "v_tu"]
          /\ pc \in [Conns -> Points] /\ UNCHANGED <<life, mutex_tu, path>>
      BY <1>18 DEF PrintOwn
    <3>2. \A u \in Conns : PeerOf(u)' = PeerOf(u)
      BY <1>18 DEF PrintOwn
    <3> HIDE DEF TypeOK, Shape, Held, LockDiscipline, PeerOf
    <3> QED
      BY <2>1, <3>1, <3>2
  <2> HIDE DEF MustKnow, Same
  <2> QED
    BY <2>4, <2>5, <2>6
<1>19. ASSUME NEW t \in Conns, PrintPeer(t) PROVE Keeps
  <2> DEFINE v == PeerOf(t)
             line == IF path[t] = "chat" THEN told[v] ELSE Notice(v)
  <2> HIDE DEF v, line
  <2>1. /\ Dprintf(v, line) /\ UNCHANGED <<switch, units, locks, input, path>>
        /\ v \in Conns /\ v # t
    BY <1>19 DEF PrintPeer, v, line
  <2>2. /\ net'[v] = "open" => net[v] = "open" /\ told'[v] = line
        /\ \A u \in Conns \ {v} : net'[u] = net[u] /\ told'[u] = told[u]
    <3> HIDE DEF TypeOK, Shape, Held, LockDiscipline
    <3> QED
      BY <2>1, DprintfTells
  <2>3. \A u \in Conns : Notice(u)' = Notice(u)
    BY <2>1 DEF Notice
  <2>4. path[t] = "chat" => Knows(v)
    <3>1. pc[t] = "print_peer"
      BY <1>19 DEF PrintPeer
    <3>2. path[t] = "chat" => MustKnow(v)
      BY <3>1 DEF v
    <3> HIDE DEF TypeOK, Shape, Held, LockDiscipline, MustKnow
    <3> QED
      BY <2>1, <3>2 DEF Told
  <2>5. net'[v] = "open" => told'[v] = Notice(v)
    BY <2>2, <2>4 DEF Knows, line
  <2>6. \A u \in Conns : u = v => Knows(u)'
    <3> SUFFICES ASSUME NEW u \in Conns, u = v PROVE Knows(u)'
      OBVIOUS
    <3> QED
      BY <2>3, <2>5 DEF Knows
  <2>7. \A u \in Conns : u # v => Same(u)
    <3> HIDE DEF TypeOK, Shape, Held, LockDiscipline
    <3> QED
      BY <2>1, <2>2
  <2>8. \A u \in Conns : u # v /\ MustKnow(u)' => MustKnow(u)
    <3>1. /\ pc[t] = "print_peer" /\ pc' = [pc EXCEPT ![t] = "v_peer"]
          /\ pc \in [Conns -> Points] /\ UNCHANGED <<life, mutex_tu, path>>
      BY <1>19 DEF PrintPeer
    <3>2. \A u \in Conns : PeerOf(u)' = PeerOf(u)
      BY <2>1
    <3> HIDE DEF TypeOK, Shape, Held, LockDiscipline, PeerOf
    <3> QED
      BY <3>1, <3>2 DEF v
  <2> HIDE DEF MustKnow, Same
  <2> QED
    BY <2>6, <2>7, <2>8
<1>20. ASSUME NEW t \in Conns, UnlockPeer(t) PROVE Keeps
  BY <1>20 DEF UnlockPeer, V_tu
<1>21. ASSUME NEW t \in Conns, UnlockTU(t) PROVE Keeps
  BY <1>21 DEF UnlockTU, V_tu
<1>22. ASSUME NEW t \in Conns, UnlockPbx(t) PROVE Keeps
  BY <1>22 DEF UnlockPbx, V_pbx
<1>23. ASSUME NEW t \in Conns, UnregisterLock(t) PROVE Keeps
  BY <1>23 DEF UnregisterLock, P_pbx
<1>24. ASSUME NEW t \in Conns, UnregisterLockTU(t) PROVE Keeps
  BY <1>24 DEF UnregisterLockTU, P_tu
<1>25. ASSUME NEW t \in Conns, UnregisterClear(t) PROVE Keeps
  BY <1>25 DEF UnregisterClear, V_tu
<1>26. ASSUME NEW t \in Conns, UnregisterFree(t) PROVE Keeps
  BY <1>26 DEF UnregisterFree
<1>27. ASSUME NEW t \in Conns, ClientReads(t) PROVE Keeps
  BY <1>27 DEF ClientReads
<1>28. ASSUME NEW t \in Conns, ClientCloses(t) PROVE Keeps
  <2>1. UNCHANGED <<switch, units, locks, pc, input, path>>
    BY <1>28 DEF ClientCloses
  <2>2. \E after \in {"fin", "rst"} : net' = [net EXCEPT ![t] = after]
    <3> DEFINE Ways == (IF unread[t] = 0 THEN {"fin"} ELSE {})
                         \cup (IF Unplugging = "any" THEN {"rst"} ELSE {})
    <3>1. \E after \in Ways : net' = [net EXCEPT ![t] = after]
      <4> HIDE DEF TypeOK, Shape, Held, LockDiscipline, Ways
      <4> QED
        BY <1>28 DEF ClientCloses, Ways
    <3> HIDE DEF TypeOK, Shape, Held, LockDiscipline
    <3> QED
      BY <3>1
  <2>3. told' = [told EXCEPT ![t] = NoNotice]
    BY <1>28 DEF ClientCloses
  <2> HIDE DEF TypeOK, Shape, Held, LockDiscipline
  <2>4. net \in [Conns -> {"open", "fin", "rst", "dead"}] /\ told \in [Conns -> Notices]
    BY DEF TypeOK, Notices
  <2>5. Knows(t)' /\ \A v \in Conns \ {t} : Same(v)
    BY <2>1, <2>2, <2>3, <2>4 DEF Knows
  <2>6. \A u \in Conns : MustKnow(u)' => MustKnow(u)
    BY <2>1
  <2> HIDE DEF MustKnow, Same
  <2> QED
    BY <2>5, <2>6
<1>29. CASE UNCHANGED vars
  BY <1>29 DEF vars
<1> HIDE DEF TypeOK, Shape, Held, LockDiscipline, Switching, TwoUnit, MustKnow, Same, Keeps
<1>30. ASSUME NEW t \in Conns, Decide(t) PROVE Keeps
  BY <1>11, <1>12, <1>30, DecideCases
<1> QED
  BY <1>1, <1>2, <1>3, <1>4, <1>5, <1>6, <1>7, <1>8, <1>9, <1>10, <1>11, <1>12, <1>13,
     <1>14, <1>15, <1>16, <1>17, <1>18, <1>19, <1>20, <1>21, <1>22, <1>23, <1>24, <1>25,
     <1>26, <1>27, <1>28, <1>29, <1>30
     DEF Next, Thread, Register, Serve, Finish, Unregister, Client, Rest

-----------------------------------------------------------------------------
(* The theorems.                                                           *)

IInv == TypeOK /\ Shape /\ Held /\ Slots /\ Told

\* The exchange starts in good order.
LEMMA InitIInv ==
  ASSUME Init
  PROVE  IInv
<1> USE ConnsAssumption DEF Init
<1>1. TypeOK
  <2>1. state \in [Conns -> TUStates]
    BY StateNames
  <2>2. told \in [Conns -> Notices]
    BY NoNoticeType
  <2>3. /\ telephone_units \in [Ext -> Conns \cup {NoConn}]
        /\ net \in [Conns -> {"open", "fin", "rst", "dead"}]
        /\ server \in {"up", "exit", "sigsegv", "sigpipe"}
    OBVIOUS
  <2>4. isFree \in [Ext -> {0, 1}] /\ registered_tu \in Int
    <3>1. isFree = [e \in Ext |-> 0] /\ registered_tu = 0
      OBVIOUS
    <3> HIDE DEF Init
    <3> QED
      BY <3>1
  <2>7. unread \in [Conns -> 0 .. SockCap]
    <3>1. unread = [c \in Conns |-> 0]
      OBVIOUS
    <3> HIDE DEF Init
    <3>2. 0 \in 0 .. SockCap
      BY BoundsAssumption
    <3> QED
      BY <3>1, <3>2
  <2>5. /\ mutex_pbx \in Conns \cup {NoConn}
        /\ mutex_tu \in [Conns -> Conns \cup {NoConn}]
        /\ extension_number \in [Conns -> Ext \cup {NoExt}]
        /\ connected \in [Conns -> Ext \cup {NoExt}]
        /\ life \in [Conns -> {"unborn", "live", "freed"}]
    OBVIOUS
  <2>6. /\ pc \in [Conns -> Points]
        /\ input \in [Conns -> Commands \cup {NoInput}]
        /\ path \in [Conns -> Paths]
    BY DEF Points, Paths
  <2> QED
    BY <2>1, <2>2, <2>3, <2>4, <2>5, <2>6, <2>7 DEF TypeOK, Notices
<1>2. Shape
  BY DEF Shape, Registered
<1>3. Held
  BY DEF Held, LockDiscipline, HoldsOwn, HoldsPeer, Switching
<1>4. Slots
  <2>1. \A e \in Ext : isFree[e] = 0 /\ telephone_units[e] = NoConn
    OBVIOUS
  <2>2. \A t \in Conns : pc[t] = "unborn"
    OBVIOUS
  <2> HIDE DEF Init
  <2> QED
    BY <2>1, <2>2 DEF Slots, SlotsSound
<1>5. Told
  BY DEF Told, MustKnow, Informed
<1> QED
  BY <1>1, <1>2, <1>3, <1>4, <1>5 DEF IInv

\* The conjunction of everything above is inductive.
THEOREM Inductive == Spec => []IInv
<1>1. IInv /\ [Next]_vars => IInv'
  <2> SUFFICES ASSUME IInv, [Next]_vars
               PROVE  IInv'
    OBVIOUS
  <2>1. TypeOK'
    BY TypeStep DEF IInv
  <2>2. Shape'
    BY ShapeStep DEF IInv
  <2>3. Held'
    BY LockStep DEF IInv
  <2>4. Slots'
    BY SlotStep DEF IInv, Held
  <2>5. Told'
    BY ToldStep DEF IInv
  <2> QED
    BY <2>1, <2>2, <2>3, <2>4, <2>5 DEF IInv
<1> QED
  BY <1>1, InitIInv, PTL DEF Spec

\* Every variable keeps its type, in particular the index that pbx_register
\* stores, with any number of clients on a table of any size.
THEOREM TypeCorrect == Spec => []TypeOK
<1>1. IInv => TypeOK
  BY DEF IInv
<1> QED
  BY <1>1, Inductive, PTL

\* At most one thread works in the switch, it holds the mutexes it counts on, and
\* no mutex of a unit is left locked (the P's and V's of pbx.c:64-329).
THEOREM LocksAreDisciplined == Spec => []LockDiscipline
<1>1. IInv => LockDiscipline
  BY DEF IInv, Held
<1> QED
  BY <1>1, Inductive, PTL

\* A slot of the table never points to a freed unit or to one of another number,
\* even when more clients register than there are slots (pbx.c:64-140).
THEOREM SlotsAreSound == Spec => []SlotsSound
<1>1. IInv => SlotsSound
  BY DEF IInv, Slots
<1> QED
  BY <1>1, Inductive, PTL

\* Whoever changes a unit, its client is told the state it is left in (the
\* print_state calls of pbx.c:152-346).
THEOREM NoticesAreTrue == Spec => []ToldIsTrue
<1>1. IInv => ToldIsTrue
  BY DEF IInv, Told, MustKnow, Knows, ToldIsTrue
<1> QED
  BY <1>1, Inductive, PTL

-----------------------------------------------------------------------------
(* The slots and the room in the table.                                    *)

\* A registered unit owns the slot of its number until it gives the slot back.
Owns == \A t \in Conns : life[t] = "live" =>
          telephone_units[extension_number[t]] = (IF pc[t] = "unreg_free" THEN NoConn ELSE t)

RoomLeft == Cardinality(Accepted) <= FdLimit

-----------------------------------------------------------------------------
(* Descriptors and slots.                                                  *)

\* The connections accepted so far can be counted.
LEMMA AcceptedFinite == IsFiniteSet(Accepted) /\ Cardinality(Accepted) \in Nat
<1>1. IsFiniteSet(Accepted)
  BY ConnsAssumption, FS_Subset DEF Accepted
<1> QED
  BY <1>1, FS_CardinalityType

\* Nobody but accept makes a connection.
LEMMA RoomStep ==
  ASSUME TypeOK, Shape, RoomLeft, [Next]_vars
  PROVE  RoomLeft'
<1>1. ASSUME NEW t \in Conns, Accept(t) PROVE RoomLeft'
  <2>1. pc' = [pc EXCEPT ![t] = "reg_lock"] /\ pc[t] = "unborn" /\ Cardinality(Accepted) < FdLimit
    BY <1>1 DEF Accept, Step
  <2>2. Accepted' = Accepted \cup {t} /\ t \notin Accepted
    BY <2>1 DEF Accepted, TypeOK
  <2>3. Cardinality(Accepted') = Cardinality(Accepted) + 1
    BY <2>2, AcceptedFinite, FS_AddElement
  <2> QED
    BY <2>1, <2>3, AcceptedFinite, BoundsAssumption DEF RoomLeft
<1>2. ASSUME NEW t \in Conns, Thread(t) \/ AcceptFails(t) \/ Client(t) PROVE RoomLeft'
  <2>1. ASSUME NEW from, NEW to, Step(t, from, to), from # "unborn", to # "unborn"
        PROVE  Accepted' = Accepted
    BY <2>1 DEF Step, TypeOK, Accepted
  <2>2. CASE Register(t)
    BY <2>1, <2>2 DEF Register, RegisterLock, RegisterTake, RegisterPrint, RoomLeft
  <2>3. CASE Serve(t)
    BY <2>1, <2>3 DEF Serve, ReadLine, ReadEOF, ReadError, Lock, LockTU, RoomLeft
  <2>4. CASE Decide(t)
    BY <2>1, <2>4, DecideCases DEF Solo, Pair, RoomLeft
  <2>5. CASE Finish(t)
    BY <2>1, <2>5 DEF Finish, LockPeer, PeerFault, WriteOwn, WritePeer, Link, PrintOwn,
       PrintPeer, UnlockPeer, UnlockTU, UnlockPbx, RoomLeft, Accepted
  <2>6. CASE Unregister(t)
    BY <2>1, <2>6 DEF Unregister, UnregisterLock, UnregisterLockTU, UnregisterClear,
       UnregisterFree, RoomLeft
  <2>7. CASE AcceptFails(t) \/ Client(t)
    BY <2>7 DEF AcceptFails, Client, ClientReads, ClientCloses, RoomLeft, Accepted
  <2> QED
    BY <1>2, <2>2, <2>3, <2>4, <2>5, <2>6, <2>7 DEF Thread
<1>3. CASE UNCHANGED vars
  BY <1>3 DEF vars, RoomLeft, Accepted
<1> QED
  BY <1>1, <1>2, <1>3 DEF Next, Rest

\* With no more descriptors than slots the search of pbx_register finds a free slot:
\* every taken slot is some accepted connection's, and the registering one has none.
LEMMA SlotLeft ==
  ASSUME TypeOK, Shape, Slots, RoomLeft, FdLimit <= NExt,
         NEW t \in Conns, pc[t] = "reg_take"
  PROVE  FreeIndex \in Ext /\ isFree[FreeIndex] = 0 /\ telephone_units[FreeIndex] = NoConn
<1>1. isFree \in [Ext -> {0, 1}]
  BY DEF TypeOK
<1>2. \E e \in Ext : isFree[e] = 0
  <2> SUFFICES ASSUME \A e \in Ext : isFree[e] = 1 PROVE FALSE
    BY <1>1
  <2> DEFINE Others == Accepted \ {t}
             f == [e \in Ext |-> telephone_units[e]]
  <2>1. \A e \in Ext : telephone_units[e] \in Others /\ extension_number[telephone_units[e]] = e
    BY DEF Slots, SlotsSound, TypeOK, Shape, Accepted
  <2>2. f \in [Ext -> Others] /\ \A e, g \in Ext : f[e] = f[g] => e = g
    BY <2>1
  <2>3. f \in Injection(Ext, Others)
    BY <2>2 DEF Injection, IsInjective
  <2>4. IsFiniteSet(Others) /\ Cardinality(Others) = Cardinality(Accepted) - 1
    BY AcceptedFinite, FS_RemoveElement DEF Accepted
  <2>5. Cardinality(Ext) <= Cardinality(Others)
    BY <2>3, <2>4, FS_Injection
  <2>6. Cardinality(Ext) = NExt
    <3>1. NExt - 1 \in Int /\ NExt \in Nat /\ NExt > 0
      BY BoundsAssumption
    <3>2. Cardinality(0 .. NExt - 1) = IF 0 > NExt - 1 THEN 0 ELSE (NExt - 1) - 0 + 1
      BY <3>1, FS_Interval
    <3> QED
      BY <3>1, <3>2 DEF Ext
  <2> QED
    BY <2>4, <2>5, <2>6, AcceptedFinite, BoundsAssumption DEF RoomLeft
<1> QED
  BY <1>1, <1>2, FreeIndexLemma DEF Slots, SlotsSound, TypeOK

\* No step takes a slot away from its unit: a slot is only filled when it is free
\* (pbx.c:72-80) and only emptied by the unit that holds it (pbx.c:122-126).
LEMMA OwnsStep ==
  ASSUME TypeOK, Shape, LockDiscipline, Slots, Owns, RoomLeft, FdLimit <= NExt, [Next]_vars
  PROVE  Owns'
<1> USE ConnsAssumption
<1>1. ASSUME NEW t \in Conns, NEW from, NEW to, Step(t, from, to),
             from # "unreg_free", to # "unreg_free",
             UNCHANGED <<telephone_units, extension_number, life>>
      PROVE  Owns'
  <2>1. \A u \in Conns : pc'[u] = "unreg_free" <=> pc[u] = "unreg_free"
    BY <1>1 DEF Step, TypeOK
  <2> QED
    BY <1>1, <2>1 DEF Owns
<1>2. ASSUME NEW t \in Conns, RegisterTake(t) PROVE Owns'
  <2>1. /\ pc[t] = "reg_take" /\ pc' = [pc EXCEPT ![t] = "reg_print"]
        /\ life' = [life EXCEPT ![t] = "live"]
        /\ telephone_units' = [telephone_units EXCEPT ![FreeIndex] = t]
        /\ extension_number' = [extension_number EXCEPT ![t] = FreeIndex]
    BY <1>2 DEF RegisterTake, Step
  <2>2. FreeIndex \in Ext /\ telephone_units[FreeIndex] = NoConn
    BY <2>1, SlotLeft
  <2>3. \A u \in Conns : pc[u] # "unreg_free"
    BY <2>1 DEF LockDiscipline, Switching
  <2>4. /\ pc \in [Conns -> Points] /\ life \in [Conns -> {"unborn", "live", "freed"}]
        /\ telephone_units \in [Ext -> Conns \cup {NoConn}]
        /\ extension_number \in [Conns -> Ext \cup {NoExt}]
    BY DEF TypeOK
  <2>5. \A u \in Conns \ {t} : life[u] = "live" => extension_number[u] # FreeIndex
    BY <2>2, <2>3 DEF Owns
  <2>6. /\ telephone_units'[FreeIndex] = t /\ extension_number'[t] = FreeIndex
        /\ \A e \in Ext \ {FreeIndex} : telephone_units'[e] = telephone_units[e]
        /\ \A u \in Conns \ {t} : /\ extension_number'[u] = extension_number[u]
                                  /\ life'[u] = life[u]
        /\ \A u \in Conns : pc'[u] # "unreg_free"
    BY <2>1, <2>2, <2>3, <2>4
  <2>7. \A u \in Conns : life[u] = "live" => extension_number[u] \in Ext
    BY DEF Shape
  <2>8. \A u \in Conns \ {t} : life'[u] = "live" => telephone_units'[extension_number'[u]] = u
    BY <2>3, <2>5, <2>6, <2>7 DEF Owns
  <2> QED
    BY <2>6, <2>8 DEF Owns
<1>3. ASSUME NEW t \in Conns, UnregisterClear(t) PROVE Owns'
  <2>1. /\ pc[t] = "unreg_clear" /\ pc' = [pc EXCEPT ![t] = "unreg_free"]
        /\ telephone_units' = [telephone_units EXCEPT ![extension_number[t]] = NoConn]
        /\ UNCHANGED <<extension_number, life>>
    BY <1>3 DEF UnregisterClear, Step, units
  <2>2. \A u \in Conns : pc[u] # "unreg_free"
    BY <2>1 DEF LockDiscipline, Switching
  <2>3. life[t] = "live" /\ \A u \in Conns : life[u] = "live" => extension_number[u] \in Ext
    BY <2>1 DEF Shape, Registered
  <2>4. \A u \in Conns \ {t} : life[u] = "live" => extension_number[u] # extension_number[t]
    BY <2>2, <2>3 DEF Owns
  <2> QED
    BY <2>1, <2>2, <2>3, <2>4 DEF Owns, TypeOK
<1>4. ASSUME NEW t \in Conns, UnregisterFree(t) PROVE Owns'
  BY <1>4 DEF UnregisterFree, Step, TypeOK, Owns
<1>5. ASSUME NEW t \in Conns, Accept(t) \/ AcceptFails(t) \/ Client(t) PROVE Owns'
  BY <1>1, <1>5
     DEF Accept, AcceptFails, Client, ClientReads, ClientCloses, switch, units, Owns
<1>6. ASSUME NEW t \in Conns, RegisterLock(t) \/ RegisterPrint(t) \/ Serve(t) PROVE Owns'
  BY <1>1, <1>6 DEF RegisterLock, RegisterPrint, Serve, ReadLine, ReadEOF, ReadError, Lock,
     LockTU, switch, units
<1>7. ASSUME NEW t \in Conns, Decide(t) PROVE Owns'
  BY <1>1, <1>7, DecideCases DEF Solo, Pair, switch, units
<1>8. ASSUME NEW t \in Conns, Finish(t) PROVE Owns'
  BY <1>1, <1>8 DEF Finish, LockPeer, PeerFault, WriteOwn, WritePeer, Link, PrintOwn, PrintPeer,
     UnlockPeer, UnlockTU, UnlockPbx, switch, units, Owns
<1>9. ASSUME NEW t \in Conns, UnregisterLock(t) \/ UnregisterLockTU(t) PROVE Owns'
  BY <1>1, <1>9 DEF UnregisterLock, UnregisterLockTU, switch, units
<1>10. CASE UNCHANGED vars
  BY <1>10 DEF vars, switch, units, Owns
<1> QED
  BY <1>2, <1>3, <1>4, <1>5, <1>6, <1>7, <1>8, <1>9, <1>10
     DEF Next, Thread, Register, Unregister, Rest

\* Two registered units never have one slot.
LEMMA OwnersDiffer ==
  ASSUME TypeOK, LockDiscipline, Owns, NEW u \in Conns, NEW v \in Conns, u # v,
         life[u] = "live", life[v] = "live"
  PROVE  extension_number[u] # extension_number[v]
<1>1. pc[u] # "unreg_free" \/ pc[v] # "unreg_free"
  BY DEF LockDiscipline, Switching
<1> QED
  BY <1>1, ConnsAssumption DEF Owns

\* Every registered unit keeps its slot, and there is a free slot for every unit that is
\* still to come: the loop of pbx_register (pbx.c:72-80) always finds one.
THEOREM RoomInductive ==
  ASSUME FdLimit <= NExt
  PROVE  Spec => [](Owns /\ RoomLeft)
<1>1. Init => Owns /\ RoomLeft
  <2> SUFFICES ASSUME Init PROVE Owns /\ RoomLeft
    OBVIOUS
  <2>1. Accepted = {}
    BY DEF Init, Accepted
  <2>2. RoomLeft
    BY <2>1, FS_EmptySet, BoundsAssumption DEF RoomLeft
  <2> QED
    BY <2>2 DEF Init, Owns
<1>2. IInv /\ Owns /\ RoomLeft /\ [Next]_vars => (Owns /\ RoomLeft)'
  BY RoomStep, OwnsStep DEF IInv, Held
<1> QED
  BY <1>1, <1>2, Inductive, PTL DEF Spec

\* While there are no more descriptors than slots, a number identifies a unit, whichever
\* way clients leave (pbx.c:64-140).
THEOREM ExtensionsAreIdentifying ==
  ASSUME FdLimit <= NExt
  PROVE  Spec => []ExtensionsIdentify
<1>1. IInv /\ Owns => ExtensionsIdentify
  BY OwnersDiffer DEF IInv, Held, ExtensionsIdentify
<1> QED
  BY <1>1, Inductive, RoomInductive, PTL

-----------------------------------------------------------------------------
(* The state the Exchange sees.                                            *)

LineBar == [u \in Conns |-> IF Plugged(u) THEN extension_number[u] ELSE NoExt]

XP == INSTANCE ExchangeProofs WITH
        Units <- Conns, NoUnit <- NoConn, line <- LineBar, phone <- PhoneBar,
        partner <- PartnerBar

\* A thread is between the first and the last store of a two-unit operation.
MidStore(t) == pc[t] \in {"peer", "link"}

\* What PhoneBar and LinkBar come to, as one thread at most is between two stores.
BarsAtRest ==
  (\A t \in Conns : ~MidStore(t)) =>
    \A u \in Conns : /\ PhoneBar[u] = (IF Plugged(u) THEN state[u] ELSE "ON HOOK")
                     /\ LinkBar(u) = connected[u]
BarsMidStore ==
  \A t \in Conns : MidStore(t) =>
    \A u \in Conns :
      /\ PhoneBar[u] = (IF ~Plugged(u) THEN "ON HOOK"
                        ELSE IF pc[t] = "peer" /\ u = PeerOf(t) THEN PeerAfter[path[t]]
                        ELSE state[u])
      /\ LinkBar(u) = (IF path[t] # "ring" THEN connected[u]
                       ELSE IF u = t THEN input[t].ext
                       ELSE IF u = PeerOf(t) THEN extension_number[t] ELSE connected[u])
Bars == BarsAtRest /\ BarsMidStore

\* A thread in mid-operation is the only one inside the switch.
LEMMA OneInside ==
  ASSUME LockDiscipline, NEW t \in Conns, pc[t] \in Switching
  PROVE  \A w \in Conns \ {t} : /\ pc[w] \notin Switching
                                /\ ~MidStore(w) /\ ~HoldsPeer(w)
  BY DEF LockDiscipline, Switching, MidStore, HoldsPeer

\* The bars are what their comment says, whether or not an operation is half done.
LEMMA BarsSeen == IInv => Bars
<1> SUFFICES ASSUME IInv PROVE Bars
  OBVIOUS
<1>1. BarsAtRest
  <2> SUFFICES ASSUME \A t \in Conns : ~MidStore(t), NEW u \in Conns
               PROVE  /\ PhoneBar[u] = (IF Plugged(u) THEN state[u] ELSE "ON HOOK")
                      /\ LinkBar(u) = connected[u]
    BY DEF BarsAtRest
  <2>1. \A t \in Conns : ~Storing(t, u) /\ ~Linking(t)
    BY DEF MidStore, Storing, Linking
  <2> QED
    BY <2>1 DEF PhoneBar, LinkBar
<1>2. BarsMidStore
  <2> SUFFICES ASSUME NEW t \in Conns, MidStore(t), NEW u \in Conns
               PROVE  /\ PhoneBar[u] = (IF ~Plugged(u) THEN "ON HOOK"
                                        ELSE IF pc[t] = "peer" /\ u = PeerOf(t)
                                        THEN PeerAfter[path[t]] ELSE state[u])
                      /\ LinkBar(u) = (IF path[t] # "ring" THEN connected[u]
                                       ELSE IF u = t THEN input[t].ext
                                       ELSE IF u = PeerOf(t) THEN extension_number[t]
                                       ELSE connected[u])
    BY DEF BarsMidStore
  <2>1. \A w \in Conns : w # t => ~Storing(w, u) /\ ~Linking(w)
    BY OneInside DEF IInv, Held, Storing, Linking, MidStore, Switching
  <2>2. /\ Storing(t, u) <=> pc[t] = "peer" /\ u = PeerOf(t)
        /\ Linking(t) <=> path[t] = "ring"
    BY DEF MidStore, Storing, Linking
  <2>3. Storing(t, u) => (CHOOSE w \in Conns : Storing(w, u)) = t
    BY <2>1
  <2>4. Linking(t) /\ PeerOf(t) = u => (CHOOSE w \in Conns : Linking(w) /\ PeerOf(w) = u) = t
    BY <2>1
  <2>5. PhoneBar[u] = (IF ~Plugged(u) THEN "ON HOOK"
                       ELSE IF Storing(t, u) THEN PeerAfter[path[t]] ELSE state[u])
    BY <2>1, <2>3 DEF PhoneBar
  <2>6. LinkBar(u) = (IF Linking(u) THEN input[u].ext
                      ELSE IF Linking(t) /\ PeerOf(t) = u THEN extension_number[t]
                      ELSE connected[u])
    BY <2>1, <2>4 DEF LinkBar
  <2>7. Linking(u) => u = t
    BY <2>1
  <2> QED
    BY <2>2, <2>5, <2>6, <2>7
<1> QED
  BY <1>1, <1>2 DEF Bars

\* A unit is on the line from its registration to the first half of the unregistration.
OnLine ==
  \A u \in Conns :
    /\ Plugged(u) <=> life[u] = "live" /\ pc[u] # "unreg_free"
    /\ LineBar[u] # NoExt <=> Plugged(u)
    /\ Plugged(u) => /\ LineBar[u] = extension_number[u]
                     /\ extension_number[u] \in Ext
                     /\ telephone_units[extension_number[u]] = u

\* For the Exchange a unit is plugged in exactly while the code has it registered.
LEMMA OnTheLine == IInv /\ Owns => OnLine
<1> SUFFICES ASSUME IInv, Owns PROVE OnLine
  OBVIOUS
<1> SUFFICES ASSUME NEW u \in Conns
             PROVE  /\ Plugged(u) <=> life[u] = "live" /\ pc[u] # "unreg_free"
                    /\ LineBar[u] # NoExt <=> Plugged(u)
                    /\ Plugged(u) => /\ LineBar[u] = extension_number[u]
                                     /\ extension_number[u] \in Ext
                                     /\ telephone_units[extension_number[u]] = u
  BY DEF OnLine
<1>1. Plugged(u) <=> life[u] = "live" /\ pc[u] # "unreg_free"
  BY ConnsAssumption DEF Plugged, Owns
<1>2. NoExt \notin Ext
  BY BoundsAssumption DEF Ext, NoExt
<1> QED
  BY <1>1, <1>2 DEF IInv, Plugged, Shape, LineBar

\* The unit a slot points to is on the line under the slot's number.
LEMMA SlotOwner ==
  ASSUME TypeOK, Slots, NEW e, TUAt(e) # NoConn
  PROVE  /\ e \in Ext /\ TUAt(e) = telephone_units[e] /\ TUAt(e) \in Conns
         /\ Plugged(TUAt(e)) /\ extension_number[TUAt(e)] = e
<1>1. e \in Ext /\ TUAt(e) = telephone_units[e]
  BY DEF TUAt
<1> QED
  BY <1>1 DEF Slots, SlotsSound, TypeOK, Plugged

\* The bars are functions on the connections.
LEMMA BarShape ==
  /\ LineBar = [u \in Conns |-> LineBar[u]]
  /\ PhoneBar = [u \in Conns |-> PhoneBar[u]]
  /\ PartnerBar = [u \in Conns |-> PartnerBar[u]]
  /\ \A u \in Conns : PartnerBar[u] = IF PhoneBar[u] \in InCall THEN TUAt(LinkBar(u)) ELSE NoConn
<1>1. LineBar = [u \in Conns |-> LineBar[u]]
  BY DEF LineBar
<1>2. PhoneBar = [u \in Conns |-> PhoneBar[u]]
  BY DEF PhoneBar
<1>3. PartnerBar = [u \in Conns |-> PartnerBar[u]]
  BY DEF PartnerBar
<1>4. \A u \in Conns : PartnerBar[u] = IF PhoneBar[u] \in InCall THEN TUAt(LinkBar(u)) ELSE NoConn
  BY DEF PartnerBar
<1> QED
  BY <1>1, <1>2, <1>3, <1>4

\* The two instances of the Exchange take the same steps.
LEMMA SameExchange ==
  ASSUME XP!ExchangeNext PROVE X!ExchangeNext
  BY DEF XP!ExchangeNext, X!ExchangeNext, XP!Plug, X!Plug, XP!Unplug, X!Unplug, XP!PickUp, X!PickUp,
     XP!HangUp, X!HangUp, XP!Dial, X!Dial, XP!Alone, X!Alone, XP!Join, X!Join, XP!Part, X!Part,
     XP!Plugged, X!Plugged, XP!Paired, X!Paired, LineBar

\* The same after a step.
LEMMA BarsAgain == ASSUME IInv' PROVE Bars'
  BY BarsSeen, PTL

\* The Exchange does not see a step that changes none of its bars.
LEMMA SameBars ==
  ASSUME \A u \in Conns : /\ LineBar'[u] = LineBar[u] /\ PhoneBar'[u] = PhoneBar[u]
                          /\ PartnerBar'[u] = PartnerBar[u]
  PROVE  UNCHANGED XP!xvars
<1>1. LineBar' = LineBar
  BY DEF LineBar
<1>2. PhoneBar' = PhoneBar
  BY DEF PhoneBar
<1>3. PartnerBar' = PartnerBar
  BY DEF PartnerBar
<1> QED
  BY <1>1, <1>2, <1>3 DEF XP!xvars

\* Nor one that stores in no unit and neither enters nor leaves the middle of an operation.
LEMMA Unseen ==
  ASSUME Bars, Bars', UNCHANGED <<telephone_units, extension_number, connected, state>>,
         \A u \in Conns : Plugged(u)' <=> Plugged(u),
         \A t \in Conns : MidStore(t) \/ MidStore(t)' =>
                            pc'[t] = pc[t] /\ path'[t] = path[t] /\ input'[t] = input[t]
  PROVE  UNCHANGED XP!xvars
<1>1. \A u \in Conns : PhoneBar'[u] = PhoneBar[u] /\ LinkBar(u)' = LinkBar(u)
  <2>1. CASE \A t \in Conns : ~MidStore(t)
    <3>1. \A t \in Conns : ~MidStore(t)'
      BY <2>1 DEF MidStore
    <3> QED
      BY <2>1, <3>1 DEF Bars, BarsAtRest
  <2>2. ASSUME NEW t \in Conns, MidStore(t)
        PROVE  \A u \in Conns : PhoneBar'[u] = PhoneBar[u] /\ LinkBar(u)' = LinkBar(u)
    <3>1. MidStore(t)' /\ PeerOf(t)' = PeerOf(t) /\ input'[t] = input[t] /\ path'[t] = path[t]
          /\ pc'[t] = pc[t]
      BY <2>2 DEF MidStore, PeerOf, PeerExt, TUAt
    <3> HIDE DEF MidStore, PeerOf
    <3>2. SUFFICES ASSUME NEW u \in Conns
                   PROVE  PhoneBar'[u] = PhoneBar[u] /\ LinkBar(u)' = LinkBar(u)
      OBVIOUS
    <3>3. /\ PhoneBar[u] = (IF ~Plugged(u) THEN "ON HOOK"
                            ELSE IF pc[t] = "peer" /\ u = PeerOf(t) THEN PeerAfter[path[t]]
                            ELSE state[u])
          /\ LinkBar(u) = (IF path[t] # "ring" THEN connected[u]
                           ELSE IF u = t THEN input[t].ext
                           ELSE IF u = PeerOf(t) THEN extension_number[t] ELSE connected[u])
      BY <2>2 DEF Bars, BarsMidStore
    <3>4. /\ PhoneBar'[u] = (IF ~Plugged(u)' THEN "ON HOOK"
                             ELSE IF pc'[t] = "peer" /\ u = PeerOf(t)' THEN PeerAfter[path'[t]]
                             ELSE state'[u])
          /\ LinkBar(u)' = (IF path'[t] # "ring" THEN connected'[u]
                            ELSE IF u = t THEN input'[t].ext
                            ELSE IF u = PeerOf(t)' THEN extension_number'[t] ELSE connected'[u])
      BY <3>1 DEF Bars, BarsMidStore
    <3>5. PhoneBar'[u] = PhoneBar[u]
      <4>1. CASE Plugged(u)
        BY <3>1, <3>3, <3>4, <4>1
      <4>2. CASE ~Plugged(u)
        BY <3>3, <3>4, <4>2
      <4> QED
        BY <4>1, <4>2
    <3>6. LinkBar(u)' = LinkBar(u)
      <4>1. CASE path[t] # "ring"
        BY <3>1, <3>3, <3>4, <4>1
      <4>2. CASE path[t] = "ring" /\ u # t /\ u = PeerOf(t)
        BY <3>1, <3>3, <3>4, <4>2
      <4>3. CASE path[t] = "ring" /\ u # t /\ u # PeerOf(t)
        BY <3>1, <3>3, <3>4, <4>3
      <4>4. CASE path[t] = "ring" /\ u = t
        <5>1. LinkBar(u) = input[t].ext
          BY <3>3, <4>4
        <5>2. LinkBar(u)' = input'[t].ext
          BY <3>1, <3>4, <4>4
        <5> QED
          BY <3>1, <5>1, <5>2
      <4> QED
        BY <4>1, <4>2, <4>3, <4>4
    <3> QED
      BY <3>5, <3>6
  <2> QED
    BY <2>1, <2>2
<1>2. \A u \in Conns : LineBar'[u] = LineBar[u]
  BY DEF LineBar
<1>3. \A u \in Conns : PartnerBar'[u] = PartnerBar[u]
  BY <1>1 DEF PartnerBar, TUAt
<1> QED
  BY <1>1, <1>2, <1>3, SameBars

\* A step outside the stores, which leaves the units alone, changes no bar.
LEMMA UnseenStep ==
  ASSUME TypeOK, Bars, Bars', NEW t \in Conns, NEW from, NEW to, Step(t, from, to),
         from \notin {"peer", "link"}, to \notin {"peer", "link"},
         \A w \in Conns \ {t} : path'[w] = path[w] /\ input'[w] = input[w],
         UNCHANGED <<telephone_units, extension_number, connected, state>>,
         \A u \in Conns : Plugged(u)' <=> Plugged(u)
  PROVE  UNCHANGED XP!xvars
<1>1. \A w \in Conns : MidStore(w) \/ MidStore(w)' =>
                         pc'[w] = pc[w] /\ path'[w] = path[w] /\ input'[w] = input[w]
  BY DEF MidStore, Step, TypeOK
<1> QED
  BY <1>1, Unseen

-----------------------------------------------------------------------------
(* The invariant of an exchange whose clients unplug quietly.              *)

\* The thread t is dialing unit c or at work on it.
About(t, c) ==
  \/ pc[t] \in {"lock_tu", "body"} /\ input[t].op = "dial" /\ TUAt(input[t].ext) = c
  \/ (pc[t] = "lock_peer" \/ HoldsPeer(t)) /\ PeerOf(t) = c

\* A client that has closed left an idle unit that no thread is about, and a unit
\* unregisters only because its client has closed.
ClosedAt(c) ==
  /\ pc[c] # "lock_stale"
  /\ pc[c] \in {"unreg_lock", "unreg_tu", "unreg_clear"} => net[c] # "open"
  /\ net[c] # "open" =>
       /\ net[c] = "fin"
       /\ pc[c] \in {"read", "unreg_lock", "unreg_tu", "unreg_clear", "unreg_free", "v_pbx", "done"}
       /\ state[c] = "ON HOOK"
       /\ \A t \in Conns : ~About(t, c)
Closed == \A c \in Conns : ClosedAt(c)

\* What the state test of an operation has found still holds when it stores.
Meant(t, how) ==
  /\ how \in {"answer", "refuse"} => state[t] = "RINGING"
  /\ how = "cancel" => state[t] = "RING BACK"
  /\ how \in {"end", "chat"} => state[t] = "CONNECTED"
  /\ how = "ring" => /\ state[t] = "DIAL TONE"
                     /\ PeerOf(t) \in Conns
                     /\ state[PeerOf(t)] = "ON HOOK"
IntentAt(t) ==
  /\ pc[t] \in {"lock_peer", "own"} => Meant(t, path[t])
  /\ pc[t] \in {"print_own", "print_peer"} /\ path[t] = "chat" => state[t] = "CONNECTED"
Intent == \A t \in Conns : IntentAt(t)

Sound == IInv /\ Owns /\ RoomLeft
Calls == XP!ExchangeTypeOK /\ XP!Coupled
QInv == Sound /\ Closed /\ Intent /\ Calls

BarTypes == /\ LineBar \in [Conns -> Ext \cup {NoExt}]
            /\ PhoneBar \in [Conns -> TUStates]
            /\ PartnerBar \in [Conns -> Conns \cup {NoConn}]

\* The bars have the types of the Exchange's variables.
LEMMA BarsTyped == Sound => BarTypes
<1> SUFFICES ASSUME Sound PROVE BarTypes
  OBVIOUS
<1>1. TypeOK /\ Shape /\ Bars
  BY BarsSeen DEF Sound, IInv
<1>2. LineBar \in [Conns -> Ext \cup {NoExt}]
  BY <1>1 DEF TypeOK, LineBar
<1>3. \A u \in Conns : PhoneBar[u] \in TUStates
  <2>1. CASE \A t \in Conns : ~MidStore(t)
    BY <1>1, <2>1, StateNames DEF Bars, BarsAtRest, TypeOK
  <2>2. ASSUME NEW t \in Conns, MidStore(t) PROVE \A u \in Conns : PhoneBar[u] \in TUStates
    <3>1. pc[t] = "peer" => PeerAfter[path[t]] \in TUStates
      BY <1>1, StateNames DEF Shape
    <3>2. "ON HOOK" \in TUStates /\ \A u \in Conns : state[u] \in TUStates
      BY <1>1, StateNames DEF TypeOK
    <3> QED
      BY <1>1, <2>2, <3>1, <3>2 DEF Bars, BarsMidStore
  <2> QED
    BY <2>1, <2>2
<1>4. PhoneBar \in [Conns -> TUStates]
  BY <1>3 DEF PhoneBar
<1>5. PartnerBar \in [Conns -> Conns \cup {NoConn}]
  BY <1>1 DEF PartnerBar, TUAt, TypeOK
<1> QED
  BY <1>2, <1>4, <1>5 DEF BarTypes

\* The state that the Exchange sees is typed after a step, too.
LEMMA BarsTypedAgain == ASSUME Sound' PROVE BarTypes'
  BY BarsTyped, PTL

\* With no operation half done the bars are the units' own fields.
Still == \A t \in Conns : ~MidStore(t)
OwnFields ==
  \A u \in Conns : /\ PhoneBar[u] = (IF Plugged(u) THEN state[u] ELSE "ON HOOK")
                   /\ LinkBar(u) = connected[u]
                   /\ PartnerBar[u] = (IF PhoneBar[u] \in InCall THEN TUAt(connected[u])
                                       ELSE NoConn)

\* With no operation half done the bars of every unit are its fields.
LEMMA AtRest == Sound /\ Still => OwnFields
<1> SUFFICES ASSUME Sound, Still PROVE OwnFields
  OBVIOUS
<1>1. \A u \in Conns : /\ PhoneBar[u] = (IF Plugged(u) THEN state[u] ELSE "ON HOOK")
                       /\ LinkBar(u) = connected[u]
  BY BarsSeen DEF Sound, Bars, BarsAtRest, Still
<1> QED
  BY <1>1 DEF PartnerBar, OwnFields

\* The same after a step.
LEMMA AtRestAgain == ASSUME Sound', Still' PROVE OwnFields'
  BY AtRest, PTL

\* The same for a unit on its own: the fields of the unit at the other end.
LEMMA CallSeen ==
  ASSUME Sound, Calls, Still, NEW u \in Conns, Plugged(u),
         state[u] \in InCall
  PROVE  LET v == TUAt(connected[u]) IN
           /\ PhoneBar[u] = state[u] /\ PartnerBar[u] = v
           /\ v \in Conns \ {u} /\ Plugged(v) /\ extension_number[v] = connected[u]
           /\ state[v] = Opposite[state[u]] /\ PhoneBar[v] = state[v] /\ state[v] \in InCall
           /\ PartnerBar[v] = u /\ connected[v] = extension_number[u]
<1> DEFINE v == TUAt(connected[u])
<1>1. PhoneBar[u] = state[u] /\ PartnerBar[u] = v
  BY AtRest DEF OwnFields
<1>2. /\ v \in Conns \ {u} /\ PartnerBar[v] = u /\ PhoneBar[v] = XP!Opposite(state[u])
  BY <1>1 DEF Calls, XP!Coupled, XP!CoupledAt, XP!Paired, InCall
<1> HIDE DEF v
<1>3. PhoneBar[v] = Opposite[state[u]] /\ PhoneBar[v] \in InCall
  BY <1>2 DEF XP!Opposite, Opposite, InCall
<1>4. Plugged(v) /\ extension_number[v] = connected[u]
  BY <1>2, ConnsAssumption, SlotOwner DEF v, Sound, IInv
<1>5. PhoneBar[v] = state[v] /\ TUAt(connected[v]) = u
  BY <1>2, <1>3, <1>4, AtRest DEF OwnFields
<1>6. connected[v] = extension_number[u]
  BY <1>5, ConnsAssumption, SlotOwner DEF Sound, IInv
<1> QED
  BY <1>1, <1>2, <1>3, <1>4, <1>5, <1>6 DEF v

-----------------------------------------------------------------------------
(* What the Exchange sees of the six steps that it sees.                   *)

\* The units on the line stay the same.
LEMMA SameLine ==
  ASSUME UNCHANGED <<telephone_units, extension_number, life>>
  PROVE  LineBar' = LineBar /\ \A u \in Conns : Plugged(u)' <=> Plugged(u)
<1>1. \A u \in Conns : Plugged(u)' <=> Plugged(u)
  BY DEF Plugged
<1> QED
  BY <1>1 DEF LineBar

\* A step by a thread inside the switch finds and leaves everybody else out of mid-operation.
LEMMA StillStep ==
  ASSUME Sound, NEW t \in Conns, NEW from, NEW to, Step(t, from, to), from \in Switching
  PROVE  /\ from \notin {"peer", "link"} => Still
         /\ to \notin {"peer", "link"} => Still'
         /\ pc'[t] = to /\ \A w \in Conns \ {t} : pc'[w] = pc[w] /\ pc[w] \notin Switching
<1>1. \A w \in Conns \ {t} : pc[w] \notin Switching /\ ~MidStore(w)
  BY OneInside DEF Sound, IInv, Held, Step
<1>2. pc'[t] = to /\ \A w \in Conns \ {t} : pc'[w] = pc[w]
  BY DEF Sound, IInv, TypeOK, Step
<1> QED
  BY <1>1, <1>2 DEF Still, MidStore, Step

\* An operation on the own unit alone is the Exchange's Alone.
LEMMA SoloSeen ==
  ASSUME Sound, Sound', NEW t \in Conns, NEW s \in TUStates, Solo(t, s),
         s = state[t] \/ (s \notin InCall /\ state[t] \notin InCall)
  PROVE  XP!Alone(t, s) /\ Plugged(t) /\ OwnFields /\ PhoneBar[t] = state[t]
<1>1. /\ Step(t, "body", "print_own") /\ state' = [state EXCEPT ![t] = s]
      /\ UNCHANGED <<telephone_units, extension_number, connected, life>>
  BY DEF Solo, switch
<1>2. Still /\ Still'
  BY <1>1, StillStep DEF Switching
<1>3. OwnFields /\ OwnFields'
  BY <1>2, AtRest, AtRestAgain
<1>4. LineBar' = LineBar /\ \A u \in Conns : Plugged(u)' <=> Plugged(u)
  BY <1>1, SameLine
<1>5. Plugged(t)
  BY <1>1, OnTheLine DEF Sound, OnLine, IInv, Shape, Registered, Step
<1>6. state'[t] = s /\ \A u \in Conns \ {t} : state'[u] = state[u]
  BY <1>1 DEF Sound, IInv, TypeOK
<1>7. PhoneBar[t] = state[t] /\ PhoneBar'[t] = s
  BY <1>3, <1>4, <1>5, <1>6 DEF OwnFields
<1>8. \A u \in Conns \ {t} : PhoneBar'[u] = PhoneBar[u]
  BY <1>3, <1>4, <1>6 DEF OwnFields
<1>9. \A u \in Conns : TUAt(connected[u])' = TUAt(connected[u])
  BY <1>1 DEF TUAt
<1>10. \A u \in Conns : PartnerBar'[u] = PartnerBar[u]
  BY <1>3, <1>7, <1>8, <1>9 DEF OwnFields
<1>11. PartnerBar' = PartnerBar
  BY <1>10, BarsTyped, BarsTypedAgain DEF BarTypes
<1>12. PhoneBar' = [PhoneBar EXCEPT ![t] = s]
  BY <1>7, <1>8, BarsTyped, BarsTypedAgain DEF BarTypes
<1> QED
  BY <1>3, <1>4, <1>5, <1>7, <1>11, <1>12 DEF XP!Alone

\* The store to the peer's state was seen when the operation began.
LEMMA WritePeerSeen ==
  ASSUME Sound, Sound', NEW t \in Conns, WritePeer(t)
  PROVE  UNCHANGED XP!xvars
<1> DEFINE v == PeerOf(t)
<1>1. /\ Step(t, "peer", IF path[t] = "ring" THEN "link" ELSE "print_own")
      /\ state' = [state EXCEPT ![v] = PeerAfter[path[t]]]
      /\ UNCHANGED <<telephone_units, extension_number, connected, life, input, path>>
  BY DEF WritePeer, switch
<1>2. v \in Conns /\ v # t
  BY <1>1 DEF Sound, IInv, Held, LockDiscipline, HoldsPeer, Step, TypeOK, PeerOf, TUAt
<1>3. LineBar' = LineBar /\ \A u \in Conns : Plugged(u)' <=> Plugged(u)
  BY <1>1, SameLine
<1>4. PeerOf(t)' = v
  BY <1>1 DEF PeerOf, PeerExt, TUAt
<1> HIDE DEF v
<1>5. state'[v] = PeerAfter[path[t]] /\ \A u \in Conns \ {v} : state'[u] = state[u]
  BY <1>1, <1>2 DEF Sound, IInv, TypeOK
<1>6. MidStore(t) /\ pc[t] = "peer"
  BY <1>1 DEF Step, MidStore
<1>7. \A u \in Conns : /\ PhoneBar[u] = (IF ~Plugged(u) THEN "ON HOOK"
                                         ELSE IF u = v THEN PeerAfter[path[t]] ELSE state[u])
                       /\ LinkBar(u) = (IF path[t] # "ring" THEN connected[u]
                                        ELSE IF u = t THEN input[t].ext
                                        ELSE IF u = v THEN extension_number[t] ELSE connected[u])
  BY <1>6, BarsSeen DEF Sound, Bars, BarsMidStore, v
<1>8. \A u \in Conns : PhoneBar'[u] = (IF ~Plugged(u)' THEN "ON HOOK" ELSE state'[u])
  <2>1. CASE path[t] = "ring"
    <3>1. pc'[t] = "link" /\ MidStore(t)'
      BY <1>1, <2>1, StillStep DEF MidStore, Switching
    <3> QED
      BY <3>1, BarsAgain DEF Sound, Bars, BarsMidStore
  <2>2. CASE path[t] # "ring"
    <3>1. Still'
      BY <1>1, <2>2, StillStep DEF Switching
    <3> QED
      BY <3>1, AtRestAgain DEF OwnFields
  <2> QED
    BY <2>1, <2>2
<1>9. \A u \in Conns : LinkBar(u)' = LinkBar(u)
  <2>1. CASE path[t] = "ring"
    <3>1. MidStore(t)'
      BY <1>1, <2>1, StillStep DEF MidStore, Switching
    <3>2. \A u \in Conns :
             LinkBar(u)' = (IF path'[t] # "ring" THEN connected'[u]
                            ELSE IF u = t THEN input'[t].ext
                            ELSE IF u = PeerOf(t)' THEN extension_number'[t] ELSE connected'[u])
      BY <3>1, BarsAgain DEF Sound, Bars, BarsMidStore
    <3> QED
      BY <1>1, <1>4, <1>7, <3>2
  <2>2. CASE path[t] # "ring"
    <3>1. Still'
      BY <1>1, <2>2, StillStep DEF Switching
    <3>2. \A u \in Conns : LinkBar(u)' = connected'[u]
      BY <3>1, AtRestAgain DEF OwnFields
    <3> QED
      BY <1>1, <1>7, <2>2, <3>2
  <2> QED
    BY <2>1, <2>2
<1>10. \A u \in Conns : PhoneBar'[u] = PhoneBar[u]
  BY <1>3, <1>5, <1>7, <1>8
<1>11. \A u \in Conns : PartnerBar'[u] = PartnerBar[u]
  BY <1>1, <1>9, <1>10 DEF PartnerBar, TUAt
<1> QED
  BY <1>3, <1>10, <1>11, SameBars

\* So was the store of the two connections.
LEMMA LinkSeen ==
  ASSUME Sound, Sound', NEW t \in Conns, Link(t)
  PROVE  UNCHANGED XP!xvars
<1> DEFINE v == PeerOf(t)
<1>1. /\ Step(t, "link", "print_own")
      /\ connected' = [connected EXCEPT ![t] = input[t].ext, ![v] = extension_number[t]]
      /\ UNCHANGED <<telephone_units, extension_number, state, life>>
  BY DEF Link, switch
<1>2. v \in Conns /\ v # t /\ path[t] = "ring"
  BY <1>1 DEF Sound, IInv, Shape, Held, LockDiscipline, HoldsPeer, Step, TypeOK, PeerOf, TUAt
<1>3. LineBar' = LineBar /\ \A u \in Conns : Plugged(u)' <=> Plugged(u)
  BY <1>1, SameLine
<1> HIDE DEF v
<1>4. /\ connected'[t] = input[t].ext /\ connected'[v] = extension_number[t]
      /\ \A u \in Conns \ {t, v} : connected'[u] = connected[u]
  BY <1>1, <1>2 DEF Sound, IInv, TypeOK
<1>5. MidStore(t) /\ pc[t] = "link"
  BY <1>1 DEF Step, MidStore
<1>6. \A u \in Conns : /\ PhoneBar[u] = (IF ~Plugged(u) THEN "ON HOOK" ELSE state[u])
                       /\ LinkBar(u) = (IF u = t THEN input[t].ext
                                        ELSE IF u = v THEN extension_number[t] ELSE connected[u])
  BY <1>2, <1>5, BarsSeen DEF Sound, Bars, BarsMidStore, v
<1>7. Still'
  BY <1>1, StillStep DEF Switching
<1>8. \A u \in Conns : /\ PhoneBar'[u] = (IF Plugged(u)' THEN state'[u] ELSE "ON HOOK")
                       /\ LinkBar(u)' = connected'[u]
  BY <1>7, AtRestAgain DEF OwnFields
<1>9. \A u \in Conns : PhoneBar'[u] = PhoneBar[u]
  BY <1>1, <1>3, <1>6, <1>8
<1>10. \A u \in Conns : LinkBar(u)' = LinkBar(u)
  BY <1>2, <1>4, <1>6, <1>8
<1>11. \A u \in Conns : PartnerBar'[u] = PartnerBar[u]
  BY <1>1, <1>9, <1>10 DEF PartnerBar, TUAt
<1> QED
  BY <1>3, <1>9, <1>11, SameBars

\* The own store of a two-unit operation is where it takes effect, at both ends.
LEMMA StoreSeen ==
  ASSUME Sound, Sound', Calls, Intent, NEW t \in Conns, WriteOwn(t)
  PROVE  XP!ExchangeNext
<1> DEFINE how == path[t]
<1>1. /\ Step(t, "own", "peer") /\ state' = [state EXCEPT ![t] = OwnAfter[how]]
      /\ UNCHANGED <<telephone_units, extension_number, connected, life, input, path>>
  BY DEF WriteOwn, switch
<1>2. PICK v \in Conns : v = PeerOf(t) /\ v # t /\ how \in TwoUnit \ {"chat"}
  BY <1>1 DEF Sound, IInv, Shape, Held, LockDiscipline, HoldsPeer, Step, TypeOK, PeerOf, TUAt
<1>3. LineBar' = LineBar /\ \A u \in Conns : Plugged(u)' <=> Plugged(u)
  BY <1>1, SameLine
<1>4. PeerOf(t)' = v
  BY <1>1, <1>2 DEF PeerOf, PeerExt, TUAt
<1>5. /\ Plugged(t) /\ LineBar[t] = extension_number[t] /\ extension_number[t] \in Ext
      /\ TUAt(extension_number[t]) = t
  BY <1>1, OnTheLine DEF Sound, OnLine, IInv, Shape, Registered, Step, TUAt
<1>6. PeerExt(t) \in Ext /\ Plugged(v) /\ LineBar[v] = PeerExt(t)
  <2>1. v = TUAt(PeerExt(t)) /\ v # NoConn
    BY <1>2, ConnsAssumption DEF PeerOf
  <2> QED
    BY <1>2, <2>1, SlotOwner, OnTheLine DEF Sound, IInv, OnLine
<1>7. v = TUAt(PeerExt(t))
  BY <1>2 DEF PeerOf
<1>8. Meant(t, how)
  BY <1>1 DEF Intent, IntentAt, Step
<1>9. how = "ring" => state[t] = "DIAL TONE" /\ state[v] = "ON HOOK"
  BY <1>2, <1>8 DEF Meant
<1>10. state'[t] = OwnAfter[how] /\ \A u \in Conns \ {t} : state'[u] = state[u]
  BY <1>1 DEF Sound, IInv, TypeOK
<1>11. Still /\ OwnFields /\ MidStore(t)' /\ pc'[t] = "peer"
  BY <1>1, StillStep, AtRest DEF MidStore, Switching
<1>12. \A u \in Conns :
          /\ PhoneBar'[u] = (IF ~Plugged(u)' THEN "ON HOOK"
                             ELSE IF pc'[t] = "peer" /\ u = PeerOf(t)' THEN PeerAfter[path'[t]]
                             ELSE state'[u])
          /\ LinkBar(u)' = (IF path'[t] # "ring" THEN connected'[u]
                            ELSE IF u = t THEN input'[t].ext
                            ELSE IF u = PeerOf(t)' THEN extension_number'[t] ELSE connected'[u])
  BY <1>11, BarsAgain DEF Sound, Bars, BarsMidStore
<1>13. PhoneBar'[t] = OwnAfter[how] /\ PhoneBar'[v] = PeerAfter[how]
  BY <1>1, <1>2, <1>3, <1>4, <1>5, <1>6, <1>10, <1>11, <1>12
<1>14. \A u \in Conns \ {t, v} : PhoneBar'[u] = PhoneBar[u] /\ LinkBar(u)' = LinkBar(u)
  <2> SUFFICES ASSUME NEW u \in Conns \ {t, v}
               PROVE  PhoneBar'[u] = PhoneBar[u] /\ LinkBar(u)' = LinkBar(u)
    OBVIOUS
  <2>1. PhoneBar[u] = (IF Plugged(u) THEN state[u] ELSE "ON HOOK") /\ LinkBar(u) = connected[u]
    BY <1>11 DEF OwnFields
  <2>2. PhoneBar'[u] = (IF ~Plugged(u)' THEN "ON HOOK" ELSE state[u])
    BY <1>4, <1>10, <1>12
  <2>3. LinkBar(u)' = connected[u]
    BY <1>1, <1>4, <1>12
  <2> QED
    BY <1>3, <2>1, <2>2, <2>3
<1>15. \A u \in Conns \ {t, v} : PartnerBar'[u] = PartnerBar[u]
  BY <1>1, <1>14 DEF PartnerBar, TUAt
<1>16. PhoneBar' = [PhoneBar EXCEPT ![t] = OwnAfter[how], ![v] = PeerAfter[how]]
  BY <1>2, <1>13, <1>14, BarsTyped, BarsTypedAgain DEF BarTypes
<1>17. \A u \in {t, v} : PartnerBar'[u] = IF PhoneBar'[u] \in InCall THEN TUAt(LinkBar(u)')
                                          ELSE NoConn
  BY <1>1, <1>2 DEF PartnerBar, TUAt
<1>18. LinkBar(t)' = PeerExt(t)
  BY <1>1, <1>2, <1>12 DEF PeerExt
<1>19. how = "ring" => LinkBar(v)' = extension_number[t]
  BY <1>1, <1>2, <1>4, <1>12
<1>20. how # "ring" => LinkBar(v)' = connected[v]
  BY <1>1, <1>2, <1>4, <1>12
<1>21. how # "ring" => /\ PhoneBar[t] = state[t] /\ PartnerBar[t] = v
                       /\ TUAt(connected[v]) = t
  <2> SUFFICES ASSUME how # "ring" PROVE /\ PhoneBar[t] = state[t] /\ PartnerBar[t] = v
                                         /\ TUAt(connected[v]) = t
    OBVIOUS
  <2>1. state[t] \in InCall
    BY <1>2, <1>8 DEF Meant, TwoUnit, InCall
  <2>2. v = TUAt(connected[t])
    BY <1>7 DEF PeerExt
  <2> QED
    BY <1>5, <1>11, <2>1, <2>2, CallSeen
<1>22. XP!Plugged(t)
  BY <1>5, OnTheLine DEF Sound, OnLine, XP!Plugged
<1>23. CASE how = "answer"
  <2>1. OwnAfter[how] = "CONNECTED" /\ PeerAfter[how] = "CONNECTED" /\ "CONNECTED" \in InCall
    BY <1>23, <1>2 DEF OwnAfter, PeerAfter, InCall
  <2>2. PartnerBar'[t] = v /\ PartnerBar'[v] = t
    BY <1>7, <1>13, <1>17, <1>18, <1>20, <1>21, <1>23, <2>1
  <2>3. PartnerBar' = [PartnerBar EXCEPT ![t] = v, ![v] = t]
    BY <1>2, <1>15, <2>2, BarsTyped, BarsTypedAgain DEF BarTypes
  <2>4. XP!Join(t, PartnerBar[t], "CONNECTED", "CONNECTED")
    BY <1>3, <1>16, <1>21, <1>23, <2>1, <2>3 DEF XP!Join
  <2>5. PhoneBar[t] = "RINGING"
    BY <1>8, <1>21, <1>23 DEF Meant
  <2> QED
    BY <1>22, <2>4, <2>5 DEF XP!PickUp, XP!ExchangeNext
<1>24. CASE how \in {"refuse", "end", "cancel"}
  <2>1. /\ OwnAfter[how] = "ON HOOK" /\ PeerAfter[how] \notin InCall /\ "ON HOOK" \notin InCall
        /\ PeerAfter[how] = IF how = "cancel" THEN "ON HOOK" ELSE "DIAL TONE"
    BY <1>24, <1>2 DEF OwnAfter, PeerAfter, InCall
  <2>2. PartnerBar'[t] = NoConn /\ PartnerBar'[v] = NoConn
    BY <1>13, <1>17, <2>1
  <2>3. PartnerBar' = [PartnerBar EXCEPT ![t] = NoConn, ![v] = NoConn]
    BY <1>2, <1>15, <2>2, BarsTyped, BarsTypedAgain DEF BarTypes
  <2>4. XP!Part(t, PartnerBar[t], "ON HOOK", PeerAfter[how])
    BY <1>3, <1>16, <1>21, <1>24, <2>1, <2>3 DEF XP!Part
  <2>5. /\ how = "cancel" => PhoneBar[t] = "RING BACK"
        /\ how \in {"refuse", "end"} => PhoneBar[t] \in {"CONNECTED", "RINGING"}
    BY <1>8, <1>21, <1>24 DEF Meant
  <2>6. XP!HangUp(t)
    BY <1>22, <1>24, <2>1, <2>4, <2>5 DEF XP!HangUp
  <2> QED
    BY <2>6 DEF XP!ExchangeNext
<1>25. CASE how = "ring"
  <2>1. /\ OwnAfter[how] = "RING BACK" /\ PeerAfter[how] = "RINGING"
        /\ "RING BACK" \in InCall /\ "RINGING" \in InCall
    BY <1>25, <1>2 DEF OwnAfter, PeerAfter, InCall
  <2>2. PartnerBar'[t] = v /\ PartnerBar'[v] = t
    BY <1>5, <1>7, <1>13, <1>17, <1>18, <1>19, <1>25, <2>1
  <2>3. PartnerBar' = [PartnerBar EXCEPT ![t] = v, ![v] = t]
    BY <1>2, <1>15, <2>2, BarsTyped, BarsTypedAgain DEF BarTypes
  <2>4. XP!Join(t, v, "RING BACK", "RINGING")
    BY <1>3, <1>16, <2>1, <2>3 DEF XP!Join
  <2>5. PhoneBar[t] = "DIAL TONE" /\ PhoneBar[v] = "ON HOOK"
    BY <1>2, <1>5, <1>6, <1>9, <1>11, <1>25 DEF OwnFields
  <2>6. XP!Dial(t, PeerExt(t))
    BY <1>2, <1>6, <1>22, <2>4, <2>5 DEF XP!Dial
  <2> QED
    BY <1>6, <2>6 DEF XP!ExchangeNext
<1> QED
  BY <1>2, <1>23, <1>24, <1>25 DEF TwoUnit

\* Taking a slot (pbx.c:72-80) is the Exchange's Plug.
LEMMA TakeSeen ==
  ASSUME Sound, Sound', Calls, FdLimit <= NExt, NEW t \in Conns, RegisterTake(t)
  PROVE  XP!Plug(t, FreeIndex) /\ FreeIndex \in Ext
<1>1. /\ Step(t, "reg_take", "reg_print") /\ pc[t] = "reg_take"
      /\ telephone_units' = [telephone_units EXCEPT ![FreeIndex] = t]
      /\ extension_number' = [extension_number EXCEPT ![t] = FreeIndex]
      /\ state' = [state EXCEPT ![t] = "ON HOOK"]
  BY DEF RegisterTake, Step
<1>2. \A u \in Conns \ {t} : connected'[u] = connected[u] /\ life'[u] = life[u]
  <2>1. PICK g \in Garbage : connected' = [connected EXCEPT ![t] = g]
    BY DEF RegisterTake
  <2>2. life' = [life EXCEPT ![t] = "live"]
    BY DEF RegisterTake
  <2>3. \A u \in Conns \ {t} : connected'[u] = connected[u]
    BY <2>1 DEF Sound, IInv, TypeOK
  <2>4. \A u \in Conns \ {t} : life'[u] = life[u]
    BY <2>2 DEF Sound, IInv, TypeOK
  <2> QED
    BY <2>3, <2>4
<1>3. FreeIndex \in Ext /\ telephone_units[FreeIndex] = NoConn
  BY <1>1, SlotLeft DEF Sound, IInv
<1>4. OwnFields /\ OwnFields'
  <2>1. Step(t, "reg_take", "reg_print") /\ "reg_take" \in Switching
    BY <1>1 DEF Switching
  <2>2. Still /\ Still'
    BY <2>1, StillStep
  <2> QED
    BY <2>2, AtRest, AtRestAgain
<1>5. /\ telephone_units'[FreeIndex] = t /\ extension_number'[t] = FreeIndex
      /\ \A e \in Ext \ {FreeIndex} : telephone_units'[e] = telephone_units[e]
      /\ state'[t] = "ON HOOK"
      /\ \A u \in Conns \ {t} : /\ extension_number'[u] = extension_number[u]
                                /\ state'[u] = state[u]
  <2>1. /\ telephone_units \in [Ext -> Conns \cup {NoConn}] /\ state \in [Conns -> TUStates]
        /\ extension_number \in [Conns -> Ext \cup {NoExt}]
    BY DEF Sound, IInv, TypeOK
  <2>2. /\ telephone_units'[FreeIndex] = t
        /\ \A e \in Ext \ {FreeIndex} : telephone_units'[e] = telephone_units[e]
    BY <1>1, <1>3, <2>1
  <2>3. /\ extension_number'[t] = FreeIndex
        /\ \A u \in Conns \ {t} : extension_number'[u] = extension_number[u]
    BY <1>1, <2>1
  <2>4. state'[t] = "ON HOOK" /\ \A u \in Conns \ {t} : state'[u] = state[u]
    BY <1>1, <2>1
  <2> QED
    BY <2>2, <2>3, <2>4
<1>6. ~Plugged(t) /\ Plugged(t)'
  <2>1. life[t] = "unborn"
    BY <1>1 DEF Sound, IInv, Shape
  <2>2. life' = [life EXCEPT ![t] = "live"] /\ life \in [Conns -> {"unborn", "live", "freed"}]
    BY DEF RegisterTake, Sound, IInv, TypeOK
  <2>3. life'[t] = "live" /\ telephone_units'[extension_number'[t]] = t
    BY <1>5, <2>2
  <2> QED
    BY <2>1, <2>3 DEF Plugged
<1>7. \A u \in Conns \ {t} : Plugged(u)' <=> Plugged(u)
  <2> SUFFICES ASSUME NEW u \in Conns \ {t} PROVE Plugged(u)' <=> Plugged(u)
    OBVIOUS
  <2>1. life[u] = "live" => extension_number[u] \in Ext
    BY DEF Sound, IInv, Shape
  <2>2. CASE life[u] = "live" /\ extension_number[u] # FreeIndex
    <3>1. extension_number'[u] = extension_number[u] /\ life'[u] = life[u]
      BY <1>2, <1>5
    <3>2. telephone_units'[extension_number[u]] = telephone_units[extension_number[u]]
      BY <1>5, <2>1, <2>2
    <3> QED
      BY <3>1, <3>2 DEF Plugged
  <2>3. CASE life[u] = "live" /\ extension_number[u] = FreeIndex
    BY <1>2, <1>3, <1>5, <2>3, ConnsAssumption DEF Plugged
  <2>4. CASE life[u] # "live"
    BY <1>2, <2>4 DEF Plugged
  <2> QED
    BY <2>2, <2>3, <2>4
<1>8. LineBar[t] = NoExt /\ LineBar'[t] = FreeIndex
      /\ \A u \in Conns \ {t} : LineBar'[u] = LineBar[u]
  BY <1>5, <1>6, <1>7 DEF LineBar
<1>9. \A u \in Conns : LineBar[u] # FreeIndex
  BY <1>3, ConnsAssumption, BoundsAssumption DEF LineBar, Plugged, Ext, NoExt
<1>10. PhoneBar[t] = "ON HOOK" /\ PhoneBar'[t] = "ON HOOK"
  BY <1>4, <1>5, <1>6 DEF OwnFields
<1>11. \A u \in Conns \ {t} : PhoneBar'[u] = PhoneBar[u]
  BY <1>4, <1>5, <1>7 DEF OwnFields
<1>12. \A u \in Conns : PartnerBar'[u] = PartnerBar[u]
  <2> SUFFICES ASSUME NEW u \in Conns PROVE PartnerBar'[u] = PartnerBar[u]
    OBVIOUS
  <2>1. PartnerBar'[u] = IF PhoneBar'[u] \in InCall THEN TUAt(connected[u])' ELSE NoConn
    BY <1>4 DEF OwnFields
  <2>2. PartnerBar[u] = IF PhoneBar[u] \in InCall THEN TUAt(connected[u]) ELSE NoConn
    BY <1>4 DEF OwnFields
  <2>3. CASE PhoneBar[u] \notin InCall
    BY <1>10, <1>11, <2>1, <2>2, <2>3
  <2>4. CASE PhoneBar[u] \in InCall
    <3>1. u # t
      BY <1>10, <2>4 DEF InCall
    <3>2. TUAt(connected[u]) \in Conns
      BY <2>2, <2>4 DEF Calls, XP!Coupled, XP!CoupledAt, XP!Paired, InCall
    <3>3. connected[u] \in Ext \ {FreeIndex}
      BY <1>3, <3>2, ConnsAssumption DEF TUAt
    <3>4. TUAt(connected[u])' = TUAt(connected[u])
      BY <1>2, <1>5, <3>1, <3>3 DEF TUAt
    <3> QED
      BY <1>11, <2>1, <2>2, <3>1, <3>4
  <2> QED
    BY <2>3, <2>4
<1>13. /\ LineBar' = [LineBar EXCEPT ![t] = FreeIndex]
       /\ PhoneBar' = [PhoneBar EXCEPT ![t] = "ON HOOK"] /\ PartnerBar' = PartnerBar
  <2>1. BarTypes /\ BarTypes'
    BY BarsTyped, BarsTypedAgain
  <2>2. LineBar' = [LineBar EXCEPT ![t] = FreeIndex]
    BY <1>8, <2>1 DEF BarTypes
  <2>3. PhoneBar' = [PhoneBar EXCEPT ![t] = "ON HOOK"]
    BY <1>10, <1>11, <2>1 DEF BarTypes
  <2>4. PartnerBar' = PartnerBar
    BY <1>12, <2>1 DEF BarTypes
  <2> QED
    BY <2>2, <2>3, <2>4
<1> QED
  BY <1>3, <1>8, <1>9, <1>13 DEF XP!Plug, XP!Plugged

\* Clearing the slot (pbx.c:122-126) is the Exchange's Unplug.
LEMMA ClearSeen ==
  ASSUME Sound, Sound', Calls, Closed, NEW t \in Conns, UnregisterClear(t)
  PROVE  XP!Unplug(t)
<1>1. /\ Step(t, "unreg_clear", "unreg_free") /\ pc[t] = "unreg_clear"
      /\ telephone_units' = [telephone_units EXCEPT ![extension_number[t]] = NoConn]
      /\ UNCHANGED <<extension_number, state, connected, life>>
  BY DEF UnregisterClear, Step, units
<1>2. Still /\ Still' /\ OwnFields /\ OwnFields' /\ pc'[t] = "unreg_free"
  BY <1>1, StillStep, AtRest, AtRestAgain DEF Switching
<1>3. /\ Plugged(t) /\ extension_number[t] \in Ext /\ telephone_units[extension_number[t]] = t
      /\ LineBar[t] # NoExt
  BY <1>1, OnTheLine DEF Sound, OnLine, IInv, Shape, Registered
<1>4. state[t] = "ON HOOK"
  BY <1>1 DEF Closed, ClosedAt
<1>5. /\ telephone_units'[extension_number[t]] = NoConn
      /\ \A e \in Ext \ {extension_number[t]} : telephone_units'[e] = telephone_units[e]
  BY <1>1, <1>3 DEF Sound, IInv, TypeOK
<1>6. ~Plugged(t)'
  BY <1>1, <1>5, ConnsAssumption DEF Plugged
<1>7. \A u \in Conns \ {t} : Plugged(u)' <=> Plugged(u)
  <2> SUFFICES ASSUME NEW u \in Conns \ {t} PROVE Plugged(u)' <=> Plugged(u)
    OBVIOUS
  <2>1. life[u] = "live" => extension_number[u] \in Ext
    BY DEF Sound, IInv, Shape
  <2>2. CASE life[u] = "live" /\ extension_number[u] # extension_number[t]
    BY <1>1, <1>5, <2>1, <2>2 DEF Plugged
  <2>3. CASE life[u] = "live" /\ extension_number[u] = extension_number[t]
    BY <1>1, <1>3, <1>5, <2>3, ConnsAssumption DEF Plugged
  <2>4. CASE life[u] # "live"
    BY <1>1, <2>4 DEF Plugged
  <2> QED
    BY <2>2, <2>3, <2>4
<1>8. LineBar'[t] = NoExt /\ \A u \in Conns \ {t} : LineBar'[u] = LineBar[u]
  BY <1>1, <1>6, <1>7 DEF LineBar
<1>9. PhoneBar[t] = "ON HOOK" /\ PhoneBar'[t] = "ON HOOK"
  BY <1>2, <1>3, <1>4, <1>6 DEF OwnFields
<1>10. \A u \in Conns \ {t} : PhoneBar'[u] = PhoneBar[u]
  BY <1>1, <1>2, <1>7 DEF OwnFields
<1>11. \A u \in Conns : PartnerBar'[u] = PartnerBar[u]
  <2> SUFFICES ASSUME NEW u \in Conns PROVE PartnerBar'[u] = PartnerBar[u]
    OBVIOUS
  <2>1. PartnerBar'[u] = IF PhoneBar'[u] \in InCall THEN TUAt(connected[u])' ELSE NoConn
    BY <1>2 DEF OwnFields
  <2>2. PartnerBar[u] = IF PhoneBar[u] \in InCall THEN TUAt(connected[u]) ELSE NoConn
    BY <1>2 DEF OwnFields
  <2>3. CASE PhoneBar[u] \notin InCall
    BY <1>9, <1>10, <2>1, <2>2, <2>3
  <2>4. CASE PhoneBar[u] \in InCall
    <3>1. u # t
      BY <1>9, <2>4 DEF InCall
    <3>2. TUAt(connected[u]) \in Conns /\ PhoneBar[TUAt(connected[u])] \in InCall
      <4>1. /\ PartnerBar[u] \in Conns
            /\ PhoneBar[PartnerBar[u]] = XP!Opposite(PhoneBar[u])
        BY <2>4 DEF Calls, XP!Coupled, XP!CoupledAt, XP!Paired, InCall
      <4>2. XP!Opposite(PhoneBar[u]) \in InCall
        BY DEF XP!Opposite, InCall
      <4> QED
        BY <2>2, <2>4, <4>1, <4>2
    <3>3. connected[u] \in Ext /\ connected[u] # extension_number[t]
      BY <1>3, <1>9, <3>2, ConnsAssumption DEF TUAt, InCall
    <3>4. TUAt(connected[u])' = TUAt(connected[u])
      BY <1>1, <1>5, <3>3 DEF TUAt
    <3> QED
      BY <1>10, <2>1, <2>2, <3>1, <3>4
  <2> QED
    BY <2>3, <2>4
<1>12. /\ LineBar' = [LineBar EXCEPT ![t] = NoExt]
       /\ PhoneBar' = [PhoneBar EXCEPT ![t] = "ON HOOK"] /\ PartnerBar' = PartnerBar
  <2>1. BarTypes /\ BarTypes'
    BY BarsTyped, BarsTypedAgain
  <2>2. LineBar' = [LineBar EXCEPT ![t] = NoExt]
    BY <1>8, <2>1 DEF BarTypes
  <2>3. PhoneBar' = [PhoneBar EXCEPT ![t] = "ON HOOK"]
    BY <1>9, <1>10, <2>1 DEF BarTypes
  <2>4. PartnerBar' = PartnerBar
    BY <1>11, <2>1 DEF BarTypes
  <2> QED
    BY <2>2, <2>3, <2>4
<1> QED
  BY <1>3, <1>9, <1>12 DEF XP!Unplug, XP!Plugged, XP!Paired

-----------------------------------------------------------------------------
(* Every step of the threads is a step of the Exchange, or none.           *)

\* Why an operation sets its own unit's state to s.
SoloAs(t, s) ==
  \/ s = state[t]
  \/ s = "DIAL TONE" /\ state[t] = "ON HOOK"
  \/ s = "ON HOOK" /\ state[t] \notin InCall
  \/ s = "ERROR" /\ state[t] = "DIAL TONE" /\ isFree[input[t].ext] = 0
  \/ /\ s = "BUSY SIGNAL" /\ state[t] = "DIAL TONE" /\ isFree[input[t].ext] # 0
     /\ state[telephone_units[input[t].ext]] # "ON HOOK"

\* Why an operation goes on to the unit at the other end.
PairAs(t, how) ==
  /\ how \in {"answer", "refuse"} => state[t] = "RINGING"
  /\ how = "cancel" => state[t] = "RING BACK"
  /\ how \in {"end", "chat"} => state[t] = "CONNECTED"
  /\ how = "ring" => /\ input[t].op = "dial" /\ state[t] = "DIAL TONE"
                     /\ isFree[input[t].ext] # 0
                     /\ state[telephone_units[input[t].ext]] = "ON HOOK"

\* Whatever the operation, its body ends in Solo or in Pair, for a reason the code tested.
LEMMA DecideReasons ==
  ASSUME TypeOK, NEW t \in Conns, Decide(t)
  PROVE  \/ \E s \in TUStates : Solo(t, s) /\ SoloAs(t, s)
         \/ \E how \in TwoUnit : Pair(t, how) /\ PairAs(t, how)
<1> DEFINE Ends == \/ \E s \in TUStates : Solo(t, s) /\ SoloAs(t, s)
                   \/ \E how \in TwoUnit : Pair(t, how) /\ PairAs(t, how)
<1>1. state[t] \in TUStates
  BY DEF TypeOK
<1>2. ASSUME NEW s \in TUStates, Solo(t, s), SoloAs(t, s) PROVE Ends
  BY <1>2
<1>3. ASSUME NEW how \in TwoUnit, Pair(t, how), PairAs(t, how) PROVE Ends
  BY <1>3
<1>4. {"answer", "refuse", "cancel", "end", "ring", "chat"} \subseteq TwoUnit
  BY DEF TwoUnit
<1> HIDE DEF Ends
<1>5. CASE PickUp(t)
  <2>1. CASE state[t] = "ON HOOK" /\ Solo(t, "DIAL TONE")
    BY <1>2, <2>1, StateNames DEF SoloAs
  <2>2. CASE state[t] = "RINGING" /\ Pair(t, "answer")
    BY <1>3, <1>4, <2>2 DEF PairAs
  <2>3. CASE Solo(t, state[t])
    BY <1>1, <1>2, <2>3 DEF SoloAs
  <2> QED
    BY <1>5, <2>1, <2>2, <2>3 DEF PickUp
<1>6. CASE HangUp(t)
  <2>1. CASE state[t] \notin InCall /\ Solo(t, "ON HOOK")
    BY <1>2, <2>1, StateNames DEF SoloAs
  <2>2. CASE state[t] = "RINGING" /\ Pair(t, "refuse")
    BY <1>3, <1>4, <2>2 DEF PairAs
  <2>3. CASE state[t] = "RING BACK" /\ Pair(t, "cancel")
    BY <1>3, <1>4, <2>3 DEF PairAs
  <2>4. CASE state[t] = "CONNECTED" /\ Pair(t, "end")
    BY <1>3, <1>4, <2>4 DEF PairAs
  <2> QED
    BY <1>6, <2>1, <2>2, <2>3, <2>4 DEF HangUp
<1>7. CASE Dial(t)
  <2> DEFINE ext == input[t].ext
  <2>1. CASE Solo(t, state[t])
    BY <1>1, <1>2, <2>1 DEF SoloAs
  <2>2. CASE state[t] = "DIAL TONE" /\ isFree[ext] = 0 /\ Solo(t, "ERROR")
    BY <1>2, <2>2, StateNames DEF SoloAs
  <2>3. CASE /\ state[t] = "DIAL TONE" /\ isFree[ext] # 0
             /\ state[telephone_units[ext]] = "ON HOOK" /\ Pair(t, "ring")
    BY <1>3, <1>4, <1>7, <2>3 DEF PairAs, Dial, Chosen
  <2>4. CASE /\ state[t] = "DIAL TONE" /\ isFree[ext] # 0
             /\ state[telephone_units[ext]] # "ON HOOK" /\ Solo(t, "BUSY SIGNAL")
    BY <1>2, <2>4, StateNames DEF SoloAs
  <2> QED
    BY <1>7, <2>1, <2>2, <2>3, <2>4 DEF Dial
<1>8. CASE Chat(t)
  <2>1. CASE state[t] = "CONNECTED" /\ Pair(t, "chat")
    BY <1>3, <1>4, <2>1 DEF PairAs
  <2>2. CASE Solo(t, state[t])
    BY <1>1, <1>2, <2>2 DEF SoloAs
  <2> QED
    BY <1>8, <2>1, <2>2 DEF Chat
<1> QED
  BY <1>5, <1>6, <1>7, <1>8 DEF Decide, Ends

\* Choosing the peer to lock changes nothing yet.
LEMMA PairSeen ==
  ASSUME Sound, Sound', NEW t \in Conns, NEW how \in TwoUnit, Pair(t, how)
  PROVE  UNCHANGED XP!xvars
<1>1. /\ Step(t, "body", "lock_peer") /\ path' = [path EXCEPT ![t] = how] /\ UNCHANGED input
      /\ UNCHANGED <<telephone_units, extension_number, connected, state, life>>
  BY DEF Pair, switch, units
<1>2. \A w \in Conns \ {t} : path'[w] = path[w] /\ input'[w] = input[w]
  BY <1>1 DEF Sound, IInv, TypeOK
<1>3. Bars /\ Bars' /\ TypeOK
  BY BarsSeen, BarsAgain DEF Sound, IInv
<1>4. \A u \in Conns : Plugged(u)' <=> Plugged(u)
  BY <1>1, SameLine
<1> QED
  BY <1>1, <1>2, <1>3, <1>4, UnseenStep

\* An operation that changes its own unit only is one of pickup, hangup and dial.
LEMMA SoloIsStep ==
  ASSUME Sound, Sound', NEW t \in Conns, NEW s \in TUStates, Solo(t, s), SoloAs(t, s)
  PROVE  XP!ExchangeNext \/ UNCHANGED XP!xvars
<1>1. s = state[t] \/ (s \notin InCall /\ state[t] \notin InCall)
  BY DEF SoloAs, InCall
<1>2. XP!Alone(t, s) /\ Plugged(t) /\ OwnFields /\ PhoneBar[t] = state[t]
  BY <1>1, SoloSeen
<1>3. XP!Plugged(t)
  BY <1>2, OnTheLine DEF Sound, OnLine, XP!Plugged
<1>4. PICK e \in Ext : e = input[t].ext
  BY InputType DEF Sound, IInv, TypeOK
<1>5. (isFree[e] = 0 => telephone_units[e] = NoConn)
      /\ (isFree[e] # 0 => telephone_units[e] \in Conns)
  <2>1. isFree \in [Ext -> {0, 1}] /\ telephone_units \in [Ext -> Conns \cup {NoConn}]
    BY DEF Sound, IInv, TypeOK
  <2>2. isFree[e] = 1 <=> telephone_units[e] # NoConn
    BY DEF Sound, IInv, Slots, SlotsSound
  <2> QED
    BY <2>1, <2>2
<1>6. CASE s = state[t]
  <2>1. PhoneBar' = PhoneBar
    BY <1>2, <1>6, BarsTyped DEF XP!Alone, BarTypes
  <2> QED
    BY <1>2, <2>1 DEF XP!Alone, XP!xvars
<1>7. CASE s = "DIAL TONE" /\ state[t] = "ON HOOK"
  BY <1>2, <1>3, <1>7 DEF XP!PickUp, XP!ExchangeNext
<1>8. CASE s = "ON HOOK" /\ state[t] \notin InCall
  BY <1>2, <1>3, <1>8 DEF XP!HangUp, XP!Paired, InCall, XP!ExchangeNext
<1>9. CASE s = "ERROR" /\ state[t] = "DIAL TONE" /\ isFree[input[t].ext] = 0
  <2>1. telephone_units[e] = NoConn
    BY <1>4, <1>5, <1>9
  <2>2. \A v \in Conns : LineBar[v] # e
    BY <2>1, ConnsAssumption, BoundsAssumption DEF LineBar, Plugged, Ext, NoExt
  <2>3. XP!Dial(t, e)
    BY <1>2, <1>3, <1>9, <2>2 DEF XP!Dial
  <2> QED
    BY <2>3 DEF XP!ExchangeNext
<1>10. CASE /\ s = "BUSY SIGNAL" /\ state[t] = "DIAL TONE" /\ isFree[input[t].ext] # 0
            /\ state[telephone_units[input[t].ext]] # "ON HOOK"
  <2>1. PICK v \in Conns : v = telephone_units[e]
    BY <1>4, <1>5, <1>10
  <2>2. Plugged(v) /\ extension_number[v] = e
    BY <2>1, ConnsAssumption DEF Sound, IInv, Slots, SlotsSound, Plugged
  <2>3. LineBar[v] = e /\ PhoneBar[v] = state[v]
    BY <1>2, <2>2 DEF LineBar, OwnFields
  <2>4. XP!Dial(t, e)
    BY <1>2, <1>3, <1>4, <1>10, <2>1, <2>3 DEF XP!Dial
  <2> QED
    BY <2>4 DEF XP!ExchangeNext
<1> QED
  BY <1>6, <1>7, <1>8, <1>9, <1>10 DEF SoloAs

\* Every step of the switch is a step of the Exchange or none.
LEMMA StepSeen ==
  ASSUME Sound, Sound', Calls, Closed, Intent, FdLimit <= NExt, [Next]_vars
  PROVE  XP!ExchangeNext \/ UNCHANGED XP!xvars
<1>1. Bars /\ Bars' /\ TypeOK
  BY BarsSeen, BarsAgain DEF Sound, IInv
<1>2. ASSUME NEW t \in Conns, NEW from, NEW to, Step(t, from, to),
             from \notin {"peer", "link"}, to \notin {"peer", "link"},
             \A w \in Conns \ {t} : path'[w] = path[w] /\ input'[w] = input[w],
             UNCHANGED <<telephone_units, extension_number, connected, state, life>>
      PROVE  UNCHANGED XP!xvars
  BY <1>1, <1>2, SameLine, UnseenStep
<1>3. ASSUME UNCHANGED <<telephone_units, extension_number, connected, state, life>>,
             UNCHANGED <<pc, path, input>>
      PROVE  UNCHANGED XP!xvars
  BY <1>1, <1>3, SameLine, Unseen
<1>4. \A t \in Conns : \A x : /\ path' = [path EXCEPT ![t] = x] =>
                                   \A w \in Conns \ {t} : path'[w] = path[w]
                              /\ input' = [input EXCEPT ![t] = x] =>
                                   \A w \in Conns \ {t} : input'[w] = input[w]
  BY <1>1 DEF TypeOK
<1>5. ASSUME NEW t \in Conns, Accept(t) \/ AcceptFails(t) \/ Client(t) PROVE UNCHANGED XP!xvars
  BY <1>2, <1>3, <1>5
     DEF Accept, AcceptFails, Client, ClientReads, ClientCloses, switch, units
<1>6. ASSUME NEW t \in Conns, RegisterLock(t) \/ RegisterPrint(t) PROVE UNCHANGED XP!xvars
  BY <1>2, <1>4, <1>6 DEF RegisterLock, RegisterPrint, switch, units
<1>7. ASSUME NEW t \in Conns, Serve(t) PROVE UNCHANGED XP!xvars
  <2>1. CASE Lock(t)
    BY <1>2, <1>4, <2>1 DEF Lock, switch, units
  <2>2. CASE ReadLine(t) \/ ReadEOF(t) \/ ReadError(t) \/ LockTU(t)
    BY <1>2, <2>2 DEF ReadLine, ReadEOF, ReadError, LockTU, switch, units
  <2> QED
    BY <1>7, <2>1, <2>2 DEF Serve
<1>8. ASSUME NEW t \in Conns, Decide(t) PROVE XP!ExchangeNext \/ UNCHANGED XP!xvars
  BY <1>1, <1>8, DecideReasons, SoloIsStep, PairSeen
<1>9. ASSUME NEW t \in Conns, LockPeer(t) PROVE XP!ExchangeNext \/ UNCHANGED XP!xvars
  <2>1. CASE path[t] = "chat"
    BY <1>2, <1>9, <2>1 DEF LockPeer, switch, units
  <2>2. CASE path[t] # "chat"
    BY <1>2, <1>9, <2>2 DEF LockPeer, switch, units
  <2> QED
    BY <2>1, <2>2
<1>10. ASSUME NEW t \in Conns, PrintOwn(t) \/ PrintPeer(t) \/ UnlockPeer(t) \/ UnlockTU(t)
       PROVE  UNCHANGED XP!xvars
  BY <1>2, <1>10 DEF PrintOwn, PrintPeer, UnlockPeer, UnlockTU, switch, units
<1>11. ASSUME NEW t \in Conns, UnlockPbx(t) PROVE UNCHANGED XP!xvars
  BY <1>2, <1>4, <1>11 DEF UnlockPbx, switch, units
<1>12. ASSUME NEW t \in Conns, PeerFault(t) PROVE UNCHANGED XP!xvars
  BY <1>3, <1>12 DEF PeerFault, switch, units
<1>13. ASSUME NEW t \in Conns, UnregisterLock(t) \/ UnregisterLockTU(t) PROVE UNCHANGED XP!xvars
  BY <1>2, <1>13 DEF UnregisterLock, UnregisterLockTU, switch, units
<1>14. ASSUME NEW t \in Conns, UnregisterFree(t) PROVE UNCHANGED XP!xvars
  <2>1. /\ Step(t, "unreg_free", "v_pbx") /\ life' = [life EXCEPT ![t] = "freed"]
        /\ path' = [path EXCEPT ![t] = "unregister"] /\ UNCHANGED input
        /\ UNCHANGED <<telephone_units, extension_number, connected, state>>
    BY <1>14 DEF UnregisterFree
  <2>2. ~Plugged(t) /\ ~Plugged(t)'
    BY <1>1, <2>1, OnTheLine DEF Sound, OnLine, Step, Plugged, TypeOK
  <2>3. \A u \in Conns \ {t} : Plugged(u)' <=> Plugged(u)
    BY <1>1, <2>1 DEF Plugged, TypeOK
  <2>4. \A w \in Conns \ {t} : path'[w] = path[w] /\ input'[w] = input[w]
    BY <1>4, <2>1
  <2>5. \A u \in Conns : Plugged(u)' <=> Plugged(u)
    BY <2>2, <2>3
  <2> QED
    BY <1>1, <2>1, <2>4, <2>5, UnseenStep
<1>15. ASSUME NEW t \in Conns, WriteOwn(t) \/ WritePeer(t) \/ Link(t)
       PROVE  XP!ExchangeNext \/ UNCHANGED XP!xvars
  BY <1>15, StoreSeen, WritePeerSeen, LinkSeen
<1>16. ASSUME NEW t \in Conns, RegisterTake(t) PROVE XP!ExchangeNext
  BY <1>16, TakeSeen DEF XP!ExchangeNext
<1>17. ASSUME NEW t \in Conns, UnregisterClear(t) PROVE XP!ExchangeNext
  BY <1>17, ClearSeen DEF XP!ExchangeNext
<1>18. CASE UNCHANGED vars
  BY <1>3, <1>18 DEF vars, switch, units
<1> QED
  BY <1>5, <1>6, <1>7, <1>8, <1>9, <1>10, <1>11, <1>12, <1>13, <1>14, <1>15, <1>16, <1>17, <1>18
     DEF Next, Thread, Register, Finish, Unregister, Rest

-----------------------------------------------------------------------------
(* Quiet clients stay out of the way.                                      *)

\* A client whose thread is inside an operation is there.
LEMMA OpenInside ==
  ASSUME Closed, NEW t \in Conns,
         pc[t] \notin {"read", "unreg_lock", "unreg_tu", "unreg_clear", "unreg_free", "v_pbx",
                       "done"}
  PROVE  net[t] = "open"
  BY DEF Closed, ClosedAt

\* The client at the other end of an operation is there.
LEMMA OpenPeer ==
  ASSUME Sound, Closed, NEW t \in Conns, HoldsPeer(t)
  PROVE  PeerOf(t) \in Conns \ {t} /\ net[PeerOf(t)] = "open"
<1>1. PeerOf(t) \in Conns /\ PeerOf(t) # t
  BY DEF Sound, IInv, Held, LockDiscipline, TypeOK, PeerOf, TUAt
<1>2. About(t, PeerOf(t))
  BY DEF About
<1> QED
  BY <1>1, <1>2 DEF Closed, ClosedAt

\* A notice to a client that is there leaves its connection as it is.
LEMMA QuietPrint ==
  ASSUME NEW u, NEW notice, net[u] = "open", Dprintf(u, notice)
  PROVE  UNCHANGED net
  BY DEF Dprintf, sock

\* A step that closes no connection, changes no closed client's unit and brings no thread
\* to work on one keeps what is closed.
LEMMA ClosedKept ==
  ASSUME Sound, Closed, NEW t \in Conns, NEW from, NEW to, Step(t, from, to), UNCHANGED net,
         to # "lock_stale",
         to \in {"unreg_lock", "unreg_tu", "unreg_clear"} => net[t] # "open",
         net[t] = "open" \/ to \in {"read", "unreg_lock", "unreg_tu", "unreg_clear", "unreg_free",
                                    "v_pbx", "done"},
         \A c \in Conns : net[c] # "open" => /\ state'[c] = state[c]
                                             /\ \A w \in Conns : About(w, c)' => About(w, c)
  PROVE  Closed'
<1>1. pc'[t] = to /\ \A w \in Conns \ {t} : pc'[w] = pc[w]
  BY DEF Sound, IInv, TypeOK, Step
<1> SUFFICES ASSUME NEW c \in Conns PROVE ClosedAt(c)'
  BY DEF Closed
<1>2. net'[c] = net[c] /\ ClosedAt(c)
  BY DEF Closed
<1>3. net[c] # "open" => state'[c] = "ON HOOK" /\ \A w \in Conns : ~About(w, c)'
  BY <1>2 DEF ClosedAt
<1>4. CASE c = t
  BY <1>1, <1>2, <1>3, <1>4 DEF ClosedAt
<1>5. CASE c # t
  BY <1>1, <1>2, <1>3, <1>5 DEF ClosedAt
<1> QED
  BY <1>4, <1>5

\* The same for a step that stores nothing a look at a peer depends on.
LEMMA ClosedPassed ==
  ASSUME Sound, Closed, NEW t \in Conns, NEW from, NEW to, Step(t, from, to), UNCHANGED net,
         to \notin {"lock_stale", "lock_tu", "lock_peer"},
         to \in {"unreg_lock", "unreg_tu", "unreg_clear"} => net[t] # "open",
         net[t] = "open" \/ to \in {"read", "unreg_lock", "unreg_tu", "unreg_clear", "unreg_free",
                                    "v_pbx", "done"},
         to = "body" => from = "lock_tu",
         to \in {"own", "peer", "link", "print_peer", "v_peer"} =>
           from = "lock_peer" \/ HoldsPeer(t),
         to = "print_own" => from = "lock_peer" \/ HoldsPeer(t) \/ path[t] \notin TwoUnit,
         UNCHANGED <<telephone_units, connected, state, input, path>>
  PROVE  Closed'
<1>1. pc'[t] = to /\ pc[t] = from /\ \A w \in Conns \ {t} : pc'[w] = pc[w]
  BY DEF Sound, IInv, TypeOK, Step
<1>2. \A w \in Conns : \A c \in Conns : About(w, c)' => About(w, c)
  BY <1>1 DEF About, HoldsPeer, PeerOf, PeerExt, TUAt
<1> QED
  BY <1>2, ClosedKept

\* The same for a step inside the switch that ends the thread's interest in a peer.
LEMMA ClosedTurned ==
  ASSUME Sound, Closed, NEW t \in Conns, NEW from, NEW to, Step(t, from, to), UNCHANGED net,
         from \in Switching, to \notin {"lock_stale", "lock_tu", "body", "lock_peer"},
         ~HoldsPeer(t)',
         to \in {"unreg_lock", "unreg_tu", "unreg_clear"} => net[t] # "open",
         net[t] = "open" \/ to \in {"read", "unreg_lock", "unreg_tu", "unreg_clear", "unreg_free",
                                    "v_pbx", "done"},
         \A c \in Conns : net[c] # "open" => state'[c] = state[c]
  PROVE  Closed'
<1>1. pc'[t] = to /\ pc[t] = from /\ \A w \in Conns \ {t} : pc'[w] = pc[w]
  BY DEF Sound, IInv, TypeOK, Step
<1>2. \A w \in Conns \ {t} : pc'[w] \notin Switching
  BY <1>1, OneInside DEF Sound, IInv, Held
<1>3. \A w \in Conns : \A c \in Conns : ~About(w, c)'
  <2> SUFFICES ASSUME NEW w \in Conns, NEW c \in Conns PROVE ~About(w, c)'
    OBVIOUS
  <2>1. CASE w = t
    BY <1>1, <2>1 DEF About
  <2>2. CASE w # t
    BY <1>2, <2>2 DEF About, HoldsPeer, Switching
  <2> QED
    BY <2>1, <2>2
<1> QED
  BY <1>3, ClosedKept

\* Every step keeps what is closed closed, and out of the way.
LEMMA ClosedStep ==
  ASSUME Sound, Calls, Closed, Unplugging = "quiet", [Next]_vars
  PROVE  Closed'
<1>1. ASSUME UNCHANGED <<telephone_units, connected, state, pc, path, input, net>>
      PROVE  Closed'
  <2>1. \A w, c \in Conns : About(w, c)' <=> About(w, c)
    BY <1>1 DEF About, HoldsPeer, PeerOf, PeerExt, TUAt
  <2> QED
    BY <1>1, <2>1 DEF Closed, ClosedAt
<1>2. ASSUME NEW t \in Conns, AcceptFails(t) \/ PeerFault(t) \/ ClientReads(t) PROVE Closed'
  BY <1>1, <1>2 DEF AcceptFails, PeerFault, ClientReads, switch, units, sock
<1>3. ASSUME NEW t \in Conns, Accept(t) \/ RegisterLock(t) PROVE Closed'
  <2>1. pc[t] \in {"unborn", "reg_lock"}
    BY <1>3 DEF Accept, RegisterLock, Step
  <2>2. net[t] = "open"
    BY <2>1, OpenInside
  <2>3. CASE Accept(t)
    BY <2>2, <2>3, ClosedPassed DEF Accept, switch, units, sock
  <2>4. CASE RegisterLock(t)
    BY <2>2, <2>4, ClosedPassed DEF RegisterLock, switch, units, sock
  <2> QED
    BY <1>3, <2>3, <2>4
<1>4. ASSUME NEW t \in Conns, RegisterTake(t) PROVE Closed'
  <2>1. /\ Step(t, "reg_take", "reg_print") /\ pc[t] = "reg_take" /\ UNCHANGED net
        /\ state' = [state EXCEPT ![t] = "ON HOOK"]
    BY <1>4 DEF RegisterTake, Step, sock
  <2>2. net[t] = "open" /\ ~HoldsPeer(t)' /\ "reg_take" \in Switching
    BY <2>1, OpenInside DEF Sound, IInv, TypeOK, Step, HoldsPeer, Switching
  <2>3. \A c \in Conns : c # t => state'[c] = state[c]
    BY <2>1 DEF Sound, IInv, TypeOK
  <2> QED
    BY <2>1, <2>2, <2>3, ClosedTurned
<1>5. ASSUME NEW t \in Conns, RegisterPrint(t) PROVE Closed'
  <2>1. /\ Step(t, "reg_print", "v_tu") /\ pc[t] = "reg_print" /\ Dprintf(t, Notice(t))
        /\ UNCHANGED state
    BY <1>5 DEF RegisterPrint, Step, units
  <2>2. net[t] = "open" /\ ~HoldsPeer(t)' /\ "reg_print" \in Switching
    BY <2>1, OpenInside DEF Sound, IInv, TypeOK, Step, HoldsPeer, Switching
  <2>3. UNCHANGED net
    BY <2>1, <2>2, QuietPrint
  <2> QED
    BY <2>1, <2>2, <2>3, ClosedTurned
<1>6. ASSUME NEW t \in Conns, ReadLine(t) PROVE Closed'
  BY <1>6, ClosedPassed DEF ReadLine, switch, units, sock
<1>7. ASSUME NEW t \in Conns, ReadEOF(t) PROVE Closed'
  BY <1>7, ClosedPassed DEF ReadEOF, switch, units, sock
<1>8. ASSUME NEW t \in Conns, ReadError(t) PROVE Closed'
  BY <1>8 DEF ReadError, Closed, ClosedAt
<1>9. ASSUME NEW t \in Conns, Lock(t) PROVE Closed'
  <2>1. PICK cmd \in Lines : input' = [input EXCEPT ![t] = cmd]
    BY <1>9 DEF Lock, Step, Closed, ClosedAt
  <2>2. /\ Step(t, "lock", "lock_tu") /\ pc[t] = "lock" /\ mutex_pbx = NoConn
        /\ UNCHANGED <<telephone_units, state, net>>
    BY <1>9 DEF Lock, Step, P_pbx, Closed, ClosedAt, switch, units, sock
  <2>3. net[t] = "open"
    BY <2>2, OpenInside
  <2>4. \A w \in Conns \ {t} : pc'[w] = pc[w] /\ pc[w] \notin Switching
    BY <2>2, ConnsAssumption DEF Step, Sound, IInv, TypeOK, Held, LockDiscipline
  <2>5. pc'[t] = "lock_tu" /\ input'[t] = cmd
    BY <2>1, <2>2 DEF Step, Sound, IInv, TypeOK
  <2>6. \A c \in Conns : net[c] # "open" => ~About(t, c)'
    <3> SUFFICES ASSUME NEW c \in Conns, cmd.op = "dial", TUAt(cmd.ext) = c PROVE net[c] = "open"
      BY <2>2, <2>5 DEF About, HoldsPeer, TUAt
    <3>1. telephone_units[cmd.ext] = c /\ c # NoConn
      BY ConnsAssumption DEF TUAt
    <3> QED
      BY <3>1 DEF Lines
  <2>7. \A w \in Conns \ {t} : \A c \in Conns : ~About(w, c)'
    BY <2>4 DEF About, HoldsPeer, Switching
  <2> QED
    BY <2>2, <2>3, <2>6, <2>7, ClosedKept
<1>10. ASSUME NEW t \in Conns, LockTU(t) PROVE Closed'
  <2>1. net[t] = "open"
    BY <1>10, OpenInside DEF LockTU, Step
  <2> QED
    BY <1>10, <2>1, ClosedPassed DEF LockTU, switch, units, sock
<1>11. ASSUME NEW t \in Conns, NEW s \in TUStates, Solo(t, s) PROVE Closed'
  <2>1. /\ Step(t, "body", "print_own") /\ pc[t] = "body" /\ UNCHANGED net
        /\ state' = [state EXCEPT ![t] = s] /\ path' = [path EXCEPT ![t] = "alone"]
    BY <1>11 DEF Solo, Step, sock
  <2>2. net[t] = "open" /\ "body" \in Switching
    BY <2>1, OpenInside DEF Switching
  <2>3. ~HoldsPeer(t)'
    BY <2>1 DEF Sound, IInv, TypeOK, Step, HoldsPeer, TwoUnit
  <2>4. \A c \in Conns : c # t => state'[c] = state[c]
    BY <2>1 DEF Sound, IInv, TypeOK
  <2> QED
    BY <2>1, <2>2, <2>3, <2>4, ClosedTurned
<1>12. ASSUME NEW t \in Conns, NEW how \in TwoUnit, Pair(t, how), PairAs(t, how) PROVE Closed'
  <2>1. /\ Step(t, "body", "lock_peer") /\ pc[t] = "body" /\ UNCHANGED <<net, state, input>>
        /\ path' = [path EXCEPT ![t] = how] /\ UNCHANGED <<telephone_units, connected>>
    BY <1>12 DEF Pair, Step, switch, units, sock
  <2>2. net[t] = "open" /\ Still
    BY <2>1, OpenInside, StillStep DEF Switching
  <2>3. pc'[t] = "lock_peer" /\ path'[t] = how
    BY <2>1 DEF Sound, IInv, TypeOK, Step
  <2>4. \A w \in Conns \ {t} : \A c \in Conns : ~About(w, c)'
    BY <2>1, StillStep DEF Switching, About, HoldsPeer
  <2>5. \A c \in Conns : net[c] # "open" => PeerOf(t)' # c
    <3> SUFFICES ASSUME NEW c \in Conns, net[c] # "open", PeerOf(t)' = c PROVE FALSE
      OBVIOUS
    <3>1. CASE how = "ring"
      <4>1. About(t, c)
        BY <1>12, <2>1, <2>3, <3>1 DEF PairAs, About, PeerOf, PeerExt, TUAt
      <4> QED
        BY <4>1 DEF Closed, ClosedAt
    <3>2. CASE how # "ring"
      <4>1. TUAt(connected[t]) = c
        BY <2>1, <2>3, <3>2 DEF PeerOf, PeerExt, TUAt
      <4>2. state[t] \in InCall /\ Plugged(t)
        BY <1>12, <2>1, <3>2, OnTheLine
           DEF PairAs, TwoUnit, InCall, Sound, OnLine, IInv, Shape, Registered
      <4>3. state[c] \in InCall
        BY <2>2, <4>1, <4>2, CallSeen
      <4> QED
        BY <4>3 DEF Closed, ClosedAt, InCall
    <3> QED
      BY <3>1, <3>2
  <2>6. \A c \in Conns : net[c] # "open" => ~About(t, c)'
    BY <2>3, <2>5 DEF About
  <2> QED
    BY <2>1, <2>2, <2>4, <2>6, ClosedKept
<1>13. ASSUME NEW t \in Conns, Decide(t) PROVE Closed'
  BY <1>11, <1>12, <1>13, DecideReasons DEF Sound, IInv
<1>14. ASSUME NEW t \in Conns, LockPeer(t) PROVE Closed'
  <2>1. net[t] = "open"
    BY <1>14, OpenInside DEF LockPeer, Step
  <2> QED
    BY <1>14, <2>1, ClosedPassed DEF LockPeer, switch, units, sock
<1>15. ASSUME NEW t \in Conns, WriteOwn(t) \/ WritePeer(t) \/ Link(t) PROVE Closed'
  <2>1. net[t] = "open" /\ HoldsPeer(t)
    BY <1>15, OpenInside DEF WriteOwn, WritePeer, Link, Step, HoldsPeer
  <2>2. PeerOf(t) \in Conns \ {t} /\ net[PeerOf(t)] = "open"
    BY <2>1, OpenPeer
  <2>3. PICK to \in {"peer", "link", "print_own"} : Step(t, pc[t], to)
    BY <1>15 DEF WriteOwn, WritePeer, Link, Step
  <2>4. /\ UNCHANGED <<telephone_units, input, path, net>>
        /\ pc'[t] = to /\ \A w \in Conns \ {t} : pc'[w] = pc[w] /\ pc[w] \notin Switching
    <3>1. pc[t] \in Switching
      BY <1>15 DEF WriteOwn, WritePeer, Link, Step, Switching
    <3> QED
      BY <1>15, <2>3, <3>1, StillStep DEF WriteOwn, WritePeer, Link, switch, sock
  <2>5. \A c \in Conns : net[c] # "open" => state'[c] = state[c]
    <3>1. CASE WriteOwn(t)
      BY <2>1, <3>1 DEF WriteOwn, Sound, IInv, TypeOK
    <3>2. CASE WritePeer(t)
      BY <2>2, <3>2 DEF WritePeer, Sound, IInv, TypeOK
    <3>3. CASE Link(t)
      BY <3>3 DEF Link
    <3> QED
      BY <1>15, <3>1, <3>2, <3>3
  <2>6. PeerOf(t)' = PeerOf(t)
    <3>1. CASE Link(t)
      <4>1. path[t] = "ring"
        BY <3>1 DEF Link, Step, Sound, IInv, Shape
      <4> QED
        BY <2>4, <4>1 DEF PeerOf, PeerExt, TUAt
    <3>2. CASE WriteOwn(t) \/ WritePeer(t)
      BY <3>2, <2>4 DEF WriteOwn, WritePeer, PeerOf, PeerExt, TUAt
    <3> QED
      BY <1>15, <3>1, <3>2
  <2>7. \A c \in Conns : About(t, c)' => About(t, c)
    BY <2>1, <2>4, <2>6 DEF About
  <2>8. \A w \in Conns \ {t} : \A c \in Conns : ~About(w, c)'
    BY <2>4 DEF About, HoldsPeer, Switching
  <2> QED
    BY <2>1, <2>3, <2>4, <2>5, <2>7, <2>8, ClosedKept
<1>16. ASSUME NEW t \in Conns, PrintOwn(t) PROVE Closed'
  <2>1. net[t] = "open"
    BY <1>16, OpenInside DEF PrintOwn, Step
  <2>2. UNCHANGED net
    BY <1>16, <2>1, QuietPrint DEF PrintOwn
  <2>3. path[t] \in TwoUnit => HoldsPeer(t)
    BY <1>16 DEF PrintOwn, Step, HoldsPeer
  <2>4. PICK to \in {"print_peer", "v_tu"} :
          Step(t, "print_own", to) /\ (to = "print_peer" => path[t] \in TwoUnit)
    BY <1>16 DEF PrintOwn
  <2>5. UNCHANGED <<telephone_units, connected, state, input, path>>
    BY <1>16 DEF PrintOwn, switch, units
  <2> QED
    BY <2>1, <2>2, <2>3, <2>4, <2>5, ClosedPassed
<1>17. ASSUME NEW t \in Conns, PrintPeer(t) PROVE Closed'
  <2>1. net[t] = "open" /\ HoldsPeer(t)
    BY <1>17, OpenInside DEF PrintPeer, Step, HoldsPeer
  <2>2. UNCHANGED net
    BY <1>17, <2>1, OpenPeer, QuietPrint DEF PrintPeer
  <2>3. Step(t, "print_peer", "v_peer") /\ UNCHANGED <<telephone_units, connected, state, input, path>>
    BY <1>17 DEF PrintPeer, switch, units
  <2> QED
    BY <2>1, <2>2, <2>3, ClosedPassed
<1>18. ASSUME NEW t \in Conns, UnlockPeer(t) \/ UnlockTU(t) PROVE Closed'
  <2>1. CASE UnlockPeer(t)
    <3>1. net[t] = "open"
      BY <2>1, OpenInside DEF UnlockPeer, Step
    <3> QED
      BY <2>1, <3>1, ClosedPassed DEF UnlockPeer, switch, units, sock
  <2>2. CASE UnlockTU(t)
    BY <2>2, ClosedPassed DEF UnlockTU, switch, units, sock
  <2> QED
    BY <1>18, <2>1, <2>2
<1>19. ASSUME NEW t \in Conns, UnlockPbx(t) PROVE Closed'
  <2>1. PICK to \in {"read", "done"} : Step(t, "v_pbx", to)
    BY <1>19 DEF UnlockPbx
  <2>2. ~HoldsPeer(t)' /\ "v_pbx" \in Switching
    BY <2>1 DEF Sound, IInv, TypeOK, Step, HoldsPeer, Switching
  <2>3. UNCHANGED <<state, net>>
    BY <1>19 DEF UnlockPbx, units, sock
  <2> QED
    BY <2>1, <2>2, <2>3, ClosedTurned
<1>20. ASSUME NEW t \in Conns, UnregisterLock(t) \/ UnregisterLockTU(t) PROVE Closed'
  <2>1. net[t] # "open"
    BY <1>20 DEF UnregisterLock, UnregisterLockTU, Step, Closed, ClosedAt
  <2>2. CASE UnregisterLock(t)
    BY <2>1, <2>2, ClosedPassed DEF UnregisterLock, switch, units, sock
  <2>3. CASE UnregisterLockTU(t)
    BY <2>1, <2>3, ClosedPassed DEF UnregisterLockTU, switch, units, sock
  <2> QED
    BY <1>20, <2>2, <2>3
<1>21. ASSUME NEW t \in Conns, UnregisterClear(t) PROVE Closed'
  <2>1. Step(t, "unreg_clear", "unreg_free") /\ UNCHANGED <<state, net>>
    BY <1>21 DEF UnregisterClear, units, sock
  <2>2. ~HoldsPeer(t)' /\ "unreg_clear" \in Switching
    BY <2>1 DEF Sound, IInv, TypeOK, Step, HoldsPeer, Switching
  <2> QED
    BY <2>1, <2>2, ClosedTurned
<1>22. ASSUME NEW t \in Conns, UnregisterFree(t) PROVE Closed'
  <2>1. Step(t, "unreg_free", "v_pbx") /\ UNCHANGED <<state, net>>
    BY <1>22 DEF UnregisterFree, sock
  <2>2. ~HoldsPeer(t)' /\ "unreg_free" \in Switching
    BY <2>1 DEF Sound, IInv, TypeOK, Step, HoldsPeer, Switching
  <2> QED
    BY <2>1, <2>2, ClosedTurned
<1>23. ASSUME NEW c \in Conns, ClientCloses(c) PROVE Closed'
  <2>1. /\ pc[c] = "read" /\ state[c] = "ON HOOK" /\ Undisturbed(c) /\ net' = [net EXCEPT ![c] = "fin"]
        /\ UNCHANGED <<telephone_units, connected, state, pc, path, input>>
    BY <1>23 DEF ClientCloses, switch, units
  <2>2. net'[c] = "fin" /\ \A d \in Conns \ {c} : net'[d] = net[d]
    BY <2>1 DEF Sound, IInv, TypeOK
  <2>3. \A t \in Conns : \A d \in Conns : About(t, d)' <=> About(t, d)
    <3>1. \A e : TUAt(e)' = TUAt(e)
      BY <2>1 DEF TUAt
    <3>2. \A t \in Conns : PeerOf(t)' = PeerOf(t) /\ (HoldsPeer(t)' <=> HoldsPeer(t))
      BY <2>1 DEF HoldsPeer, PeerOf, PeerExt, TUAt
    <3> QED
      BY <2>1, <3>1, <3>2 DEF About
  <2>4. \A t \in Conns : ~About(t, c)
    <3> SUFFICES ASSUME NEW t \in Conns, About(t, c) PROVE FALSE
      OBVIOUS
    <3>1. CASE pc[t] \in {"lock_tu", "body"} /\ input[t].op = "dial" /\ TUAt(input[t].ext) = c
      <4>1. extension_number[c] = input[t].ext
        BY <3>1, ConnsAssumption, SlotOwner DEF Sound, IInv
      <4>2. input[t] = [op |-> "dial", ext |-> input[t].ext]
        BY <3>1 DEF Sound, IInv, TypeOK, Commands, NoInput
      <4> QED
        BY <2>1, <3>1, <4>1, <4>2 DEF Undisturbed, Switching
    <3>2. CASE (pc[t] = "lock_peer" \/ HoldsPeer(t)) /\ PeerOf(t) = c
      <4>1. pc[t] \in Switching /\ path[t] \in TwoUnit
        BY <3>2 DEF Sound, IInv, Shape, HoldsPeer, Switching, TwoUnit
      <4> QED
        BY <2>1, <3>2, <4>1 DEF Undisturbed
    <3> QED
      BY <3>1, <3>2 DEF About
  <2> QED
    BY <2>1, <2>2, <2>3, <2>4 DEF Closed, ClosedAt
<1>24. CASE UNCHANGED vars
  BY <1>1, <1>24 DEF vars, switch, units, sock
<1> QED
  BY <1>2, <1>3, <1>4, <1>5, <1>6, <1>7, <1>8, <1>9, <1>10, <1>13, <1>14, <1>15, <1>16, <1>17,
     <1>18, <1>19, <1>20, <1>21, <1>22, <1>23, <1>24
     DEF Next, Thread, Register, Serve, Finish, Unregister, Client, Rest

-----------------------------------------------------------------------------
(* What a thread meant to do is still right when it does it.               *)

\* A step inside the switch leaves the other threads with nothing in mind.
LEMMA IntentInside ==
  ASSUME Sound, NEW t \in Conns, NEW from, NEW to, Step(t, from, to), from \in Switching,
         to \in {"lock_peer", "own", "print_own", "print_peer"} => IntentAt(t)'
  PROVE  Intent'
<1>1. pc'[t] = to /\ \A w \in Conns \ {t} : pc'[w] \notin Switching
  BY StillStep
<1>2. \A w \in Conns \ {t} : IntentAt(w)'
  BY <1>1 DEF IntentAt, Switching
<1>3. IntentAt(t)'
  BY <1>1 DEF IntentAt
<1> QED
  BY <1>2, <1>3 DEF Intent

\* A step outside the switch stores nothing.
LEMMA IntentOutside ==
  ASSUME Sound, Intent, UNCHANGED <<telephone_units, connected, state, path, input>>,
         \/ UNCHANGED pc
         \/ \E t \in Conns : \E from, to :
               Step(t, from, to) /\ to \notin {"lock_peer", "own", "print_own", "print_peer"}
  PROVE  Intent'
<1> SUFFICES ASSUME NEW w \in Conns PROVE IntentAt(w)'
  BY DEF Intent
<1>1. pc'[w] = pc[w] \/ pc'[w] \notin {"lock_peer", "own", "print_own", "print_peer"}
  BY DEF Sound, IInv, TypeOK, Step
<1>2. CASE pc'[w] = pc[w]
  <2>1. Meant(w, path[w])' <=> Meant(w, path[w])
    BY DEF Meant, PeerOf, PeerExt, TUAt
  <2> QED
    BY <1>2, <2>1 DEF Intent, IntentAt
<1>3. CASE pc'[w] \notin {"lock_peer", "own", "print_own", "print_peer"}
  BY <1>3 DEF IntentAt
<1> QED
  BY <1>1, <1>2, <1>3

\* An operation that is half done keeps its reason: nobody else changes the two units
\* it has locked.
LEMMA IntentStep ==
  ASSUME Sound, Intent, [Next]_vars
  PROVE  Intent'
<1>1. ASSUME NEW t \in Conns, Accept(t) \/ AcceptFails(t) \/ RegisterLock(t) PROVE Intent'
  BY <1>1, IntentOutside DEF Accept, AcceptFails, RegisterLock, switch, units
<1>2. ASSUME NEW t \in Conns, ReadLine(t) \/ ReadEOF(t) \/ ReadError(t) PROVE Intent'
  BY <1>2, IntentOutside DEF ReadLine, ReadEOF, ReadError, switch, units
<1>3. ASSUME NEW t \in Conns, PeerFault(t) \/ UnregisterLock(t) \/ Client(t) PROVE Intent'
  <2>1. CASE PeerFault(t) \/ UnregisterLock(t)
    BY <2>1, IntentOutside DEF PeerFault, UnregisterLock, switch, units
  <2>2. CASE Client(t)
    <3>1. UNCHANGED <<telephone_units, connected, state, path, input, pc>>
      BY <2>2 DEF Client, ClientReads, ClientCloses, switch, units
    <3> QED
      BY <3>1, IntentOutside
  <2> QED
    BY <1>3, <2>1, <2>2
<1>4. CASE UNCHANGED vars
  BY <1>4, IntentOutside DEF vars, switch, units
<1>5. ASSUME NEW t \in Conns, Lock(t) PROVE Intent'
  <2>1. \A w \in Conns : pc[w] \notin Switching /\ (w # t => pc'[w] = pc[w])
    BY <1>5, ConnsAssumption
       DEF Lock, Step, P_pbx, Sound, IInv, TypeOK, Held, LockDiscipline
  <2>2. pc'[t] = "lock_tu"
    BY <1>5 DEF Lock, Step, Sound, IInv, TypeOK
  <2> QED
    BY <2>1, <2>2 DEF Intent, IntentAt, Switching
<1>6. ASSUME NEW t \in Conns, RegisterTake(t) \/ RegisterPrint(t) \/ LockTU(t) PROVE Intent'
  BY <1>6, IntentInside DEF RegisterTake, RegisterPrint, LockTU, Switching
<1>7. ASSUME NEW t \in Conns, NEW s \in TUStates, Solo(t, s) PROVE Intent'
  <2>1. Step(t, "body", "print_own") /\ path' = [path EXCEPT ![t] = "alone"]
    BY <1>7 DEF Solo
  <2>2. IntentAt(t)'
    BY <2>1 DEF Step, Sound, IInv, TypeOK, IntentAt
  <2> QED
    BY <2>1, <2>2, IntentInside DEF Switching
<1>8. ASSUME NEW t \in Conns, NEW how \in TwoUnit, Pair(t, how), PairAs(t, how) PROVE Intent'
  <2>1. /\ Step(t, "body", "lock_peer") /\ path' = [path EXCEPT ![t] = how]
        /\ UNCHANGED <<telephone_units, connected, state, input>>
    BY <1>8 DEF Pair, switch, units
  <2>2. pc'[t] = "lock_peer" /\ path'[t] = how
    BY <2>1 DEF Step, Sound, IInv, TypeOK
  <2>3. how = "ring" => PeerOf(t)' \in Conns /\ state[PeerOf(t)'] = "ON HOOK"
    <3> SUFFICES ASSUME how = "ring" PROVE PeerOf(t)' \in Conns /\ state[PeerOf(t)'] = "ON HOOK"
      OBVIOUS
    <3>1. PICK e \in Ext : e = input[t].ext
      BY InputType DEF Sound, IInv, TypeOK
    <3>2. isFree[e] # 0 /\ state[telephone_units[e]] = "ON HOOK"
      BY <1>8, <3>1 DEF PairAs
    <3>3. telephone_units[e] \in Conns
      <4>1. isFree \in [Ext -> {0, 1}] /\ telephone_units \in [Ext -> Conns \cup {NoConn}]
        BY DEF Sound, IInv, TypeOK
      <4>2. isFree[e] = 1 <=> telephone_units[e] # NoConn
        BY DEF Sound, IInv, Slots, SlotsSound
      <4> QED
        BY <3>2, <4>1, <4>2
    <3>4. PeerOf(t)' = telephone_units[e]
      BY <2>1, <2>2, <3>1 DEF PeerOf, PeerExt, TUAt
    <3> QED
      BY <3>2, <3>3, <3>4
  <2>4. Meant(t, how)'
    BY <1>8, <2>1, <2>3 DEF PairAs, Meant
  <2>5. Meant(t, path[t])'
    BY <2>2, <2>4 DEF Meant
  <2>6. IntentAt(t)'
    BY <2>2, <2>5 DEF IntentAt
  <2> QED
    BY <2>1, <2>6, IntentInside DEF Switching
<1>9. ASSUME NEW t \in Conns, Decide(t) PROVE Intent'
  BY <1>7, <1>8, <1>9, DecideReasons DEF Sound, IInv
<1>10. ASSUME NEW t \in Conns, LockPeer(t) PROVE Intent'
  <2>1. /\ Step(t, "lock_peer", IF path[t] = "chat" THEN "print_own" ELSE "own")
        /\ UNCHANGED <<telephone_units, connected, state, path, input>>
    BY <1>10 DEF LockPeer, switch, units
  <2>2. Meant(t, path[t])
    BY <2>1 DEF Step, Intent, IntentAt
  <2>3. Meant(t, path[t])'
    BY <2>1, <2>2 DEF Meant, PeerOf, PeerExt, TUAt
  <2>4. IntentAt(t)'
    BY <2>1, <2>2, <2>3 DEF IntentAt, Meant
  <2> QED
    BY <2>1, <2>4, IntentInside DEF Switching
<1>11. ASSUME NEW t \in Conns, WriteOwn(t) \/ UnlockPeer(t) \/ UnlockTU(t) \/ UnlockPbx(t) PROVE Intent'
  BY <1>11, IntentInside DEF WriteOwn, UnlockPeer, UnlockTU, UnlockPbx, Switching
<1>12. ASSUME NEW t \in Conns, WritePeer(t) \/ Link(t) PROVE Intent'
  <2>1. PICK from \in {"peer", "link"} : \E to \in {"link", "print_own"} : Step(t, from, to)
    BY <1>12 DEF WritePeer, Link
  <2>2. PICK to \in {"link", "print_own"} : Step(t, from, to)
    BY <2>1
  <2>3. path[t] # "chat" /\ path' = path
    BY <1>12 DEF WritePeer, Link, Step, Sound, IInv, Shape
  <2>4. pc'[t] = to
    BY <2>2 DEF Step, Sound, IInv, TypeOK
  <2>5. IntentAt(t)'
    BY <2>3, <2>4 DEF IntentAt
  <2> QED
    BY <2>2, <2>5, IntentInside DEF Switching
<1>13. ASSUME NEW t \in Conns, PrintOwn(t) PROVE Intent'
  <2>1. /\ Step(t, "print_own", IF path[t] \in TwoUnit THEN "print_peer" ELSE "v_tu")
        /\ UNCHANGED <<state, path>> /\ pc[t] = "print_own"
    BY <1>13 DEF PrintOwn, Step, units
  <2>2. path[t] = "chat" => state[t] = "CONNECTED"
    BY <2>1 DEF Intent, IntentAt
  <2>3. pc'[t] \in {"print_peer", "v_tu"}
    BY <2>1 DEF Step, Sound, IInv, TypeOK
  <2>4. IntentAt(t)'
    BY <2>1, <2>2, <2>3 DEF IntentAt
  <2> QED
    BY <2>1, <2>4, IntentInside DEF Switching
<1>14. ASSUME NEW t \in Conns, PrintPeer(t) PROVE Intent'
  BY <1>14, IntentInside DEF PrintPeer, Switching
<1>15. ASSUME NEW t \in Conns, UnregisterLockTU(t) \/ UnregisterClear(t) \/ UnregisterFree(t)
       PROVE  Intent'
  BY <1>15, IntentInside DEF UnregisterLockTU, UnregisterClear, UnregisterFree, Switching
<1> QED
  BY <1>1, <1>2, <1>3, <1>4, <1>5, <1>6, <1>9, <1>10, <1>11, <1>12, <1>13, <1>14, <1>15
     DEF Next, Thread, Register, Serve, Finish, Unregister, Rest

-----------------------------------------------------------------------------
(* The theorems about calls.                                               *)

\* A step keeps the ends of every call together: it is a step of the Exchange.
LEMMA CallsStep ==
  ASSUME Calls, XP!ExchangeNext \/ UNCHANGED XP!xvars
  PROVE  Calls'
<1>1. NoConn \notin Conns /\ NoExt \notin Ext
  BY ConnsAssumption, BoundsAssumption DEF Ext, NoExt
<1>2. CASE XP!ExchangeNext
  BY <1>1, <1>2, XP!CoupledStep DEF Calls
<1>3. CASE UNCHANGED XP!xvars
  BY <1>3 DEF Calls, XP!xvars, XP!ExchangeTypeOK, XP!Coupled, XP!CoupledAt
<1> QED
  BY <1>2, <1>3

\* With nobody connected the strengthening holds, and the Exchange is in its initial state.
LEMMA InitQuiet ==
  ASSUME Init
  PROVE  Closed /\ Intent /\ X!ExchangeInit /\ Calls
<1>1. \A c \in Conns : /\ pc[c] = "unborn" /\ net[c] = "open" /\ life[c] = "unborn"
  BY DEF Init
<1>2. Closed /\ Intent
  BY <1>1 DEF Closed, ClosedAt, Intent, IntentAt
<1>3. \A u \in Conns : ~Plugged(u)
  BY <1>1 DEF Plugged
<1>4. /\ LineBar = [u \in Conns |-> NoExt] /\ PhoneBar = [u \in Conns |-> "ON HOOK"]
      /\ PartnerBar = [u \in Conns |-> NoConn]
  <2>1. LineBar = [u \in Conns |-> NoExt] /\ PhoneBar = [u \in Conns |-> "ON HOOK"]
    BY <1>3 DEF LineBar, PhoneBar
  <2> QED
    BY <2>1 DEF PartnerBar, InCall
<1>5. X!ExchangeInit
  BY <1>4 DEF X!ExchangeInit, LineBar
<1>6. Calls
  BY <1>4 DEF Calls, XP!ExchangeTypeOK, XP!States, XP!Coupled, XP!CoupledAt, XP!Paired
<1> QED
  BY <1>2, <1>5, <1>6

\* With room for every client and quiet unplugging, all of this holds for ever.
THEOREM QuietInductive ==
  ASSUME FdLimit <= NExt, Unplugging = "quiet"
  PROVE  Spec => []QInv
<1>1. Init => Closed /\ Intent /\ Calls
  BY InitQuiet
<1>2. Sound /\ Sound' /\ Closed /\ Intent /\ Calls /\ [Next]_vars => (Closed /\ Intent /\ Calls)'
  <2> SUFFICES ASSUME Sound, Sound', Closed, Intent, Calls, [Next]_vars
               PROVE  Closed' /\ Intent' /\ Calls'
    OBVIOUS
  <2>1. Closed'
    BY ClosedStep
  <2>2. Intent'
    BY IntentStep
  <2>3. Calls'
    BY StepSeen, CallsStep
  <2> QED
    BY <2>1, <2>2, <2>3
<1>3. Spec => []Sound
  BY Inductive, RoomInductive, PTL DEF Sound
<1> QED
  BY <1>1, <1>2, <1>3, PTL DEF Spec, QInv

\* The threads of pbx.c, their locks, slots and stores implement pbx.h's exchange, in which
\* every operation is one step.
THEOREM ImplementsExchange ==
  ASSUME FdLimit <= NExt, Unplugging = "quiet"
  PROVE  Spec => ExchangeRefined
<1>1. Init => X!ExchangeInit
  BY InitQuiet
<1>2. QInv /\ QInv' /\ [Next]_vars => [X!ExchangeNext]_X!xvars
  <2> SUFFICES ASSUME QInv, QInv', [Next]_vars
               PROVE  X!ExchangeNext \/ UNCHANGED X!xvars
    OBVIOUS
  <2>1. XP!ExchangeNext \/ UNCHANGED XP!xvars
    BY StepSeen DEF QInv
  <2>2. UNCHANGED XP!xvars => UNCHANGED X!xvars
    BY DEF XP!xvars, X!xvars, LineBar
  <2> QED
    BY <2>1, <2>2, SameExchange
<1> QED
  BY <1>1, <1>2, QuietInductive, PTL DEF Spec, ExchangeRefined, X!ExchangeSpec

\* Whenever nobody is inside the switch, a unit in a call and the unit its extension number
\* leads to agree that they are in it.
THEOREM CallsAreSymmetric ==
  ASSUME FdLimit <= NExt, Unplugging = "quiet"
  PROVE  Spec => []CallsSymmetric
<1>1. QInv => CallsSymmetric
  <2> SUFFICES ASSUME QInv, mutex_pbx = NoConn, NEW u \in Conns, life[u] = "live",
                      state[u] \in InCall
               PROVE  Partnered(u)
    BY DEF CallsSymmetric
  <2>1. \A t \in Conns : pc[t] \notin Switching
    BY ConnsAssumption DEF QInv, Sound, IInv, Held, LockDiscipline
  <2>2. Still /\ Plugged(u)
    BY <2>1, OnTheLine DEF Still, MidStore, Switching, QInv, Sound, OnLine
  <2> QED
    BY <2>2, ConnsAssumption, CallSeen DEF QInv, Partnered
<1> QED
  BY <1>1, QuietInductive, PTL

\* A chat line goes to the unit that the sender is in a call with.
THEOREM ChatsReachPartners ==
  ASSUME FdLimit <= NExt, Unplugging = "quiet"
  PROVE  Spec => []ChatReachesPartner
<1>1. QInv => ChatReachesPartner
  <2> SUFFICES ASSUME QInv, NEW t \in Conns, pc[t] = "print_peer", path[t] = "chat"
               PROVE  Partnered(t)
    BY DEF ChatReachesPartner
  <2>1. state[t] \in InCall
    BY DEF QInv, Intent, IntentAt, InCall
  <2>2. Still
    BY OneInside DEF QInv, Sound, IInv, Held, Still, MidStore, Switching
  <2>3. Plugged(t)
    BY OnTheLine DEF QInv, Sound, IInv, OnLine, Shape, Registered
  <2> QED
    BY <2>1, <2>2, <2>3, ConnsAssumption, CallSeen DEF QInv, Partnered
<1> QED
  BY <1>1, QuietInductive, PTL
=============================================================================
