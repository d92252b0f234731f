---------------------------- MODULE TesterProofs ----------------------------
(***************************************************************************)
(* Invariance proofs for Tester, for any set of units, any table of        *)
(* extensions and any room in the connections.                             *)
(***************************************************************************)
EXTENDS Tester, ExchangeProofs, SequenceTheorems, TLAPS

-----------------------------------------------------------------------------
(* What a tester knows.  Its own state, its last command, the lines on     *)
(* their way to and from it and its phone are s, c, L, Q and p below.       *)

Idle == {"ON HOOK", "RINGING"}

\* The state that a tester in state s has been told after i more lines.
After(s, L, i) ==
  IF i = 0 THEN s ELSE IF L[i].line = "CHAT" THEN "CONNECTED" ELSE L[i].line

\* Every line on its way follows from the one before it: a chat comes in the connected
\* state, a notice is of a move of the other end or, but for the answer to the last
\* command, at m, answers a command that the tester did not wait for.
LinesFollow(s, L, m) ==
  \A i \in 1 .. Len(L) :
    /\ L[i].line = "CHAT" => ~L[i].answers /\ After(s, L, i - 1) = "CONNECTED"
    /\ L[i].line # "CHAT" /\ ~L[i].answers => L[i].line \in Moved(After(s, L, i - 1))
    /\ L[i].answers /\ i # m => s \in Idle

\* Only the answer to the last command takes a unit out of the idle states.
StaysIdle(s, L, m) ==
  \A i, k \in 0 .. Len(L) :
    i <= k /\ After(s, L, i) \in Idle /\ ~(i < m /\ m <= k) => After(s, L, k) \in Idle

\* The answer to the last command, if it is on its way (m # 0): the last answer of all.
AnswerAt(s, c, L, Q, t, m) ==
  m # 0 => /\ t = "read" /\ Q = <<>>
           /\ L[m].answers /\ L[m].line \in Answer(After(s, L, m - 1), c)
           /\ \A k \in m + 1 .. Len(L) : ~L[k].answers

\* A tester does not wait for the answer to a command only if it is idle and the command
\* leaves it so.
Ahead(s, c, Q, t) ==
  /\ t = "read" /\ Q # <<>> => Q[Len(Q)].op = c
  /\ \A k \in 1 .. Len(Q) : t = "act" \/ k < Len(Q) => s \in Idle /\ Q[k].op # "pickup"

Track(s, c, L, Q, t, m) ==
  LinesFollow(s, L, m) /\ StaysIdle(s, L, m) /\ AnswerAt(s, c, L, Q, t, m)

\* A tester that reads expects what the table says, or has just been connected: it then
\* expects the answer to a command it has not given.  rest: nothing more will come.
Expects(s, c, L, es, m, rest) ==
  /\ es.normal = Answer(s, c) /\ es.normal \cap es.crossed = {}
  /\ es.crossed = NextStates(s, c).crossed \/ m = 1 \/ (L = <<>> /\ rest)

InStep(u) ==
  /\ \A k \in 1 .. Len(toServer[u]) : toServer[u][k] \in Chosen
  /\ Ahead(current_state[u], last_command[u], toServer[u], tester[u])
  /\ \E m \in 0 .. Len(toTester[u]) :
       /\ Track(current_state[u], last_command[u], toTester[u], toServer[u], tester[u], m)
       /\ tester[u] = "read" =>
            Expects(current_state[u], last_command[u], toTester[u], expected_states[u], m,
                    server = "down" \/ line[u] = NoExt)

\* While the server is up the lines on their way end in the unit's state, and nothing has
\* happened to a tester that is not connected.
UpToDate(u) ==
  /\ server = "down" => toServer[u] = <<>>
  /\ server = "up" =>
       /\ tester[u] \in {"read", "act"}
       /\ After(current_state[u], toTester[u], Len(toTester[u])) = phone[u]
       /\ line[u] = NoExt =>
            /\ tester[u] = "read" /\ toTester[u] = <<>> /\ toServer[u] = <<>>
            /\ current_state[u] = "ON HOOK" /\ last_command[u] = "hangup"

\* What is proved inductive.
TInv ==
  /\ TesterTypeOK
  /\ Coupled
  /\ NoFalseAlarm
  /\ \A u \in Units : InStep(u) /\ UpToDate(u)

-----------------------------------------------------------------------------
(* The table.                                                              *)

\* The other end leaves an idle unit idle, and moves no unit to where it is.
LEMMA MovedFacts ==
  ASSUME NEW s \in States, NEW x \in Moved(s)
  PROVE  x \in States /\ x # s /\ (s \in Idle => x \in Idle)
BY DEF Moved, States, Idle

\* Of the commands only pickup takes a unit out of the idle states, and it always does.
LEMMA AnswerFacts ==
  ASSUME NEW s \in States, NEW op \in Ops, NEW x \in Answer(s, op)
  PROVE  /\ x \in States
         /\ s \in Idle => (x \in Idle <=> op # "pickup")
BY DEF Answer, States, Ops, Idle

\* A notice of a move looks like the answer only to a unit that stops ringing, hung up.
LEMMA MovedOrAnswer ==
  ASSUME NEW s \in States, NEW op \in Ops, NEW x \in Moved(s), x \in Answer(s, op)
  PROVE  s \in Idle /\ x \in Idle /\ op # "pickup"
BY DEF Answer, Moved, States, Ops, Idle

\* The table allows for the answer, for a move, and for anything idle when idle.
LEMMA Allowed ==
  ASSUME NEW s \in States, NEW op \in Ops, NEW x \in States,
         x \in Answer(s, op) \/ x \in Moved(s) \/ (s \in Idle /\ x \in Idle)
  PROVE  x \in NextStates(s, op).normal \cup NextStates(s, op).crossed
BY DEF Answer, Moved, NextStates, States, Ops, Idle

\* The table has the type that a tester expects.
LEMMA TableType ==
  ASSUME NEW s \in States, NEW op \in Ops
  PROVE  /\ NextStates(s, op) \in [normal : SUBSET States, crossed : SUBSET States]
         /\ NextStates(s, op).normal = Answer(s, op)
BY DEF Answer, Moved, NextStates, States, Ops

-----------------------------------------------------------------------------
(* Commands at the exchange.                                               *)

\* A command takes the unit that gives it to where the table says, and another unit only
\* to where the table lets the other end move it.
LEMMA PerformMoves ==
  ASSUME ExchangeTypeOK, Coupled, NoExt \notin Ext, Dialled \subseteq Ext,
         NEW u \in Units, NEW cmd \in Chosen, Plugged(u), Perform(u, cmd)
  PROVE  /\ phone'[u] \in Answer(phone[u], cmd.op)
         /\ \A v \in Units \ {u} :
              phone'[v] # phone[v] => phone'[v] \in Moved(phone[v]) /\ Plugged(v)
         /\ line' = line
         /\ cmd.op = "chat" => phone' = phone
<1>1. CASE cmd.op = "pickup" /\ PickUp(u)
  <2>1. CASE phone[u] = "ON HOOK" /\ Alone(u, "DIAL TONE")
    BY <1>1, <2>1 DEF Alone, ExchangeTypeOK, Answer
  <2>2. CASE phone[u] = "RINGING" /\ Join(u, partner[u], "CONNECTED", "CONNECTED")
    <3>1. partner[u] \in Units \ {u} /\ phone[partner[u]] = "RING BACK" /\ Plugged(partner[u])
      BY <2>2, OtherEnd DEF Paired, Opposite
    <3> QED
      BY <1>1, <2>2, <3>1 DEF Join, ExchangeTypeOK, Answer, Moved
  <2> QED
    BY <1>1, <2>1, <2>2 DEF PickUp
<1>2. CASE cmd.op = "hangup" /\ HangUp(u)
  <2>1. CASE phone[u] \notin Paired /\ Alone(u, "ON HOOK")
    BY <1>2, <2>1 DEF Alone, ExchangeTypeOK, Answer
  <2>2. ASSUME phone[u] \in Paired, NEW sv, sv \in Moved(Opposite(phone[u])),
               Part(u, partner[u], "ON HOOK", sv)
        PROVE  /\ phone'[u] = "ON HOOK" /\ line' = line
               /\ \A v \in Units \ {u} :
                    phone'[v] # phone[v] => phone'[v] \in Moved(phone[v]) /\ Plugged(v)
    <3>1. /\ partner[u] \in Units \ {u} /\ Plugged(partner[u])
          /\ phone[partner[u]] = Opposite(phone[u])
      BY <2>2, OtherEnd
    <3> QED
      BY <2>2, <3>1 DEF Part, ExchangeTypeOK
  <2>3. CASE /\ phone[u] \in {"CONNECTED", "RINGING"}
             /\ Part(u, partner[u], "ON HOOK", "DIAL TONE")
    <3>1. phone[u] \in Paired /\ "DIAL TONE" \in Moved(Opposite(phone[u]))
      BY <2>3 DEF Paired, Moved, Opposite
    <3> QED
      BY <1>2, <2>2, <2>3, <3>1 DEF Answer
  <2>4. CASE phone[u] = "RING BACK" /\ Part(u, partner[u], "ON HOOK", "ON HOOK")
    <3>1. phone[u] \in Paired /\ "ON HOOK" \in Moved(Opposite(phone[u]))
      BY <2>4 DEF Paired, Moved, Opposite
    <3> QED
      BY <1>2, <2>2, <2>4, <3>1 DEF Answer
  <2> QED
    BY <1>2, <2>1, <2>3, <2>4 DEF HangUp
<1>3. CASE cmd.op = "dial" /\ Dial(u, cmd.ext)
  <2>1. cmd.ext \in Ext /\ phone[u] = "DIAL TONE"
    BY <1>3 DEF Chosen, Ops, Dial
  <2>2. CASE Alone(u, "ERROR") \/ Alone(u, "BUSY SIGNAL")
    BY <1>3, <2>1, <2>2 DEF Alone, ExchangeTypeOK, Answer
  <2>3. ASSUME NEW v \in Units, line[v] = cmd.ext, phone[v] = "ON HOOK",
               Join(u, v, "RING BACK", "RINGING")
        PROVE  /\ v # u /\ Plugged(v) /\ line' = line /\ phone'[u] = "RING BACK"
               /\ phone'[v] = "RINGING"
               /\ \A w \in Units \ {u, v} : phone'[w] = phone[w]
    BY <2>1, <2>3 DEF Join, ExchangeTypeOK, Plugged
  <2> QED
    BY <1>3, <2>1, <2>2, <2>3 DEF Dial, Answer, Moved
<1>4. CASE /\ \/ cmd.op = "pickup" /\ phone[u] \notin {"ON HOOK", "RINGING"}
              \/ cmd.op = "dial" /\ phone[u] # "DIAL TONE"
              \/ cmd.op = "chat"
           /\ UNCHANGED xvars
  BY <1>4 DEF xvars, Answer
<1> QED
  BY <1>1, <1>2, <1>3, <1>4 DEF Perform

\* A command is a step of the exchange or changes nothing of it.
LEMMA PerformIsStep ==
  ASSUME NEW u \in Units, NEW cmd \in Chosen, Dialled \subseteq Ext, Perform(u, cmd)
  PROVE  ExchangeNext \/ UNCHANGED xvars
BY DEF Perform, ExchangeNext, Chosen, Ops

-----------------------------------------------------------------------------
(* The lines on their way to a tester.                                     *)

\* The lines before a line that is appended, and what they tell, stay.
LEMMA AppendLines ==
  ASSUME NEW s \in States, NEW L \in Seq(Notices), NEW n \in Notices
  PROVE  /\ Append(L, n) \in Seq(Notices) /\ Append(L, n) # <<>>
         /\ Len(Append(L, n)) = Len(L) + 1
         /\ Append(L, n)[Len(L) + 1] = n
         /\ \A i \in 1 .. Len(L) : Append(L, n)[i] = L[i]
         /\ \A i \in 0 .. Len(L) : After(s, Append(L, n), i) = After(s, L, i)
         /\ After(s, Append(L, n), Len(L) + 1)
              = IF n.line = "CHAT" THEN "CONNECTED" ELSE n.line
<1>1. /\ Append(L, n) \in Seq(Notices) /\ Append(L, n) # <<>>
      /\ Len(Append(L, n)) = Len(L) + 1
      /\ Append(L, n)[Len(L) + 1] = n
      /\ \A i \in 1 .. Len(L) : Append(L, n)[i] = L[i]
  BY AppendProperties
<1>2. \A i \in 0 .. Len(L) : After(s, Append(L, n), i) = After(s, L, i)
  BY <1>1 DEF After
<1>3. After(s, Append(L, n), Len(L) + 1)
        = IF n.line = "CHAT" THEN "CONNECTED" ELSE n.line
  <2>1. Len(L) + 1 # 0
    BY LenProperties
  <2> QED
    BY <1>1, <2>1 DEF After
<1> QED
  BY <1>1, <1>2, <1>3

\* Reading a line moves the tester to the state the line tells, and no line after it.
LEMMA TailLines ==
  ASSUME NEW s \in States, NEW L \in Seq(Notices), L # <<>>
  PROVE  /\ Tail(L) \in Seq(Notices) /\ Len(Tail(L)) = Len(L) - 1
         /\ Len(L) \in Nat \ {0} /\ Head(L) = L[1] /\ L[1] \in Notices
         /\ \A i \in 1 .. Len(L) - 1 : Tail(L)[i] = L[i + 1]
         /\ \A i \in 0 .. Len(L) - 1 : After(After(s, L, 1), Tail(L), i) = After(s, L, i + 1)
<1>1. /\ Tail(L) \in Seq(Notices) /\ Len(Tail(L)) = Len(L) - 1
      /\ Len(L) \in Nat \ {0} /\ Head(L) = L[1] /\ L[1] \in Notices
      /\ \A i \in 1 .. Len(L) - 1 : Tail(L)[i] = L[i + 1]
  BY HeadTailProperties, EmptySeq, LenProperties, ElementOfSeq
<1>2. \A i \in 0 .. Len(L) - 1 : After(After(s, L, 1), Tail(L), i) = After(s, L, i + 1)
  <2> TAKE i \in 0 .. Len(L) - 1
  <2>1. CASE i = 0
    BY <2>1 DEF After
  <2>2. CASE i # 0
    <3>1. i \in 1 .. Len(L) - 1 /\ i + 1 # 0
      BY <1>1, <2>2
    <3> QED
      BY <1>1, <2>2, <3>1 DEF After
  <2> QED
    BY <2>1, <2>2
<1> QED
  BY <1>1, <1>2

\* Every line tells a state.
LEMMA AfterType ==
  ASSUME NEW s \in States, NEW L \in Seq(Notices), NEW i \in 0 .. Len(L)
  PROVE  After(s, L, i) \in States
<1>1. CASE i = 0
  BY <1>1 DEF After
<1>2. CASE i # 0
  <2>1. L[i] \in Notices
    BY <1>2, ElementOfSeq
  <2> QED
    BY <1>2, <2>1 DEF After, Notices, States
<1> QED
  BY <1>1, <1>2

\* A notice that nobody asked for follows the lines before it.
LEMMA AppendUnasked ==
  ASSUME NEW s \in States, NEW c \in Ops, NEW L \in Seq(Notices), NEW Q, NEW t,
         NEW m \in 0 .. Len(L), Track(s, c, L, Q, t, m),
         NEW n \in Notices, ~n.answers,
         \/ n.line = "CHAT" /\ After(s, L, Len(L)) = "CONNECTED"
         \/ n.line # "CHAT" /\ n.line \in Moved(After(s, L, Len(L)))
  PROVE  Track(s, c, Append(L, n), Q, t, m)
<1> DEFINE M == Append(L, n)
<1>1. /\ Len(M) = Len(L) + 1 /\ Len(L) \in Nat
      /\ M[Len(L) + 1] = n
      /\ \A i \in 1 .. Len(L) : M[i] = L[i]
      /\ \A i \in 0 .. Len(L) : After(s, M, i) = After(s, L, i)
      /\ After(s, M, Len(L) + 1) = IF n.line = "CHAT" THEN "CONNECTED" ELSE n.line
  BY AppendLines, LenProperties
<1> HIDE DEF M
<1>2. LinesFollow(s, M, m)
  <2> SUFFICES ASSUME NEW i \in 1 .. Len(M)
               PROVE  /\ M[i].line = "CHAT" => ~M[i].answers /\ After(s, M, i - 1) = "CONNECTED"
                      /\ M[i].line # "CHAT" /\ ~M[i].answers => M[i].line \in Moved(After(s, M, i - 1))
                      /\ M[i].answers /\ i # m => s \in Idle
    BY DEF LinesFollow
  <2>1. CASE i = Len(L) + 1
    BY <1>1, <2>1
  <2>2. CASE i \in 1 .. Len(L)
    <3>1. i - 1 \in 0 .. Len(L)
      BY <1>1, <2>2
    <3> QED
      BY <1>1, <2>2, <3>1 DEF Track, LinesFollow
  <2> QED
    BY <1>1, <2>1, <2>2
<1>3. StaysIdle(s, M, m)
  <2> SUFFICES ASSUME NEW i \in 0 .. Len(M), NEW k \in 0 .. Len(M),
                      i <= k, After(s, M, i) \in Idle, ~(i < m /\ m <= k)
               PROVE  After(s, M, k) \in Idle
    BY DEF StaysIdle
  <2>1. CASE k \in 0 .. Len(L)
    BY <1>1, <2>1 DEF Track, StaysIdle
  <2>2. CASE i \in 0 .. Len(L) /\ k = Len(L) + 1
    <3>1. After(s, L, Len(L)) \in Idle
      BY <1>1, <2>2 DEF Track, StaysIdle
    <3>2. n.line # "CHAT" /\ n.line \in Moved(After(s, L, Len(L)))
      BY <3>1 DEF Idle
    <3>3. After(s, L, Len(L)) \in States
      BY <1>1, AfterType
    <3> QED
      BY <1>1, <2>2, <3>1, <3>2, <3>3, MovedFacts
  <2> QED
    BY <1>1, <2>1, <2>2
<1>4. AnswerAt(s, c, M, Q, t, m)
  <2> SUFFICES ASSUME m # 0
               PROVE  /\ t = "read" /\ Q = <<>>
                      /\ M[m].answers /\ M[m].line \in Answer(After(s, M, m - 1), c)
                      /\ \A k \in m + 1 .. Len(M) : ~M[k].answers
    BY DEF AnswerAt
  <2>1. m \in 1 .. Len(L) /\ m - 1 \in 0 .. Len(L)
    BY <1>1
  <2> QED
    BY <1>1, <2>1 DEF Track, AnswerAt
<1> QED
  BY <1>2, <1>3, <1>4 DEF Track, M

\* The answer to the last command, once no other command is to be answered before it.
LEMMA AppendAnswer ==
  ASSUME NEW s \in States, NEW c \in Ops, NEW L \in Seq(Notices), NEW Q, Q # <<>>,
         NEW m \in 0 .. Len(L), Track(s, c, L, Q, "read", m),
         NEW n \in Notices, n.answers, n.line \in Answer(After(s, L, Len(L)), c)
  PROVE  Track(s, c, Append(L, n), <<>>, "read", Len(L) + 1)
<1> DEFINE M == Append(L, n)
           a == Len(L) + 1
<1>1. /\ Len(M) = a /\ a \in Nat \ {0} /\ Len(L) \in Nat
      /\ M[a] = n
      /\ \A i \in 1 .. Len(L) : M[i] = L[i]
      /\ \A i \in 0 .. Len(L) : After(s, M, i) = After(s, L, i)
  BY AppendLines, LenProperties
<1>2. m = 0
  BY DEF Track, AnswerAt
<1>3. n.line # "CHAT"
  <2>1. After(s, L, Len(L)) \in States
    BY <1>1, AfterType
  <2>2. n.line \in States
    BY <2>1, AnswerFacts
  <2> QED
    BY <2>2 DEF States
<1> HIDE DEF M
<1>4. LinesFollow(s, M, a)
  <2> SUFFICES ASSUME NEW i \in 1 .. Len(M)
               PROVE  /\ M[i].line = "CHAT" => ~M[i].answers /\ After(s, M, i - 1) = "CONNECTED"
                      /\ M[i].line # "CHAT" /\ ~M[i].answers => M[i].line \in Moved(After(s, M, i - 1))
                      /\ M[i].answers /\ i # a => s \in Idle
    BY DEF LinesFollow
  <2>1. CASE i = a
    BY <1>1, <1>3, <2>1
  <2>2. CASE i \in 1 .. Len(L)
    <3>1. i - 1 \in 0 .. Len(L) /\ i # m
      BY <1>1, <1>2, <2>2
    <3> QED
      BY <1>1, <2>2, <3>1 DEF Track, LinesFollow
  <2> QED
    BY <1>1, <2>1, <2>2
<1>5. StaysIdle(s, M, a)
  <2> SUFFICES ASSUME NEW i \in 0 .. a, NEW k \in 0 .. a,
                      i <= k, After(s, M, i) \in Idle, ~(i < a /\ a <= k)
               PROVE  After(s, M, k) \in Idle
    BY <1>1 DEF StaysIdle
  <2>1. CASE k \in 0 .. Len(L)
    BY <1>1, <1>2, <2>1 DEF Track, StaysIdle
  <2>2. CASE i = k
    BY <2>2
  <2> QED
    BY <1>1, <2>1, <2>2
<1>6. AnswerAt(s, c, M, <<>>, "read", a)
  BY <1>1 DEF AnswerAt
<1> QED
  BY <1>4, <1>5, <1>6 DEF Track, M

\* The answer to a command that the tester did not wait for keeps it idle.
LEMMA AppendStale ==
  ASSUME NEW s \in Idle, NEW c \in Ops, NEW L \in Seq(Notices), NEW Q, Q # <<>>, NEW R, NEW t,
         NEW m \in 0 .. Len(L), Track(s, c, L, Q, t, m), NEW op \in Ops \ {"pickup"},
         NEW n \in Notices, n.answers, n.line \in Answer(After(s, L, Len(L)), op)
  PROVE  Track(s, c, Append(L, n), R, t, 0)
<1> DEFINE M == Append(L, n)
           a == Len(L) + 1
<1>1. s \in States
  BY DEF Idle, States
<1>2. /\ Len(M) = a /\ a \in Nat \ {0} /\ Len(L) \in Nat
      /\ M[a] = n
      /\ \A i \in 1 .. Len(L) : M[i] = L[i]
      /\ \A i \in 0 .. Len(L) : After(s, M, i) = After(s, L, i)
      /\ After(s, M, a) = IF n.line = "CHAT" THEN "CONNECTED" ELSE n.line
  BY <1>1, AppendLines, LenProperties
<1>3. m = 0
  BY DEF Track, AnswerAt
<1>4. n.line \in Idle /\ n.line # "CHAT"
  <2>1. After(s, L, 0) \in Idle
    BY DEF After
  <2>2. After(s, L, Len(L)) \in Idle
    BY <1>2, <1>3, <2>1 DEF Track, StaysIdle
  <2>3. After(s, L, Len(L)) \in States
    BY <2>2 DEF Idle, States
  <2> QED
    BY <2>2, <2>3, AnswerFacts DEF Idle
<1> HIDE DEF M
<1>5. LinesFollow(s, M, 0)
  <2> SUFFICES ASSUME NEW i \in 1 .. Len(M)
               PROVE  /\ M[i].line = "CHAT" => ~M[i].answers /\ After(s, M, i - 1) = "CONNECTED"
                      /\ M[i].line # "CHAT" /\ ~M[i].answers => M[i].line \in Moved(After(s, M, i - 1))
                      /\ M[i].answers /\ i # 0 => s \in Idle
    BY DEF LinesFollow
  <2>1. CASE i = a
    BY <1>2, <1>4, <2>1
  <2>2. CASE i \in 1 .. Len(L)
    <3>1. i - 1 \in 0 .. Len(L)
      BY <1>2, <2>2
    <3> QED
      BY <1>2, <2>2, <3>1 DEF Track, LinesFollow
  <2> QED
    BY <1>2, <2>1, <2>2
<1>6. StaysIdle(s, M, 0)
  <2> SUFFICES ASSUME NEW i \in 0 .. a, NEW k \in 0 .. a,
                      i <= k, After(s, M, i) \in Idle
               PROVE  After(s, M, k) \in Idle
    BY <1>2 DEF StaysIdle
  <2>1. CASE k \in 0 .. Len(L)
    BY <1>2, <1>3, <2>1 DEF Track, StaysIdle
  <2>2. CASE k = a
    BY <1>2, <1>4, <2>2
  <2> QED
    BY <1>2, <2>1, <2>2
<1> QED
  BY <1>5, <1>6 DEF Track, AnswerAt, M

-----------------------------------------------------------------------------
(* What a tester reads.                                                    *)

\* Once it has read a line that is not the answer to its last command, a tester is in step
\* with the lines that are left.
LEMMA ReadOther ==
  ASSUME NEW s \in States, NEW c \in Ops, NEW L \in Seq(Notices), L # <<>>, NEW Q, NEW t,
         NEW m \in 0 .. Len(L), Track(s, c, L, Q, t, m), m # 1
  PROVE  /\ Track(After(s, L, 1), c, Tail(L), Q, t, IF m = 0 THEN 0 ELSE m - 1)
         /\ s \in Idle => After(s, L, 1) \in Idle
<1> DEFINE r == After(s, L, 1)
           T == Tail(L)
           j == IF m = 0 THEN 0 ELSE m - 1
<1>1. /\ Len(T) = Len(L) - 1 /\ Len(L) \in Nat \ {0}
      /\ \A i \in 1 .. Len(L) - 1 : T[i] = L[i + 1]
      /\ \A i \in 0 .. Len(L) - 1 : After(r, T, i) = After(s, L, i + 1)
  BY TailLines
<1>2. s \in Idle => r \in Idle
  <2>1. After(s, L, 0) = s
    BY DEF After
  <2>2. 0 \in 0 .. Len(L) /\ 1 \in 0 .. Len(L) /\ ~(0 < m /\ m <= 1)
    BY <1>1
  <2> QED
    BY <2>1, <2>2 DEF Track, StaysIdle
<1> HIDE DEF T, r
<1>3. LinesFollow(r, T, j)
  <2> SUFFICES ASSUME NEW i \in 1 .. Len(T)
               PROVE  /\ T[i].line = "CHAT" => ~T[i].answers /\ After(r, T, i - 1) = "CONNECTED"
                      /\ T[i].line # "CHAT" /\ ~T[i].answers => T[i].line \in Moved(After(r, T, i - 1))
                      /\ T[i].answers /\ i # j => r \in Idle
    BY DEF LinesFollow
  <2>1. /\ i + 1 \in 1 .. Len(L) /\ i - 1 \in 0 .. Len(L) - 1 /\ (i - 1) + 1 = (i + 1) - 1
        /\ i # j => i + 1 # m
    BY <1>1
  <2>2. T[i] = L[i + 1] /\ After(r, T, i - 1) = After(s, L, (i + 1) - 1)
    BY <1>1, <2>1
  <2> QED
    BY <1>2, <2>1, <2>2 DEF Track, LinesFollow
<1>4. StaysIdle(r, T, j)
  <2> SUFFICES ASSUME NEW i \in 0 .. Len(T), NEW k \in 0 .. Len(T),
                      i <= k, After(r, T, i) \in Idle, ~(i < j /\ j <= k)
               PROVE  After(r, T, k) \in Idle
    BY DEF StaysIdle
  <2>1. /\ i + 1 \in 0 .. Len(L) /\ k + 1 \in 0 .. Len(L) /\ i + 1 <= k + 1
        /\ ~(i + 1 < m /\ m <= k + 1)
    BY <1>1
  <2>2. After(r, T, i) = After(s, L, i + 1) /\ After(r, T, k) = After(s, L, k + 1)
    BY <1>1
  <2> QED
    BY <2>1, <2>2 DEF Track, StaysIdle
<1>5. AnswerAt(r, c, T, Q, t, j)
  <2> SUFFICES ASSUME j # 0
               PROVE  /\ t = "read" /\ Q = <<>>
                      /\ T[j].answers /\ T[j].line \in Answer(After(r, T, j - 1), c)
                      /\ \A k \in j + 1 .. Len(T) : ~T[k].answers
    BY DEF AnswerAt
  <2>1. m # 0 /\ j = m - 1 /\ j \in 1 .. Len(L) - 1 /\ j - 1 \in 0 .. Len(L) - 1
        /\ j + 1 = m /\ (j - 1) + 1 = m - 1
    BY <1>1
  <2>2. T[j] = L[m] /\ After(r, T, j - 1) = After(s, L, m - 1)
    BY <1>1, <2>1
  <2>3. ASSUME NEW k \in j + 1 .. Len(T) PROVE k + 1 \in m + 1 .. Len(L) /\ T[k] = L[k + 1]
    BY <1>1, <2>1
  <2> QED
    BY <2>1, <2>2, <2>3 DEF Track, AnswerAt
<1> QED
  BY <1>2, <1>3, <1>4, <1>5 DEF Track, T, r

\* The answer to the last command ends all waiting.
LEMMA ReadAnswer ==
  ASSUME NEW s \in States, NEW c \in Ops, NEW L \in Seq(Notices), L # <<>>, NEW Q, NEW t,
         Track(s, c, L, Q, t, 1)
  PROVE  Track(After(s, L, 1), c, Tail(L), Q, "act", 0)
<1> DEFINE r == After(s, L, 1)
           T == Tail(L)
<1>1. /\ Len(T) = Len(L) - 1 /\ Len(L) \in Nat \ {0}
      /\ \A i \in 1 .. Len(L) - 1 : T[i] = L[i + 1]
      /\ \A i \in 0 .. Len(L) - 1 : After(r, T, i) = After(s, L, i + 1)
  BY TailLines
<1> HIDE DEF T, r
<1>2. LinesFollow(r, T, 0)
  <2> SUFFICES ASSUME NEW i \in 1 .. Len(T)
               PROVE  /\ T[i].line = "CHAT" => ~T[i].answers /\ After(r, T, i - 1) = "CONNECTED"
                      /\ T[i].line # "CHAT" /\ ~T[i].answers => T[i].line \in Moved(After(r, T, i - 1))
                      /\ T[i].answers /\ i # 0 => r \in Idle
    BY DEF LinesFollow
  <2>1. /\ i + 1 \in 1 .. Len(L) /\ i - 1 \in 0 .. Len(L) - 1 /\ (i - 1) + 1 = (i + 1) - 1
        /\ i + 1 \in 1 + 1 .. Len(L)
    BY <1>1
  <2>2. T[i] = L[i + 1] /\ After(r, T, i - 1) = After(s, L, (i + 1) - 1)
    BY <1>1, <2>1
  <2> QED
    BY <2>1, <2>2 DEF Track, LinesFollow, AnswerAt
<1>3. StaysIdle(r, T, 0)
  <2> SUFFICES ASSUME NEW i \in 0 .. Len(T), NEW k \in 0 .. Len(T),
                      i <= k, After(r, T, i) \in Idle
               PROVE  After(r, T, k) \in Idle
    BY DEF StaysIdle
  <2>1. /\ i + 1 \in 0 .. Len(L) /\ k + 1 \in 0 .. Len(L) /\ i + 1 <= k + 1
        /\ ~(i + 1 < 1 /\ 1 <= k + 1)
    BY <1>1
  <2>2. After(r, T, i) = After(s, L, i + 1) /\ After(r, T, k) = After(s, L, k + 1)
    BY <1>1
  <2> QED
    BY <2>1, <2>2 DEF Track, StaysIdle
<1> QED
  BY <1>2, <1>3 DEF Track, AnswerAt, T, r

\* A tester that takes another line for the answer is idle, stays so, and goes ahead of the
\* answer, which will leave it idle.
LEMMA ReadAlike ==
  ASSUME NEW s \in Idle, NEW c \in Ops \ {"pickup"}, NEW L \in Seq(Notices), L # <<>>,
         NEW Q, NEW t, NEW m \in 0 .. Len(L), Track(s, c, L, Q, t, m), m # 1
  PROVE  Track(After(s, L, 1), c, Tail(L), Q, "act", 0)
<1> DEFINE r == After(s, L, 1)
           T == Tail(L)
           j == IF m = 0 THEN 0 ELSE m - 1
<1>1. s \in States /\ Len(T) = Len(L) - 1 /\ Len(L) \in Nat \ {0} /\ T \in Seq(Notices)
  BY TailLines DEF Idle, States
<1>2. Track(r, c, T, Q, t, j) /\ r \in Idle /\ r \in States
  BY <1>1, ReadOther DEF Idle, States
<1>3. j \in 0 .. Len(T)
  BY <1>1
<1> HIDE DEF T, r, j
<1>4. LinesFollow(r, T, 0)
  BY <1>2 DEF Track, LinesFollow
<1>5. StaysIdle(r, T, 0)
  <2> SUFFICES ASSUME NEW i \in 0 .. Len(T), NEW k \in 0 .. Len(T),
                      i <= k, After(r, T, i) \in Idle
               PROVE  After(r, T, k) \in Idle
    BY DEF StaysIdle
  <2>1. CASE ~(i < j /\ j <= k)
    BY <1>2, <2>1 DEF Track, StaysIdle
  <2>2. CASE i < j /\ j <= k
    <3>1. j # 0 /\ j - 1 \in 0 .. Len(T) /\ i <= j - 1 /\ ~(i < j /\ j <= j - 1)
      BY <1>3, <2>2
    <3>2. After(r, T, j - 1) \in Idle
      BY <1>2, <3>1 DEF Track, StaysIdle
    <3>3. After(r, T, j - 1) \in States
      BY <3>2 DEF Idle, States
    <3>4. T[j].line \in Answer(After(r, T, j - 1), c)
      BY <1>2, <3>1 DEF Track, AnswerAt
    <3>5. T[j].line \in Idle
      BY <3>2, <3>3, <3>4, AnswerFacts
    <3>6. After(r, T, j) \in Idle
      BY <3>1, <3>5 DEF After, Idle
    <3> QED
      BY <1>2, <1>3, <2>2, <3>6 DEF Track, StaysIdle
  <2> QED
    BY <2>1, <2>2
<1> QED
  BY <1>4, <1>5 DEF Track, AnswerAt, T, r

\* A tester that acts waits for no answer, so the lines on their way are in step with any
\* command that it sends.
LEMMA ActsAhead ==
  ASSUME NEW s, NEW c, NEW L, NEW Q, NEW m, Track(s, c, L, Q, "act", m), NEW d, NEW R, NEW t
  PROVE  m = 0 /\ Track(s, d, L, R, t, 0)
BY DEF Track, AnswerAt

\* Every line that a tester reads is one that it expects.
LEMMA ReadExpected ==
  ASSUME NEW s \in States, NEW c \in Ops, NEW L \in Seq(Notices), L # <<>>, NEW Q,
         NEW m \in 0 .. Len(L), Track(s, c, L, Q, "read", m),
         NEW es, NEW rest, Expects(s, c, L, es, m, rest)
  PROVE  /\ L[1].line = "CHAT" => s = "CONNECTED" /\ m # 1 /\ After(s, L, 1) = s
         /\ L[1].line # "CHAT" => /\ After(s, L, 1) = L[1].line
                                  /\ L[1].line \in es.normal \cup es.crossed
         /\ L[1].line # "CHAT" /\ L[1].line \in es.normal
              => m = 1 \/ (s \in Idle /\ c # "pickup")
         /\ L[1].line # "CHAT" /\ L[1].line \in es.crossed => m # 1
<1>1. L[1] \in Notices /\ Len(L) \in Nat \ {0} /\ 1 \in 1 .. Len(L) /\ 1 \in 0 .. Len(L)
  BY TailLines
<1>2. After(s, L, 0) = s /\ After(s, L, 1) = IF L[1].line = "CHAT" THEN "CONNECTED" ELSE L[1].line
  BY DEF After
<1>3. /\ L[1].line = "CHAT" => ~L[1].answers /\ s = "CONNECTED"
      /\ L[1].line # "CHAT" /\ ~L[1].answers => L[1].line \in Moved(s)
      /\ L[1].answers /\ 1 # m => s \in Idle
  BY <1>1, <1>2 DEF Track, LinesFollow
<1>4. m = 1 => L[1].answers /\ L[1].line \in Answer(s, c)
  BY <1>1, <1>2 DEF Track, AnswerAt
<1>5. m # 1 /\ s \in Idle => After(s, L, 1) \in Idle
  BY ReadOther
<1>6. /\ es.normal = Answer(s, c) /\ es.normal \cap es.crossed = {}
      /\ m # 1 => es.crossed = NextStates(s, c).crossed
  BY DEF Expects
<1>7. NextStates(s, c).normal = Answer(s, c)
  BY TableType
<1>8. CASE L[1].line = "CHAT"
  BY <1>2, <1>3, <1>4, <1>8
<1>9. CASE L[1].line # "CHAT" /\ m = 1
  <2>1. L[1].line \in es.normal /\ L[1].line \notin es.crossed
    BY <1>4, <1>6, <1>9
  <2> QED
    BY <1>2, <1>9, <2>1
<1>10. CASE L[1].line # "CHAT" /\ m # 1
  <2>1. L[1].line \in States
    BY <1>1, <1>10 DEF Notices
  <2>2. L[1].line \in Moved(s) \/ (s \in Idle /\ L[1].line \in Idle)
    <3>1. CASE ~L[1].answers
      BY <1>3, <1>10, <3>1
    <3>2. CASE L[1].answers
      <4>1. s \in Idle /\ After(s, L, 1) \in Idle
        BY <1>3, <1>5, <1>10, <3>2
      <4> QED
        BY <1>2, <1>10, <4>1
    <3> QED
      BY <3>1, <3>2
  <2>3. L[1].line \in es.normal \cup es.crossed
    <3>1. L[1].line \in NextStates(s, c).normal \cup NextStates(s, c).crossed
      BY <2>1, <2>2, Allowed
    <3> QED
      BY <1>6, <1>7, <1>10, <3>1
  <2>4. ASSUME L[1].line \in Answer(s, c) PROVE s \in Idle /\ c # "pickup"
    <3>1. CASE L[1].line \in Moved(s)
      BY <2>4, <3>1, MovedOrAnswer
    <3>2. CASE s \in Idle /\ L[1].line \in Idle
      BY <2>4, <3>2, AnswerFacts
    <3> QED
      BY <2>2, <3>1, <3>2
  <2> QED
    BY <1>2, <1>6, <1>10, <2>3, <2>4
<1> QED
  BY <1>8, <1>9, <1>10

-----------------------------------------------------------------------------
(* The steps.                                                              *)

\* A step that leaves a unit, its tester and its connection alone.
LEMMA UnitKept ==
  ASSUME NEW v \in Units, InStep(v), UpToDate(v),
         toServer'[v] = toServer[v], toTester'[v] = toTester[v], server' = server,
         tester'[v] = tester[v], current_state'[v] = current_state[v],
         expected_states'[v] = expected_states[v], last_command'[v] = last_command[v],
         phone'[v] = phone[v], line'[v] = line[v]
  PROVE  InStep(v)' /\ UpToDate(v)'
<1>1. InStep(v)'
  BY DEF InStep
<1>2. UpToDate(v)'
  BY DEF UpToDate
<1> QED
  BY <1>1, <1>2

\* What the exchange writes for a command: the answer to the unit that gave it, and to
\* another unit at most one notice, of a move or of a chat.
LEMMA ServeTells ==
  ASSUME TesterAssumption, TInv, NEW u \in Units, Serve(u)
  PROVE  LET cmd == Head(toServer[u]) IN
         /\ cmd = toServer[u][1] /\ cmd \in Chosen /\ Plugged(u) /\ server = "up"
         /\ phone'[u] \in Answer(phone[u], cmd.op)
         /\ toTester'[u] = Append(toTester[u], [line |-> phone'[u], answers |-> TRUE])
         /\ \A v \in Units \ {u} :
              \/ phone'[v] = phone[v] /\ toTester'[v] = toTester[v]
              \/ /\ phone'[v] \in Moved(phone[v]) /\ Plugged(v)
                 /\ toTester'[v] = Append(toTester[v], [line |-> phone'[v], answers |-> FALSE])
              \/ /\ phone'[v] = phone[v] /\ phone[v] = "CONNECTED" /\ Plugged(v)
                 /\ toTester'[v] = Append(toTester[v], [line |-> "CHAT", answers |-> FALSE])
         /\ line' = line
         /\ ExchangeTypeOK' /\ Coupled'
<1> DEFINE cmd == Head(toServer[u])
<1>1. /\ ExchangeTypeOK /\ Coupled /\ server = "up" /\ Perform(u, cmd)
      /\ toServer[u] # <<>> /\ toServer[u] \in Seq([op : Ops, ext : Dialled \cup {NoExt}])
      /\ toTester \in [Units -> Seq(Notices)]
  BY DEF Serve, TInv, TesterTypeOK
<1>2. cmd = toServer[u][1] /\ 1 \in 1 .. Len(toServer[u])
  BY <1>1, HeadTailProperties, EmptySeq, LenProperties
<1>3. cmd \in Chosen /\ Plugged(u)
  BY <1>1, <1>2 DEF TInv, InStep, UpToDate, Plugged
<1>4. /\ phone'[u] \in Answer(phone[u], cmd.op)
      /\ \A v \in Units \ {u} : phone'[v] # phone[v] => phone'[v] \in Moved(phone[v]) /\ Plugged(v)
      /\ line' = line
      /\ cmd.op = "chat" => phone' = phone
  BY <1>1, <1>3, PerformMoves DEF TesterAssumption
<1>5. ExchangeTypeOK' /\ Coupled'
  <2>1. CASE ExchangeNext
    BY <1>1, <2>1, CoupledStep DEF TesterAssumption
  <2>2. CASE UNCHANGED xvars
    BY <1>1, <2>2 DEF xvars, ExchangeTypeOK, Coupled, CoupledAt
  <2> QED
    BY <1>1, <1>3, <2>1, <2>2, PerformIsStep DEF TesterAssumption
<1>6. \A v \in Units : toTester'[v] = toTester[v] \o Told(u, cmd, v)
  BY DEF Serve
<1>7. \A v \in Units : /\ toTester[v] \in Seq(Notices) /\ toTester[v] \o <<>> = toTester[v]
                       /\ \A n \in Notices : toTester[v] \o <<n>> = Append(toTester[v], n)
  BY <1>1, ConcatEmptySeq, AppendIsConcat
<1>8. phone[u] = "CONNECTED" => /\ partner[u] \in Units \ {u}
                                /\ phone[partner[u]] = "CONNECTED" /\ Plugged(partner[u])
  BY <1>1, OtherEnd DEF Paired, Opposite
<1>9. \A v \in Units : phone'[v] \in States /\ phone[v] \in States
  BY <1>1, <1>5 DEF ExchangeTypeOK
<1> HIDE DEF cmd
<1>10. /\ \A n \in Notices : <<n>> \o <<>> = <<n>> /\ <<>> \o <<n>> = <<n>>
      /\ <<>> \o <<>> = <<>>
  <2>1. <<>> \in Seq(Notices) /\ \A n \in Notices : <<n>> \in Seq(Notices)
    OBVIOUS
  <2> QED
    BY <2>1, ConcatEmptySeq
<1>11. toTester'[u] = Append(toTester[u], [line |-> phone'[u], answers |-> TRUE])
  <2>1. ~(cmd.op = "chat" /\ phone[u] = "CONNECTED" /\ partner[u] = u)
    BY <1>8
  <2>2. [line |-> phone'[u], answers |-> TRUE] \in Notices
    BY <1>9 DEF Notices
  <2>3. Told(u, cmd, u) = <<[line |-> phone'[u], answers |-> TRUE]>>
    <3>1. Told(u, cmd, u) = <<[line |-> phone'[u], answers |-> TRUE]>> \o <<>>
      BY <2>1 DEF Told
    <3> QED
      BY <1>10, <2>2, <3>1
  <2> QED
    BY <1>6, <1>7, <2>2, <2>3
<1>12. ASSUME NEW v \in Units \ {u}
       PROVE  \/ phone'[v] = phone[v] /\ toTester'[v] = toTester[v]
              \/ /\ phone'[v] \in Moved(phone[v]) /\ Plugged(v)
                 /\ toTester'[v] = Append(toTester[v], [line |-> phone'[v], answers |-> FALSE])
              \/ /\ phone'[v] = phone[v] /\ phone[v] = "CONNECTED" /\ Plugged(v)
                 /\ toTester'[v] = Append(toTester[v], [line |-> "CHAT", answers |-> FALSE])
  <2>1. CASE phone'[v] # phone[v]
    <3>1. [line |-> phone'[v], answers |-> FALSE] \in Notices
      BY <1>9 DEF Notices
    <3>2. (v = u) = FALSE /\ ~(cmd.op = "chat" /\ phone[u] = "CONNECTED" /\ partner[u] = v)
      BY <1>4, <2>1
    <3>3. Told(u, cmd, v) = <<[line |-> phone'[v], answers |-> FALSE]>> \o <<>>
      BY <2>1, <3>2 DEF Told
    <3> QED
      BY <1>4, <1>6, <1>7, <1>10, <2>1, <3>1, <3>3
  <2>2. CASE phone'[v] = phone[v] /\ cmd.op = "chat" /\ phone[u] = "CONNECTED" /\ partner[u] = v
    <3>1. Told(u, cmd, v) = <<>> \o <<[line |-> "CHAT", answers |-> FALSE]>>
      BY <2>2 DEF Told
    <3>2. [line |-> "CHAT", answers |-> FALSE] \in Notices
      BY DEF Notices
    <3> QED
      <4>1. Told(u, cmd, v) = <<[line |-> "CHAT", answers |-> FALSE]>>
        BY <1>10, <3>1, <3>2
      <4>2. toTester'[v] = Append(toTester[v], [line |-> "CHAT", answers |-> FALSE])
        BY <1>6, <1>7, <3>2, <4>1
      <4>3. phone'[v] = phone[v] /\ phone[v] = "CONNECTED" /\ Plugged(v)
        BY <1>8, <2>2
      <4> QED
        BY <4>2, <4>3
  <2>3. CASE phone'[v] = phone[v] /\ ~(cmd.op = "chat" /\ phone[u] = "CONNECTED" /\ partner[u] = v)
    <3>1. Told(u, cmd, v) = <<>> \o <<>>
      BY <2>3 DEF Told
    <3> QED
      BY <1>6, <1>7, <1>10, <2>3, <3>1
  <2> QED
    BY <2>1, <2>2, <2>3
<1> QED
  BY <1>1, <1>2, <1>3, <1>4, <1>5, <1>11, <1>12 DEF cmd

\* The server answers a command: the answer to the last command of a tester that waits
\* for it, or to one of a tester that has gone ahead.
LEMMA ServeOwn ==
  ASSUME TesterAssumption, TInv, NEW u \in Units, Serve(u)
  PROVE  InStep(u)' /\ UpToDate(u)'
<1> DEFINE s == current_state[u]
           c == last_command[u]
           L == toTester[u]
           Q == toServer[u]
           t == tester[u]
           n == [line |-> phone'[u], answers |-> TRUE]
<1>1. /\ Q[1] \in Chosen /\ Plugged(u) /\ server = "up" /\ line' = line
      /\ phone'[u] \in Answer(phone[u], Q[1].op)
      /\ toTester'[u] = Append(L, n)
      /\ ExchangeTypeOK'
  BY ServeTells
<1>2. /\ toServer'[u] = Tail(Q) /\ Q # <<>>
      /\ UNCHANGED <<server, own>>
  BY DEF Serve, TInv, TesterTypeOK
<1>3. /\ s \in States /\ c \in Ops /\ L \in Seq(Notices) /\ phone[u] \in States
      /\ Q \in Seq([op : Ops, ext : Dialled \cup {NoExt}])
  BY DEF TInv, TesterTypeOK, ExchangeTypeOK
<1>4. n \in Notices /\ n.answers /\ n.line = phone'[u] /\ n.line # "CHAT"
  BY <1>1 DEF ExchangeTypeOK, Notices, States
<1>5. /\ Len(Q) \in Nat \ {0} /\ Len(Tail(Q)) = Len(Q) - 1
      /\ \A k \in 1 .. Len(Q) - 1 : Tail(Q)[k] = Q[k + 1]
      /\ (Tail(Q) = <<>>) <=> (Len(Q) = 1)
  <2>1. /\ Len(Q) \in Nat \ {0} /\ Len(Tail(Q)) = Len(Q) - 1
        /\ \A k \in 1 .. Len(Q) - 1 : Tail(Q)[k] = Q[k + 1]
        /\ Tail(Q) \in Seq([op : Ops, ext : Dialled \cup {NoExt}])
    BY <1>2, <1>3, HeadTailProperties, EmptySeq, LenProperties
  <2>2. (Tail(Q) = <<>>) <=> (Len(Tail(Q)) = 0)
    BY <2>1, EmptySeq
  <2> QED
    BY <2>1, <2>2
<1>6. /\ \A k \in 1 .. Len(Q) : Q[k] \in Chosen
      /\ Ahead(s, c, Q, t)
      /\ t \in {"read", "act"} /\ After(s, L, Len(L)) = phone[u]
  BY <1>1 DEF TInv, InStep, UpToDate
<1>7. PICK m \in 0 .. Len(L) :
        /\ Track(s, c, L, Q, t, m)
        /\ t = "read" => Expects(s, c, L, expected_states[u], m, server = "down" \/ line[u] = NoExt)
  BY DEF TInv, InStep
<1>8. /\ Len(Append(L, n)) = Len(L) + 1 /\ Append(L, n) # <<>> /\ Len(L) \in Nat
      /\ After(s, Append(L, n), Len(L) + 1) = phone'[u]
  BY <1>3, <1>4, AppendLines, LenProperties
<1>9. Q[1].op \in Ops
  BY <1>1 DEF Chosen, Ops
<1>10. m = 0 /\ (t = "read" => /\ expected_states[u].normal = Answer(s, c)
                               /\ expected_states[u].normal \cap expected_states[u].crossed = {}
                               /\ expected_states[u].crossed = NextStates(s, c).crossed)
  <2>1. m = 0
    BY <1>2, <1>7 DEF Track, AnswerAt
  <2>2. ~(L = <<>> /\ (server = "down" \/ line[u] = NoExt))
    BY <1>1 DEF Plugged
  <2> QED
    BY <1>7, <2>1, <2>2 DEF Expects
<1> HIDE DEF s, c, L, Q, t, n
<1>11. Ahead(s, c, Tail(Q), t)
  <2>1. ASSUME NEW k \in 1 .. Len(Tail(Q))
        PROVE  /\ Tail(Q)[k] = Q[k + 1] /\ k + 1 \in 1 .. Len(Q)
               /\ k < Len(Tail(Q)) <=> k + 1 < Len(Q)
    BY <1>5
  <2>2. Tail(Q) # <<>> => Tail(Q)[Len(Tail(Q))] = Q[Len(Q)]
    <3>1. Tail(Q) # <<>> => Len(Q) - 1 \in 1 .. Len(Q) - 1 /\ (Len(Q) - 1) + 1 = Len(Q)
      BY <1>5
    <3> QED
      BY <1>5, <3>1
  <2> QED
    BY <1>2, <1>6, <2>1, <2>2 DEF Ahead
<1>12. \A k \in 1 .. Len(Tail(Q)) : Tail(Q)[k] \in Chosen
  <2>1. \A k \in 1 .. Len(Tail(Q)) : Tail(Q)[k] = Q[k + 1] /\ k + 1 \in 1 .. Len(Q)
    BY <1>5
  <2> QED
    BY <1>6, <2>1
<1>13. \E j \in 0 .. Len(Append(L, n)) :
         /\ Track(s, c, Append(L, n), Tail(Q), t, j)
         /\ t = "read" => Expects(s, c, Append(L, n), expected_states[u], j, FALSE)
  <2>1. CASE t = "read" /\ Len(Q) = 1
    <3>1. Q[1].op = c /\ Tail(Q) = <<>>
      BY <1>2, <1>5, <1>6, <2>1 DEF Ahead
    <3>2. Track(s, c, Append(L, n), <<>>, "read", Len(L) + 1)
      <4>1. n.line \in Answer(After(s, L, Len(L)), c)
        BY <1>1, <1>4, <1>6, <3>1
      <4> QED
        BY <1>2, <1>3, <1>4, <1>7, <2>1, <4>1, AppendAnswer
    <3>3. Expects(s, c, Append(L, n), expected_states[u], Len(L) + 1, FALSE)
      BY <1>10, <2>1 DEF Expects
    <3>4. Len(L) + 1 \in 0 .. Len(Append(L, n))
      BY <1>8
    <3> QED
      BY <2>1, <3>1, <3>2, <3>3, <3>4
  <2>2. CASE t = "act" \/ Len(Q) > 1
    <3>1. s \in Idle /\ Q[1].op # "pickup"
      BY <1>5, <1>6, <2>2 DEF Ahead
    <3>2. Track(s, c, Append(L, n), Tail(Q), t, 0)
      <4>1. n.line \in Answer(After(s, L, Len(L)), Q[1].op)
        BY <1>1, <1>4, <1>6
      <4>2. Q[1].op \in Ops \ {"pickup"}
        BY <1>9, <3>1
      <4> QED
        BY <1>2, <1>3, <1>4, <1>7, <3>1, <4>1, <4>2, AppendStale
    <3>3. t = "read" => Expects(s, c, Append(L, n), expected_states[u], 0, FALSE)
      BY <1>10 DEF Expects
    <3>4. 0 \in 0 .. Len(Append(L, n))
      BY <1>8
    <3> QED
      BY <3>2, <3>3, <3>4
  <2>3. Len(Q) = 1 \/ Len(Q) > 1
    BY <1>5
  <2> QED
    BY <1>6, <2>1, <2>2, <2>3
<1>14. /\ current_state'[u] = s /\ last_command'[u] = c /\ toTester'[u] = Append(L, n)
       /\ toServer'[u] = Tail(Q) /\ tester'[u] = t /\ expected_states'[u] = expected_states[u]
       /\ server' = "up" /\ line'[u] = line[u] /\ line[u] # NoExt
  BY <1>1, <1>2 DEF own, Plugged, s, c, L, Q, t
<1>15. InStep(u)'
  <2>1. (server = "down" \/ line[u] = NoExt)' = FALSE
    BY <1>14
  <2> QED
    BY <1>11, <1>12, <1>13, <1>14, <2>1 DEF InStep
<1>16. UpToDate(u)'
  BY <1>6, <1>8, <1>14 DEF UpToDate
<1> QED
  BY <1>15, <1>16

\* The command of one unit is a notice to another, if anything.
LEMMA ServeOther ==
  ASSUME TesterAssumption, TInv, NEW u \in Units, Serve(u), NEW v \in Units \ {u}
  PROVE  InStep(v)' /\ UpToDate(v)'
<1> DEFINE s == current_state[v]
           c == last_command[v]
           L == toTester[v]
<1>1. /\ toServer'[v] = toServer[v] /\ line'[v] = line[v]
      /\ server' = "up" /\ server = "up"
      /\ tester' = tester /\ current_state' = current_state
      /\ expected_states' = expected_states /\ last_command' = last_command
  BY ServeTells DEF Serve, own, TInv, TesterTypeOK
<1>2. InStep(v) /\ UpToDate(v)
  BY DEF TInv
<1>3. CASE phone'[v] = phone[v] /\ toTester'[v] = toTester[v]
  BY <1>1, <1>2, <1>3, UnitKept
<1>4. ASSUME NEW n \in Notices, ~n.answers, toTester'[v] = Append(L, n), Plugged(v),
             \/ n.line = "CHAT" /\ phone[v] = "CONNECTED"
             \/ n.line # "CHAT" /\ n.line \in Moved(phone[v]),
             phone'[v] = IF n.line = "CHAT" THEN "CONNECTED" ELSE n.line
      PROVE  InStep(v)' /\ UpToDate(v)'
  <2>1. s \in States /\ c \in Ops /\ L \in Seq(Notices) /\ After(s, L, Len(L)) = phone[v]
    BY <1>1, <1>2 DEF TInv, TesterTypeOK, UpToDate
  <2>2. /\ Len(Append(L, n)) = Len(L) + 1 /\ Len(L) \in Nat
        /\ After(s, Append(L, n), Len(L) + 1) = phone'[v]
    BY <1>4, <2>1, AppendLines, LenProperties
  <2>3. PICK m \in 0 .. Len(L) :
          /\ Track(s, c, L, toServer[v], tester[v], m)
          /\ tester[v] = "read" => Expects(s, c, L, expected_states[v], m,
                                           server = "down" \/ line[v] = NoExt)
    BY <1>2 DEF InStep
  <2>4. Track(s, c, Append(L, n), toServer[v], tester[v], m)
    BY <1>4, <2>1, <2>3, AppendUnasked
  <2>5. /\ m \in 0 .. Len(Append(L, n))
        /\ ~(L = <<>> /\ (server = "down" \/ line[v] = NoExt))
    BY <1>1, <1>4, <2>2 DEF Plugged
  <2>6. tester[v] = "read" => Expects(s, c, Append(L, n), expected_states[v], m,
                                      server' = "down" \/ line'[v] = NoExt)
    BY <2>3, <2>5 DEF Expects
  <2>7. InStep(v)'
    <3> HIDE DEF s, c, L
    <3>1. \E j \in 0 .. Len(Append(L, n)) :
            /\ Track(s, c, Append(L, n), toServer[v], tester[v], j)
            /\ tester[v] = "read" => Expects(s, c, Append(L, n), expected_states[v], j,
                                             server' = "down" \/ line'[v] = NoExt)
      BY <2>4, <2>5, <2>6
    <3> QED
      BY <1>1, <1>2, <1>4, <3>1 DEF InStep, s, c, L
  <2>8. UpToDate(v)'
    BY <1>1, <1>2, <1>4, <2>2 DEF UpToDate, Plugged
  <2> QED
    BY <2>7, <2>8
<1>5. CASE /\ phone'[v] \in Moved(phone[v]) /\ Plugged(v)
           /\ toTester'[v] = Append(toTester[v], [line |-> phone'[v], answers |-> FALSE])
  <2> DEFINE n == [line |-> phone'[v], answers |-> FALSE]
  <2>1. phone[v] \in States
    BY DEF TInv, TesterTypeOK, ExchangeTypeOK
  <2>2. phone'[v] \in States
    BY <1>5, <2>1, MovedFacts
  <2>3. n \in Notices /\ ~n.answers /\ n.line = phone'[v] /\ n.line # "CHAT"
    BY <2>2 DEF Notices, States
  <2> HIDE DEF n
  <2>4. toTester'[v] = Append(L, n)
    BY <1>5 DEF n
  <2> QED
    BY <1>4, <1>5, <2>3, <2>4
<1>6. CASE /\ phone'[v] = phone[v] /\ phone[v] = "CONNECTED" /\ Plugged(v)
           /\ toTester'[v] = Append(toTester[v], [line |-> "CHAT", answers |-> FALSE])
  <2> DEFINE n == [line |-> "CHAT", answers |-> FALSE]
  <2>1. n \in Notices /\ ~n.answers /\ n.line = "CHAT"
    BY DEF Notices
  <2> HIDE DEF n
  <2>2. toTester'[v] = Append(L, n)
    BY <1>6 DEF n
  <2> QED
    BY <1>4, <1>6, <2>1, <2>2
<1> QED
  BY <1>3, <1>5, <1>6, ServeTells

\* A tester that gets connected has nothing on its way but the notice of that.
LEMMA ConnectOwn ==
  ASSUME TesterAssumption, TInv, NEW u \in Units, Connect(u)
  PROVE  InStep(u)' /\ UpToDate(u)' /\ phone' = phone
<1> DEFINE n == [line |-> "ON HOOK", answers |-> TRUE]
<1>1. PICK e \in Ext : Plug(u, e)
  BY DEF Connect
<1>2. phone[u] = "ON HOOK" /\ ~Plugged(u) /\ server = "up" /\ line[u] = NoExt
  BY <1>1 DEF Connect, Plug, Plugged, TInv, Coupled, CoupledAt
<1>3. phone' = phone /\ line'[u] # NoExt
  <2>1. phone \in [Units -> States] /\ line \in [Units -> Ext \cup {NoExt}] /\ NoExt \notin Ext
    BY DEF TInv, TesterTypeOK, ExchangeTypeOK, TesterAssumption
  <2>2. phone' = [phone EXCEPT ![u] = "ON HOOK"] /\ line' = [line EXCEPT ![u] = e]
    BY <1>1 DEF Plug
  <2>3. line'[u] # NoExt
    BY <2>1, <2>2
  <2>4. phone' = phone
    BY <1>2, <2>1, <2>2
  <2> QED
    BY <2>3, <2>4
<1>4. /\ tester[u] = "read" /\ toTester[u] = <<>> /\ toServer[u] = <<>>
      /\ current_state[u] = "ON HOOK" /\ last_command[u] = "hangup"
  BY <1>2 DEF TInv, UpToDate
<1>5. toTester'[u] = <<n>> /\ toServer' = toServer /\ server' = server /\ own' = own
  <2>1. toTester'[u] = Append(toTester[u], n)
    BY DEF Connect, TInv, TesterTypeOK
  <2>2. Append(<<>>, n) = <<n>>
    OBVIOUS
  <2> QED
    BY <1>4, <2>1, <2>2 DEF Connect
<1>6. n \in Notices /\ n.line = "ON HOOK" /\ n.answers
  BY DEF Notices, States
<1> HIDE DEF n
<1>7. /\ Len(<<n>>) = 1 /\ <<n>>[1] = n
      /\ After("ON HOOK", <<n>>, 0) = "ON HOOK" /\ After("ON HOOK", <<n>>, 1) = "ON HOOK"
  BY <1>6 DEF After
<1>0. Len(<<n>>) = 1
  OBVIOUS
<1>8. Track("ON HOOK", "hangup", <<n>>, <<>>, "read", 1)
  <2>1. LinesFollow("ON HOOK", <<n>>, 1)
    <3>1. \A i \in 1 .. Len(<<n>>) : i = 1
      BY <1>0
    <3> QED
      BY <1>6, <1>7, <3>1 DEF LinesFollow
  <2>2. StaysIdle("ON HOOK", <<n>>, 1)
    <3>1. \A i \in 0 .. Len(<<n>>) : i = 0 \/ i = 1
      BY <1>0
    <3> QED
      BY <1>7, <3>1 DEF StaysIdle, Idle
  <2>3. AnswerAt("ON HOOK", "hangup", <<n>>, <<>>, "read", 1)
    <3>1. 1 - 1 = 0 /\ 1 + 1 .. 1 = {}
      OBVIOUS
    <3>2. n.line \in Answer("ON HOOK", "hangup")
      BY <1>6 DEF Answer
    <3> QED
      BY <1>6, <1>7, <1>0, <3>1, <3>2 DEF AnswerAt
  <2> QED
    BY <2>1, <2>2, <2>3 DEF Track
<1>9. /\ expected_states[u].normal = Answer("ON HOOK", "hangup")
      /\ expected_states[u].normal \cap expected_states[u].crossed = {}
  BY <1>4 DEF TInv, InStep, Expects
<1>10. Expects("ON HOOK", "hangup", <<n>>, expected_states[u], 1, server' = "down" \/ line'[u] = NoExt)
  BY <1>9 DEF Expects
<1>11. InStep(u)'
  <2>1. 1 \in 0 .. Len(<<n>>) /\ 1 .. Len(<<>>) = {}
    BY <1>0
  <2>2. Ahead("ON HOOK", "hangup", <<>>, "read")
    BY <2>1 DEF Ahead
  <2>3. /\ toServer'[u] = <<>> /\ tester'[u] = "read" /\ current_state'[u] = "ON HOOK"
        /\ last_command'[u] = "hangup" /\ expected_states'[u] = expected_states[u]
    BY <1>4, <1>5 DEF own
  <2>4. \E m \in 0 .. Len(<<n>>) :
          /\ Track("ON HOOK", "hangup", <<n>>, <<>>, "read", m)
          /\ Expects("ON HOOK", "hangup", <<n>>, expected_states[u], m,
                     server' = "down" \/ line'[u] = NoExt)
    BY <1>8, <1>10, <2>1
  <2> QED
    BY <1>5, <2>1, <2>2, <2>3, <2>4 DEF InStep, Chosen
<1>12. UpToDate(u)'
  BY <1>2, <1>3, <1>4, <1>5, <1>7 DEF UpToDate, own
<1> QED
  BY <1>3, <1>11, <1>12

\* A tester sends its next command, waiting for no answer.
LEMMA SendOwn ==
  ASSUME TInv, NEW u \in Units, Send(u)
  PROVE  InStep(u)' /\ UpToDate(u)' /\ tester'[u] = "read"
<1> DEFINE s == current_state[u]
           c == last_command[u]
           L == toTester[u]
           Q == toServer[u]
<1>1. PICK cmd \in Chosen :
        /\ toServer' = IF server = "up" THEN [toServer EXCEPT ![u] = Append(@, cmd)] ELSE toServer
        /\ last_command' = [last_command EXCEPT ![u] = cmd.op]
        /\ expected_states' = [expected_states EXCEPT ![u] = NextStates(s, cmd.op)]
  BY DEF Send
<1>2. /\ tester[u] = "act" /\ tester' = [tester EXCEPT ![u] = "read"]
      /\ UNCHANGED <<xvars, toTester, server, current_state>>
  BY DEF Send
<1>3. /\ s \in States /\ Q \in Seq([op : Ops, ext : Dialled \cup {NoExt}])
      /\ last_command'[u] = cmd.op /\ expected_states'[u] = NextStates(s, cmd.op)
      /\ tester'[u] = "read" /\ cmd.op \in Ops
      /\ cmd \in [op : Ops, ext : Dialled \cup {NoExt}]
      /\ toServer'[u] = IF server = "up" THEN Append(Q, cmd) ELSE Q
  BY <1>1, <1>2 DEF TInv, TesterTypeOK, Chosen, Ops
<1>4. /\ \A k \in 1 .. Len(Q) : Q[k] \in Chosen
      /\ \A k \in 1 .. Len(Q) : s \in Idle /\ Q[k].op # "pickup"
      /\ UpToDate(u)
  BY <1>2 DEF TInv, InStep, Ahead
<1>5. PICK m \in 0 .. Len(L) : Track(s, c, L, Q, "act", m)
  BY <1>2 DEF TInv, InStep
<1>6. \A R : Track(s, cmd.op, L, R, "read", 0)
  BY <1>5, ActsAhead
<1>7. \A es, rest : es = NextStates(s, cmd.op) => Expects(s, cmd.op, L, es, 0, rest)
  BY DEF Expects, NextStates
<1>8. /\ Len(Append(Q, cmd)) = Len(Q) + 1 /\ Len(Q) \in Nat
      /\ Append(Q, cmd)[Len(Q) + 1] = cmd
      /\ \A k \in 1 .. Len(Q) : Append(Q, cmd)[k] = Q[k]
  BY <1>3, AppendProperties, LenProperties
<1> HIDE DEF s, c, L, Q
<1>9. /\ \A k \in 1 .. Len(toServer'[u]) : toServer'[u][k] \in Chosen
      /\ server = "up" => Ahead(s, cmd.op, toServer'[u], "read")
  <2>1. CASE server = "up"
    <3>1. toServer'[u] = Append(Q, cmd)
      BY <1>3, <2>1
    <3>2. \A k \in 1 .. Len(Q) + 1 : k \in 1 .. Len(Q) \/ k = Len(Q) + 1
      BY <1>8
    <3>3. \A k \in 1 .. Len(Q) + 1 : k < Len(Q) + 1 => k \in 1 .. Len(Q)
      BY <1>8
    <3>4. \A k \in 1 .. Len(Q) + 1 : Append(Q, cmd)[k] \in Chosen
      BY <1>1, <1>4, <1>8, <3>2
    <3>5. Ahead(s, cmd.op, Append(Q, cmd), "read")
      BY <1>4, <1>8, <3>3 DEF Ahead
    <3> QED
      BY <1>8, <3>1, <3>4, <3>5
  <2>2. CASE server # "up"
    BY <1>3, <1>4, <2>2
  <2> QED
    BY <2>1, <2>2
<1>10. server # "up" => Ahead(s, cmd.op, toServer'[u], "read")
  <2> SUFFICES ASSUME server # "up" PROVE Ahead(s, cmd.op, toServer'[u], "read")
    OBVIOUS
  <2>1. server = "down" /\ Q = <<>> /\ toServer'[u] = <<>>
    BY <1>3, <1>4 DEF TInv, TesterTypeOK, UpToDate, Q
  <2>2. 1 .. Len(<<>>) = {}
    OBVIOUS
  <2> QED
    BY <2>1, <2>2 DEF Ahead
<1>11. InStep(u)'
  <2>1. /\ current_state'[u] = s /\ last_command'[u] = cmd.op /\ toTester'[u] = L
        /\ tester'[u] = "read" /\ expected_states'[u] = NextStates(s, cmd.op)
    BY <1>2, <1>3 DEF s, L
  <2>2. \E j \in 0 .. Len(L) :
          /\ Track(s, cmd.op, L, toServer'[u], "read", j)
          /\ Expects(s, cmd.op, L, NextStates(s, cmd.op), j, server' = "down" \/ line'[u] = NoExt)
    <3>1. 0 \in 0 .. Len(L)
      BY <1>5
    <3> QED
      BY <1>6, <1>7, <3>1
  <2> QED
    BY <1>9, <1>10, <2>1, <2>2 DEF InStep
<1>12. UpToDate(u)'
  <2>1. server = "down" => toServer'[u] = <<>>
    BY <1>3, <1>4 DEF UpToDate, Q
  <2>2. server = "up" => After(s, L, Len(L)) = phone[u] /\ line[u] # NoExt
    BY <1>2, <1>4 DEF UpToDate, s, L
  <2>3. /\ server' = server /\ tester'[u] = "read" /\ toTester'[u] = L /\ current_state'[u] = s
        /\ phone' = phone /\ line' = line
    BY <1>2, <1>3 DEF xvars, s, L
  <2> QED
    BY <2>1, <2>2, <2>3 DEF UpToDate
<1> QED
  BY <1>3, <1>11, <1>12

\* A tester reads a line, which it expects.
LEMMA ReceiveOwn ==
  ASSUME TInv, NEW u \in Units, Receive(u)
  PROVE  InStep(u)' /\ UpToDate(u)' /\ tester'[u] # "unexpected"
<1> DEFINE s == current_state[u]
           c == last_command[u]
           L == toTester[u]
           Q == toServer[u]
           es == expected_states[u]
           rest == server = "down" \/ line[u] = NoExt
           new == Head(L).line
           r == After(s, L, 1)
<1>1. /\ tester[u] = "read" /\ L # <<>> /\ toTester'[u] = Tail(L)
      /\ UNCHANGED <<xvars, toServer, server>>
      /\ \/ new = "CHAT" /\ ChatLine(u)
         \/ new # "CHAT" /\ (Expected(u, new) \/ Crossed(u, new) \/ Unexpected(u, new))
  BY DEF Receive, TInv, TesterTypeOK
<1>2. /\ s \in States /\ c \in Ops /\ L \in Seq(Notices)
      /\ tester \in [Units -> {"read", "act", "ended", "premature", "unexpected", "killed"}]
      /\ current_state \in [Units -> States]
      /\ expected_states \in [Units -> [normal : SUBSET States, crossed : SUBSET States]]
  BY DEF TInv, TesterTypeOK
<1>3. /\ \A k \in 1 .. Len(Q) : Q[k] \in Chosen
      /\ Ahead(s, c, Q, "read") /\ UpToDate(u)
  BY <1>1 DEF TInv, InStep
<1>4. PICK m \in 0 .. Len(L) : Track(s, c, L, Q, "read", m) /\ Expects(s, c, L, es, m, rest)
  BY <1>1 DEF TInv, InStep
<1>5. /\ Len(Tail(L)) = Len(L) - 1 /\ Len(L) \in Nat \ {0} /\ Head(L) = L[1]
      /\ After(r, Tail(L), Len(L) - 1) = After(s, L, (Len(L) - 1) + 1)
  BY <1>1, <1>2, TailLines
<1>6. /\ new = "CHAT" => s = "CONNECTED" /\ m # 1 /\ r = s
      /\ new # "CHAT" => r = new /\ new \in es.normal \cup es.crossed
      /\ new # "CHAT" /\ new \in es.normal => m = 1 \/ (s \in Idle /\ c # "pickup")
      /\ new # "CHAT" /\ new \in es.crossed => m # 1
  BY <1>1, <1>2, <1>4, <1>5, ReadExpected
<1>7. r \in States
  BY <1>2, <1>5, AfterType
<1>8. ASSUME NEW j \in 0 .. Len(L) - 1, NEW t \in {"read", "act"},
             Track(r, c, Tail(L), Q, t, j), Ahead(r, c, Q, t),
             tester'[u] = t, current_state'[u] = r, last_command'[u] = c,
             t = "read" => Expects(r, c, Tail(L), expected_states'[u], j, rest)
      PROVE  InStep(u)' /\ UpToDate(u)' /\ tester'[u] # "unexpected"
  <2>1. (Len(L) - 1) + 1 = Len(L)
    BY <1>5
  <2>2. /\ toServer'[u] = Q /\ server' = server /\ line' = line /\ phone' = phone
        /\ (server = "down" \/ line[u] = NoExt)' = rest
    BY <1>1 DEF xvars
  <2>3. UpToDate(u)'
    BY <1>1, <1>3, <1>5, <1>8, <2>1, <2>2 DEF UpToDate
  <2> HIDE DEF s, c, L, Q, es, rest, new, r
  <2>4. InStep(u)'
    <3>1. \E k \in 0 .. Len(Tail(L)) :
            /\ Track(r, c, Tail(L), Q, t, k)
            /\ t = "read" => Expects(r, c, Tail(L), expected_states'[u], k, rest)
      BY <1>5, <1>8
    <3> QED
      BY <1>1, <1>3, <1>8, <2>2, <3>1 DEF InStep
  <2> QED
    BY <1>8, <2>3, <2>4
<1>9. CASE new = "CHAT"
  <2>1. UNCHANGED own
    BY <1>1, <1>6, <1>9 DEF ChatLine
  <2> DEFINE j == IF m = 0 THEN 0 ELSE m - 1
  <2>2. j \in 0 .. Len(L) - 1
    BY <1>4, <1>5
  <2>3. Track(r, c, Tail(L), Q, "read", j)
    BY <1>1, <1>2, <1>4, <1>6, <1>9, ReadOther
  <2>4. /\ tester'[u] = "read" /\ current_state'[u] = r /\ last_command'[u] = c
        /\ expected_states'[u] = es
    BY <1>1, <1>6, <1>9, <2>1 DEF own
  <2>5. Expects(r, c, Tail(L), es, j, rest)
    <3>1. es.crossed = NextStates(s, c).crossed
      BY <1>1, <1>4, <1>6, <1>9 DEF Expects
    <3> QED
      BY <1>4, <1>6, <1>9, <3>1 DEF Expects
  <2> QED
    BY <1>3, <1>6, <1>8, <1>9, <2>2, <2>3, <2>4, <2>5
<1>10. CASE new # "CHAT" /\ Expected(u, new)
  <2>1. /\ tester'[u] = "act" /\ current_state'[u] = r /\ last_command'[u] = c
        /\ new \in es.normal
    BY <1>2, <1>6, <1>10 DEF Expected
  <2>2. 0 \in 0 .. Len(L) - 1
    BY <1>5
  <2>3. CASE m = 1
    <3>1. Track(r, c, Tail(L), Q, "act", 0) /\ Q = <<>>
      BY <1>1, <1>2, <1>4, <2>3, ReadAnswer DEF Track, AnswerAt
    <3>2. 1 .. Len(<<>>) = {}
      OBVIOUS
    <3>3. Ahead(r, c, Q, "act")
      BY <3>1, <3>2 DEF Ahead
    <3> QED
      BY <1>8, <2>1, <2>2, <3>1, <3>3
  <2>4. CASE m # 1
    <3>1. s \in Idle /\ c \in Ops \ {"pickup"}
      BY <1>2, <1>6, <1>10, <2>1, <2>4
    <3>2. Track(r, c, Tail(L), Q, "act", 0)
      BY <1>1, <1>4, <2>4, <1>2, <3>1, ReadAlike
    <3>3. r \in Idle
      BY <1>1, <1>2, <1>4, <2>4, <3>1, ReadOther
    <3>4. Ahead(r, c, Q, "act")
      <4>1. ASSUME NEW k \in 1 .. Len(Q) PROVE Q[k].op # "pickup"
        <5>1. CASE k < Len(Q)
          BY <1>3, <5>1 DEF Ahead
        <5>2. CASE k = Len(Q)
          <6>1. Q # <<>>
            BY <5>2
          <6> QED
            BY <1>3, <3>1, <5>2, <6>1 DEF Ahead
        <5> QED
          BY <5>1, <5>2
      <4> QED
        BY <3>3, <4>1 DEF Ahead
    <3> QED
      BY <1>8, <2>1, <2>2, <3>2, <3>4
  <2> QED
    BY <2>3, <2>4
<1>11. CASE new # "CHAT" /\ Crossed(u, new)
  <2> DEFINE j == IF m = 0 THEN 0 ELSE m - 1
  <2>1. /\ tester'[u] = "read" /\ current_state'[u] = r /\ last_command'[u] = c
        /\ expected_states'[u] = NextStates(r, c) /\ new \in es.crossed
    BY <1>1, <1>2, <1>6, <1>11 DEF Crossed
  <2>2. m # 1 /\ j \in 0 .. Len(L) - 1
    BY <1>4, <1>5, <1>6, <1>11, <2>1
  <2>3. Track(r, c, Tail(L), Q, "read", j) /\ (s \in Idle => r \in Idle)
    BY <1>1, <1>2, <1>4, <2>2, ReadOther
  <2>4. Ahead(r, c, Q, "read")
    BY <1>3, <2>3 DEF Ahead
  <2>5. Expects(r, c, Tail(L), NextStates(r, c), j, rest)
    BY DEF Expects, NextStates
  <2> QED
    BY <1>8, <2>1, <2>2, <2>3, <2>4, <2>5
<1>12. CASE new # "CHAT" /\ Unexpected(u, new)
  BY <1>6, <1>12 DEF Unexpected
<1> QED
  BY <1>1, <1>9, <1>10, <1>11, <1>12

\* A tester that has ended is told nothing any more.
LEMMA EndOwn ==
  ASSUME TInv, NEW u \in Units, SendNowhere(u) \/ ReadEOF(u)
  PROVE  InStep(u)' /\ UpToDate(u)' /\ tester'[u] # "unexpected"
<1> DEFINE s == current_state[u]
           c == last_command[u]
           L == toTester[u]
<1>1. /\ UNCHANGED <<xvars, link, server, current_state, expected_states, last_command>>
      /\ server = "down" /\ InStep(u) /\ UpToDate(u)
      /\ tester \in [Units -> {"read", "act", "ended", "premature", "unexpected", "killed"}]
  BY DEF SendNowhere, ReadEOF, Ends, TInv, TesterTypeOK
<1>2. tester'[u] \in {"ended", "premature", "killed"}
  BY <1>1 DEF SendNowhere, ReadEOF, Ends
<1>3. toServer[u] = <<>>
  BY <1>1 DEF UpToDate
<1>4. PICK m \in 0 .. Len(L) : Track(s, c, L, <<>>, tester[u], m)
  BY <1>1, <1>3 DEF InStep
<1>5. m = 0
  <2>1. CASE SendNowhere(u)
    BY <1>4, <2>1 DEF SendNowhere, Track, AnswerAt
  <2>2. CASE ReadEOF(u)
    <3>1. Len(L) = 0
      BY <2>2 DEF ReadEOF
    <3> QED
      BY <1>4, <3>1
  <2> QED
    BY <2>1, <2>2
<1>6. Track(s, c, L, <<>>, tester'[u], 0) /\ 0 \in 0 .. Len(L)
  BY <1>4, <1>5 DEF Track, AnswerAt
<1>7. Ahead(s, c, <<>>, tester'[u])
  <2>1. 1 .. Len(<<>>) = {}
    OBVIOUS
  <2> QED
    BY <2>1 DEF Ahead
<1>8. /\ current_state'[u] = s /\ last_command'[u] = c /\ toTester'[u] = L
      /\ toServer'[u] = <<>> /\ server' = "down"
  BY <1>1, <1>3 DEF link
<1>9. InStep(u)'
  <2> HIDE DEF s, c, L
  <2>1. \E j \in 0 .. Len(L) : Track(s, c, L, <<>>, tester'[u], j)
    BY <1>6
  <2>2. \A k \in 1 .. Len(<<>>) : <<>>[k] \in Chosen
    OBVIOUS
  <2> QED
    BY <1>2, <1>7, <1>8, <2>1, <2>2 DEF InStep
<1> QED
  BY <1>2, <1>8, <1>9 DEF UpToDate

\* The server goes down: no command is under way any more, and of a tester that waits for
\* the answer to a command that has been read no line is lost.
LEMMA ShutdownKeeps ==
  ASSUME TInv, Shutdown, NEW u \in Units
  PROVE  InStep(u)' /\ UpToDate(u)'
<1> DEFINE s == current_state[u]
           c == last_command[u]
           L == toTester[u]
           Q == toServer[u]
           t == tester[u]
           M == toTester'[u]
<1>1. /\ UNCHANGED <<xvars, own>> /\ server' = "down" /\ server = "up"
      /\ toServer'[u] = <<>>
      /\ M = L \/ (M = <<>> /\ Q # <<>>)
  BY DEF Shutdown
<1>2. PICK m \in 0 .. Len(L) :
        /\ Track(s, c, L, Q, t, m)
        /\ t = "read" => Expects(s, c, L, expected_states[u], m, server = "down" \/ line[u] = NoExt)
  BY DEF TInv, InStep
<1>3. Ahead(s, c, <<>>, t)
  <2>1. 1 .. Len(<<>>) = {}
    OBVIOUS
  <2> QED
    BY <2>1 DEF Ahead
<1>4. /\ current_state'[u] = s /\ last_command'[u] = c /\ tester'[u] = t
      /\ expected_states'[u] = expected_states[u]
  BY <1>1 DEF own
<1>5. \E j \in 0 .. Len(M) :
        /\ Track(s, c, M, <<>>, t, j)
        /\ t = "read" => Expects(s, c, M, expected_states[u], j, TRUE)
  <2>1. CASE M = L
    <3>1. Track(s, c, L, <<>>, t, m)
      BY <1>2 DEF Track, AnswerAt
    <3>2. t = "read" => Expects(s, c, L, expected_states[u], m, TRUE)
      BY <1>2 DEF Expects
    <3> QED
      BY <2>1, <3>1, <3>2
  <2>2. CASE M = <<>> /\ Q # <<>>
    <3>1. m = 0
      BY <1>2, <2>2 DEF Track, AnswerAt
    <3>2. Len(<<>>) = 0 /\ 0 \in 0 .. Len(<<>>) /\ 1 .. Len(<<>>) = {}
      OBVIOUS
    <3>3. \A i, k \in 0 .. Len(<<>>) : i = k
      BY <3>2
    <3>4. Track(s, c, <<>>, <<>>, t, 0)
      BY <3>2, <3>3 DEF Track, LinesFollow, StaysIdle, AnswerAt
    <3>5. t = "read" => Expects(s, c, <<>>, expected_states[u], 0, TRUE)
      BY <1>2 DEF Expects
    <3> QED
      BY <2>2, <3>2, <3>4, <3>5
  <2> QED
    BY <1>1, <2>1, <2>2
<1>6. InStep(u)'
  <2> HIDE DEF s, c, L, Q, t, M
  <2>1. \A k \in 1 .. Len(<<>>) : <<>>[k] \in Chosen
    OBVIOUS
  <2>2. (server = "down" \/ line[u] = NoExt)' = TRUE
    BY <1>1
  <2> QED
    BY <1>1, <1>3, <1>4, <1>5, <2>1, <2>2 DEF InStep, M
<1> QED
  BY <1>1, <1>6 DEF UpToDate

\* Every variable keeps its type.
LEMMA TesterTypeStep ==
  ASSUME TesterAssumption, TInv, [TesterNext]_tvars
  PROVE  TesterTypeOK' /\ Coupled'
<1> DEFINE Cmds == [op : Ops, ext : Dialled \cup {NoExt}]
           Ways == {"read", "act", "ended", "premature", "unexpected", "killed"}
           Sets == [normal : SUBSET States, crossed : SUBSET States]
<1>1. /\ TesterTypeOK /\ Coupled /\ ExchangeTypeOK
      /\ toServer \in [Units -> Seq(Cmds)] /\ toTester \in [Units -> Seq(Notices)]
      /\ server \in {"up", "down"} /\ tester \in [Units -> Ways]
      /\ current_state \in [Units -> States] /\ expected_states \in [Units -> Sets]
      /\ resync \in [Units -> BOOLEAN] /\ last_command \in [Units -> Ops]
  BY DEF TInv, TesterTypeOK
<1> HIDE DEF Sets, Ways, Cmds
<1>2. ASSUME NEW u \in Units, Connect(u) PROVE TesterTypeOK' /\ Coupled'
  <2>1. ExchangeTypeOK' /\ Coupled'
    <3>1. ExchangeNext
      BY <1>2 DEF Connect, ExchangeNext
    <3> QED
      BY <1>1, <3>1, CoupledStep DEF TesterAssumption
  <2>2. [line |-> "ON HOOK", answers |-> TRUE] \in Notices
    BY DEF Notices, States
  <2>3. toTester' \in [Units -> Seq(Notices)]
    <3>1. toTester[u] \in Seq(Notices)
      BY <1>1
    <3>2. Append(toTester[u], [line |-> "ON HOOK", answers |-> TRUE]) \in Seq(Notices)
      BY <2>2, <3>1, AppendProperties
    <3> QED
      BY <1>1, <1>2, <3>2 DEF Connect
  <2> QED
    BY <1>1, <1>2, <2>1, <2>3 DEF Connect, TesterTypeOK, own, Cmds, Ways, Sets
<1>3. ASSUME NEW u \in Units, Serve(u) PROVE TesterTypeOK' /\ Coupled'
  <2>1. ExchangeTypeOK' /\ Coupled'
    BY <1>3, ServeTells
  <2>2. toServer' \in [Units -> Seq(Cmds)]
    <3>1. toServer[u] \in Seq(Cmds) /\ toServer[u] # <<>>
      BY <1>1, <1>3 DEF Serve
    <3>2. Tail(toServer[u]) \in Seq(Cmds)
      BY <3>1, HeadTailProperties
    <3> QED
      BY <1>1, <1>3, <3>2 DEF Serve
  <2>3. ASSUME NEW v \in Units PROVE toTester'[v] \in Seq(Notices)
    <3>1. /\ phone'[v] \in States /\ toTester[v] \in Seq(Notices)
          /\ \A n \in Notices : Append(toTester[v], n) \in Seq(Notices)
      BY <1>1, <2>1, AppendProperties DEF ExchangeTypeOK
    <3>2. /\ \A b \in BOOLEAN : [line |-> phone'[v], answers |-> b] \in Notices
          /\ [line |-> "CHAT", answers |-> FALSE] \in Notices
      BY <3>1 DEF Notices
    <3>3. CASE v = u
      BY <1>3, <3>1, <3>2, <3>3, ServeTells
    <3>4. CASE v # u
      <4>1. \/ toTester'[v] = toTester[v]
            \/ toTester'[v] = Append(toTester[v], [line |-> phone'[v], answers |-> FALSE])
            \/ toTester'[v] = Append(toTester[v], [line |-> "CHAT", answers |-> FALSE])
        BY <1>3, <3>4, ServeTells
      <4>2. [line |-> phone'[v], answers |-> FALSE] \in Notices
        BY <3>2
      <4> QED
        BY <3>1, <3>2, <4>1, <4>2
    <3> QED
      BY <3>3, <3>4
  <2>4. toTester' \in [Units -> Seq(Notices)]
    <3>1. toTester' = [v \in Units |-> toTester[v] \o Told(u, Head(toServer[u]), v)]
      BY <1>3 DEF Serve
    <3>2. toTester' = [v \in Units |-> toTester'[v]]
      BY <3>1
    <3> QED
      BY <2>3, <3>2
  <2> QED
    BY <1>1, <1>3, <2>1, <2>2, <2>4 DEF Serve, TesterTypeOK, own, Cmds, Ways, Sets
<1>4. ASSUME NEW u \in Units, Receive(u) PROVE TesterTypeOK' /\ Coupled'
  <2> DEFINE new == Head(toTester[u]).line
  <2>1. toTester[u] # <<>> /\ toTester[u] \in Seq(Notices) /\ UNCHANGED <<xvars, toServer, server>>
    BY <1>1, <1>4 DEF Receive
  <2>2. Tail(toTester[u]) \in Seq(Notices) /\ (new = "CHAT" \/ new \in States)
    <3>1. Tail(toTester[u]) \in Seq(Notices) /\ Head(toTester[u]) \in Notices
      BY <2>1, HeadTailProperties
    <3> QED
      BY <3>1 DEF Notices
  <2>3. toTester' \in [Units -> Seq(Notices)]
    BY <1>1, <1>4, <2>2 DEF Receive
  <2>4. /\ tester' \in [Units -> Ways] /\ current_state' \in [Units -> States]
        /\ resync' \in [Units -> BOOLEAN] /\ last_command' = last_command
        /\ expected_states' \in [Units -> Sets]
    <3>1. CASE new = "CHAT" /\ ChatLine(u)
      BY <1>1, <3>1 DEF ChatLine, Ends, own, Ways
    <3>2. CASE new # "CHAT" /\ Expected(u, new)
      BY <1>1, <2>2, <3>2 DEF Expected, Ways
    <3>3. CASE new # "CHAT" /\ Crossed(u, new)
      <4>1. NextStates(new, last_command[u]) \in Sets
        BY <1>1, <2>2, <3>3, TableType DEF Sets
      <4> QED
        BY <1>1, <2>2, <3>3, <4>1 DEF Crossed
    <3>4. CASE new # "CHAT" /\ Unexpected(u, new)
      BY <1>1, <3>4 DEF Unexpected, Ends, Ways
    <3> QED
      BY <1>4, <3>1, <3>2, <3>3, <3>4 DEF Receive
  <2> QED
    BY <1>1, <2>1, <2>3, <2>4
    DEF TesterTypeOK, Coupled, CoupledAt, ExchangeTypeOK, xvars, Cmds, Ways, Sets
<1>5. ASSUME NEW u \in Units, Send(u) PROVE TesterTypeOK' /\ Coupled'
  <2>1. PICK cmd \in Chosen :
          /\ toServer' = IF server = "up" THEN [toServer EXCEPT ![u] = Append(@, cmd)] ELSE toServer
          /\ last_command' = [last_command EXCEPT ![u] = cmd.op]
          /\ expected_states' = [expected_states EXCEPT ![u] = NextStates(current_state[u], cmd.op)]
    BY <1>5 DEF Send
  <2>2. cmd \in Cmds /\ cmd.op \in Ops
    BY DEF Chosen, Ops, Cmds
  <2>3. NextStates(current_state[u], cmd.op) \in Sets
    BY <1>1, <2>2, TableType DEF Sets
  <2>4. toServer' \in [Units -> Seq(Cmds)]
    BY <1>1, <2>1, <2>2
  <2>5. expected_states' \in [Units -> Sets] /\ last_command' \in [Units -> Ops]
    BY <1>1, <2>1, <2>2, <2>3
  <2>6. tester' \in [Units -> Ways]
    BY <1>1, <1>5 DEF Send, Ways
  <2>7. UNCHANGED <<xvars, toTester, server, current_state, resync>>
    BY <1>5 DEF Send
  <2> QED
    BY <1>1, <2>4, <2>5, <2>6, <2>7
    DEF TesterTypeOK, Coupled, CoupledAt, ExchangeTypeOK, xvars, Cmds, Ways, Sets
<1>6. ASSUME NEW u \in Units, SendNowhere(u) \/ ReadEOF(u) PROVE TesterTypeOK' /\ Coupled'
  <2>1. /\ UNCHANGED <<xvars, link, server, current_state, expected_states, resync, last_command>>
        /\ tester' \in [Units -> Ways]
    BY <1>1, <1>6 DEF SendNowhere, ReadEOF, Ends, Ways
  <2> QED
    BY <1>1, <2>1
    DEF TesterTypeOK, Coupled, CoupledAt, ExchangeTypeOK, xvars, link, Cmds, Ways, Sets
<1>7. CASE Shutdown
  <2>1. toTester' \in [Units -> Seq(Notices)] /\ toServer' \in [Units -> Seq(Cmds)]
    BY <1>1, <1>7 DEF Shutdown
  <2>2. UNCHANGED <<xvars, own>> /\ server' = "down"
    BY <1>7 DEF Shutdown
  <2> QED
    BY <1>1, <2>1, <2>2
    DEF TesterTypeOK, Coupled, CoupledAt, ExchangeTypeOK, xvars, own, Cmds, Ways, Sets
<1>8. CASE UNCHANGED tvars
  BY <1>1, <1>8
  DEF TesterTypeOK, Coupled, CoupledAt, ExchangeTypeOK, tvars, xvars, link, own
<1> QED
  BY <1>2, <1>3, <1>4, <1>5, <1>6, <1>7, <1>8 DEF TesterNext, TesterStep, Over

\* A step changes one tester, and of the others at most what is on its way to them.
LEMMA TesterInvStep ==
  ASSUME TesterAssumption, TInv, [TesterNext]_tvars
  PROVE  TInv'
<1>1. TesterTypeOK' /\ Coupled'
  BY TesterTypeStep
<1>2. /\ tester \in [Units -> {"read", "act", "ended", "premature", "unexpected", "killed"}]
      /\ toServer \in [Units -> Seq([op : Ops, ext : Dialled \cup {NoExt}])]
      /\ toTester \in [Units -> Seq(Notices)]
      /\ current_state \in [Units -> States] /\ last_command \in [Units -> Ops]
      /\ expected_states \in [Units -> [normal : SUBSET States, crossed : SUBSET States]]
      /\ line \in [Units -> Ext \cup {NoExt}]
  BY DEF TInv, TesterTypeOK, ExchangeTypeOK
<1>3. \A v \in Units : InStep(v) /\ UpToDate(v) /\ tester[v] # "unexpected"
  BY DEF TInv, NoFalseAlarm
<1>4. ASSUME NEW v \in Units
      PROVE  InStep(v)' /\ UpToDate(v)' /\ tester'[v] # "unexpected"
  <2>1. ASSUME NEW u \in Units, Connect(u)
        PROVE  InStep(v)' /\ UpToDate(v)' /\ tester'[v] # "unexpected"
    <3>1. CASE v = u
      BY <1>3, <2>1, <3>1, ConnectOwn DEF Connect, own
    <3>2. CASE v # u
      <4>1. /\ toTester'[v] = toTester[v] /\ line'[v] = line[v] /\ phone' = phone
            /\ UNCHANGED <<toServer, server, own>>
        BY <1>2, <2>1, <3>2, ConnectOwn DEF Connect, Plug
      <4> QED
        BY <1>3, <4>1, UnitKept DEF own
    <3> QED
      BY <3>1, <3>2
  <2>2. ASSUME NEW u \in Units, Serve(u)
        PROVE  InStep(v)' /\ UpToDate(v)' /\ tester'[v] # "unexpected"
    <3>1. tester' = tester
      BY <2>2 DEF Serve, own
    <3> QED
      BY <1>3, <2>2, <3>1, ServeOwn, ServeOther
  <2>3. ASSUME NEW u \in Units, TesterStep(u)
        PROVE  InStep(v)' /\ UpToDate(v)' /\ tester'[v] # "unexpected"
    <3>1. CASE v = u
      BY <2>3, <3>1, ReceiveOwn, SendOwn, EndOwn DEF TesterStep
    <3>2. CASE v # u
      <4>1. /\ toServer'[v] = toServer[v] /\ toTester'[v] = toTester[v] /\ server' = server
            /\ tester'[v] = tester[v] /\ current_state'[v] = current_state[v]
            /\ expected_states'[v] = expected_states[v] /\ last_command'[v] = last_command[v]
            /\ phone' = phone /\ line' = line
        <5>1. CASE Receive(u)
          BY <1>2, <3>2, <5>1
          DEF Receive, ChatLine, Expected, Crossed, Unexpected, Ends, own, xvars
        <5>2. CASE Send(u)
          BY <1>2, <3>2, <5>2 DEF Send, xvars
        <5>3. CASE SendNowhere(u) \/ ReadEOF(u)
          BY <1>2, <3>2, <5>3 DEF SendNowhere, ReadEOF, Ends, xvars, link
        <5> QED
          BY <2>3, <5>1, <5>2, <5>3 DEF TesterStep
      <4> QED
        BY <1>3, <4>1, UnitKept
    <3> QED
      BY <3>1, <3>2
  <2>4. CASE Shutdown
    BY <1>3, <2>4, ShutdownKeeps DEF Shutdown, own
  <2>5. CASE UNCHANGED tvars
    BY <1>3, <2>5, UnitKept DEF tvars, xvars, link, own
  <2> QED
    BY <2>1, <2>2, <2>3, <2>4, <2>5 DEF TesterNext, Over
<1> QED
  BY <1>1, <1>4 DEF TInv, NoFalseAlarm

\* Nothing is on its way and no unit is plugged in.
LEMMA TesterInvInit ==
  ASSUME TesterInit
  PROVE  TInv
<1>1. TesterTypeOK
  <2>1. <<>> \in Seq(Notices) /\ <<>> \in Seq([op : Ops, ext : Dialled \cup {NoExt}])
    OBVIOUS
  <2>2. /\ "ON HOOK" \in States /\ "hangup" \in Ops
        /\ [normal |-> {"ON HOOK"}, crossed |-> {}] \in [normal : SUBSET States, crossed : SUBSET States]
    BY DEF States, Ops
  <2>3. ExchangeTypeOK
    BY <2>2 DEF TesterInit, ExchangeInit, ExchangeTypeOK
  <2> QED
    BY <2>1, <2>2, <2>3 DEF TesterInit, TesterTypeOK
<1>2. Coupled
  BY DEF TesterInit, ExchangeInit, Coupled, CoupledAt, Paired
<1>3. ASSUME NEW u \in Units PROVE InStep(u) /\ UpToDate(u)
  <2>1. Len(<<>>) = 0 /\ 1 .. Len(<<>>) = {} /\ 0 \in 0 .. Len(<<>>)
    OBVIOUS
  <2>2. \A i, k \in 0 .. Len(<<>>) : i = k
    BY <2>1
  <2>3. Track("ON HOOK", "hangup", <<>>, <<>>, "read", 0)
    BY <2>1, <2>2 DEF Track, LinesFollow, StaysIdle, AnswerAt
  <2>4. Ahead("ON HOOK", "hangup", <<>>, "read")
    BY <2>1 DEF Ahead
  <2>5. Expects("ON HOOK", "hangup", <<>>, [normal |-> {"ON HOOK"}, crossed |-> {}], 0,
                server = "down" \/ line[u] = NoExt)
    BY DEF Expects, Answer, TesterInit, ExchangeInit
  <2>6. InStep(u)
    BY <2>1, <2>3, <2>4, <2>5 DEF InStep, TesterInit
  <2>7. UpToDate(u)
    BY <2>1 DEF UpToDate, After, TesterInit, ExchangeInit
  <2> QED
    BY <2>6, <2>7
<1> QED
  BY <1>1, <1>2, <1>3 DEF TInv, NoFalseAlarm, TesterInit

\* The invariant that the results below are read off.
THEOREM TesterInductive == TesterSpec => []TInv
<1>1. TesterAssumption
  BY TesterAssumption
<1>2. TesterInit => TInv
  BY TesterInvInit
<1>3. TInv /\ [TesterNext]_tvars => TInv'
  BY <1>1, TesterInvStep
<1> QED
  BY <1>2, <1>3, PTL DEF TesterSpec

\* Every variable has its type.
THEOREM TesterTypeCorrect == TesterSpec => []TesterTypeOK
<1>1. TInv => TesterTypeOK
  BY DEF TInv
<1> QED
  BY <1>1, TesterInductive, PTL

\* No tester is ever told what its table does not let it expect (tester.c:46-75): the table
\* allows for every order in which commands and notices can cross.
THEOREM NoAlarmIsFalse == TesterSpec => []NoFalseAlarm
<1>1. TInv => NoFalseAlarm
  BY DEF TInv
<1> QED
  BY <1>1, TesterInductive, PTL

\* A tester picks its next command before all answers are in only while it is idle
\* (tester.c:66-67).
THEOREM AheadOnlyWhenIdle == TesterSpec => []AheadOnlyOnHook
<1>1. TInv => AheadOnlyOnHook
  <2> SUFFICES ASSUME TInv, NEW u \in Units, tester[u] = "act", Owed(u)
               PROVE  current_state[u] \in Idle
    BY DEF AheadOnlyOnHook, Idle
  <2>1. /\ Ahead(current_state[u], last_command[u], toServer[u], tester[u])
        /\ toServer[u] \in Seq([op : Ops, ext : Dialled \cup {NoExt}])
        /\ toTester[u] \in Seq(Notices)
    BY DEF TInv, InStep, TesterTypeOK
  <2>2. PICK m \in 0 .. Len(toTester[u]) :
          Track(current_state[u], last_command[u], toTester[u], toServer[u], tester[u], m)
    BY DEF TInv, InStep
  <2>3. CASE toServer[u] # <<>>
    <3>1. 1 \in 1 .. Len(toServer[u])
      BY <2>1, <2>3, EmptySeq, LenProperties
    <3> QED
      BY <2>1, <3>1 DEF Ahead
  <2>4. ASSUME NEW i \in DOMAIN toTester[u], toTester[u][i].answers
        PROVE  current_state[u] \in Idle
    <3>1. i \in 1 .. Len(toTester[u])
      BY <2>1, <2>4, LenProperties
    <3>2. m = 0 /\ i # m
      BY <2>2, <3>1 DEF Track, AnswerAt
    <3> QED
      BY <2>2, <2>4, <3>1, <3>2 DEF Track, LinesFollow
  <2> QED
    BY <2>3, <2>4 DEF Owed
<1> QED
  BY <1>1, TesterInductive, PTL

=============================================================================
