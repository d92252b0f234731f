------------------------------- MODULE Tester -------------------------------
(***************************************************************************)
(* The test clients of hw5 (util/tester.c) at the exchange.  A tester sends *)
(* commands at random and checks every notice against a table of the states *)
(* it may then be told (next_states).  Its commands and the notices that    *)
(* other testers cause cross in transit, which the table allows for.        *)
(*                                                                         *)
(* An operation of the exchange and the lines it prints are one step here,  *)
(* as the switch is locked throughout (see PBX!ExchangeRefined and          *)
(* PBX!ToldIsTrue).  The testers run without end, as they do by default.    *)
(***************************************************************************)
EXTENDS Exchange, Sequences

CONSTANTS Dialled,    \* the numbers testers dial, min_ext to max_ext
          Room        \* bound: the lines that fit into a connection, either way

ASSUME TesterAssumption ==
  /\ Ext \subseteq Nat /\ Dialled \subseteq Ext /\ Room \in Nat \ {0}
  /\ NoExt \notin Ext /\ NoUnit \notin Units

VARIABLES
  toServer, toTester,  \* the lines on their way
  server,              \* "up" or "down"
  tester,              \* "read", "act", or how its process has ended
  current_state, expected_states, resync, last_command

link == <<toServer, toTester>>
own  == <<tester, current_state, expected_states, resync, last_command>>
tvars == <<xvars, link, server, own>>

Ops == {"pickup", "hangup", "dial", "chat"}

\* Lines from the server.  Whether a notice answers a command of the same client is not
\* in the line; only properties look at it.
Notices == [line : States \cup {"CHAT"}, answers : BOOLEAN]

\* Every variable has its type.
TesterTypeOK ==
  /\ ExchangeTypeOK
  /\ toServer \in [Units -> Seq([op : Ops, ext : Dialled \cup {NoExt}])]
  /\ toTester \in [Units -> Seq(Notices)]
  /\ server \in {"up", "down"}
  /\ tester \in [Units -> {"read", "act", "ended", "premature", "unexpected", "killed"}]
  /\ current_state \in [Units -> States]
  /\ expected_states \in [Units -> [normal : SUBSET States, crossed : SUBSET States]]
  /\ resync \in [Units -> BOOLEAN]
  /\ last_command \in [Units -> Ops]

-----------------------------------------------------------------------------
(* The table.                                                              *)

\* The answer to a command that reaches the server in state s.
Answer(s, op) ==
  IF op = "hangup" THEN {"ON HOOK"}
  ELSE IF op = "pickup" /\ s = "ON HOOK" THEN {"DIAL TONE"}
  ELSE IF op = "pickup" /\ s = "RINGING" THEN {"CONNECTED"}
  ELSE IF op = "dial" /\ s = "DIAL TONE" THEN {"RING BACK", "BUSY SIGNAL", "ERROR"}
  ELSE {s}

\* Where the other end can move a unit in state s.
Moved(s) ==
  IF s = "ON HOOK" THEN {"RINGING"}
  ELSE IF s = "RINGING" THEN {"ON HOOK"}
  ELSE IF s = "RING BACK" THEN {"CONNECTED", "DIAL TONE"}
  ELSE IF s = "CONNECTED" THEN {"DIAL TONE"} ELSE {}

\* Mutant: no notice of the state that the tester is in already can be under way.
NextStatesOnceOnly(s, op) ==
  [normal |-> Answer(s, op), crossed |-> Moved(s) \ Answer(s, op)]

\* The bits below RESYNC and those above, without the ones that the lower bits mask.
NextStates(s, op) ==
  [normal |-> Answer(s, op), crossed |-> ({s} \cup Moved(s)) \ Answer(s, op)]

TesterInit ==
  /\ ExchangeInit
  /\ toServer = [u \in Units |-> <<>>] /\ toTester = [u \in Units |-> <<>>]
  /\ server = "up"
  /\ tester = [u \in Units |-> "read"]
  /\ current_state = [u \in Units |-> "ON HOOK"]
  /\ expected_states = [u \in Units |-> [normal |-> {"ON HOOK"}, crossed |-> {}]]
  /\ resync = [u \in Units |-> FALSE]
  /\ last_command = [u \in Units |-> "hangup"]

-----------------------------------------------------------------------------
(* The server.                                                             *)

\* No connection is full: a write that blocks does so with the switch locked.
Writable == \A v \in Units : Len(toTester[v]) < Room

\* pbx_register gives out the lowest free number.
Connect(u) ==
  /\ server = "up" /\ Writable
  /\ \E e \in Ext : /\ \A f \in 0 .. e - 1 : \E v \in Units : line[v] = f
                    /\ Plug(u, e)
  /\ toTester' = [toTester EXCEPT ![u] = Append(@, [line |-> "ON HOOK", answers |-> TRUE])]
  /\ UNCHANGED <<toServer, server, own>>

Perform(u, cmd) ==
  \/ cmd.op = "pickup" /\ PickUp(u)
  \/ cmd.op = "hangup" /\ HangUp(u)
  \/ cmd.op = "dial" /\ Dial(u, cmd.ext)
  \/ /\ \/ cmd.op = "pickup" /\ phone[u] \notin {"ON HOOK", "RINGING"}
        \/ cmd.op = "dial" /\ phone[u] # "DIAL TONE"
        \/ cmd.op = "chat"
     /\ UNCHANGED xvars

\* Mutant: a chat that cannot be delivered is not answered.
ToldIfDelivered(u, cmd, v) ==
  (IF (v = u /\ (cmd.op # "chat" \/ phone[u] = "CONNECTED")) \/ phone'[v] # phone[v]
   THEN <<[line |-> phone'[v], answers |-> v = u]>> ELSE <<>>)
  \o (IF cmd.op = "chat" /\ phone[u] = "CONNECTED" /\ partner[u] = v
      THEN <<[line |-> "CHAT", answers |-> FALSE]>> ELSE <<>>)

\* What v is sent for a command of u: its new state if it is u or has changed, and a
\* chat line.
Told(u, cmd, v) ==
  (IF v = u \/ phone'[v] # phone[v]
   THEN <<[line |-> phone'[v], answers |-> v = u]>> ELSE <<>>)
  \o (IF cmd.op = "chat" /\ phone[u] = "CONNECTED" /\ partner[u] = v
      THEN <<[line |-> "CHAT", answers |-> FALSE]>> ELSE <<>>)

Serve(u) ==
  /\ server = "up" /\ Writable
  /\ toServer[u] # <<>>
  /\ Perform(u, Head(toServer[u]))
  /\ toServer' = [toServer EXCEPT ![u] = Tail(@)]
  /\ toTester' = [v \in Units |-> toTester[v] \o Told(u, Head(toServer[u]), v)]
  /\ UNCHANGED <<server, own>>

\* SIGHUP: the switch is freed and the process exits, between two operations.  Commands
\* it has not read make the kernel reset their connection, which may take lines with it
\* that the tester has not read.
Shutdown ==
  /\ server = "up"
  /\ server' = "down"
  /\ \E lost \in SUBSET {u \in Units : toServer[u] # <<>>} :
       toTester' = [u \in Units |-> IF u \in lost THEN <<>> ELSE toTester[u]]
  /\ toServer' = [u \in Units |-> <<>>]
  /\ UNCHANGED <<xvars, own>>

-----------------------------------------------------------------------------
(* test                                                                    *)

Ends(u, how) ==
  /\ tester' = [tester EXCEPT ![u] = how]
  /\ UNCHANGED <<current_state, expected_states, resync, last_command>>

\* There is no transition, but we must be in the connected state.
ChatLine(u) ==
  IF current_state[u] = "CONNECTED" THEN UNCHANGED own ELSE Ends(u, "unexpected")

Expected(u, new) ==
  /\ new \in expected_states[u].normal
  /\ resync' = [resync EXCEPT ![u] = FALSE]
  /\ current_state' = [current_state EXCEPT ![u] = new]
  /\ tester' = [tester EXCEPT ![u] = "act"]
  /\ UNCHANGED <<expected_states, last_command>>

\* Mutant: a resynchronising tester goes on to its next command.
CrossedGoesOn(u, new) ==
  /\ new \in expected_states[u].crossed
  /\ resync' = [resync EXCEPT ![u] = TRUE]
  /\ current_state' = [current_state EXCEPT ![u] = new]
  /\ tester' = [tester EXCEPT ![u] = "act"]
  /\ UNCHANGED <<expected_states, last_command>>

\* The notice crossed the last command, whose answer is still to come.
Crossed(u, new) ==
  /\ new \in expected_states[u].crossed
  /\ resync' = [resync EXCEPT ![u] = TRUE]
  /\ current_state' = [current_state EXCEPT ![u] = new]
  /\ expected_states' = [expected_states EXCEPT ![u] = NextStates(new, last_command[u])]
  /\ UNCHANGED <<tester, last_command>>

Unexpected(u, new) ==
  /\ new \notin expected_states[u].normal \cup expected_states[u].crossed
  /\ Ends(u, "unexpected")

Receive(u) ==
  /\ tester[u] = "read" /\ toTester[u] # <<>>
  /\ toTester' = [toTester EXCEPT ![u] = Tail(@)]
  /\ LET new == Head(toTester[u]).line IN
     \/ new = "CHAT" /\ ChatLine(u)
     \/ new # "CHAT" /\ (Expected(u, new) \/ Crossed(u, new) \/ Unexpected(u, new))
  /\ UNCHANGED <<xvars, toServer, server>>

\* Mutant: max_ext + 1 is dialled too.
ChosenBeyond ==
  [op : Ops \ {"dial"}, ext : {NoExt}] \cup [op : {"dial"}, ext : Dialled \cup {e + 1 : e \in Dialled}]

\* choose_action: any command has a chance in any state.
Chosen == [op : Ops \ {"dial"}, ext : {NoExt}] \cup [op : {"dial"}, ext : Dialled]

\* After any number of delays, during which nothing is read.
Send(u) ==
  /\ tester[u] = "act"
  /\ Len(toServer[u]) < Room
  /\ \E cmd \in Chosen :
       /\ toServer' = IF server = "up" THEN [toServer EXCEPT ![u] = Append(@, cmd)]
                      ELSE toServer
       /\ last_command' = [last_command EXCEPT ![u] = cmd.op]
       /\ expected_states' = [expected_states EXCEPT ![u] = NextStates(current_state[u], cmd.op)]
  /\ tester' = [tester EXCEPT ![u] = "read"]
  /\ UNCHANGED <<xvars, toTester, server, current_state, resync>>

\* The write meets a connection that the server's end has reset: SIGPIPE.
SendNowhere(u) ==
  /\ tester[u] = "act" /\ server = "down"
  /\ Ends(u, "killed")
  /\ UNCHANGED <<xvars, link, server>>

ReadEOF(u) ==
  /\ tester[u] = "read" /\ toTester[u] = <<>> /\ server = "down"
  /\ Ends(u, IF resync[u] THEN "premature" ELSE "ended")
  /\ UNCHANGED <<xvars, link, server>>

Over == /\ \A u \in Units : tester[u] \notin {"read", "act"}
        /\ UNCHANGED tvars

TesterStep(u) == Receive(u) \/ Send(u) \/ SendNowhere(u) \/ ReadEOF(u)
TesterNext == \/ \E u \in Units : Connect(u) \/ Serve(u) \/ TesterStep(u)
              \/ Shutdown \/ Over

\* Testers do not stop, and a service thread that can write again and again gets the
\* switch at last.  Nothing is promised of SIGHUP.
TesterSpec ==
  /\ TesterInit /\ [][TesterNext]_tvars
  /\ \A u \in Units : SF_tvars(Serve(u) \/ Connect(u)) /\ WF_tvars(TesterStep(u))

-----------------------------------------------------------------------------
(* Properties.                                                             *)

\* Against this exchange no tester ends with "New state is not in expected set" or
\* "Chat received when not in state CONNECTED", in whatever order commands and notices
\* cross: the table allows for every crossing (tester.c:46-75).
NoFalseAlarm == \A u \in Units : tester[u] # "unexpected"

\* "The response to our last command is still forthcoming" (tester.c:66-67): a tester
\* picks its next command before all answers are in only while it is on hook or ringing,
\* where it cannot tell an answer from a call that comes or goes.
Owed(u) ==
  toServer[u] # <<>> \/ \E i \in DOMAIN toTester[u] : toTester[u][i].answers
AheadOnlyOnHook ==
  \A u \in Units : tester[u] = "act" /\ server = "up" /\ Owed(u)
                    => current_state[u] \in {"ON HOOK", "RINGING"}

\* A tester that reads stops doing so: every command is answered and every
\* resynchronisation completes, for which tester.c:72-74 misses a timeout, or the server
\* goes down.  It takes that connections do not stay full: a tester that does not read
\* while it sends, and a server that holds the switch while it writes, can end up waiting
\* for each other.
TestersGoOn ==
  []<>Writable => \A u \in Units : tester[u] = "read" ~> tester[u] # "read"
=============================================================================
