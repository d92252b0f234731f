------------------------------- MODULE Polya --------------------------------
(***************************************************************************)
(* The multiprocess problem solver of hw4 (src/hw4/src: master.c, worker.c, *)
(* problem.c and the two solvers).  A master process hands variants of the *)
(* current problem to worker processes through pipes, stops and continues  *)
(* them with signals, and learns of their stopping and continuing from a   *)
(* SIGCHLD handler that may run between any two of its steps.              *)
(*                                                                         *)
(* The kernel's side is external and modelled as Linux does it: SIGCHLD is *)
(* one pending bit; of a child's stops and continues waitpid reports the   *)
(* latest only; a stopped process is handed its signals when it continues. *)
(* Hashes and nonces, and the sf_ calls that log events, are left out.      *)
(***************************************************************************)
EXTENDS Integers, Sequences

CONSTANTS N,          \* number of workers
          NProbs,     \* number of problems to solve
          Kind,       \* the solver in use, "miner" or "trivial"
          Hopeless,   \* <<p, w>>: the nonces that w tries hold no solution of p
          RealTime,   \* the sleeps and exec take long enough: see Stops, Wakes
          JobControl  \* the master runs as a job of an interactive shell: see Terminate

Workers == 0 .. N - 1
Problems == 1 .. NProbs
Null == 0

ASSUME SizesAssumption == N \in Nat \ {0} /\ NProbs \in Nat \ {0}
ASSUME KindAssumption == Kind \in {"miner", "trivial"} /\ RealTime \in BOOLEAN /\ JobControl \in BOOLEAN
ASSUME HopelessAssumption == Hopeless \subseteq Problems \X Workers

VARIABLES
  wpc,          \* where a worker process is
  halted,       \* stopped by SIGSTOP
  event,        \* what waitpid has to report of it
  pending,      \* its pending SIGHUP and SIGTERM
  cancel,       \* its cancel_solution
  job,          \* the problem it has read
  toWorker, toMaster,                   \* the pipes
  sigchld,      \* SIGCHLD is pending for the master
  inHandler,    \* the master executes sigchld_handler
  mpc, i,       \* where the master is, and its loop variable
  status, problem_id, currently_solving,  \* struct base_worker; 0 is its fresh memory
  current,      \* current_problem: the chunk it lies in, or Null
  chunk,        \* the problem that a chunk of memory holds, or Null once freed
  problems_remaining,
  solved        \* the results that cleared a problem: <<problem, computed for>>

worker == <<wpc, halted, event, pending, cancel, job>>
pipes  == <<toWorker, toMaster>>
table  == <<status, problem_id, currently_solving>>
probs  == <<current, chunk, problems_remaining, solved>>
signal == <<sigchld, inHandler>>
vars   == <<worker, pipes, signal, mpc, i, table, probs>>

Results == [problem : Problems, id : 0 .. NProbs, failed : BOOLEAN]

\* The variables keep their types: indices, statuses and ids stay in their ranges, also
\* where the master and its handler count workers (master.c:54-120).
TypeOK ==
  /\ wpc \in [Workers -> {"unborn", "exec", "stop", "sleep", "read", "solve", "dead"}]
  /\ halted \in [Workers -> BOOLEAN]
  /\ event \in [Workers -> {"none", "stopped", "continued", "exited", "killed"}]
  /\ pending \in [Workers -> SUBSET {"HUP", "TERM"}]
  /\ cancel \in [Workers -> BOOLEAN]
  /\ job \in [Workers -> Problems \cup {Null}]
  /\ toWorker \in [Workers -> Seq(Problems)]
  /\ toMaster \in [Workers -> Seq(Results)]
  /\ sigchld \in BOOLEAN /\ inHandler \in BOOLEAN
  /\ mpc \in {"fork", "enter", "wait", "suspend", "next", "idle", "continue", "stopped",
              "read", "close", "term", "done", "sigsegv", "sigpipe"}
  /\ i \in Workers
  /\ status \in [Workers -> {"none", "started", "idle", "continued", "running",
                             "stopped", "exited"}]
  /\ problem_id \in [Workers -> 0 .. NProbs]
  /\ currently_solving \in [Workers -> Problems \cup {Null}]
  /\ current \in Problems \cup {Null}
  /\ chunk \in [Problems -> Problems \cup {Null}]
  /\ problems_remaining \in 0 .. NProbs
  /\ solved \in Seq(Problems \X Problems)

Init ==
  /\ wpc = [w \in Workers |-> "unborn"]
  /\ halted = [w \in Workers |-> FALSE]
  /\ event = [w \in Workers |-> "none"]
  /\ pending = [w \in Workers |-> {}]
  /\ cancel = [w \in Workers |-> FALSE]
  /\ job = [w \in Workers |-> Null]
  /\ toWorker = [w \in Workers |-> <<>>]
  /\ toMaster = [w \in Workers |-> <<>>]
  /\ sigchld = FALSE /\ inHandler = FALSE
  /\ mpc = "fork" /\ i = 0
  /\ status = [w \in Workers |-> "none"]
  /\ problem_id = [w \in Workers |-> 0]
  /\ currently_solving = [w \in Workers |-> Null]
  /\ current = Null
  /\ chunk = [c \in Problems |-> Null]
  /\ problems_remaining = NProbs
  /\ solved = <<>>

-----------------------------------------------------------------------------
(* Processes and signals.                                                  *)

MasterGone == mpc \in {"done", "sigsegv", "sigpipe"}
PipesClosed(w) == MasterGone \/ mpc = "term" \/ (mpc = "close" /\ w < i)

\* Both ends the master holds of w's pipes are inherited by the workers forked
\* after w; a pipe has lost its other side when all of these are gone.
Severed(w) == PipesClosed(w) /\ \A v \in Workers : v > w => wpc[v] = "dead"

\* SIGHUP or SIGTERM is sent to these workers.
Kill(targets, sig) ==
  pending' = [w \in Workers |-> IF w \in targets /\ wpc[w] # "dead"
                                THEN pending[w] \cup {sig} ELSE pending[w]]

\* SIGCONT: news for the master if w was stopped, nothing otherwise.
KillCont(w) ==
  /\ halted' = [halted EXCEPT ![w] = FALSE]
  /\ event' = [event EXCEPT ![w] = IF halted[w] THEN "continued" ELSE @]
  /\ sigchld' = (sigchld \/ halted[w])
  /\ UNCHANGED <<wpc, pending, cancel, job, inHandler>>

Dies(w, how) ==
  /\ wpc' = [wpc EXCEPT ![w] = "dead"]
  /\ event' = [event EXCEPT ![w] = how]
  /\ sigchld' = TRUE
  /\ pending' = [pending EXCEPT ![w] = {}]
  /\ UNCHANGED <<halted, cancel, job, pipes, inHandler>>

master == <<mpc, i, table, probs>>
Runs(w, at) == wpc[w] = at /\ ~halted[w]
Goes(w, to) == wpc' = [wpc EXCEPT ![w] = to]

-----------------------------------------------------------------------------
(* worker                                                                  *)

\* execv, and the handlers installed.
Ready(w) ==
  /\ Runs(w, "exec")
  /\ Goes(w, "stop")
  /\ UNCHANGED <<halted, event, pending, cancel, job, pipes, signal, master>>

\* kill(getpid(), SIGSTOP).  In real time no worker gets here before the master waits
\* for them, or with a SIGTERM that it has not taken yet.
Stops(w) ==
  /\ Runs(w, "stop")
  /\ RealTime => mpc \notin {"fork", "enter", "wait"} /\ "TERM" \notin pending[w]
  /\ Goes(w, "sleep")
  /\ halted' = [halted EXCEPT ![w] = TRUE]
  /\ event' = [event EXCEPT ![w] = "stopped"]
  /\ sigchld' = TRUE
  /\ UNCHANGED <<pending, cancel, job, pipes, inHandler, master>>

\* The end of sleep(1).  In real time the master has by then seen w continue.
Wakes(w) ==
  /\ Runs(w, "sleep")
  /\ RealTime => event[w] = "none" \/ MasterGone
  /\ Goes(w, "read")
  /\ UNCHANGED <<halted, event, pending, cancel, job, pipes, signal, master>>

Reads(w) ==
  /\ Runs(w, "read")
  /\ toWorker[w] # <<>>
  /\ job' = [job EXCEPT ![w] = Head(toWorker[w])]
  /\ toWorker' = [toWorker EXCEPT ![w] = Tail(@)]
  /\ Goes(w, "solve")
  /\ UNCHANGED <<halted, event, pending, cancel, toMaster, signal, master>>

\* End of file: what it takes for a problem is uninitialised, and so is the
\* solver it calls.
ReadsNothing(w) ==
  /\ Runs(w, "read")
  /\ toWorker[w] = <<>> /\ Severed(w)
  /\ Dies(w, "killed")
  /\ UNCHANGED master

\* The solver returns nothing: it was canceled, or has tried all its nonces.
Fails(w) == cancel[w] \/ (Kind = "miner" /\ <<job[w], w>> \in Hopeless)

\* A trivial solution carries no problem id.
Answer(w) == [problem |-> job[w], failed |-> Fails(w),
              id |-> IF Fails(w) \/ Kind = "miner" THEN job[w] ELSE 0]

\* Mutant: the flag is left set, and every later attempt fails.
AnswersKeepingFlag(w) ==
  /\ Runs(w, "solve")
  /\ ~Severed(w)
  /\ toMaster' = [toMaster EXCEPT ![w] = Append(@, Answer(w))]
  /\ job' = [job EXCEPT ![w] = Null]
  /\ Goes(w, "stop")
  /\ UNCHANGED <<halted, event, pending, cancel, toWorker, signal, master>>

\* SIGHUP is blocked, and the answer written.  The flag falls only with a failed one; it
\* is down with any other.
Answers(w) ==
  /\ Runs(w, "solve")
  /\ ~Severed(w)
  /\ toMaster' = [toMaster EXCEPT ![w] = Append(@, Answer(w))]
  /\ cancel' = [cancel EXCEPT ![w] = FALSE]
  /\ job' = [job EXCEPT ![w] = Null]
  /\ Goes(w, "stop")
  /\ UNCHANGED <<halted, event, pending, toWorker, signal, master>>

AnswersNobody(w) ==
  /\ Runs(w, "solve")
  /\ Severed(w)
  /\ Dies(w, "killed")
  /\ UNCHANGED master

\* SIGHUP, blocked while reading; before its handler is there it kills.
Hup(w) ==
  /\ "HUP" \in pending[w] /\ ~halted[w]
  /\ \/ /\ wpc[w] = "exec"
        /\ Dies(w, "killed")
     \/ /\ wpc[w] \in {"stop", "sleep", "solve"}
        /\ cancel' = [cancel EXCEPT ![w] = TRUE]
        /\ pending' = [pending EXCEPT ![w] = @ \ {"HUP"}]
        /\ UNCHANGED <<wpc, halted, event, job, pipes, signal>>
  /\ UNCHANGED master

Term(w) ==
  /\ "TERM" \in pending[w] /\ ~halted[w]
  /\ Dies(w, IF wpc[w] = "exec" THEN "killed" ELSE "exited")
  /\ UNCHANGED master

-----------------------------------------------------------------------------
(* sigchld_handler.  Signals are not blocked while workers are forked, and  *)
(* blocked while the master writes a problem or reads a result.            *)

HandlerEnters ==
  /\ sigchld /\ ~inHandler
  /\ ~MasterGone /\ mpc # "read"
  /\ inHandler' = TRUE /\ sigchld' = FALSE
  /\ UNCHANGED <<worker, pipes, master>>

\* Mutant: a worker that stops while it is taken to run goes back to idle.
StatusAfterIdle(s, ev) ==
  IF s \in {"started", "running"} THEN (IF s = "running" /\ ev = "exited" THEN "exited" ELSE "idle")
  ELSE IF s \in {"idle", "continued"} THEN (IF s = "idle" /\ ev = "exited" THEN "exited" ELSE "running")
  ELSE s

\* Only an exit is told from other news, and not in every state.
StatusAfter(s, ev) ==
  IF s \in {"idle", "running"} /\ ev = "exited" THEN "exited"
  ELSE IF s \in {"idle", "continued"} THEN "running"
  ELSE IF s = "running" THEN "stopped"
  ELSE IF s = "started" THEN "idle"
  ELSE s

\* One round of the waitpid loop; getIndex has no answer for a worker that is not
\* yet in the table, and -1 is then used as an index.
Reap(w) ==
  /\ inHandler /\ ~MasterGone
  /\ event[w] # "none"
  /\ event' = [event EXCEPT ![w] = "none"]
  /\ \/ /\ status[w] # "none"
        /\ status' = [status EXCEPT ![w] = StatusAfter(@, event[w])]
        /\ UNCHANGED mpc
     \/ /\ status[w] = "none"
        /\ mpc' = "sigsegv"
        /\ UNCHANGED status
  /\ UNCHANGED <<wpc, halted, pending, cancel, job, pipes, signal, i, problem_id,
                 currently_solving, probs>>

HandlerReturns ==
  /\ inHandler /\ ~MasterGone
  /\ \A w \in Workers : event[w] = "none"
  /\ inHandler' = FALSE
  /\ mpc' = IF mpc = "suspend" THEN "next" ELSE mpc
  /\ UNCHANGED <<worker, pipes, sigchld, i, table, probs>>

-----------------------------------------------------------------------------
(* master                                                                  *)

At(at) == mpc = at /\ ~inHandler

Fork ==
  /\ At("fork")
  /\ Goes(i, "exec")
  /\ mpc' = "enter"
  /\ UNCHANGED <<halted, event, pending, cancel, job, pipes, signal, i, table, probs>>

Enter ==
  /\ At("enter")
  /\ status' = [status EXCEPT ![i] = "started"]
  /\ IF i + 1 < N THEN i' = i + 1 /\ mpc' = "fork" ELSE i' = 0 /\ mpc' = "wait"
  /\ UNCHANGED <<worker, pipes, signal, problem_id, currently_solving, probs>>

\* sigsuspend ends only for a SIGCHLD that has not been handled before it is called.
Suspend ==
  /\ At("wait")
  /\ mpc' = "suspend"
  /\ UNCHANGED <<worker, pipes, signal, i, table, probs>>

\* get_problem_variant; a new problem may get the memory of an earlier one.
NextProblem ==
  /\ At("next")
  /\ \/ /\ current # Null
        /\ mpc' = "idle" /\ UNCHANGED <<i, probs>>
     \/ /\ current = Null /\ problems_remaining > 0
        /\ LET p == NProbs - problems_remaining + 1 IN
             \E c \in {c \in 1 .. p : chunk[c] = Null} :
               current' = c /\ chunk' = [chunk EXCEPT ![c] = p]
        /\ problems_remaining' = problems_remaining - 1
        /\ mpc' = "idle" /\ UNCHANGED <<i, solved>>
     \/ /\ current = Null /\ problems_remaining = 0
        /\ mpc' = "close" /\ i' = 0 /\ UNCHANGED probs
  /\ UNCHANGED <<worker, pipes, signal, table>>

\* Mutant: the pointer that was kept for the worker's first problem is kept for ever.
KeepFirst(c) == currently_solving' = [currently_solving EXCEPT ![i] = IF @ = Null THEN c ELSE @]

\* The problem is remembered by its place in memory.
Keep(c) == currently_solving' = [currently_solving EXCEPT ![i] = c]

\* The problem is written to a worker that is idle, if it lives.
Assign ==
  /\ At("idle")
  /\ \/ /\ status[i] = "idle" /\ wpc[i] # "dead"
        /\ toWorker' = [toWorker EXCEPT ![i] = Append(@, chunk[current])]
        /\ problem_id' = [problem_id EXCEPT ![i] = chunk[current]]
        /\ Keep(current)
        /\ status' = [status EXCEPT ![i] = "continued"]
        /\ mpc' = "continue"
     \/ /\ status[i] = "idle" /\ wpc[i] = "dead"
        /\ mpc' = "sigpipe"
        /\ UNCHANGED <<toWorker, table>>
     \/ /\ status[i] # "idle"
        /\ mpc' = "stopped"
        /\ UNCHANGED <<toWorker, table>>
  /\ UNCHANGED <<worker, toMaster, signal, i, probs>>

Continue ==
  /\ At("continue")
  /\ KillCont(i)
  /\ mpc' = "stopped"
  /\ UNCHANGED <<pipes, i, table, probs>>

\* Mutant: the index is not wrapped around.
CheckStoppedNoWrap ==
  /\ At("stopped")
  /\ \/ status[i] = "stopped" /\ mpc' = "read" /\ UNCHANGED i
     \/ status[i] # "stopped" /\ mpc' = "next" /\ i' = i + 1
  /\ UNCHANGED <<worker, pipes, signal, table, probs>>

CheckStopped ==
  /\ At("stopped")
  /\ \/ status[i] = "stopped" /\ mpc' = "read" /\ UNCHANGED i
     \/ status[i] # "stopped" /\ mpc' = "next" /\ i' = (i + 1) % N
  /\ UNCHANGED <<worker, pipes, signal, table, probs>>

(* post_result for an answer to problem p.  The pointer kept in the table   *)
(* may be to freed memory, where any solver's number may stand.  A trivial *)
(* solution fits every problem, a nonce only its own.                      *)
Fits(p, c) == chunk[c] # Null /\ (Kind = "trivial" \/ chunk[c] = p)

Post(p, c) ==
  \/ /\ Fits(p, c) /\ current = c
     /\ solved' = Append(solved, <<chunk[c], p>>)
     /\ current' = Null /\ chunk' = [chunk EXCEPT ![c] = Null]
     /\ mpc' = "next"
  \/ /\ ~(Fits(p, c) /\ current = c)
     /\ mpc' = "next" /\ UNCHANGED <<current, chunk, solved>>
  \/ /\ chunk[c] = Null
     /\ mpc' = "sigsegv" /\ UNCHANGED <<current, chunk, solved>>

\* Mutant: everybody else is canceled, whatever he works on.
CanceledAll(id) == Workers \ {i}

Canceled(id) == {w \in Workers \ {i} : problem_id[w] = id}

\* The result is read and posted, and whoever works on the same problem canceled.
ReadResult ==
  LET r == Head(toMaster[i]) IN
  /\ At("read")
  /\ toMaster[i] # <<>>
  /\ toMaster' = [toMaster EXCEPT ![i] = Tail(@)]
  /\ status' = [status EXCEPT ![i] = "idle"]
  /\ \/ /\ r.failed
        /\ mpc' = "next" /\ UNCHANGED <<pending, current, chunk, solved>>
     \/ /\ ~r.failed
        /\ Post(r.problem, currently_solving[i])
        /\ IF mpc' = "sigsegv" THEN UNCHANGED pending ELSE Kill(Canceled(r.id), "HUP")
  /\ i' = (i + 1) % N
  /\ UNCHANGED <<wpc, halted, event, cancel, job, toWorker, signal, problem_id,
                 currently_solving, problems_remaining>>

\* The loop is left: pipes closed and everybody continued, one by one.
Close ==
  /\ At("close")
  /\ KillCont(i)
  /\ IF i + 1 < N THEN i' = i + 1 /\ UNCHANGED mpc ELSE i' = 0 /\ mpc' = "term"
  /\ UNCHANGED <<pipes, table, probs>>

\* Mutant: only workers counted as idle are told to end.
TerminateIdle ==
  /\ At("term")
  /\ Kill({w \in {i} : status[w] = "idle"}, "TERM")
  /\ \/ i + 1 < N /\ i' = i + 1 /\ UNCHANGED <<halted, mpc>>
     \/ /\ i + 1 = N /\ i' = 0 /\ mpc' = "done"
        /\ halted' = [w \in Workers |-> halted[w] /\ ~JobControl]
  /\ UNCHANGED <<wpc, event, cancel, job, pipes, signal, table, probs>>

\* Everybody terminated, one by one; then the master returns.  When a job of an interactive
\* shell loses its first process, the kernel continues those of the others that are stopped.
\* (The SIGHUP it sends them, too, does nothing that the SIGTERM does not.)
Terminate ==
  /\ At("term")
  /\ Kill({i}, "TERM")
  /\ \/ i + 1 < N /\ i' = i + 1 /\ UNCHANGED <<halted, mpc>>
     \/ /\ i + 1 = N /\ i' = 0 /\ mpc' = "done"
        /\ halted' = [w \in Workers |-> halted[w] /\ ~JobControl]
  /\ UNCHANGED <<wpc, event, cancel, job, pipes, signal, table, probs>>

-----------------------------------------------------------------------------
Worker(w) == \/ Ready(w) \/ Stops(w) \/ Wakes(w) \/ Reads(w) \/ ReadsNothing(w)
             \/ Answers(w) \/ AnswersNobody(w) \/ Hup(w) \/ Term(w)
Handler == HandlerEnters \/ HandlerReturns \/ \E w \in Workers : Reap(w)
Main == \/ Fork \/ Enter \/ Suspend \/ NextProblem \/ Assign \/ Continue \/ CheckStopped
        \/ ReadResult \/ Close \/ Terminate

\* Nobody can move any more, and the master has ended.
Rest == MasterGone /\ UNCHANGED vars

Next == (\E w \in Workers : Worker(w)) \/ Handler \/ Main \/ Rest

Spec == Init /\ [][Next]_vars
Fairness == WF_vars(Main) /\ WF_vars(Handler) /\ \A w \in Workers : WF_vars(Worker(w))
FairSpec == Spec /\ Fairness

-----------------------------------------------------------------------------
(* Properties.                                                             *)

Serving == mpc \in {"next", "idle", "continue", "stopped", "read"}

InFlight(w) == Len(toWorker[w]) + (IF wpc[w] = "solve" THEN 1 ELSE 0) + Len(toMaster[w])

\* The master's idea of a worker, kept by counting SIGCHLDs it cannot tell apart,
\* is the worker's true situation: exactly one problem or result is on its way for
\* a worker that was given one and none for an idle one, and a worker is read from
\* and written to only while it is stopped (polya.h:222-226), so that neither
\* pipe can ever block the master.
StatusSound ==
  Serving => \A w \in Workers :
    /\ InFlight(w) = IF status[w] \in {"continued", "running", "stopped"} THEN 1 ELSE 0
    /\ status[w] = "idle" => halted[w]
    /\ status[w] = "stopped" => halted[w] /\ Len(toMaster[w]) = 1

\* A problem is with w: in its pipe, in its hands, or in its answer.
WorksAt(w, p) ==
  \/ \E k \in DOMAIN toWorker[w] : toWorker[w][k] = p
  \/ wpc[w] = "solve" /\ job[w] = p
  \/ \E k \in DOMAIN toMaster[w] : toMaster[w][k].problem = p

\* The master takes an answer off w's pipe.
Taken(w) == toMaster[w] # <<>> /\ toMaster'[w] = Tail(toMaster[w])

\* r solves the problem that is current.
Solves(r) == ~r.failed /\ current # Null /\ chunk[current] = r.problem

\* The answer r clears the current problem if it solves it, and not otherwise.
Judged(r) == IF Solves(r) THEN current' = Null /\ mpc' # "sigsegv" ELSE UNCHANGED current

\* Of those other than w, who gave the solution r, those are told to give up who work at
\* r's problem, and nobody who works at another.
Freed(w, r) ==
  \A v \in Workers \ {w} : \A p \in Problems : WorksAt(v, p) =>
    IF p = r.problem THEN "HUP" \in pending'[v] ELSE UNCHANGED pending[v]

\* "If so, then the problem in question is marked as solved" (polya.h:207): the answer that
\* solves the current problem clears it, whoever gives it, and no other answer does. The
\* master judges an answer by the pointer it keeps for the worker, which may be to memory
\* freed or used again since (problem.c:140-148), but never crashes on a right answer. With
\* a solution it cancels by the numbers in the table (master.c:301): they are those of the
\* problems that are with the workers, though some have answered since and some have not
\* read theirs.
AnswersCount ==
  [][\A w \in Workers : Taken(w) =>
       LET r == Head(toMaster[w]) IN
       Judged(r) /\ (r.failed \/ mpc' = "sigsegv" \/ Freed(w, r))]_vars

\* A worker that is told to give up has been, or still is, at work on the solved
\* problem: while the master serves, no worker dies of a signal.
NobodyKilled == Serving => \A w \in Workers : wpc[w] # "dead"

\* No signal gets lost in a way that leaves the master waiting for ever: all problems
\* are handed out though workers are canceled, answer late and are skipped while they run,
\* each is solved once, and only then the master returns (or it has crashed on the way).
AllSolved == Len(solved) = NProbs /\ \A k \in DOMAIN solved : solved[k][1] = k
MasterReturns == <>(mpc = "sigsegv" \/ (mpc = "done" /\ AllSolved))

\* "Each worker process is sent a SIGTERM signal, which they should handle by terminating"
\* (polya.h:299-301): once the master has returned, every worker ends, also one that was
\* still running or stopped itself again when it was continued and told to end.
WorkersEnd == mpc = "done" ~> \A w \in Workers : wpc[w] = "dead"
=============================================================================
