---------------------------- MODULE PolyaProofs -----------------------------
(***************************************************************************)
(* Proofs about Polya: the types of the variables and the accounts of the   *)
(* problems for every solver and any timing; and, where sleeps are long     *)
(* enough and results carry the number of their problem, the agreement of   *)
(* the master's table with the workers, and what becomes of an answer.      *)
(***************************************************************************)
EXTENDS Polya, TLAPS

-----------------------------------------------------------------------------
(* Type correctness.                                                       *)

\* What the types rest on: the master assigns only a problem that lies in memory, a worker
\* solves what it has read, and what is on its way to or from a worker was given to it.
Shape ==
  /\ mpc = "idle" => current # Null
  /\ current # Null => chunk[current] # Null
  /\ \A w \in Workers :
       /\ wpc[w] = "solve" => job[w] # Null
       /\ toWorker[w] # <<>> \/ wpc[w] = "solve" \/ toMaster[w] # <<>>
            => currently_solving[w] # Null

Typed == TypeOK /\ Shape

WorkerTypes ==
  /\ wpc \in [Workers -> {"unborn", "exec", "stop", "sleep", "read", "solve", "dead"}]
  /\ halted \in [Workers -> BOOLEAN]
  /\ event \in [Workers -> {"none", "stopped", "continued", "exited", "killed"}]
  /\ pending \in [Workers -> SUBSET {"HUP", "TERM"}]
  /\ cancel \in [Workers -> BOOLEAN]
  /\ job \in [Workers -> Problems \cup {Null}]
  /\ toWorker \in [Workers -> Seq(Problems)]
  /\ toMaster \in [Workers -> Seq(Results)]
  /\ sigchld \in BOOLEAN /\ inHandler \in BOOLEAN

MasterTypes ==
  /\ mpc \in {"fork", "enter", "wait", "suspend", "next", "idle", "continue", "stopped",
              "read", "close", "term", "done", "sigsegv", "sigpipe"}
  /\ i \in Workers
  /\ status \in [Workers -> {"none", "started", "idle", "continued", "running",
                             "stopped", "exited"}]
  /\ problem_id \in [Workers -> 0 .. NProbs]
  /\ currently_solving \in [Workers -> Problems \cup {Null}]
  /\ current \in Problems \cup {Null}
  /\ chunk \in [Problems -> Problems \cup {Null}]
  /\ problems_remaining \in 0 .. NProbs
  /\ solved \in Seq(Problems \X Problems)

\* The two halves of TypeOK.
LEMMA Halves == TypeOK <=> WorkerTypes /\ MasterTypes
  BY DEF TypeOK, WorkerTypes, MasterTypes

\* Signals are added to those a worker has pending.
LEMMA KillTyped ==
  ASSUME pending \in [Workers -> SUBSET {"HUP", "TERM"}], NEW targets,
         NEW sig \in {"HUP", "TERM"}, Kill(targets, sig)
  PROVE  pending' \in [Workers -> SUBSET {"HUP", "TERM"}]
<1>1. \A w \in Workers : (IF w \in targets /\ wpc[w] # "dead" THEN pending[w] \cup {sig}
                          ELSE pending[w]) \in SUBSET {"HUP", "TERM"}
  OBVIOUS
<1> QED
  BY <1>1 DEF Kill

\* A worker's own step keeps the types: it touches nothing of the master's.
LEMMA WorkerTyped ==
  ASSUME Typed, NEW w \in Workers, Worker(w)
  PROVE  Typed'
<1> USE DEF Null
<1>1. /\ WorkerTypes /\ MasterTypes /\ Shape
  BY Halves DEF Typed
<1>2. MasterTypes' /\ UNCHANGED master
  BY <1>1 DEF MasterTypes, Worker, Ready, Stops, Wakes, Reads, ReadsNothing, Answers, AnswersNobody,
     Hup, Term, master, table, probs
<1>3. WorkerTypes' /\ Shape'
  <2>1. CASE Ready(w) \/ Stops(w) \/ Wakes(w)
    BY <1>1, <2>1 DEF WorkerTypes, Shape, Ready, Stops, Wakes, Runs, Goes, master, table, probs,
       pipes, signal
  <2>2. CASE Reads(w)
    <3>1. toWorker[w] \in Seq(Problems) /\ toWorker[w] # <<>>
      BY <1>1, <2>2 DEF WorkerTypes, Reads
    <3>2. Head(toWorker[w]) \in Problems /\ Tail(toWorker[w]) \in Seq(Problems)
      BY <3>1
    <3> QED
      BY <1>1, <2>2, <3>2 DEF WorkerTypes, Shape, Reads, Runs, Goes, master, table, probs, signal,
         Problems
  <2>3. CASE Answers(w)
    <3> DEFINE r == Answer(w)
    <3>1. job[w] \in Problems
      BY <1>1, <2>3 DEF WorkerTypes, Shape, Answers, Runs
    <3>2. r \in Results
      <4>1. (IF Fails(w) \/ Kind = "miner" THEN job[w] ELSE 0) \in 0 .. NProbs
        BY <3>1, SizesAssumption DEF Problems
      <4>2. Fails(w) \in BOOLEAN
        BY <1>1 DEF WorkerTypes, Fails
      <4> QED
        BY <3>1, <4>1, <4>2 DEF Results, Answer
    <3>3. toMaster' = [toMaster EXCEPT ![w] = Append(@, r)]
      BY <2>3 DEF Answers
    <3> HIDE DEF r
    <3>4. toMaster' \in [Workers -> Seq(Results)]
      BY <1>1, <3>2, <3>3 DEF WorkerTypes
    <3>5. WorkerTypes'
      BY <1>1, <2>3, <3>4 DEF WorkerTypes, Answers, Goes, signal
    <3>6. \A v \in Workers : /\ wpc'[v] = "solve" => wpc[v] = "solve" /\ job'[v] = job[v]
                             /\ v # w => toMaster'[v] = toMaster[v]
      BY <1>1, <2>3, <3>3 DEF WorkerTypes, Answers, Goes
    <3>7. Shape'
      BY <1>1, <1>2, <2>3, <3>6 DEF Shape, Answers, Runs, master, table, probs
    <3> QED
      BY <3>5, <3>7
  <2>4. ASSUME NEW how \in {"exited", "killed"}, Dies(w, how), UNCHANGED master
        PROVE  WorkerTypes' /\ Shape'
    BY <1>1, <2>4 DEF WorkerTypes, Shape, Dies, master, table, probs, pipes
  <2>5. CASE ReadsNothing(w) \/ AnswersNobody(w) \/ Term(w)
    BY <2>4, <2>5 DEF ReadsNothing, AnswersNobody, Term
  <2>6. CASE Hup(w)
    <3>1. CASE Dies(w, "killed")
      BY <1>2, <2>4, <3>1
    <3>2. ASSUME cancel' = [cancel EXCEPT ![w] = TRUE],
                 pending' = [pending EXCEPT ![w] = @ \ {"HUP"}],
                 UNCHANGED <<wpc, halted, event, job, pipes, signal>>
          PROVE  WorkerTypes' /\ Shape'
      <4>1. WorkerTypes'
        BY <1>1, <3>2 DEF WorkerTypes, pipes, signal
      <4> QED
        BY <1>1, <1>2, <3>2, <4>1 DEF Shape, master, table, probs, pipes
    <3> QED
      BY <2>6, <3>1, <3>2 DEF Hup
  <2> QED
    BY <2>1, <2>2, <2>3, <2>5, <2>6 DEF Worker
<1>4. MasterTypes'
  BY <1>2, <1>3
<1>5. TypeOK'
  BY <1>3, <1>4 DEF TypeOK, WorkerTypes, MasterTypes
<1> QED
  BY <1>3, <1>5 DEF Typed

\* So do the kernel's part of the handler and its rounds.
LEMMA HandlerTyped ==
  ASSUME Typed, Handler
  PROVE  Typed'
<1>1. CASE HandlerEnters
  BY <1>1 DEF Typed, TypeOK, Shape, HandlerEnters, worker, pipes, master, table, probs
<1>0. CASE HandlerReturns
  <2>1. mpc' \in {mpc, "next"} /\ inHandler' = FALSE
        /\ UNCHANGED <<worker, pipes, sigchld, i, table, probs>>
    BY <1>0 DEF HandlerReturns
  <2>2. TypeOK'
    BY <2>1 DEF Typed, TypeOK, worker, pipes, table, probs
  <2>3. Shape'
    BY <1>0 DEF Typed, Shape, HandlerReturns, worker, pipes, table, probs
  <2> QED
    BY <2>2, <2>3 DEF Typed
<1>2. ASSUME NEW w \in Workers, Reap(w) PROVE Typed'
  <2>1. StatusAfter(status[w], event[w]) \in {"none", "started", "idle", "continued", "running",
                                              "stopped", "exited"}
    BY DEF Typed, TypeOK, StatusAfter
  <2>2. event' \in [Workers -> {"none", "stopped", "continued", "exited", "killed"}]
    BY <1>2 DEF Typed, TypeOK, Reap
  <2>3. status' \in [Workers -> {"none", "started", "idle", "continued", "running",
                                "stopped", "exited"}]
    BY <1>2, <2>1 DEF Typed, TypeOK, Reap
  <2>4. mpc' \in {mpc, "sigsegv"}
    BY <1>2 DEF Reap
  <2>5. UNCHANGED <<wpc, halted, pending, cancel, job, pipes, signal, i, problem_id,
                    currently_solving, probs>>
    BY <1>2 DEF Reap
  <2> QED
    BY <2>2, <2>3, <2>4, <2>5 DEF Typed, TypeOK, Shape, pipes, signal, probs
<1> QED
  BY <1>0, <1>1, <1>2 DEF Handler

\* What the main program does to the units' side of the state, it does type-correctly.
LEMMA MainTyped ==
  ASSUME Typed, Main
  PROVE  Typed'
<1> USE SizesAssumption DEF Null
<1>1. /\ WorkerTypes /\ MasterTypes /\ Shape
  BY Halves DEF Typed
<1>2. i \in 0 .. N - 1 /\ (i + 1) % N \in Workers /\ 0 \in Workers
      /\ (i + 1 < N => i + 1 \in Workers)
  BY <1>1 DEF MasterTypes, Workers
<1>3. CASE Fork
  BY <1>1, <1>2, <1>3 DEF Typed, TypeOK, WorkerTypes, MasterTypes, Shape, Fork, At, Goes, pipes,
     signal, table, probs
<1>4. CASE Enter
  <2>1. i' \in Workers /\ mpc' \in {"fork", "wait"}
    BY <1>2, <1>4 DEF Enter
  <2> QED
    BY <1>1, <1>2, <1>4, <2>1 DEF Typed, TypeOK, WorkerTypes, MasterTypes, Shape, Enter, worker,
       pipes, signal, probs
<1>12. CASE Suspend
  BY <1>1, <1>12 DEF Typed, TypeOK, WorkerTypes, MasterTypes, Shape, Suspend, worker, pipes, signal,
     table, probs
<1>5. CASE NextProblem
  <2>1. CASE current = Null /\ problems_remaining > 0
    <3> DEFINE p == NProbs - problems_remaining + 1
    <3>1. p \in Problems /\ problems_remaining - 1 \in 0 .. NProbs
      BY <1>1, <2>1 DEF MasterTypes, Problems
    <3>2. PICK c \in {c \in 1 .. p : chunk[c] = Null} :
                 current' = c /\ chunk' = [chunk EXCEPT ![c] = p]
      BY <1>5, <2>1 DEF NextProblem
    <3> HIDE DEF p
    <3>3. c \in Problems
      BY <3>1, <3>2 DEF Problems
    <3>4. /\ current' \in Problems
          /\ chunk' \in [Problems -> Problems \cup {Null}]
          /\ chunk'[current'] # Null
      BY <1>1, <3>1, <3>2, <3>3 DEF MasterTypes, Problems
    <3>5. problems_remaining' \in 0 .. NProbs /\ mpc' = "idle" /\ UNCHANGED <<i, solved>>
      BY <1>5, <2>1, <3>1 DEF NextProblem
    <3>6. UNCHANGED <<worker, pipes, signal, table>>
      BY <1>5 DEF NextProblem
    <3>7. Shape'
      BY <1>1, <3>4, <3>5, <3>6 DEF Shape, Problems, worker, pipes, table
    <3> QED
      BY <1>1, <3>4, <3>5, <3>6, <3>7 DEF Typed, TypeOK, WorkerTypes, MasterTypes, worker, pipes,
         signal, table
  <2>2. CASE ~(current = Null /\ problems_remaining > 0)
    BY <1>1, <1>2, <1>5, <2>2 DEF Typed, TypeOK, WorkerTypes, MasterTypes, Shape, NextProblem, worker,
       pipes, signal, table, probs
  <2> QED
    BY <2>1, <2>2
<1>6. CASE Assign
  <2>1. CASE status[i] = "idle" /\ wpc[i] # "dead"
    <3>1. current \in Problems /\ chunk[current] \in Problems
      BY <1>1, <1>6 DEF Assign, At, Shape, MasterTypes
    <3>2. chunk[current] \in 0 .. NProbs
      BY <3>1 DEF Problems
    <3>3. toWorker' = [toWorker EXCEPT ![i] = Append(@, chunk[current])]
          /\ toWorker' \in [Workers -> Seq(Problems)]
      <4>1. toWorker' = [toWorker EXCEPT ![i] = Append(@, chunk[current])]
        BY <1>6, <2>1 DEF Assign
      <4>2. toWorker \in [Workers -> Seq(Problems)] /\ i \in Workers
        BY <1>1 DEF WorkerTypes, MasterTypes
      <4> HIDE <1>1
      <4> QED
        BY <3>1, <4>1, <4>2
    <3>4. /\ problem_id' \in [Workers -> 0 .. NProbs]
          /\ currently_solving' = [currently_solving EXCEPT ![i] = current]
          /\ currently_solving' \in [Workers -> Problems \cup {Null}]
          /\ status' \in [Workers -> {"none", "started", "idle", "continued", "running",
                                       "stopped", "exited"}]
          /\ mpc' = "continue"
      <4>1. /\ problem_id' = [problem_id EXCEPT ![i] = chunk[current]]
            /\ currently_solving' = [currently_solving EXCEPT ![i] = current]
            /\ status' = [status EXCEPT ![i] = "continued"] /\ mpc' = "continue"
        BY <1>6, <2>1 DEF Assign, Keep
      <4>2. /\ problem_id \in [Workers -> 0 .. NProbs] /\ i \in Workers
            /\ currently_solving \in [Workers -> Problems \cup {Null}]
            /\ status \in [Workers -> {"none", "started", "idle", "continued", "running",
                                         "stopped", "exited"}]
        BY <1>1 DEF WorkerTypes, MasterTypes
      <4> HIDE <1>1
      <4>3. problem_id' \in [Workers -> 0 .. NProbs]
        BY <3>2, <4>1, <4>2
      <4>4. currently_solving' \in [Workers -> Problems \cup {Null}]
        BY <3>1, <4>1, <4>2
      <4> QED BY <4>1, <4>2, <4>3, <4>4
    <3>5. Shape'
      <4>1. UNCHANGED <<worker, toMaster, probs>>
        BY <1>6 DEF Assign
      <4>2. current # Null
        BY <3>1 DEF Problems
      <4>3. \A w \in Workers : /\ currently_solving'[w] = IF w = i THEN current ELSE currently_solving[w]
                               /\ w # i => toWorker'[w] = toWorker[w]
        BY <1>1, <3>3, <3>4 DEF WorkerTypes, MasterTypes
      <4> QED
        BY <1>1, <3>4, <4>1, <4>2, <4>3 DEF Shape, worker, probs
    <3> QED
      BY <1>1, <1>6, <3>3, <3>4, <3>5 DEF Typed, TypeOK, WorkerTypes, MasterTypes, Assign, worker,
         signal, probs
  <2>2. CASE ~(status[i] = "idle" /\ wpc[i] # "dead")
    BY <1>1, <1>6, <2>2 DEF Typed, TypeOK, WorkerTypes, MasterTypes, Shape, Assign, worker, signal,
       table, probs
  <2> QED
    BY <2>1, <2>2
<1>7. CASE Continue
  BY <1>1, <1>2, <1>7 DEF Typed, TypeOK, WorkerTypes, MasterTypes, Shape, Continue, KillCont, pipes,
     table, probs
<1>8. CASE CheckStopped
  BY <1>1, <1>2, <1>8 DEF Typed, TypeOK, WorkerTypes, MasterTypes, Shape, CheckStopped, worker, pipes,
     signal, table, probs
<1>9. CASE Close
  <2>1. i' \in Workers /\ mpc' \in {"close", "term"}
    BY <1>1, <1>2, <1>9 DEF Close, At
  <2> QED
    BY <1>1, <1>2, <1>9, <2>1 DEF Typed, TypeOK, WorkerTypes, MasterTypes, Shape, Close, KillCont,
       pipes, table, probs
<1>10. CASE Terminate
  <2>1. pending' \in [Workers -> SUBSET {"HUP", "TERM"}]
    BY <1>1, <1>10, KillTyped DEF Terminate, WorkerTypes
  <2>2. halted' \in [Workers -> BOOLEAN] /\ i' \in Workers /\ mpc' \in {"term", "done"}
    BY <1>1, <1>2, <1>10 DEF Terminate, WorkerTypes, At
  <2> QED
    BY <1>1, <1>10, <2>1, <2>2 DEF Typed, TypeOK, WorkerTypes, MasterTypes, Shape, Terminate, pipes,
       signal, table, probs
<1>11. CASE ReadResult
  <2> DEFINE r == Head(toMaster[i])
             c == currently_solving[i]
  <2>1. /\ toMaster[i] # <<>> /\ toMaster' = [toMaster EXCEPT ![i] = Tail(@)]
        /\ status' = [status EXCEPT ![i] = "idle"] /\ i' = (i + 1) % N
        /\ UNCHANGED <<wpc, halted, event, cancel, job, toWorker, signal, problem_id,
                       currently_solving, problems_remaining>>
    BY <1>11 DEF ReadResult
  <2>2. r \in Results /\ Tail(toMaster[i]) \in Seq(Results) /\ c \in Problems
    <3>1. toMaster[i] \in Seq(Results)
      BY <1>1 DEF WorkerTypes, MasterTypes
    <3>2. c # Null /\ c \in Problems \cup {Null}
      BY <1>1, <2>1 DEF Shape, MasterTypes
    <3> QED
      BY <2>1, <3>1, <3>2
  <2>3. r.problem \in Problems
    BY <2>2 DEF Results
  <2>4. \/ mpc' = "next" /\ UNCHANGED <<pending, current, chunk, solved>>
        \/ Post(r.problem, c) /\ (UNCHANGED pending \/ Kill(Canceled(r.id), "HUP"))
    BY <1>11 DEF ReadResult
  <2> HIDE DEF r, c
  <2>5. pending' \in [Workers -> SUBSET {"HUP", "TERM"}]
    BY <1>1, <2>4, KillTyped DEF WorkerTypes
  <2>6. mpc' \in {"next", "sigsegv"}
    BY <2>4 DEF Post
  <2>7. CASE UNCHANGED <<current, chunk, solved>>
    <3>1. Shape'
      <4>1. \A w \in Workers : toMaster'[w] # <<>> => toMaster[w] # <<>>
        BY <1>1, <2>1 DEF WorkerTypes
      <4> QED
        BY <1>1, <2>1, <2>6, <2>7, <4>1 DEF Shape
    <3>2. toMaster' \in [Workers -> Seq(Results)]
      BY <1>1, <2>1, <2>2 DEF WorkerTypes
    <3> QED
      BY <1>1, <1>2, <2>1, <2>5, <2>6, <2>7, <3>1, <3>2 DEF Typed, TypeOK, WorkerTypes, MasterTypes,
         signal
  <2>8. CASE /\ Fits(r.problem, c) /\ current = c
             /\ solved' = Append(solved, <<chunk[c], r.problem>>)
             /\ current' = Null /\ chunk' = [chunk EXCEPT ![c] = Null]
    <3>1. chunk[c] \in Problems
      BY <1>1, <2>2, <2>8 DEF MasterTypes, Fits
    <3>2. solved' \in Seq(Problems \X Problems)
      BY <1>1, <2>3, <2>8, <3>1 DEF MasterTypes
    <3>3. chunk' \in [Problems -> Problems \cup {Null}] /\ current' = Null
      BY <1>1, <2>8 DEF MasterTypes
    <3>4. Shape'
      <4>1. \A w \in Workers : toMaster'[w] # <<>> => toMaster[w] # <<>>
        BY <1>1, <2>1 DEF WorkerTypes
      <4> QED
        BY <1>1, <2>1, <2>6, <3>3, <4>1 DEF Shape
    <3>5. toMaster' \in [Workers -> Seq(Results)]
      BY <1>1, <2>1, <2>2 DEF WorkerTypes
    <3> QED
      BY <1>1, <1>2, <2>1, <2>5, <2>6, <3>2, <3>3, <3>4, <3>5 DEF Typed, TypeOK, WorkerTypes,
         MasterTypes, signal
  <2> QED
    BY <2>4, <2>7, <2>8 DEF Post
<1> QED
  BY <1>3, <1>4, <1>5, <1>6, <1>7, <1>8, <1>9, <1>10, <1>11, <1>12 DEF Main

\* The types hold initially.
LEMMA InitTyped == Init => Typed
<1> SUFFICES ASSUME Init PROVE Typed
  OBVIOUS
<1> USE SizesAssumption
<1>1. WorkerTypes
  <2>1. toWorker \in [Workers -> Seq(Problems)] /\ toMaster \in [Workers -> Seq(Results)]
    BY DEF Init
  <2>2. pending \in [Workers -> SUBSET {"HUP", "TERM"}]
    BY DEF Init
  <2>3. job \in [Workers -> Problems \cup {Null}]
    BY DEF Init
  <2> QED
    BY <2>1, <2>2, <2>3 DEF Init, WorkerTypes
<1>2. MasterTypes
  BY DEF Init, MasterTypes, Workers, Problems, Null
<1>3. Shape
  BY DEF Init, Shape
<1> QED
  BY <1>1, <1>2, <1>3, Halves DEF Typed

\* Every step keeps them.
LEMMA TypedStep ==
  ASSUME Typed, [Next]_vars
  PROVE  Typed'
<1>1. CASE UNCHANGED vars
  BY <1>1 DEF Typed, TypeOK, Shape, vars, worker, pipes, signal, table, probs
<1> QED
  BY <1>1, WorkerTyped, HandlerTyped, MainTyped DEF Next, Rest

\* The variables keep their types for every solver, any number of workers and problems and any
\* timing: the master never writes a problem that has been freed (master.c:213-249), and the
\* pointer it posts a result with is one it has stored (master.c:293).
THEOREM TypedInductive == Spec => []Typed
  BY InitTyped, TypedStep, PTL DEF Spec

\* TypeOK of polya_miner, for every value of the constants.
THEOREM TypeCorrect == Spec => []TypeOK
  BY TypedInductive, PTL DEF Typed

-----------------------------------------------------------------------------
(* The accounts of the problems.                                           *)

\* Every problem that was made is solved or is the current one; they are solved in their
\* order, each once; and the master winds up only when there is none left.
Accounts ==
  /\ Len(solved) = NProbs - problems_remaining - (IF current = Null THEN 0 ELSE 1)
  /\ current # Null => chunk[current] = NProbs - problems_remaining
  /\ \A k \in 1 .. Len(solved) : solved[k][1] = k
  /\ mpc \in {"close", "term", "done"} => current = Null /\ problems_remaining = 0

\* A result is posted as a solution of the current problem, or changes no account.
LEMMA PostAccounted ==
  ASSUME Typed, Accounts, NEW p \in Problems, NEW c \in Problems, Post(p, c),
         UNCHANGED problems_remaining
  PROVE  Accounts'
<1> USE DEF Null
<1>1. mpc' \in {"next", "sigsegv"}
  BY DEF Post
<1>2. CASE UNCHANGED <<current, chunk, solved>>
  BY <1>1, <1>2 DEF Accounts
<1>3. CASE /\ Fits(p, c) /\ current = c
           /\ solved' = Append(solved, <<chunk[c], p>>)
           /\ current' = Null /\ chunk' = [chunk EXCEPT ![c] = Null]
  <2>1. /\ solved \in Seq(Problems \X Problems) /\ problems_remaining \in 0 .. NProbs
        /\ current # Null /\ chunk[c] = NProbs - problems_remaining
    BY <1>3 DEF Typed, TypeOK, Accounts, Problems
  <2>2. Len(solved) + 1 = NProbs - problems_remaining
    BY <2>1, SizesAssumption DEF Accounts
  <2>3. Len(solved') = NProbs - problems_remaining
    BY <1>3, <2>1, <2>2
  <2>4. ASSUME NEW k \in 1 .. Len(solved') PROVE solved'[k][1] = k
    <3>1. CASE k = Len(solved) + 1
      <4>1. solved'[k] = <<chunk[c], p>>
        BY <1>3, <2>1, <3>1
      <4> QED
        BY <2>1, <2>2, <3>1, <4>1
    <3>2. CASE k # Len(solved) + 1
      <4>1. k \in 1 .. Len(solved)
        BY <2>1, <2>2, <2>3, <3>2
      <4>2. solved'[k] = solved[k]
        BY <1>3, <2>1, <4>1
      <4> QED
        BY <4>1, <4>2 DEF Accounts
    <3> QED
      BY <3>1, <3>2
  <2>5. Len(solved') = NProbs - problems_remaining' - (IF current' = Null THEN 0 ELSE 1)
    BY <1>3, <2>1, <2>3, SizesAssumption
  <2>6. current' = Null /\ mpc' \notin {"close", "term", "done"}
    BY <1>1, <1>3
  <2> QED
    BY <2>4, <2>5, <2>6 DEF Accounts
<1> QED
  BY <1>2, <1>3 DEF Post

\* Every step keeps the accounts.
LEMMA AccountsStep ==
  ASSUME Typed, Accounts, [Next]_vars
  PROVE  Accounts'
<1> USE DEF Null
<1>1. ASSUME UNCHANGED probs, mpc' \in {"close", "term", "done"} => mpc \in {"close", "term", "done"}
      PROVE  Accounts'
  BY <1>1 DEF Accounts, probs
<1>2. CASE NextProblem
  <2>1. CASE current = Null /\ problems_remaining > 0
    <3> DEFINE p == NProbs - problems_remaining + 1
    <3>1. PICK c \in {c \in 1 .. p : chunk[c] = Null} :
                 current' = c /\ chunk' = [chunk EXCEPT ![c] = p]
      BY <1>2, <2>1 DEF NextProblem
    <3>2. problems_remaining \in 1 .. NProbs
      BY <2>1 DEF Typed, TypeOK
    <3>3. c \in Problems /\ current' # Null
      BY <3>1, <3>2, SizesAssumption DEF Problems
    <3>4. chunk'[current'] = p
      BY <3>1, <3>3 DEF Typed, TypeOK
    <3>5. problems_remaining' = problems_remaining - 1 /\ mpc' = "idle" /\ UNCHANGED solved
      BY <1>2, <2>1 DEF NextProblem
    <3> QED
      BY <2>1, <3>2, <3>3, <3>4, <3>5, SizesAssumption DEF Accounts
  <2>2. CASE ~(current = Null /\ problems_remaining > 0)
    BY <1>2, <2>2 DEF NextProblem, Accounts, probs, Typed, TypeOK
  <2> QED
    BY <2>1, <2>2
<1>3. CASE ReadResult
  <2>1. CASE mpc' = "next" /\ UNCHANGED <<current, chunk, solved, problems_remaining>>
    BY <1>1, <2>1 DEF probs
  <2>2. CASE Post(Head(toMaster[i]).problem, currently_solving[i])
    <3>1. toMaster[i] \in Seq(Results) /\ toMaster[i] # <<>>
      BY <1>3 DEF Typed, TypeOK, ReadResult
    <3>2. Head(toMaster[i]) \in Results
      BY <3>1
    <3>3. Head(toMaster[i]).problem \in Problems
      BY <3>2 DEF Results
    <3>4. currently_solving[i] \in Problems
      BY <3>1 DEF Typed, TypeOK, Shape
    <3> QED
      BY <1>3, <2>2, <3>3, <3>4, PostAccounted DEF ReadResult
  <2> QED
    BY <1>3, <2>1, <2>2 DEF ReadResult
<1>4. ASSUME NEW w \in Workers, Worker(w) PROVE UNCHANGED probs /\ UNCHANGED mpc
  BY <1>4 DEF Worker, Ready, Stops, Wakes, Reads, ReadsNothing, Answers, AnswersNobody, Hup, Term,
     master
<1>5. ASSUME Handler PROVE UNCHANGED probs /\ mpc' \in {mpc, "next", "sigsegv"}
  BY <1>5 DEF Handler, HandlerEnters, HandlerReturns, Reap, master
<1>6. CASE Fork \/ Enter \/ Suspend \/ Assign \/ Continue \/ CheckStopped \/ Close \/ Terminate
  BY <1>1, <1>6 DEF Fork, Enter, Suspend, Assign, Continue, CheckStopped, Close, Terminate, At
<1>7. CASE UNCHANGED vars
  BY <1>1, <1>7 DEF vars
<1> QED
  BY <1>1, <1>2, <1>3, <1>4, <1>5, <1>6, <1>7 DEF Next, Main, Rest

\* Before anything is made the accounts are right.
LEMMA InitAccounts == Init => Accounts
  BY SizesAssumption DEF Init, Accounts, Null

\* No problem is lost, made twice or counted twice, whatever the solvers answer, however late,
\* and wherever in memory the problems lie (problem.c:70-155).
THEOREM AccountsInductive == Spec => []Accounts
<1>1. Typed /\ Accounts /\ [Next]_vars => Typed' /\ Accounts'
  BY TypedStep, AccountsStep
<1> QED
  BY <1>1, InitTyped, InitAccounts, PTL DEF Spec

\* What AllSolved says of the end holds from the moment the master stops serving
\* (master.c:213-217): that all problems are solved.  (That it gets there is MasterReturns.)
THEOREM SolvedInTheEnd == Spec => [](mpc \in {"close", "term", "done"} => AllSolved)
<1>1. Typed /\ Accounts => (mpc \in {"close", "term", "done"} => AllSolved)
  <2> SUFFICES ASSUME Typed, Accounts, mpc \in {"close", "term", "done"} PROVE AllSolved
    OBVIOUS
  <2>1. solved \in Seq(Problems \X Problems) /\ NProbs \in Nat
    BY SizesAssumption DEF Typed, TypeOK
  <2>2. Len(solved) = NProbs /\ DOMAIN solved = 1 .. Len(solved)
    BY <2>1 DEF Accounts
  <2> QED
    BY <2>2 DEF Accounts, AllSolved
<1> QED
  BY <1>1, TypedInductive, AccountsInductive, PTL

-----------------------------------------------------------------------------
(* The table of the workers.                                               *)

\* Where a worker is, what waitpid has to report of it and what lies in its pipes, for each
\* status it has in the table.
Is(w, stat, at, stopped, news, given, back) ==
  /\ status[w] = stat /\ wpc[w] \in at /\ halted[w] = stopped /\ event[w] = news
  /\ Len(toWorker[w]) = given /\ Len(toMaster[w]) = back

Unborn(w)   == Is(w, "none", {"unborn"}, FALSE, "none", 0, 0)
Born(w)     == Is(w, "none", {"exec", "stop"}, FALSE, "none", 0, 0)
Starting(w) == Is(w, "started", {"exec", "stop"}, FALSE, "none", 0, 0)
Idle(w)     == Is(w, "idle", {"sleep"}, TRUE, "none", 0, 0)
Given(w)    == Is(w, "continued", {"sleep"}, TRUE, "none", 1, 0)
Working(w)  == \/ Is(w, "running", {"sleep", "read"}, FALSE, "none", 1, 0)
               \/ Is(w, "running", {"solve"}, FALSE, "none", 0, 0)
               \/ Is(w, "running", {"stop"}, FALSE, "none", 0, 1)
Ended(w)    == Is(w, "stopped", {"sleep"}, TRUE, "none", 0, 1)

\* The table is behind by one report.
Reported(w) == \/ Is(w, "started", {"sleep"}, TRUE, "stopped", 0, 0)
               \/ Is(w, "continued", {"sleep"}, FALSE, "continued", 1, 0)
               \/ Is(w, "running", {"sleep"}, TRUE, "stopped", 0, 1)

Situation(w) == Starting(w) \/ Idle(w) \/ Given(w) \/ Working(w) \/ Ended(w) \/ Reported(w)

Forking == mpc \in {"fork", "enter", "wait"}
InTable == mpc \in {"suspend", "next", "idle", "continue", "stopped", "read"}

\* What is so of worker w while the master is at mpc.
Placed(w) ==
  /\ Forking => IF mpc = "wait" \/ w < i THEN Starting(w)
                ELSE IF w = i /\ mpc = "enter" THEN Born(w) ELSE Unborn(w)
  /\ InTable => Situation(w) /\ (Given(w) <=> mpc = "continue" /\ w = i)
  /\ mpc = "read" /\ w = i => Ended(w)

\* A worker that has not been given a problem is not told to give up.
Spared(w) ==
  Forking \/ InTable =>
    /\ pending[w] \subseteq {"HUP"}
    /\ status[w] \in {"none", "started"} => problem_id[w] = 0 /\ pending[w] = {}

\* A result carries the number of its problem.
Numbered == \A w \in Workers : \A k \in 1 .. Len(toMaster[w]) : toMaster[w][k].id # 0

Table ==
  /\ \A w \in Workers : Placed(w) /\ Spared(w)
  /\ mpc = "read" => ~inHandler
  /\ mpc # "sigpipe"
  /\ Numbered

\* Nothing that places v changes.
SameWorker(v) ==
  /\ status'[v] = status[v] /\ wpc'[v] = wpc[v] /\ halted'[v] = halted[v] /\ event'[v] = event[v]
  /\ toWorker'[v] = toWorker[v] /\ toMaster'[v] = toMaster[v]

\* What does not touch a worker leaves its situation as it is.
LEMMA SameSituation ==
  ASSUME NEW v \in Workers, SameWorker(v)
  PROVE  /\ Unborn(v)' <=> Unborn(v)
         /\ Born(v)' <=> Born(v)
         /\ Starting(v)' <=> Starting(v)
         /\ Given(v)' <=> Given(v)
         /\ Ended(v)' <=> Ended(v)
         /\ Situation(v)' <=> Situation(v)
  BY DEF SameWorker, Unborn, Born, Starting, Idle, Given, Working, Ended, Reported, Situation, Is

\* A step of one worker, or about it, while the master stays where it is.
LEMMA OneMoves ==
  ASSUME Table, NEW w \in Workers, UNCHANGED <<mpc, i>>, mpc = "read" => ~inHandler',
         Numbered', Placed(w)', Spared(w)',
         \A v \in Workers \ {w} : SameWorker(v) /\ pending'[v] = pending[v] /\ problem_id'[v] = problem_id[v]
  PROVE  Table'
<1>1. ASSUME NEW v \in Workers \ {w} PROVE Placed(v)' /\ Spared(v)'
  <2>1. Placed(v) /\ Spared(v) /\ SameWorker(v)
    BY DEF Table
  <2>2. Placed(v)'
    BY <2>1, SameSituation DEF Placed, Forking, InTable
  <2>3. Spared(v)'
    BY <2>1, <1>1 DEF Spared, Forking, InTable, SameWorker
  <2> QED
    BY <2>2, <2>3
<1> QED
  BY <1>1 DEF Table

\* A step of the master that leaves every worker where it is.
LEMMA NobodyMoves ==
  ASSUME Table, Numbered', mpc' = "read" => ~inHandler', mpc' # "sigpipe",
         \A v \in Workers : /\ SameWorker(v)
                            /\ pending'[v] = pending[v] /\ problem_id'[v] = problem_id[v],
         InTable, InTable', mpc # "continue", mpc' # "continue", mpc' = "read" => Ended(i')
  PROVE  Table'
<1>1. ASSUME NEW v \in Workers PROVE Placed(v)' /\ Spared(v)'
  <2>1. Placed(v) /\ Spared(v) /\ SameWorker(v)
    BY DEF Table
  <2>2. Placed(v)'
    <3>1. Situation(v)' /\ ~Given(v)' /\ (Ended(v)' <=> Ended(v))
      BY <2>1, SameSituation DEF Placed
    <3> QED
      BY <3>1 DEF Placed, Forking, InTable
  <2>3. Spared(v)'
    BY <2>1, <1>1 DEF Spared, SameWorker
  <2> QED
    BY <2>2, <2>3
<1> QED
  BY <1>1 DEF Table

\* When the master has stopped serving nothing is left to show.
LEMMA ServedOut ==
  ASSUME Numbered', mpc' \in {"close", "term", "done", "sigsegv"}
  PROVE  Table'
  BY DEF Table, Placed, Spared, Forking, InTable

\* Results stay numbered while nobody answers.
LEMMA StillNumbered ==
  ASSUME Typed, Numbered, \A w \in Workers : \/ toMaster'[w] = toMaster[w]
                                             \/ toMaster'[w] = Tail(toMaster[w]) /\ toMaster[w] # <<>>
  PROVE  Numbered'
<1>1. ASSUME NEW w \in Workers, NEW k \in 1 .. Len(toMaster'[w]) PROVE toMaster'[w][k].id # 0
  <2>1. toMaster[w] \in Seq(Results)
    BY DEF Typed, TypeOK
  <2>2. CASE toMaster'[w] = toMaster[w]
    BY <2>2 DEF Numbered
  <2>3. CASE toMaster'[w] = Tail(toMaster[w]) /\ toMaster[w] # <<>>
    <3>1. /\ k + 1 \in 1 .. Len(toMaster[w])
          /\ toMaster'[w][k] = toMaster[w][k + 1]
      BY <2>1, <2>3
    <3> QED
      BY <3>1 DEF Numbered
  <2> QED
    BY <2>2, <2>3
<1> QED
  BY <1>1 DEF Numbered

\* A worker's own step takes it from one situation to the next.
LEMMA WorkerKeepsTable ==
  ASSUME Kind = "miner", RealTime, Typed, Table, NEW w \in Workers, Worker(w)
  PROVE  Table'
<1>1. /\ UNCHANGED <<mpc, i, status, problem_id>>
      /\ inHandler' = inHandler
  BY DEF Worker, Ready, Stops, Wakes, Reads, ReadsNothing, Answers, AnswersNobody, Hup, Term, Dies,
     master, table, signal
<1>2. /\ Placed(w) /\ Spared(w) /\ Numbered /\ (mpc = "read" => ~inHandler')
  BY <1>1 DEF Table
<1>3. /\ wpc \in [Workers -> {"unborn", "exec", "stop", "sleep", "read", "solve", "dead"}]
      /\ halted \in [Workers -> BOOLEAN] /\ pending \in [Workers -> SUBSET {"HUP", "TERM"}]
      /\ event \in [Workers -> {"none", "stopped", "continued", "exited", "killed"}]
      /\ toWorker \in [Workers -> Seq(Problems)] /\ toMaster \in [Workers -> Seq(Results)]
  BY DEF Typed, TypeOK
<1>4. ASSUME toMaster' = toMaster, Placed(w)', Spared(w)',
             \A v \in Workers \ {w} : /\ wpc'[v] = wpc[v] /\ halted'[v] = halted[v]
                                      /\ event'[v] = event[v] /\ toWorker'[v] = toWorker[v]
                                      /\ pending'[v] = pending[v]
      PROVE  Table'
  <2>1. Numbered'
    BY <1>2, <1>4, StillNumbered
  <2>2. \A v \in Workers \ {w} : SameWorker(v) /\ pending'[v] = pending[v] /\ problem_id'[v] = problem_id[v]
    BY <1>1, <1>4 DEF SameWorker
  <2> QED
    BY <1>1, <1>2, <1>4, <2>1, <2>2, OneMoves
<1>5. ASSUME UNCHANGED <<halted, event, pending, toWorker, toMaster>>, NEW at, Goes(w, at), Placed(w)'
      PROVE  Table'
  <2>1. Spared(w)'
    BY <1>1, <1>2, <1>5 DEF Spared, Forking, InTable
  <2> QED
    BY <1>4, <1>3, <1>5, <2>1 DEF Goes
<1>6. CASE Ready(w)
  <2>1. /\ wpc[w] = "exec" /\ wpc'[w] = "stop" /\ Goes(w, "stop")
        /\ UNCHANGED <<halted, event, pending, toWorker, toMaster>>
    BY <1>3, <1>6 DEF Ready, Runs, Goes, pipes
  <2>2. Placed(w)'
    BY <1>1, <1>2, <2>1 DEF Placed, Forking, InTable, Situation, Unborn, Born, Starting, Idle, Given,
       Working, Ended, Reported, Is
  <2> QED
    BY <1>5, <2>1, <2>2
<1>7. CASE Wakes(w)
  <2>1. /\ wpc[w] = "sleep" /\ wpc'[w] = "read" /\ ~halted[w] /\ (event[w] = "none" \/ MasterGone)
        /\ Goes(w, "read") /\ UNCHANGED <<halted, event, pending, toWorker, toMaster>>
    BY <1>3, <1>7 DEF Wakes, Runs, Goes, pipes
  <2>2. Placed(w)'
    BY <1>1, <1>2, <2>1 DEF Placed, Forking, InTable, MasterGone, Situation, Unborn, Born, Starting,
       Idle, Given, Working, Ended, Reported, Is
  <2> QED
    BY <1>5, <2>1, <2>2
<1>8. CASE Stops(w)
  <2>1. /\ wpc[w] = "stop" /\ wpc'[w] = "sleep" /\ ~Forking /\ ~halted[w]
        /\ halted'[w] = TRUE /\ event'[w] = "stopped" /\ UNCHANGED <<pending, toWorker, toMaster>>
        /\ \A v \in Workers \ {w} : wpc'[v] = wpc[v] /\ halted'[v] = halted[v] /\ event'[v] = event[v]
    BY <1>3, <1>8 DEF Stops, Runs, Goes, pipes, Forking
  <2>2. Placed(w)'
    BY <1>1, <1>2, <2>1 DEF Placed, Forking, InTable, Situation, Unborn, Born, Starting, Idle, Given,
       Working, Ended, Reported, Is
  <2>3. Spared(w)'
    BY <1>1, <1>2, <2>1 DEF Spared, Forking, InTable
  <2> QED
    BY <1>4, <2>1, <2>2, <2>3
<1>9. CASE Reads(w)
  <2>1. /\ wpc[w] = "read" /\ wpc'[w] = "solve" /\ UNCHANGED <<halted, event, pending, toMaster>>
        /\ toWorker[w] # <<>> /\ toWorker'[w] = Tail(toWorker[w])
        /\ \A v \in Workers \ {w} : wpc'[v] = wpc[v] /\ toWorker'[v] = toWorker[v]
    BY <1>3, <1>9 DEF Reads, Runs, Goes, pipes
  <2>2. Len(toWorker'[w]) = Len(toWorker[w]) - 1
    BY <1>3, <2>1
  <2>3. Placed(w)'
    BY <1>1, <1>2, <2>1, <2>2 DEF Placed, Forking, InTable, Situation, Unborn, Born, Starting, Idle,
       Given, Working, Ended, Reported, Is
  <2>4. Spared(w)'
    BY <1>1, <1>2, <2>1 DEF Spared, Forking, InTable
  <2> QED
    BY <1>4, <2>1, <2>3, <2>4
<1>10. CASE Answers(w)
  <2> DEFINE r == Answer(w)
  <2>1. /\ wpc[w] = "solve" /\ wpc'[w] = "stop" /\ UNCHANGED <<halted, event, pending, toWorker>>
        /\ toMaster'[w] = Append(toMaster[w], r)
        /\ \A v \in Workers \ {w} : wpc'[v] = wpc[v] /\ toMaster'[v] = toMaster[v]
    BY <1>3, <1>10 DEF Answers, Runs, Goes
  <2>2. r.id # 0
    BY <2>1 DEF Typed, Shape, Null, Answer
  <2> HIDE DEF r
  <2>3. /\ Len(toMaster'[w]) = Len(toMaster[w]) + 1
        /\ \A k \in 1 .. Len(toMaster'[w]) : toMaster'[w][k].id # 0
    <3>1. toMaster[w] \in Seq(Results)
      BY <1>3
    <3>2. ASSUME NEW k \in 1 .. Len(toMaster'[w]) PROVE toMaster'[w][k].id # 0
      <4>1. CASE k \in 1 .. Len(toMaster[w])
        <5>1. toMaster'[w][k] = toMaster[w][k]
          BY <2>1, <3>1, <4>1
        <5> QED
          BY <1>2, <4>1, <5>1 DEF Numbered
      <4>2. CASE k \notin 1 .. Len(toMaster[w])
        <5>1. toMaster'[w][k] = r
          BY <2>1, <3>1, <3>2, <4>2
        <5> QED
          BY <2>2, <5>1
      <4> QED
        BY <4>1, <4>2
    <3> QED
      BY <2>1, <3>1, <3>2
  <2>4. Numbered'
    BY <1>2, <2>1, <2>3 DEF Numbered
  <2>5. Placed(w)'
    BY <1>1, <1>2, <2>1, <2>3 DEF Placed, Forking, InTable, Situation, Unborn, Born, Starting, Idle,
       Given, Working, Ended, Reported, Is
  <2>6. Spared(w)'
    BY <1>1, <1>2, <2>1 DEF Spared, Forking, InTable
  <2>7. \A v \in Workers \ {w} : SameWorker(v) /\ pending'[v] = pending[v] /\ problem_id'[v] = problem_id[v]
    BY <1>1, <2>1 DEF SameWorker
  <2>8. UNCHANGED <<mpc, i>> /\ (mpc = "read" => ~inHandler')
    BY <1>1, <1>2
  <2> QED
    BY <2>4, <2>5, <2>6, <2>7, <2>8, OneMoves
<1>11. ASSUME UNCHANGED toMaster, ~(Forking \/ InTable)
       PROVE  Table'
  <2>1. Numbered'
    BY <1>2, <1>11, StillNumbered
  <2>2. \A v \in Workers : Placed(v)' /\ Spared(v)'
    BY <1>1, <1>11 DEF Placed, Spared, Forking, InTable
  <2> QED
    BY <1>1, <1>2, <2>1, <2>2 DEF Table
<1>12. CASE ReadsNothing(w) \/ AnswersNobody(w)
  <2>1. Severed(w) /\ UNCHANGED toMaster
    BY <1>12 DEF ReadsNothing, AnswersNobody, Dies, pipes
  <2>2. ~(Forking \/ InTable)
    BY <2>1 DEF Severed, PipesClosed, MasterGone, Forking, InTable
  <2> QED
    BY <1>11, <2>1, <2>2
<1>13. CASE Hup(w)
  <2>1. UNCHANGED <<toWorker, toMaster>>
    BY <1>13 DEF Hup, Dies, pipes
  <2>2. CASE ~(Forking \/ InTable)
    BY <1>11, <2>1, <2>2
  <2>3. CASE Forking \/ InTable
    <3>1. wpc[w] # "exec"
      BY <1>2, <1>13, <2>3 DEF Hup, Spared, Placed, Forking, InTable, Situation, Unborn, Born, Starting,
         Idle, Given, Working, Ended, Reported, Is
    <3>2. UNCHANGED <<wpc, halted, event>> /\ pending' = [pending EXCEPT ![w] = @ \ {"HUP"}]
      BY <1>13, <3>1 DEF Hup
    <3>3. Placed(w)'
      <4>1. SameWorker(w)
        BY <1>1, <2>1, <3>2 DEF SameWorker
      <4> QED
        BY <1>1, <1>2, <4>1, SameSituation DEF Placed, Forking, InTable
    <3>4. Spared(w)'
      BY <1>1, <1>2, <1>3, <3>2 DEF Spared, Forking, InTable
    <3> QED
      BY <1>3, <1>4, <2>1, <3>2, <3>3, <3>4
  <2> QED
    BY <2>2, <2>3
<1>14. CASE Term(w)
  <2>1. "TERM" \in pending[w] /\ UNCHANGED toMaster
    BY <1>14 DEF Term, Dies, pipes
  <2>2. ~(Forking \/ InTable)
    BY <1>2, <2>1 DEF Spared
  <2> QED
    BY <1>11, <2>1, <2>2
<1> QED
  BY <1>6, <1>7, <1>8, <1>9, <1>10, <1>12, <1>13, <1>14 DEF Worker

\* The handler catches up with one report at a time.
LEMMA HandlerKeepsTable ==
  ASSUME Typed, Table, Handler
  PROVE  Table'
<1>1. CASE HandlerEnters \/ HandlerReturns
  <2>1. /\ UNCHANGED <<worker, pipes, i, table>>
        /\ mpc' = mpc \/ (mpc = "suspend" /\ mpc' = "next")
        /\ mpc = "read" => ~inHandler'
    BY <1>1 DEF HandlerEnters, HandlerReturns, master, Table
  <2>2. \A v \in Workers : SameWorker(v) /\ pending'[v] = pending[v] /\ problem_id'[v] = problem_id[v]
    BY <2>1 DEF SameWorker, worker, pipes, table
  <2>3. Numbered'
    BY <2>1, StillNumbered DEF Table, pipes
  <2>4. CASE mpc' = mpc
    <3>1. \A v \in Workers : Placed(v)' /\ Spared(v)'
      BY <2>1, <2>2, <2>4, SameSituation DEF Table, Placed, Spared, Forking, InTable, SameWorker
    <3> QED
      BY <2>1, <2>3, <2>4, <3>1 DEF Table
  <2>5. CASE mpc = "suspend" /\ mpc' = "next"
    BY <2>2, <2>3, <2>5, NobodyMoves DEF InTable
  <2> QED
    BY <2>1, <2>4, <2>5
<1>2. ASSUME NEW w \in Workers, Reap(w) PROVE Table'
  <2>1. /\ UNCHANGED <<wpc, halted, pending, toWorker, toMaster, i, problem_id, inHandler>>
        /\ event[w] # "none" /\ event' = [event EXCEPT ![w] = "none"] /\ inHandler
    BY <1>2 DEF Reap, pipes, signal
  <2>2. Placed(w) /\ Spared(w) /\ Numbered /\ mpc # "read"
    BY <2>1 DEF Table
  <2>3. Numbered'
    BY <2>1, <2>2, StillNumbered
  <2>4. CASE status[w] = "none"
    BY <1>2, <2>3, <2>4, ServedOut DEF Reap
  <2>5. CASE status[w] # "none"
    <3>1. mpc' = mpc /\ status' = [status EXCEPT ![w] = StatusAfter(status[w], event[w])]
      BY <1>2, <2>5 DEF Reap
    <3>2. /\ status'[w] = StatusAfter(status[w], event[w]) /\ event'[w] = "none"
          /\ \A v \in Workers \ {w} : status'[v] = status[v] /\ event'[v] = event[v]
      BY <2>1, <3>1 DEF Typed, TypeOK
    <3>3. Placed(w)'
      BY <2>1, <2>2, <3>1, <3>2 DEF Placed, Forking, InTable, StatusAfter, Situation, Unborn, Born,
         Starting, Idle, Given, Working, Ended, Reported, Is
    <3>4. Spared(w)'
      BY <2>1, <2>2, <3>1, <3>2 DEF Spared, Forking, InTable, StatusAfter
    <3>5. \A v \in Workers \ {w} : SameWorker(v) /\ pending'[v] = pending[v] /\ problem_id'[v] = problem_id[v]
      BY <2>1, <3>2 DEF SameWorker
    <3>6. UNCHANGED <<mpc, i>> /\ (mpc = "read" => ~inHandler')
      BY <2>1, <2>2, <3>1
    <3> QED
      BY <2>3, <3>3, <3>4, <3>5, <3>6, OneMoves
  <2> QED
    BY <2>4, <2>5
<1> QED
  BY <1>1, <1>2 DEF Handler

\* Forking and filling in the table.
LEMMA ForkingKeepsTable ==
  ASSUME Typed, Table, Fork \/ Enter \/ Suspend
  PROVE  Table'
<1>1. /\ i \in 0 .. N - 1 /\ UNCHANGED <<halted, event, pending, toWorker, toMaster, problem_id>>
      /\ wpc \in [Workers -> {"unborn", "exec", "stop", "sleep", "read", "solve", "dead"}]
      /\ status \in [Workers -> {"none", "started", "idle", "continued", "running",
                                 "stopped", "exited"}]
  BY DEF Fork, Enter, Suspend, worker, pipes, table, Typed, TypeOK, Workers
<1>2. \A v \in Workers : v \in Int /\ v < N /\ Placed(v) /\ Spared(v)
  BY SizesAssumption DEF Table, Workers
<1>3. Numbered'
  BY <1>1, StillNumbered DEF Table
<1>4. CASE Fork
  <2>1. /\ mpc = "fork" /\ mpc' = "enter" /\ UNCHANGED <<i, status>>
        /\ \A v \in Workers : wpc'[v] = IF v = i THEN "exec" ELSE wpc[v]
    BY <1>1, <1>4 DEF Fork, At, Goes, table
  <2>2. ASSUME NEW v \in Workers PROVE Placed(v)' /\ Spared(v)'
    <3>1. Placed(v)'
      BY <1>1, <1>2, <2>1 DEF Placed, Forking, InTable, Unborn, Born, Starting, Is
    <3>2. Spared(v)'
      BY <1>1, <1>2, <2>1 DEF Spared, Forking, InTable
    <3> QED
      BY <3>1, <3>2
  <2> QED
    BY <1>3, <2>1, <2>2 DEF Table
<1>5. CASE Enter
  <2>1. /\ mpc = "enter" /\ UNCHANGED wpc
        /\ \/ i + 1 < N /\ i' = i + 1 /\ mpc' = "fork"
           \/ ~(i + 1 < N) /\ i' = 0 /\ mpc' = "wait"
        /\ \A v \in Workers : status'[v] = IF v = i THEN "started" ELSE status[v]
    BY <1>1, <1>5 DEF Enter, At, worker
  <2>2. ASSUME NEW v \in Workers PROVE Placed(v)' /\ Spared(v)'
    <3>1. v < i + 1 <=> v < i \/ v = i
      BY <1>1, <1>2
    <3>2. IF v < i THEN Starting(v) ELSE IF v = i THEN Born(v) ELSE Unborn(v)
      BY <1>2, <2>1 DEF Placed, Forking
    <3>3. IF v < i + 1 THEN Starting(v)' ELSE Unborn(v)'
      BY <1>1, <2>1, <3>1, <3>2 DEF Unborn, Born, Starting, Is
    <3>4. Placed(v)'
      <4>1. CASE mpc' = "fork"
        BY <2>1, <3>3, <4>1 DEF Placed, Forking, InTable
      <4>2. CASE mpc' = "wait"
        <5>1. v < i + 1
          BY <1>1, <1>2, <2>1, <4>2, SizesAssumption
        <5> QED
          BY <3>3, <4>2, <5>1 DEF Placed, Forking, InTable
      <4> QED
        BY <2>1, <4>1, <4>2
    <3>5. Spared(v)'
      <4>1. v = i => status[v] = "none"
        BY <1>1, <3>2 DEF Born, Is
      <4> QED
        BY <1>1, <1>2, <2>1, <4>1 DEF Spared, Forking, InTable
    <3> QED
      BY <3>4, <3>5
  <2> QED
    BY <1>3, <2>1, <2>2 DEF Table
<1>6. CASE Suspend
  <2>1. /\ mpc = "wait" /\ mpc' = "suspend" /\ UNCHANGED <<i, wpc, status>>
    BY <1>6 DEF Suspend, At, worker, table
  <2>2. ASSUME NEW v \in Workers PROVE Placed(v)' /\ Spared(v)'
    <3>1. Starting(v)' /\ ~Given(v)'
      BY <1>1, <1>2, <2>1 DEF Placed, Forking, Starting, Given, Is
    <3>2. Spared(v)'
      BY <1>1, <1>2, <2>1 DEF Spared, Forking, InTable
    <3> QED
      BY <2>1, <3>1, <3>2 DEF Placed, Forking, InTable, Situation
  <2> QED
    BY <1>3, <2>1, <2>2 DEF Table
<1> QED
  BY <1>4, <1>5, <1>6

\* Serving the workers in turn.
LEMMA ServingKeepsTable ==
  ASSUME Typed, Table, NextProblem \/ Assign \/ Continue \/ CheckStopped
  PROVE  Table'
<1>1. /\ i \in Workers /\ UNCHANGED <<wpc, pending, toMaster, inHandler>> /\ ~inHandler
      /\ \A v \in Workers : Placed(v) /\ Spared(v)
      /\ halted \in [Workers -> BOOLEAN]
      /\ event \in [Workers -> {"none", "stopped", "continued", "exited", "killed"}]
      /\ toWorker \in [Workers -> Seq(Problems)]
      /\ problem_id \in [Workers -> 0 .. NProbs]
      /\ status \in [Workers -> {"none", "started", "idle", "continued", "running",
                                 "stopped", "exited"}]
  BY DEF NextProblem, Assign, Continue, CheckStopped, KillCont, At, Table, Typed, TypeOK, worker,
     pipes, signal
<1>2. Numbered'
  BY <1>1, StillNumbered DEF Table
<1>3. ASSUME UNCHANGED <<worker, toWorker, table>>, InTable, InTable', mpc # "continue",
             mpc' # "continue", mpc' = "read" => Ended(i')
      PROVE  Table'
  <2>1. \A v \in Workers : SameWorker(v) /\ pending'[v] = pending[v] /\ problem_id'[v] = problem_id[v]
    BY <1>1, <1>3 DEF SameWorker, worker, table
  <2> QED
    BY <1>1, <1>2, <1>3, <2>1, NobodyMoves DEF InTable
<1>4. CASE NextProblem
  <2>1. mpc = "next" /\ mpc' \in {"idle", "close"} /\ UNCHANGED <<worker, toWorker, table>>
    BY <1>4 DEF NextProblem, At, pipes
  <2>2. CASE mpc' = "idle"
    BY <1>3, <2>1, <2>2 DEF InTable
  <2>3. CASE mpc' = "close"
    BY <1>2, <2>3, ServedOut
  <2> QED
    BY <2>1, <2>2, <2>3
<1>5. CASE CheckStopped
  <2>1. mpc = "stopped" /\ UNCHANGED <<worker, toWorker, table>>
    BY <1>5 DEF CheckStopped, At, pipes
  <2>2. CASE status[i] = "stopped" /\ mpc' = "read" /\ i' = i
    <3>1. Ended(i)
      BY <1>1, <2>1, <2>2 DEF Placed, InTable, Situation, Starting, Idle, Given, Working, Ended,
         Reported, Is
    <3> QED
      BY <1>3, <2>1, <2>2, <3>1 DEF InTable
  <2>3. CASE mpc' = "next"
    BY <1>3, <2>1, <2>3 DEF InTable
  <2> QED
    BY <1>5, <2>2, <2>3 DEF CheckStopped
<1>6. CASE Assign
  <2>1. mpc = "idle" /\ UNCHANGED <<halted, event, i>>
    BY <1>6 DEF Assign, At, worker
  <2>2. CASE status[i] = "idle"
    <3>1. Idle(i)
      BY <1>1, <2>1, <2>2 DEF Placed, InTable, Situation, Starting, Idle, Given, Working, Ended,
         Reported, Is
    <3>2. /\ toWorker' = [toWorker EXCEPT ![i] = Append(@, chunk[current])]
          /\ problem_id' = [problem_id EXCEPT ![i] = chunk[current]]
          /\ status' = [status EXCEPT ![i] = "continued"]
          /\ mpc' = "continue"
      BY <1>6, <2>2, <3>1 DEF Assign, Idle, Is
    <3>3. Len(toWorker'[i]) = Len(toWorker[i]) + 1 /\ status'[i] = "continued"
      <4>1. chunk[current] \in Problems
        BY <2>1 DEF Typed, TypeOK, Shape
      <4> QED
        BY <1>1, <3>2, <4>1
    <3>4. Given(i)'
      BY <1>1, <2>1, <3>1, <3>3 DEF Idle, Given, Is
    <3>5. Spared(i)'
      BY <1>1, <2>1, <3>2, <3>3 DEF Spared, InTable, Forking
    <3>6. \A v \in Workers \ {i} : SameWorker(v) /\ pending'[v] = pending[v] /\ problem_id'[v] = problem_id[v]
      BY <1>1, <2>1, <3>2 DEF SameWorker
    <3>7. ASSUME NEW v \in Workers PROVE Placed(v)' /\ Spared(v)'
      <4>1. CASE v = i
        BY <3>2, <3>4, <3>5, <4>1, <2>1 DEF Placed, Forking, InTable, Situation
      <4>2. CASE v # i
        <5>1. Situation(v)' /\ ~Given(v)'
          BY <1>1, <2>1, <3>6, <4>2, SameSituation DEF Placed, InTable
        <5>2. Spared(v)'
          BY <1>1, <2>1, <3>6, <4>2 DEF Spared, Forking, InTable, SameWorker
        <5> QED
          BY <2>1, <3>2, <4>2, <5>1, <5>2 DEF Placed, Forking, InTable
      <4> QED
        BY <4>1, <4>2
    <3> QED
      BY <1>2, <3>2, <3>7 DEF Table
  <2>3. CASE status[i] # "idle"
    BY <1>3, <1>6, <2>1, <2>3 DEF Assign, InTable, worker
  <2> QED
    BY <2>2, <2>3
<1>7. CASE Continue
  <2>1. /\ mpc = "continue" /\ mpc' = "stopped" /\ KillCont(i)
        /\ UNCHANGED <<toWorker, i, status, problem_id>>
    BY <1>7 DEF Continue, At, pipes, table
  <2>2. Given(i) /\ Spared(i)
    BY <1>1, <2>1 DEF Placed, InTable
  <2>3. /\ halted'[i] = FALSE /\ event'[i] = "continued"
        /\ \A v \in Workers \ {i} : halted'[v] = halted[v] /\ event'[v] = event[v]
    BY <1>1, <2>1, <2>2 DEF KillCont, Given, Is
  <2>4. \A v \in Workers \ {i} : SameWorker(v)
    BY <1>1, <2>1, <2>3 DEF SameWorker
  <2>5. ASSUME NEW v \in Workers PROVE Situation(v)' /\ ~Given(v)'
    <3>1. CASE v = i
      BY <1>1, <2>1, <2>2, <2>3, <3>1 DEF Situation, Given, Reported, Is
    <3>2. CASE v # i
      BY <1>1, <2>1, <2>4, <3>2, SameSituation DEF Placed, InTable
    <3> QED
      BY <3>1, <3>2
  <2>6. \A v \in Workers : Placed(v)' /\ Spared(v)'
    BY <1>1, <2>1, <2>5 DEF Placed, Spared, Forking, InTable
  <2> QED
    BY <1>2, <2>1, <2>6 DEF Table
<1> QED
  BY <1>4, <1>5, <1>6, <1>7

\* Reading a result: only workers that have been given a problem are told to give up.
LEMMA ReadingKeepsTable ==
  ASSUME Typed, Table, ReadResult
  PROVE  Table'
<1> DEFINE r == Head(toMaster[i])
<1>1. /\ mpc = "read" /\ i \in Workers /\ ~inHandler /\ toMaster[i] # <<>>
      /\ toMaster' = [toMaster EXCEPT ![i] = Tail(@)] /\ status' = [status EXCEPT ![i] = "idle"]
      /\ UNCHANGED <<wpc, halted, event, toWorker, signal, problem_id>>
  BY DEF ReadResult, At, Typed, TypeOK
<1>2. /\ \A v \in Workers : Placed(v) /\ Spared(v)
      /\ toMaster[i] \in Seq(Results) /\ toMaster \in [Workers -> Seq(Results)]
      /\ pending \in [Workers -> SUBSET {"HUP", "TERM"}]
      /\ status \in [Workers -> {"none", "started", "idle", "continued", "running",
                                 "stopped", "exited"}]
  BY <1>1 DEF Table, Typed, TypeOK
<1>3. Numbered'
  BY <1>1, <1>2, StillNumbered DEF Table
<1>4. mpc' \in {"next", "sigsegv"}
  BY DEF ReadResult, Post
<1>5. r.id # 0
  <2>1. 1 \in 1 .. Len(toMaster[i]) /\ r = toMaster[i][1]
    BY <1>1, <1>2
  <2> QED
    BY <1>1, <2>1 DEF Table, Numbered
<1>6. UNCHANGED pending \/ Kill(Canceled(r.id), "HUP")
  BY DEF ReadResult
<1> HIDE DEF r
<1>7. CASE mpc' = "sigsegv"
  BY <1>3, <1>7, ServedOut
<1>8. CASE mpc' = "next"
  <2>1. Ended(i)
    BY <1>1, <1>2 DEF Placed
  <2>2. Len(toMaster'[i]) = Len(toMaster[i]) - 1 /\ status'[i] = "idle"
    <3>1. Len(Tail(toMaster[i])) = Len(toMaster[i]) - 1
      BY <1>1, <1>2
    <3> QED
      BY <1>1, <1>2, <3>1
  <2>3. \A v \in Workers \ {i} : SameWorker(v)
    BY <1>1, <1>2 DEF SameWorker
  <2>4. ASSUME NEW v \in Workers PROVE Placed(v)' /\ Spared(v)'
    <3>1. Situation(v)' /\ ~Given(v)'
      <4>1. CASE v = i
        BY <1>1, <2>1, <2>2, <4>1 DEF Situation, Ended, Idle, Given, Is
      <4>2. CASE v # i
        BY <1>1, <1>2, <2>3, <4>2, SameSituation DEF Placed, InTable
      <4> QED
        BY <4>1, <4>2
    <3>2. \/ pending'[v] = pending[v]
          \/ pending'[v] = pending[v] \cup {"HUP"} /\ v # i /\ problem_id[v] # 0
      BY <1>2, <1>5, <1>6 DEF Kill, Canceled
    <3>3. Spared(v)'
      <4>1. /\ pending[v] \subseteq {"HUP"}
            /\ status[v] \in {"none", "started"} => problem_id[v] = 0 /\ pending[v] = {}
        BY <1>1, <1>2 DEF Spared, InTable
      <4>2. status'[v] = status[v] \/ status'[v] = "idle"
        BY <1>1, <1>2
      <4> QED
        BY <1>1, <3>2, <4>1, <4>2 DEF Spared
    <3> QED
      BY <1>8, <3>1, <3>3 DEF Placed, Forking, InTable
  <2> QED
    BY <1>3, <1>8, <2>4 DEF Table
<1> QED
  BY <1>4, <1>7, <1>8

\* Every step keeps the table right.
LEMMA TableStep ==
  ASSUME Kind = "miner", RealTime, Typed, Table, [Next]_vars
  PROVE  Table'
<1>1. CASE Close \/ Terminate
  <2>1. mpc' \in {"close", "term", "done"} /\ UNCHANGED toMaster
    BY <1>1 DEF Close, Terminate, At, pipes
  <2>2. Numbered'
    BY <2>1, StillNumbered DEF Table
  <2> QED
    BY <2>1, <2>2, ServedOut
<1>2. CASE UNCHANGED vars
  BY <1>2 DEF vars, worker, pipes, signal, table, Table, Placed, Spared, Numbered, Forking, InTable,
     Situation, Unborn, Born, Starting, Idle, Given, Working, Ended, Reported, Is
<1> QED
  BY <1>1, <1>2, WorkerKeepsTable, HandlerKeepsTable, ForkingKeepsTable, ServingKeepsTable,
     ReadingKeepsTable DEF Next, Main, Rest

\* With nobody born the table is right.
LEMMA InitTable == Init => Table
  BY SizesAssumption DEF Init, Table, Placed, Spared, Numbered, Forking, InTable, Unborn, Starting, Is,
     Workers

\* Where workers are given the time to stop and to continue (the sleeps of master.c:248 and
\* worker.c:72), every worker is in the situation its status stands for, or one report behind
\* it: no report is lost or counted twice (master.c:64-109).
THEOREM TableInductive ==
  ASSUME Kind = "miner", RealTime
  PROVE  Spec => []Table
<1>1. Typed /\ Table /\ [Next]_vars => Table'
  BY TableStep
<1> QED
  BY <1>1, InitTable, TypedInductive, PTL DEF Spec

\* What StatusSound says of a worker, from its situation.
LEMMA SituationSound ==
  ASSUME NEW w \in Workers, Situation(w)
  PROVE  /\ InFlight(w) = IF status[w] \in {"continued", "running", "stopped"} THEN 1 ELSE 0
         /\ status[w] = "idle" => halted[w]
         /\ status[w] = "stopped" => halted[w] /\ Len(toMaster[w]) = 1
<1> DEFINE given == Len(toWorker[w])
           back  == Len(toMaster[w])
<1>1. status[w] \in {"idle", "stopped"} => halted[w] /\ (status[w] = "stopped" => back = 1)
  BY DEF Situation, Starting, Idle, Given, Working, Ended, Reported, Is
<1>2. \/ /\ status[w] \in {"continued", "running", "stopped"}
         /\ \/ given = 1 /\ wpc[w] # "solve" /\ back = 0
            \/ given = 0 /\ wpc[w] = "solve" /\ back = 0
            \/ given = 0 /\ wpc[w] # "solve" /\ back = 1
      \/ /\ status[w] \notin {"continued", "running", "stopped"}
         /\ given = 0 /\ wpc[w] # "solve" /\ back = 0
  BY DEF Situation, Starting, Idle, Given, Working, Ended, Reported, Is
<1>3. /\ wpc[w] = "solve" => InFlight(w) = given + 1 + back
      /\ wpc[w] # "solve" => InFlight(w) = given + 0 + back
  BY DEF InFlight
<1> HIDE DEF given, back
<1>4. InFlight(w) = IF status[w] \in {"continued", "running", "stopped"} THEN 1 ELSE 0
  BY <1>2, <1>3
<1> QED
  BY <1>1, <1>4 DEF back

\* StatusSound of polya_miner, for any number of workers and problems: one problem or result is
\* on its way for a worker that was given one, and workers are written to and read from only
\* while they are stopped, so that the master is never blocked (master.c:218-295).
THEOREM TableIsSound ==
  ASSUME Kind = "miner", RealTime
  PROVE  Spec => []StatusSound
<1>1. Typed /\ Table => StatusSound
  <2> SUFFICES ASSUME Typed, Table, Serving, NEW w \in Workers
               PROVE  /\ InFlight(w) = IF status[w] \in {"continued", "running", "stopped"} THEN 1 ELSE 0
                      /\ status[w] = "idle" => halted[w]
                      /\ status[w] = "stopped" => halted[w] /\ Len(toMaster[w]) = 1
    BY DEF StatusSound
  <2>1. Situation(w)
    BY DEF Table, Placed, Serving, InTable
  <2> QED
    BY <2>1, SituationSound
<1> QED
  BY <1>1, TypedInductive, TableInductive, PTL

\* NobodyKilled of polya_miner: no worker dies while the master serves, of a SIGHUP that comes
\* too early or of anything else, and the master never writes to a dead one (master.c:295-308).
THEOREM NobodyIsKilled ==
  ASSUME Kind = "miner", RealTime
  PROVE  Spec => [](NobodyKilled /\ mpc # "sigpipe")
<1>1. Table => NobodyKilled /\ mpc # "sigpipe"
  <2> SUFFICES ASSUME Table, Serving, NEW w \in Workers PROVE wpc[w] # "dead"
    BY DEF NobodyKilled, Table
  <2>1. Situation(w)
    BY DEF Table, Placed, Serving, InTable
  <2> QED
    BY <2>1 DEF Situation, Starting, Idle, Given, Working, Ended, Reported, Is
<1> QED
  BY <1>1, TableInductive, PTL

-----------------------------------------------------------------------------
(* What becomes of an answer.                                              *)

\* The problem that is with a worker is the one noted in the table, and so is that of its answer.
Noted ==
  /\ \A w \in Workers : \A p \in Problems : WorksAt(w, p) => problem_id[w] = p
  /\ \A w \in Workers : \A k \in DOMAIN toMaster[w] : toMaster[w][k].id = toMaster[w][k].problem

\* No number is noted of a problem still to be made; and the pointer kept with the number of
\* the current problem is to the current problem.
Kept ==
  /\ \A w \in Workers : problem_id[w] <= NProbs - problems_remaining
  /\ current # Null => \A w \in Workers : problem_id[w] = chunk[current] => currently_solving[w] = current

\* A step by which no worker comes to a problem, and no answer is written, keeps the numbers.
LEMMA StillNoted ==
  ASSUME Noted, UNCHANGED problem_id,
         \A w \in Workers : \A p \in Problems : WorksAt(w, p)' => WorksAt(w, p),
         \A w \in Workers : \A k \in DOMAIN toMaster'[w] :
           \E j \in DOMAIN toMaster[w] : toMaster'[w][k] = toMaster[w][j]
  PROVE  Noted'
  BY DEF Noted

\* So does one that leaves the pipes alone.
LEMMA NotedAside ==
  ASSUME Noted, UNCHANGED <<problem_id, toWorker, toMaster>>,
         \A w \in Workers : wpc'[w] = "solve" => wpc[w] = "solve" /\ job'[w] = job[w]
  PROVE  Noted'
<1>1. \A w \in Workers : \A p \in Problems : WorksAt(w, p)' => WorksAt(w, p)
  BY DEF WorksAt
<1> QED
  BY <1>1, StillNoted

\* A worker reads the problem that is in its pipe and answers the one it has read.
LEMMA WorkerNoted ==
  ASSUME Kind = "miner", Typed, Noted, NEW w \in Workers, Worker(w)
  PROVE  Noted'
<1>1. /\ wpc \in [Workers -> {"unborn", "exec", "stop", "sleep", "read", "solve", "dead"}]
      /\ job \in [Workers -> Problems \cup {Null}]
      /\ toWorker \in [Workers -> Seq(Problems)] /\ toMaster \in [Workers -> Seq(Results)]
      /\ UNCHANGED problem_id
  BY DEF Typed, TypeOK, Worker, Ready, Stops, Wakes, Reads, ReadsNothing, Answers, AnswersNobody, Hup,
     Term, master, table
<1>2. CASE Ready(w) \/ Stops(w) \/ Wakes(w)
  BY <1>1, <1>2, NotedAside DEF Ready, Stops, Wakes, Runs, Goes, pipes
<1>3. CASE ReadsNothing(w) \/ AnswersNobody(w) \/ Term(w)
  BY <1>1, <1>3, NotedAside DEF ReadsNothing, AnswersNobody, Term, Dies, pipes
<1>4. CASE Hup(w)
  BY <1>1, <1>4, NotedAside DEF Hup, Dies, pipes
<1>5. CASE Reads(w)
  <2>1. /\ toWorker[w] # <<>> /\ UNCHANGED toMaster
        /\ job'[w] = Head(toWorker[w]) /\ toWorker'[w] = Tail(toWorker[w])
        /\ \A v \in Workers \ {w} : wpc'[v] = wpc[v] /\ job'[v] = job[v] /\ toWorker'[v] = toWorker[v]
    BY <1>1, <1>5 DEF Reads, Goes
  <2>2. Head(toWorker[w]) = toWorker[w][1] /\ 1 \in DOMAIN toWorker[w]
    BY <1>1, <2>1
  <2>3. \A k \in DOMAIN Tail(toWorker[w]) :
          k + 1 \in DOMAIN toWorker[w] /\ Tail(toWorker[w])[k] = toWorker[w][k + 1]
    BY <1>1, <2>1
  <2>4. ASSUME NEW v \in Workers, NEW p \in Problems, WorksAt(v, p)' PROVE WorksAt(v, p)
    <3>1. CASE v = w
      <4>1. ASSUME NEW k \in DOMAIN toWorker'[w], toWorker'[w][k] = p PROVE WorksAt(w, p)
        BY <2>1, <2>3, <4>1 DEF WorksAt
      <4>2. ASSUME job'[w] = p PROVE WorksAt(w, p)
        BY <2>1, <2>2, <4>2 DEF WorksAt
      <4>3. ASSUME NEW k \in DOMAIN toMaster'[w], toMaster'[w][k].problem = p PROVE WorksAt(w, p)
        BY <2>1, <4>3 DEF WorksAt
      <4> QED
        BY <2>4, <3>1, <4>1, <4>2, <4>3 DEF WorksAt
    <3>2. CASE v # w
      BY <2>1, <2>4, <3>2 DEF WorksAt
    <3> QED
      BY <3>1, <3>2
  <2> QED
    BY <1>1, <2>1, <2>4, StillNoted
<1>6. CASE Answers(w)
  <2> DEFINE r == Answer(w)
  <2>1. /\ wpc[w] = "solve" /\ wpc'[w] = "stop" /\ UNCHANGED toWorker
        /\ toMaster'[w] = Append(toMaster[w], r)
        /\ \A v \in Workers \ {w} : wpc'[v] = wpc[v] /\ job'[v] = job[v] /\ toMaster'[v] = toMaster[v]
    BY <1>1, <1>6 DEF Answers, Runs, Goes
  <2>2. r.problem = job[w] /\ r.id = job[w]
    BY DEF Answer
  <2> HIDE DEF r
  <2>3. \A k \in DOMAIN toMaster'[w] : \/ toMaster'[w][k] = r
                                       \/ k \in DOMAIN toMaster[w] /\ toMaster'[w][k] = toMaster[w][k]
    BY <1>1, <2>1
  <2>4. ASSUME NEW v \in Workers, NEW p \in Problems, WorksAt(v, p)' PROVE WorksAt(v, p)
    <3>1. CASE v = w
      BY <2>1, <2>2, <2>3, <2>4, <3>1 DEF WorksAt
    <3>2. CASE v # w
      BY <2>1, <2>4, <3>2 DEF WorksAt
    <3> QED
      BY <3>1, <3>2
  <2>5. ASSUME NEW v \in Workers, NEW k \in DOMAIN toMaster'[v]
        PROVE  toMaster'[v][k].id = toMaster'[v][k].problem
    BY <2>1, <2>2, <2>3, <2>5 DEF Noted
  <2> QED
    BY <1>1, <2>4, <2>5 DEF Noted
<1> QED
  BY <1>2, <1>3, <1>4, <1>5, <1>6 DEF Worker

\* The master assigns a problem only where none is (Table), and notes its number.
LEMMA NotedStep ==
  ASSUME Kind = "miner", Typed, Table, Noted, [Next]_vars
  PROVE  Noted'
<1>1. CASE Assign
  <2>1. /\ i \in Workers /\ mpc = "idle" /\ UNCHANGED <<wpc, job, toMaster>>
        /\ toWorker \in [Workers -> Seq(Problems)] /\ problem_id \in [Workers -> 0 .. NProbs]
    BY <1>1 DEF Assign, At, Typed, TypeOK, worker
  <2>2. CASE status[i] # "idle" \/ wpc[i] = "dead"
    BY <1>1, <2>1, <2>2, NotedAside DEF Assign, table
  <2>3. CASE status[i] = "idle" /\ wpc[i] # "dead"
    <3>1. Idle(i)
      BY <2>1, <2>3 DEF Table, Placed, InTable, Situation, Starting, Idle, Given, Working, Ended,
         Reported, Is
    <3>2. /\ toWorker'[i] = Append(toWorker[i], chunk[current]) /\ problem_id'[i] = chunk[current]
          /\ \A v \in Workers \ {i} : toWorker'[v] = toWorker[v] /\ problem_id'[v] = problem_id[v]
      BY <1>1, <2>1, <2>3 DEF Assign
    <3>3. /\ wpc'[i] # "solve" /\ Len(toWorker[i]) = 0 /\ Len(toMaster'[i]) = 0
      BY <2>1, <3>1 DEF Idle, Is
    <3>4. DOMAIN toMaster'[i] = {} /\ \A k \in DOMAIN toWorker'[i] : toWorker'[i][k] = chunk[current]
      <4>1. toMaster[i] \in Seq(Results) /\ UNCHANGED toMaster
        BY <2>1 DEF Typed, TypeOK
      <4> QED
        BY <2>1, <3>2, <3>3, <4>1
    <3>5. ASSUME NEW v \in Workers, NEW p \in Problems, WorksAt(v, p)' PROVE problem_id'[v] = p
      <4>1. CASE v = i
        BY <3>2, <3>3, <3>4, <3>5, <4>1 DEF WorksAt
      <4>2. CASE v # i
        BY <2>1, <3>2, <3>5, <4>2 DEF WorksAt, Noted
      <4> QED
        BY <4>1, <4>2
    <3> QED
      BY <2>1, <3>5 DEF Noted
  <2> QED
    BY <2>2, <2>3
<1>2. CASE ReadResult
  <2>1. /\ i \in Workers /\ toMaster[i] # <<>> /\ UNCHANGED <<wpc, job, toWorker, problem_id>>
        /\ toMaster' = [toMaster EXCEPT ![i] = Tail(@)] /\ toMaster \in [Workers -> Seq(Results)]
    BY <1>2 DEF ReadResult, Typed, TypeOK
  <2>2. \A k \in DOMAIN Tail(toMaster[i]) :
          k + 1 \in DOMAIN toMaster[i] /\ Tail(toMaster[i])[k] = toMaster[i][k + 1]
    BY <2>1
  <2>3. \A v \in Workers : \A k \in DOMAIN toMaster'[v] :
          \E j \in DOMAIN toMaster[v] : toMaster'[v][k] = toMaster[v][j]
    BY <2>1, <2>2
  <2>4. \A v \in Workers : \A p \in Problems : WorksAt(v, p)' => WorksAt(v, p)
    BY <2>1, <2>3 DEF WorksAt
  <2> QED
    BY <2>1, <2>3, <2>4, StillNoted
<1>3. CASE Handler
  BY <1>3, NotedAside DEF Handler, HandlerEnters, HandlerReturns, Reap, worker, pipes, master, table
<1>4. CASE Fork
  <2>1. i \in Workers /\ wpc \in [Workers -> {"unborn", "exec", "stop", "sleep", "read", "solve", "dead"}]
    BY DEF Typed, TypeOK
  <2> QED
    BY <1>4, <2>1, NotedAside DEF Fork, Goes, pipes, table
<1>5. CASE Enter \/ Suspend \/ NextProblem \/ Continue \/ CheckStopped \/ Close \/ Terminate
  BY <1>5, NotedAside DEF Enter, Suspend, NextProblem, Continue, CheckStopped, Close, Terminate,
     KillCont, worker, pipes, table
<1>6. CASE UNCHANGED vars
  BY <1>6, NotedAside DEF vars, worker, pipes, table
<1> QED
  BY <1>1, <1>2, <1>3, <1>4, <1>5, <1>6, WorkerNoted DEF Next, Main, Rest

\* A new problem has a new number, so that no pointer kept before is taken for one to it.
LEMMA KeptStep ==
  ASSUME Typed, Accounts, Kept, [Next]_vars
  PROVE  Kept'
<1> USE DEF Null
<1>1. ASSUME UNCHANGED <<probs, problem_id, currently_solving>> PROVE Kept'
  BY <1>1 DEF Kept, probs
<1>2. CASE NextProblem
  <2>1. UNCHANGED <<problem_id, currently_solving>>
    BY <1>2 DEF NextProblem, table
  <2>2. CASE current = Null /\ problems_remaining > 0
    <3> DEFINE p == NProbs - problems_remaining + 1
    <3>1. PICK c \in {c \in 1 .. p : chunk[c] = Null} :
                 current' = c /\ chunk' = [chunk EXCEPT ![c] = p]
      BY <1>2, <2>2 DEF NextProblem
    <3>2. problems_remaining \in 1 .. NProbs
      BY <2>2 DEF Typed, TypeOK
    <3>3. c \in Problems
      BY <3>1, <3>2, SizesAssumption DEF Problems
    <3>4. chunk'[current'] = p
      BY <3>1, <3>3 DEF Typed, TypeOK
    <3>5. problems_remaining' = problems_remaining - 1
      BY <1>2, <2>2 DEF NextProblem
    <3>6. \A w \in Workers : problem_id[w] \in Int /\ problem_id[w] < p
      BY <3>2, SizesAssumption DEF Kept, Typed, TypeOK
    <3> QED
      BY <2>1, <3>2, <3>4, <3>5, <3>6, SizesAssumption DEF Kept
  <2>3. CASE ~(current = Null /\ problems_remaining > 0)
    BY <1>1, <1>2, <2>1, <2>3 DEF NextProblem, Typed, TypeOK
  <2> QED
    BY <2>2, <2>3
<1>3. CASE Assign
  <2>1. CASE UNCHANGED table
    BY <1>1, <1>3, <2>1 DEF Assign, table
  <2>2. CASE ~UNCHANGED table
    <3>1. /\ i \in Workers /\ UNCHANGED probs
          /\ problem_id' = [problem_id EXCEPT ![i] = chunk[current]]
          /\ currently_solving' = [currently_solving EXCEPT ![i] = current]
      BY <1>3, <2>2 DEF Assign, Keep, Typed, TypeOK
    <3>2. current # Null /\ mpc = "idle"
      BY <1>3 DEF Assign, At, Typed, Shape
    <3>3. chunk[current] = NProbs - problems_remaining /\ problems_remaining \in 0 .. NProbs
      BY <3>2 DEF Accounts, Typed, TypeOK
    <3>4. \A w \in Workers :
            /\ problem_id'[w] = IF w = i THEN chunk[current] ELSE problem_id[w]
            /\ currently_solving'[w] = IF w = i THEN current ELSE currently_solving[w]
      BY <3>1 DEF Typed, TypeOK
    <3> QED
      BY <3>1, <3>3, <3>4, SizesAssumption DEF Kept, probs
  <2> QED
    BY <2>1, <2>2
<1>4. CASE ReadResult
  <2>1. \/ UNCHANGED <<current, chunk>> \/ current' = Null
    BY <1>4 DEF ReadResult, Post
  <2> QED
    BY <1>4, <2>1 DEF ReadResult, Kept
<1>5. ASSUME NEW w \in Workers, Worker(w) PROVE UNCHANGED <<probs, problem_id, currently_solving>>
  BY <1>5 DEF Worker, Ready, Stops, Wakes, Reads, ReadsNothing, Answers, AnswersNobody, Hup, Term,
     master, table
<1>6. CASE Handler
  BY <1>1, <1>6 DEF Handler, HandlerEnters, HandlerReturns, Reap, master, table
<1>7. CASE Fork \/ Enter \/ Suspend \/ Continue \/ CheckStopped \/ Close \/ Terminate
  BY <1>1, <1>7 DEF Fork, Enter, Suspend, Continue, CheckStopped, Close, Terminate, table
<1>8. CASE UNCHANGED vars
  BY <1>1, <1>8 DEF vars, table
<1> QED
  BY <1>1, <1>2, <1>3, <1>4, <1>5, <1>6, <1>7, <1>8 DEF Next, Main, Rest

\* With nothing made and nobody at work, all of it holds.
LEMMA InitNoted == Init => Noted /\ Kept
  BY SizesAssumption DEF Init, Noted, Kept, WorksAt, Null

\* With a worker there is only the problem whose number the table has, and a pointer that the
\* table keeps for the current problem's number is to it, wherever in memory that problem lies
\* and whatever lay there before (master.c:240-241, problem.c:110-148).
THEOREM NotedInductive ==
  ASSUME Kind = "miner", RealTime
  PROVE  Spec => [](Noted /\ Kept)
<1>1. Typed /\ Accounts /\ Table /\ Noted /\ Kept /\ [Next]_vars => Noted' /\ Kept'
  BY NotedStep, KeptStep
<1> QED
  BY <1>1, InitNoted, TypedInductive, AccountsInductive, TableInductive, PTL DEF Spec

\* An answer is taken off a pipe by the master alone, from the worker whose turn it is.
LEMMA TakenIsRead ==
  ASSUME Typed, [Next]_vars, NEW w \in Workers, Taken(w)
  PROVE  ReadResult /\ w = i
<1>1. toMaster \in [Workers -> Seq(Results)] /\ toMaster[w] # <<>> /\ i \in Workers
  BY DEF Taken, Typed, TypeOK
<1>2. Len(toMaster'[w]) < Len(toMaster[w])
  BY <1>1 DEF Taken
<1>3. ASSUME NEW v \in Workers, Answers(v) PROVE FALSE
  <2>1. toMaster'[w] \in {toMaster[w], Append(toMaster[w], Answer(v))}
    BY <1>1, <1>3 DEF Answers
  <2> QED
    BY <1>1, <1>2, <2>1
<1>4. toMaster' # toMaster
  BY <1>1, <1>2
<1>5. ReadResult
  BY <1>3, <1>4 DEF Next, Worker, Ready, Stops, Wakes, Reads, ReadsNothing, AnswersNobody, Dies, Hup,
     Term, Handler, HandlerEnters, HandlerReturns, Reap, Main, Fork, Enter, Suspend, NextProblem,
     Assign, Continue, CheckStopped, Close, Terminate, Rest, vars, pipes
<1>6. w # i => toMaster'[w] = toMaster[w]
  BY <1>1, <1>5 DEF ReadResult
<1> QED
  BY <1>1, <1>2, <1>5, <1>6

\* A right answer clears the problem and no other does, since the pointer kept for the worker
\* is to the current problem if its number is the current one's.
LEMMA RightlyJudged ==
  ASSUME Kind = "miner", Typed, Noted, Kept, [Next]_vars, NEW w \in Workers, Taken(w)
  PROVE  Judged(Head(toMaster[w]))
<1> DEFINE r == Head(toMaster[w])
           c == currently_solving[w]
<1>1. ReadResult /\ w = i
  BY TakenIsRead
<1>2. /\ toMaster[w] \in Seq(Results) /\ toMaster[w] # <<>>
      /\ r = toMaster[w][1] /\ 1 \in DOMAIN toMaster[w] /\ r \in Results
  BY DEF Taken, Typed, TypeOK
<1>3. problem_id[w] = r.problem
  <2>1. r.problem \in Problems /\ WorksAt(w, r.problem)
    BY <1>2 DEF Results, WorksAt
  <2> QED
    BY <2>1 DEF Noted
<1>4. CASE r.failed
  BY <1>1, <1>4 DEF ReadResult, Solves, Judged
<1>5. CASE ~r.failed
  <2>1. Post(r.problem, c)
    BY <1>1, <1>5 DEF ReadResult
  <2> HIDE DEF r, c
  <2>2. CASE Solves(r)
    <3>1. c = current /\ chunk[c] = r.problem /\ chunk[c] # Null
      BY <1>3, <2>2 DEF Solves, Kept, Typed, Shape, c
    <3> QED
      BY <2>1, <2>2, <3>1 DEF Post, Fits, Judged, r
  <2>3. CASE ~Solves(r)
    <3>1. c \in Problems
      BY <1>2 DEF Typed, TypeOK, Shape, c
    <3>2. ~(Fits(r.problem, c) /\ current = c)
      BY <1>5, <2>3, <3>1 DEF Fits, Solves, Problems, Null
    <3> QED
      BY <2>1, <2>3, <3>2 DEF Post, Judged, r
  <2> QED
    BY <2>2, <2>3
<1> QED
  BY <1>4, <1>5

\* The right workers are canceled, since the number in the table is that of the worker's problem.
LEMMA RightlyFreed ==
  ASSUME Typed, Table, Noted, [Next]_vars, NEW w \in Workers, Taken(w),
         ~Head(toMaster[w]).failed, mpc' # "sigsegv"
  PROVE  Freed(w, Head(toMaster[w]))
<1> DEFINE r == Head(toMaster[w])
<1> SUFFICES ASSUME NEW v \in Workers \ {w}, NEW p \in Problems, WorksAt(v, p)
             PROVE  IF p = r.problem THEN "HUP" \in pending'[v] ELSE UNCHANGED pending[v]
  BY DEF Freed
<1>1. ReadResult /\ w = i
  BY TakenIsRead
<1>2. r = toMaster[w][1] /\ 1 \in DOMAIN toMaster[w]
  BY DEF Taken, Typed, TypeOK
<1>3. r.id = r.problem /\ problem_id[v] = p
  BY <1>2 DEF Noted
<1>4. Kill(Canceled(r.id), "HUP")
  BY <1>1 DEF ReadResult
<1> HIDE DEF r
<1>5. wpc[v] # "dead"
  BY <1>1 DEF ReadResult, At, Table, Placed, InTable, Situation, Starting, Idle, Given, Working, Ended,
     Reported, Is
<1>6. v \in Canceled(r.id) <=> p = r.problem
  BY <1>1, <1>3 DEF Canceled
<1> QED
  BY <1>4, <1>5, <1>6 DEF Kill, r

\* AnswersCount of polya_miner, for any number of workers and problems: a right answer in time
\* clears the problem and is not judged by freed memory, no other answer clears one, and with a
\* solution whoever works at the solved problem, and nobody who works at another, is told to
\* give up (master.c:288-308, problem.c:138-155).
THEOREM AnswersDoCount ==
  ASSUME Kind = "miner", RealTime
  PROVE  Spec => AnswersCount
<1>1. Typed /\ Table /\ Noted /\ Kept /\ [Next]_vars =>
        [\A w \in Workers : Taken(w) =>
           LET r == Head(toMaster[w]) IN
           Judged(r) /\ (r.failed \/ mpc' = "sigsegv" \/ Freed(w, r))]_vars
  BY RightlyJudged, RightlyFreed
<1> QED
  BY <1>1, TypedInductive, TableInductive, NotedInductive, PTL DEF Spec, AnswersCount

=============================================================================
