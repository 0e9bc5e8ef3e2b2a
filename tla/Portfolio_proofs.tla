-------------------------- MODULE Portfolio_proofs --------------------------
(***************************************************************************)
(* Proofs about the process pool of the portfolio, for every number of     *)
(* jobs, every limit on the running ones and every choice of timed jobs,   *)
(* outcomes, amounts of output and process identifiers.                    *)
(***************************************************************************)
EXTENDS Portfolio, FiniteSetTheorems, TLAPS

(* The entries of the process table. *)
End == {ExitedSolved, ExitedUnsolved, Signalled}
Worker == [kind : {"worker"}, job : Job,
           st : {"solve", "diverge", "write", "dying"} \cup End]
Timer == [kind : {"timer"}, job : Job, target : Pid,
          st : {"sleep", "fired", "dying", ExitedSolved, Signalled}]
Process == Worker \cup Timer \cup {Free}

(* The types that TypeOK leaves open. *)
Types ==
    /\ TypeOK
    /\ job \in [Job -> [state : {"PENDING", "RUNNING", "DONE"},
                        worker : Pid \cup {NoPid}, timeout : Pid \cup {NoPid}]]
    /\ proc \in [Pid -> Process]
    /\ nature \in [Job -> Nature \cup {Unknown}]
    /\ verdict \in [Job -> {"none"} \cup End]

(* Whose process is whose: a running job has its worker, a worker its      *)
(* running job, and a timer the job it was started for; a timer of a done  *)
(* job has been killed.                                                    *)
Owners ==
    /\ \A j \in Job : job[j].state = "RUNNING" =>
          /\ job[j].worker \in Pid
          /\ proc[job[j].worker].kind = "worker" /\ proc[job[j].worker].job = j
    /\ \A p \in Pid : proc[p].kind = "worker" =>
          job[proc[p].job].state = "RUNNING" /\ job[proc[p].job].worker = p
    /\ \A p \in Pid : proc[p].kind = "timer" =>
          job[proc[p].job].state # "PENDING" /\ job[proc[p].job].timeout = p
    /\ NoTimerLeft

(* How far the pool has come. *)
Counters ==
    /\ \A j \in Job : job[j].state = "PENDING" <=> d_nextJob <= j
    /\ d_running = Cardinality(RunningJobs) /\ d_running <= d_maxJobs

(* What is known of the ends of the workers: a worker that has terminated  *)
(* and is not yet reaped has its exit status, no other worker has one, and *)
(* one that exits as solved has written all of its output.                 *)
Verdicts ==
    /\ \A p \in Pid : proc[p].kind = "worker" =>
          verdict[proc[p].job] = IF proc[p].st \in End THEN proc[p].st ELSE "none"
    /\ \A j \in Job : job[j].state = "PENDING" => verdict[j] = "none"
    /\ \A j \in Job : verdict[j] = ExitedSolved =>
          nature[j].outcome = "solved" /\ written[j] = nature[j].out

(* What the place of the parent in run() tells about the jobs. *)
Control ==
    /\ pc = "start" => d_nextJob <= NumJobs /\ d_running < d_maxJobs
    /\ pc \in {"lastpoll", "failed"} => \A j \in Job : job[j].state = "DONE"
    /\ IF pc \in {"flush", "solved"}
       THEN job[at].state = "DONE" /\ verdict[at] = ExitedSolved
       ELSE \A j \in Job : job[j].state = "DONE" =>
                              verdict[j] \in {ExitedUnsolved, Signalled}
    /\ IF pc = "solved" THEN stdout = <<<<at, nature[at].out>>>>
       ELSE stdout = <<>> /\ pipe = written

(* The inductive invariant. *)
IInv == Types /\ Owners /\ Counters /\ Verdicts /\ Control

-----------------------------------------------------------------------------
(* The process table. *)

(* Entries of the table: what distinguishes a worker from a timer.         *)
LEMMA Entries ==
    ASSUME NEW e \in Process
    PROVE  /\ e.kind \in {"worker", "timer", "none"}
           /\ e.kind = "worker" <=> e \in Worker
           /\ e.kind = "timer" <=> e \in Timer
           /\ e.kind = "none" <=> e = Free
           /\ e.st \in {"solve", "diverge", "write"} => e \in Worker
           /\ e.st \in {"sleep", "fired"} => e \in Timer
           /\ e.st \in Alive \cup End \cup {"dying"} => e \in Worker \cup Timer
           /\ e \in Worker => e.job \in Job
           /\ e \in Timer => e.job \in Job /\ e.target \in Pid
  BY DEF Process, Worker, Timer, Free, End, Alive, ExitedSolved, ExitedUnsolved, Signalled

(* A process goes on to another state.                                     *)
LEMMA Relabel ==
    ASSUME NEW table \in [Pid -> Process], NEW p \in Pid, NEW s,
           \/ table[p] \in Worker /\ s \in {"solve", "diverge", "write", "dying"} \cup End
           \/ table[p] \in Timer /\ s \in {"sleep", "fired", "dying", ExitedSolved, Signalled}
    PROVE  LET new == [table EXCEPT ![p].st = s] IN
           /\ new \in [Pid -> Process]
           /\ new[p].st = s
           /\ \A q \in Pid : new[q].kind = table[q].kind /\ new[q].job = table[q].job
           /\ \A q \in Pid \ {p} : new[q] = table[q]
  <1> DEFINE new == [table EXCEPT ![p].st = s]
  <1>1. new[p] = [table[p] EXCEPT !.st = s] /\ \A q \in Pid \ {p} : new[q] = table[q]
    OBVIOUS
  <1>2. CASE table[p] \in Worker
    <2>1. new[p] \in Worker /\ new[p].kind = table[p].kind /\ new[p].job = table[p].job
          /\ new[p].st = s
      BY <1>1, <1>2 DEF Worker, Timer, End, ExitedSolved, ExitedUnsolved, Signalled
    <2> QED BY <1>1, <2>1 DEF Process
  <1>3. CASE table[p] \in Timer
    <2>1. new[p] \in Timer /\ new[p].kind = table[p].kind /\ new[p].job = table[p].job
          /\ new[p].st = s
      BY <1>1, <1>3 DEF Worker, Timer, End, ExitedSolved, ExitedUnsolved, Signalled
    <2> QED BY <1>1, <2>1 DEF Process
  <1> QED BY <1>2, <1>3

(* NoPid is no identifier of a process.                                    *)
LEMMA Identifiers == \A p \in Pid : p \in Nat /\ p > 0 /\ p # NoPid
  <1> SUFFICES ASSUME NEW p \in Pid PROVE p \in Nat /\ p > 0 /\ p # NoPid
    OBVIOUS
  <1>1. p \in Nat \ {0}
    BY PoolAssumption
  <1> QED BY <1>1 DEF NoPid

(* What kill() can do to the table.                                        *)
LEMMA KillTable ==
    ASSUME NEW table \in [Pid -> Process], NEW p \in Pid
    PROVE  /\ Kill(table, p) \in [Pid -> Process]
           /\ \A q \in Pid : /\ Kill(table, p)[q].kind = table[q].kind
                             /\ Kill(table, p)[q].job = table[q].job
           /\ \A q \in Pid : \/ Kill(table, p)[q].st = table[q].st
                             \/ /\ table[q].st \in Alive
                                /\ Kill(table, p)[q].st = "dying"
           /\ Kill(table, p)[p].st # "sleep"
  <1>1. CASE table[p].st \in Alive
    <2>1. Kill(table, p) = [table EXCEPT ![p].st = "dying"]
      BY <1>1 DEF Kill
    <2>2. table[p] \in Process
      OBVIOUS
    <2>3. table[p] \in Worker \/ table[p] \in Timer
      BY <1>1, <2>2, Entries
    <2> DEFINE new == [table EXCEPT ![p].st = "dying"]
    <2>4. /\ new \in [Pid -> Process]
          /\ new[p].st = "dying"
          /\ \A q \in Pid : new[q].kind = table[q].kind /\ new[q].job = table[q].job
          /\ \A q \in Pid \ {p} : new[q] = table[q]
      BY <2>3, Relabel
    <2> HIDE DEF new
    <2>5. Kill(table, p) = new
      BY <2>1 DEF new
    <2> QED BY <1>1, <2>4, <2>5
  <1>2. CASE table[p].st \notin Alive
    BY <1>2 DEF Kill, Alive
  <1> QED BY <1>1, <1>2

(* Where the loops of run() go on, with the values of d_nextJob and        *)
(* d_running.                                                              *)
LEMMA Loops ==
    ASSUME NEW next \in Nat, NEW running \in Nat
    PROVE  /\ OuterLoop(next, running) \in {"poll", "lastpoll"}
           /\ InnerLoop(next, running) \in {"poll", "lastpoll", "start", "wait"}
           /\ InnerLoop(next, running) = "start" => next <= NumJobs /\ running < d_maxJobs
           /\ OuterLoop(next, running) = "lastpoll" => next > NumJobs /\ running = 0
           /\ InnerLoop(next, running) = "lastpoll" => next > NumJobs /\ running = 0
  BY PoolAssumption DEF OuterLoop, InnerLoop

(* The number of running jobs when one is started or ends.                 *)
LEMMA Count ==
    /\ IsFiniteSet(Job) /\ IsFiniteSet(RunningJobs) /\ Cardinality(RunningJobs) \in Nat
    /\ Cardinality(RunningJobs) = 0 <=> RunningJobs = {}
    /\ \A j : j \notin RunningJobs =>
                Cardinality(RunningJobs \cup {j}) = Cardinality(RunningJobs) + 1
    /\ \A j : j \in RunningJobs =>
                Cardinality(RunningJobs \ {j}) = Cardinality(RunningJobs) - 1
  <1>1. IsFiniteSet(Job)
    BY PoolAssumption, FS_Interval DEF Job
  <1>2. IsFiniteSet(RunningJobs)
    BY <1>1, FS_Subset DEF RunningJobs
  <1> QED BY <1>1, <1>2, FS_EmptySet, FS_AddElement, FS_RemoveElement, FS_CardinalityType

-----------------------------------------------------------------------------
(* The pool as it is constructed. *)
LEMMA InitIInv == Init => IInv
  <1> SUFFICES ASSUME Init PROVE IInv
    OBVIOUS
  <1> USE PoolAssumption DEF Init
  <1>1. 1 \in Job /\ NoPid \notin Pid /\ RunningJobs = {}
    BY DEF Job, NoPid, RunningJobs
  <1>2. Free \in Process
    BY DEF Process
  <1>3. TypeOK
    BY <1>1 DEF TypeOK, Free, Job
  <1>4. Types
    BY <1>1, <1>2, <1>3 DEF Types
  <1>5. Owners
    BY DEF Owners, NoTimerLeft, Free
  <1>6. Counters
    BY <1>1, Count, FS_EmptySet DEF Counters, Job
  <1>7. Verdicts
    BY DEF Verdicts, Free, ExitedSolved
  <1>8. Control
    BY DEF Control
  <1> QED BY <1>4, <1>5, <1>6, <1>7, <1>8 DEF IInv

-----------------------------------------------------------------------------
(* The steps of the workers and timers. *)

(* What such a step must be like to keep the invariant: it changes no      *)
(* process but in its state, puts none to sleep, and tells nothing new of  *)
(* a job that is done.                                                     *)
LEMMA ProcessKeeps ==
    ASSUME IInv, UNCHANGED <<pool, pc, at, stdout>>,
           Types', Verdicts',
           \A q \in Pid : /\ proc'[q].kind = proc[q].kind /\ proc'[q].job = proc[q].job
                          /\ proc'[q].st = "sleep" => proc[q].st = "sleep",
           \A j \in Job : job[j].state = "DONE" =>
                              verdict'[j] = verdict[j] /\ nature'[j] = nature[j],
           pipe = written => pipe' = written'
    PROVE  IInv'
  <1>1. UNCHANGED <<job, d_nextJob, d_running>>
    BY DEF pool
  <1>2. Owners'
    <2>1. ASSUME NEW j \in Job, job'[j].state = "RUNNING"
          PROVE  /\ job'[j].worker \in Pid
                 /\ proc'[job'[j].worker].kind = "worker" /\ proc'[job'[j].worker].job = j
      <3>1. /\ job[j].state = "RUNNING" => job[j].worker \in Pid
            /\ job[j].state = "RUNNING" =>
                  proc[job[j].worker].kind = "worker" /\ proc[job[j].worker].job = j
        BY DEF IInv, Owners
      <3> QED BY <1>1, <2>1, <3>1
    <2>2. ASSUME NEW p \in Pid
          PROVE  /\ proc'[p].kind = "worker" =>
                       job'[proc'[p].job].state = "RUNNING" /\ job'[proc'[p].job].worker = p
                 /\ proc'[p].kind = "timer" =>
                       job'[proc'[p].job].state # "PENDING" /\ job'[proc'[p].job].timeout = p
                 /\ proc'[p].kind = "timer" /\ proc'[p].st = "sleep" =>
                       job'[proc'[p].job].state = "RUNNING"
      <3>1. /\ proc[p].kind = "worker" =>
                  job[proc[p].job].state = "RUNNING" /\ job[proc[p].job].worker = p
            /\ proc[p].kind = "timer" =>
                  job[proc[p].job].state # "PENDING" /\ job[proc[p].job].timeout = p
            /\ proc[p].kind = "timer" /\ proc[p].st = "sleep" =>
                  job[proc[p].job].state = "RUNNING"
        BY DEF IInv, Owners, NoTimerLeft
      <3>2. /\ job' = job /\ proc'[p].kind = proc[p].kind /\ proc'[p].job = proc[p].job
            /\ proc'[p].st = "sleep" => proc[p].st = "sleep"
        BY <1>1
      <3> QED BY <3>1, <3>2
    <2> QED BY <2>1, <2>2 DEF Owners, NoTimerLeft
  <1>3. Counters'
    BY <1>1 DEF IInv, Counters, RunningJobs
  <1>4. Control'
    <2>1. at \in Job
      BY DEF IInv, Types, TypeOK
    <2> QED BY <1>1, <2>1 DEF IInv, Control
  <1> QED BY <1>2, <1>3, <1>4 DEF IInv

(* A worker p has a running job, no other worker has the same one, and no  *)
(* verdict is known while it has not terminated.                           *)
LEMMA WorkerJob ==
    ASSUME IInv, NEW p \in Pid, proc[p].kind = "worker"
    PROVE  /\ proc[p].job \in Job /\ job[proc[p].job].state = "RUNNING"
           /\ \A q \in Pid \ {p} : proc[q].kind = "worker" => proc[q].job # proc[p].job
           /\ proc[p].st \notin End => verdict[proc[p].job] = "none"
  <1>1. proc[p] \in Worker
    BY Entries DEF IInv, Types
  <1>2. proc[p].job \in Job
    BY <1>1 DEF Worker
  <1> QED BY <1>2 DEF IInv, Owners, Verdicts

(* A process terminates.                                                   *)
LEMMA TerminateIInv ==
    ASSUME IInv, UNCHANGED <<pool, pc, at, stdout, pipe, written>>,
           NEW p \in Pid, NEW s \in End, Terminate(p, s),
           proc[p].kind = "worker" \/ (proc[p].kind = "timer" /\ s # ExitedUnsolved),
           proc[p].st \notin End, nature' \in [Job -> Nature \cup {Unknown}],
           \A j \in Job : proc[p].kind # "worker" \/ j # proc[p].job => nature'[j] = nature[j],
           s = ExitedSolved /\ proc[p].kind = "worker" =>
              /\ nature'[proc[p].job].outcome = "solved"
              /\ written[proc[p].job] = nature'[proc[p].job].out
    PROVE  IInv'
  <1> DEFINE k == proc[p].job
  <1>0. proc \in [Pid -> Process] /\ verdict \in [Job -> {"none"} \cup End]
    BY DEF IInv, Types
  <1>1. /\ proc' \in [Pid -> Process] /\ proc'[p].st = s
        /\ \A q \in Pid : proc'[q].kind = proc[q].kind /\ proc'[q].job = proc[q].job
        /\ \A q \in Pid \ {p} : proc'[q] = proc[q]
    <2>1. proc' = [proc EXCEPT ![p].st = s]
      BY DEF Terminate
    <2>2. proc[p] \in Process
      BY <1>0
    <2>3. \/ proc[p] \in Worker
          \/ proc[p] \in Timer /\ s \in {ExitedSolved, Signalled}
      BY <2>2, Entries DEF End
    <2> QED BY <1>0, <2>1, <2>3, Relabel
  <1>2. /\ verdict' \in [Job -> {"none"} \cup End]
        /\ \A j \in Job : verdict'[j] = IF proc[p].kind = "worker" /\ j = k
                                         THEN s ELSE verdict[j]
    BY <1>0 DEF Terminate
  <1>3. Types'
    <2>1. writers' \in [Job -> SUBSET (Pid \cup {Parent})]
      BY DEF Terminate, ClosedBy, IInv, Types, TypeOK
    <2>2. TypeOK'
      <3>1. \A q \in Pid : proc'[q].kind \in {"none", "worker", "timer"}
        BY <1>1 DEF IInv, Types, TypeOK
      <3> QED BY <2>1, <3>1 DEF IInv, Types, TypeOK, pool
    <2> QED BY <1>1, <1>2, <2>2 DEF IInv, Types, pool
  <1>4. Verdicts'
    <2>1. ASSUME NEW q \in Pid, proc'[q].kind = "worker"
          PROVE  verdict'[proc'[q].job] = IF proc'[q].st \in End THEN proc'[q].st ELSE "none"
      <3>1. proc[q].kind = "worker" /\ proc'[q].job = proc[q].job /\ proc[q].job \in Job
        BY <1>1, <2>1, WorkerJob
      <3>2. CASE q = p
        BY <1>1, <1>2, <3>1, <3>2
      <3>3. CASE q # p
        <4>1. proc[p].kind = "worker" => proc[q].job # k
          BY <3>1, <3>3, WorkerJob
        <4>2. verdict'[proc[q].job] = verdict[proc[q].job]
          BY <1>2, <3>1, <4>1
        <4> QED BY <1>1, <3>1, <3>3, <4>2 DEF IInv, Verdicts
      <3> QED BY <3>2, <3>3
    <2>2. ASSUME NEW j \in Job, job'[j].state = "PENDING"
          PROVE  verdict'[j] = "none"
      <3>1. proc[p].kind = "worker" => j # k
        BY <2>2, WorkerJob DEF pool
      <3> QED BY <1>2, <2>2, <3>1 DEF IInv, Verdicts, pool
    <2>3. ASSUME NEW j \in Job, verdict'[j] = ExitedSolved
          PROVE  nature'[j].outcome = "solved" /\ written'[j] = nature'[j].out
      BY <1>2, <2>3 DEF IInv, Verdicts
    <2> QED BY <2>1, <2>2, <2>3 DEF Verdicts
  <1>5. \A j \in Job : job[j].state = "DONE" =>
                          verdict'[j] = verdict[j] /\ nature'[j] = nature[j]
    BY <1>2, WorkerJob
  <1>6. \A q \in Pid : proc'[q].st = "sleep" => proc[q].st = "sleep"
    BY <1>1 DEF End, ExitedSolved, ExitedUnsolved, Signalled
  <1> QED BY <1>1, <1>3, <1>4, <1>5, <1>6, ProcessKeeps

(* A process of which only the state is known to change, and which does    *)
(* not terminate.                                                          *)
LEMMA GoesOn ==
    ASSUME IInv, UNCHANGED <<pool, pc, at, stdout, writers, verdict>>,
           proc' \in [Pid -> Process],
           \A q \in Pid : /\ proc'[q].kind = proc[q].kind /\ proc'[q].job = proc[q].job
                          /\ proc'[q].st = "sleep" => proc[q].st = "sleep"
                          /\ \/ proc'[q].st = proc[q].st
                             \/ proc'[q].st \notin End /\ proc[q].st \notin End,
           nature' \in [Job -> Nature \cup {Unknown}],
           pipe' \in [Job -> 0 .. Capacity], written' \in [Job -> 0 .. MaxOut],
           \A j \in Job : \/ nature'[j] = nature[j] /\ written'[j] = written[j]
                          \/ job[j].state = "RUNNING" /\ verdict[j] = "none",
           pipe = written => pipe' = written'
    PROVE  IInv'
  <1>1. Types'
    <2>1. TypeOK'
      <3>1. \A q \in Pid : proc'[q].kind \in {"none", "worker", "timer"}
        BY DEF IInv, Types, TypeOK
      <3> QED BY <3>1 DEF IInv, Types, TypeOK, pool
    <2> QED BY <2>1 DEF IInv, Types, pool
  <1>2. Verdicts'
    <2>1. ASSUME NEW q \in Pid, proc'[q].kind = "worker"
          PROVE  verdict'[proc'[q].job] = IF proc'[q].st \in End THEN proc'[q].st ELSE "none"
      BY <2>1 DEF IInv, Verdicts
    <2>2. ASSUME NEW j \in Job, verdict'[j] = ExitedSolved
          PROVE  nature'[j].outcome = "solved" /\ written'[j] = nature'[j].out
      BY <2>2 DEF IInv, Verdicts, ExitedSolved
    <2> QED BY <2>1, <2>2 DEF IInv, Verdicts, pool
  <1>3. \A j \in Job : job[j].state = "DONE" =>
                          verdict'[j] = verdict[j] /\ nature'[j] = nature[j]
    OBVIOUS
  <1> QED BY <1>1, <1>2, <1>3, ProcessKeeps

LEMMA ProcessStepIInv ==
    ASSUME IInv, NEW p \in Pid, ProcessStep(p)
    PROVE  IInv'
  <1> USE DEF ExitedSolved, ExitedUnsolved, Signalled, End
  <1>0. /\ proc \in [Pid -> Process] /\ proc[p] \in Process
        /\ nature \in [Job -> Nature \cup {Unknown}]
        /\ pipe \in [Job -> 0 .. Capacity] /\ written \in [Job -> 0 .. MaxOut]
        /\ Capacity \in Nat /\ MaxOut \in Nat
    BY PoolAssumption DEF IInv, Types, TypeOK
  <1>1. CASE WorkerSolve(p)
    <2>1. proc[p].kind = "worker" /\ proc[p] \in Worker /\ proc[p].st = "solve"
      BY <1>0, <1>1, Entries DEF WorkerSolve
    <2>2. proc[p].job \in Job /\ job[proc[p].job].state = "RUNNING"
          /\ verdict[proc[p].job] = "none"
      BY <2>1, WorkerJob
    <2>3. PICK n \in Nature :
             /\ nature' = [nature EXCEPT ![proc[p].job] = n]
             /\ CASE n.outcome = "crash" -> Terminate(p, Signalled)
                  [] n.outcome = "diverge" ->
                        /\ proc' = [proc EXCEPT ![p].st = "diverge"]
                        /\ UNCHANGED <<writers, verdict>>
                  [] OTHER ->
                        /\ proc' = [proc EXCEPT ![p].st = "write"]
                        /\ UNCHANGED <<writers, verdict>>
      BY <1>1 DEF WorkerSolve
    <2>4. /\ nature' \in [Job -> Nature \cup {Unknown}]
          /\ \A j \in Job : j # proc[p].job => nature'[j] = nature[j]
      BY <1>0, <2>3
    <2>5. UNCHANGED <<pool, pc, at, used, pipe, written, stdout>>
      BY <1>1 DEF WorkerSolve
    <2>6. CASE Terminate(p, Signalled)
      BY <2>1, <2>2, <2>4, <2>5, <2>6, TerminateIInv
    <2>7. ASSUME NEW s \in {"diverge", "write"}, proc' = [proc EXCEPT ![p].st = s],
                 UNCHANGED <<writers, verdict>>
          PROVE  IInv'
      <3>1. /\ proc' \in [Pid -> Process] /\ proc'[p].st = s
            /\ \A q \in Pid : proc'[q].kind = proc[q].kind /\ proc'[q].job = proc[q].job
            /\ \A q \in Pid \ {p} : proc'[q] = proc[q]
        BY <1>0, <2>1, <2>7, Relabel
      <3>2. \A q \in Pid : /\ proc'[q].kind = proc[q].kind /\ proc'[q].job = proc[q].job
                           /\ proc'[q].st = "sleep" => proc[q].st = "sleep"
                           /\ \/ proc'[q].st = proc[q].st
                              \/ proc'[q].st \notin End /\ proc[q].st \notin End
        BY <2>1, <3>1
      <3>3. \A j \in Job : \/ nature'[j] = nature[j] /\ written'[j] = written[j]
                           \/ job[j].state = "RUNNING" /\ verdict[j] = "none"
        BY <2>2, <2>4, <2>5
      <3> QED BY <1>0, <2>4, <2>5, <2>7, <3>1, <3>2, <3>3, GoesOn
    <2> QED BY <2>3, <2>6, <2>7
  <1>2. CASE WorkerDiverge(p)
    BY <1>2 DEF WorkerDiverge, vars, pool, output, IInv, Types, TypeOK, Owners,
                NoTimerLeft, Counters, RunningJobs, Verdicts, Control
  <1>3. CASE WorkerWrite(p)
    <2> DEFINE j == proc[p].job
    <2>1. proc[p].kind = "worker" /\ proc[p].st = "write"
      BY <1>0, <1>3, Entries DEF WorkerWrite
    <2>2. j \in Job /\ job[j].state = "RUNNING" /\ verdict[j] = "none"
      BY <2>1, WorkerJob
    <2> HIDE DEF j
    <2>3. /\ written[j] < nature[j].out /\ pipe[j] < Capacity
          /\ pipe' = [pipe EXCEPT ![j] = @ + 1]
          /\ written' = [written EXCEPT ![j] = @ + 1]
          /\ UNCHANGED <<pool, pc, at, proc, used, writers, nature, verdict, stdout>>
      BY <1>3 DEF WorkerWrite, j
    <2>4. nature[j].out \in 0 .. MaxOut
      <3>1. nature[j] \in Nature \cup {Unknown}
        BY <1>0, <2>2
      <3> QED BY <1>0, <3>1 DEF Nature, Unknown
    <2>5. pipe' \in [Job -> 0 .. Capacity] /\ written' \in [Job -> 0 .. MaxOut]
      BY <1>0, <2>2, <2>3, <2>4
    <2>6. pipe = written => pipe' = written'
      BY <2>3
    <2>7. \A i \in Job : \/ nature'[i] = nature[i] /\ written'[i] = written[i]
                         \/ job[i].state = "RUNNING" /\ verdict[i] = "none"
      BY <1>0, <2>2, <2>3
    <2> QED BY <1>0, <2>3, <2>5, <2>6, <2>7, GoesOn
  <1>4. CASE WorkerExit(p)
    <2> DEFINE j == proc[p].job
               s == IF nature[j].outcome = "solved" THEN ExitedSolved ELSE ExitedUnsolved
    <2>1. proc[p].kind = "worker" /\ proc[p].st = "write"
      BY <1>0, <1>4, Entries DEF WorkerExit
    <2>2. /\ Terminate(p, s) /\ written[j] = nature[j].out
          /\ UNCHANGED <<pool, pc, at, used, pipe, written, nature, stdout>>
      BY <1>4 DEF WorkerExit
    <2>3. s \in End /\ (s = ExitedSolved => nature[j].outcome = "solved")
      OBVIOUS
    <2> HIDE DEF s
    <2> QED BY <1>0, <2>1, <2>2, <2>3, TerminateIInv
  <1>5. CASE TimerFire(p)
    <2>1. /\ proc[p] \in Timer /\ proc[p].st = "sleep"
          /\ proc[p].target \in Pid
      BY <1>0, <1>5, Entries DEF TimerFire
    <2> DEFINE t == [proc EXCEPT ![p].st = "fired"]
    <2>2. /\ t \in [Pid -> Process] /\ t[p].st = "fired"
          /\ \A q \in Pid : t[q].kind = proc[q].kind /\ t[q].job = proc[q].job
          /\ \A q \in Pid \ {p} : t[q] = proc[q]
      BY <1>0, <2>1, Relabel
    <2> HIDE DEF t
    <2>3. /\ proc' = Kill(t, proc[p].target)
          /\ UNCHANGED <<pool, pc, at, used, output, nature, verdict, stdout>>
      BY <1>5 DEF TimerFire, t
    <2>4. /\ proc' \in [Pid -> Process]
          /\ \A q \in Pid : /\ proc'[q].kind = t[q].kind /\ proc'[q].job = t[q].job
                            /\ \/ proc'[q].st = t[q].st
                               \/ t[q].st \in Alive /\ proc'[q].st = "dying"
      BY <2>1, <2>2, <2>3, KillTable
    <2>5. \A q \in Pid : /\ proc'[q].kind = proc[q].kind /\ proc'[q].job = proc[q].job
                         /\ proc'[q].st = "sleep" => proc[q].st = "sleep"
                         /\ \/ proc'[q].st = proc[q].st
                            \/ proc'[q].st \notin End /\ proc[q].st \notin End
      <3> SUFFICES ASSUME NEW q \in Pid
                   PROVE  /\ proc'[q].kind = proc[q].kind /\ proc'[q].job = proc[q].job
                          /\ proc'[q].st = "sleep" => proc[q].st = "sleep"
                          /\ \/ proc'[q].st = proc[q].st
                             \/ proc'[q].st \notin End /\ proc[q].st \notin End
        OBVIOUS
      <3>1. CASE q = p
        BY <2>1, <2>2, <2>4, <3>1
      <3>2. CASE q # p
        BY <2>2, <2>4, <3>2 DEF Alive
      <3> QED BY <3>1, <3>2
    <2> QED BY <1>0, <2>3, <2>4, <2>5, GoesOn DEF output
  <1>6. CASE TimerExit(p)
    <2>1. proc[p].kind = "timer" /\ proc[p].st = "fired"
      BY <1>0, <1>6, Entries DEF TimerExit
    <2> QED BY <1>0, <1>6, <2>1, TerminateIInv DEF TimerExit
  <1>7. CASE Die(p)
    <2>1. proc[p].st = "dying" /\ proc[p].kind \in {"worker", "timer"}
      BY <1>0, <1>7, Entries DEF Die
    <2> QED BY <1>0, <1>7, <2>1, TerminateIInv DEF Die
  <1> QED BY <1>1, <1>2, <1>3, <1>4, <1>5, <1>6, <1>7 DEF ProcessStep

-----------------------------------------------------------------------------
(* The steps of the parent. *)

(* checkResults for a job whose worker has terminated: the worker is gone, *)
(* the timer is killed and the job is counted as done.                     *)
LEMMA ReapJob ==
    ASSUME IInv, NEW j \in Job, job[j].state = "RUNNING", Terminated(job[j].worker),
           Analyse(j, [proc EXCEPT ![job[j].worker] = Free]),
           UNCHANGED <<used, output, nature, verdict, stdout>>
    PROVE  /\ Owners' /\ Counters' /\ Verdicts'
           /\ job' \in [Job -> [state : {"PENDING", "RUNNING", "DONE"},
                                worker : Pid \cup {NoPid}, timeout : Pid \cup {NoPid}]]
           /\ proc' \in [Pid -> Process]
           /\ d_nextJob' = d_nextJob /\ d_running' = d_running - 1 /\ d_running' \in Nat
           /\ job'[j].state = "DONE" /\ verdict[j] = proc[job[j].worker].st
           /\ \A i \in Job \ {j} : job'[i] = job[i]
  <1> DEFINE w == job[j].worker
             table == [proc EXCEPT ![w] = Free]
  <1>1. /\ w \in Pid /\ proc[w].kind = "worker" /\ proc[w].job = j
        /\ proc \in [Pid -> Process] /\ job[j].timeout \in Pid \cup {NoPid}
        /\ d_running \in Nat
    BY DEF IInv, Owners, Types, TypeOK
  <1>2. table \in [Pid -> Process] /\ table[w] = Free
        /\ \A q \in Pid \ {w} : table[q] = proc[q]
    BY <1>1 DEF Process
  <1>3. /\ job' = [job EXCEPT ![j].state = "DONE"]
        /\ d_running' = d_running - 1 /\ d_nextJob' = d_nextJob
        /\ proc' = IF job[j].timeout > 0 THEN Kill(table, job[j].timeout) ELSE table
    BY DEF Analyse
  <1>4. /\ job' \in [Job -> [state : {"PENDING", "RUNNING", "DONE"},
                             worker : Pid \cup {NoPid}, timeout : Pid \cup {NoPid}]]
        /\ job'[j].state = "DONE" /\ job'[j].worker = w /\ job'[j].timeout = job[j].timeout
        /\ \A i \in Job \ {j} : job'[i] = job[i]
    BY <1>3 DEF IInv, Types
  <1> HIDE DEF w, table
  <1>6. /\ proc' \in [Pid -> Process]
        /\ \A q \in Pid : /\ proc'[q].kind = table[q].kind /\ proc'[q].job = table[q].job
                          /\ \/ proc'[q].st = table[q].st
                             \/ table[q].st \in Alive /\ proc'[q].st = "dying"
        /\ job[j].timeout \in Pid => proc'[job[j].timeout].st # "sleep"
    <2>1. CASE job[j].timeout \in Pid
      <3>1. job[j].timeout > 0
        BY <2>1, Identifiers
      <3>2. proc' = Kill(table, job[j].timeout)
        BY <1>3, <3>1
      <3> QED BY <1>2, <2>1, <3>2, KillTable
    <2>2. CASE job[j].timeout \notin Pid
      <3>1. proc' = table
        BY <1>1, <1>3, <2>2 DEF NoPid
      <3> QED BY <1>2, <2>2, <3>1
    <2> QED BY <2>1, <2>2
  <1>7. \A q \in Pid : proc'[q].kind \in {"worker", "timer"} =>
           /\ q # w /\ proc'[q].kind = proc[q].kind /\ proc'[q].job = proc[q].job
           /\ proc'[q].st = "sleep" => proc[q].st = "sleep"
           /\ \/ proc'[q].st = proc[q].st
              \/ proc[q].st \notin End /\ proc'[q].st \notin End
    BY <1>2, <1>6 DEF Free, Alive, End, ExitedSolved, ExitedUnsolved, Signalled
  <1>8. \A q \in Pid : q # w /\ proc[q].kind \in {"worker", "timer"}
                          => proc'[q].kind = proc[q].kind /\ proc'[q].job = proc[q].job
    BY <1>2, <1>6
  <1>9. Owners'
    <2>1. ASSUME NEW i \in Job, job'[i].state = "RUNNING"
          PROVE  /\ job'[i].worker \in Pid
                 /\ proc'[job'[i].worker].kind = "worker" /\ proc'[job'[i].worker].job = i
      <3>1. i # j /\ job'[i] = job[i]
        BY <1>4, <2>1
      <3>2. /\ job[i].worker \in Pid /\ proc[job[i].worker].kind = "worker"
            /\ proc[job[i].worker].job = i
        BY <2>1, <3>1 DEF IInv, Owners
      <3>3. job[i].worker # w
        BY <1>1, <3>1, <3>2
      <3> QED BY <1>8, <3>1, <3>2, <3>3
    <2>2. ASSUME NEW q \in Pid, proc'[q].kind = "worker"
          PROVE  job'[proc'[q].job].state = "RUNNING" /\ job'[proc'[q].job].worker = q
      <3>1. q # w /\ proc[q].kind = "worker" /\ proc'[q].job = proc[q].job
        BY <1>7, <2>2
      <3>2. /\ job[proc[q].job].state = "RUNNING" /\ job[proc[q].job].worker = q
            /\ proc[q].job \in Job
        BY <3>1, WorkerJob DEF IInv, Owners
      <3>3. proc[q].job # j
        BY <3>1, <3>2 DEF w
      <3> QED BY <1>4, <3>1, <3>2, <3>3
    <2>3. ASSUME NEW q \in Pid, proc'[q].kind = "timer"
          PROVE  /\ job'[proc'[q].job].state # "PENDING" /\ job'[proc'[q].job].timeout = q
                 /\ proc'[q].st = "sleep" => job'[proc'[q].job].state = "RUNNING"
      <3>1. /\ proc[q].kind = "timer" /\ proc'[q].job = proc[q].job
            /\ proc'[q].st = "sleep" => proc[q].st = "sleep"
        BY <1>7, <2>3
      <3>2. proc[q].job \in Job
        BY <1>1, <3>1, Entries
      <3>3. /\ job[proc[q].job].state # "PENDING" /\ job[proc[q].job].timeout = q
            /\ proc[q].st = "sleep" => job[proc[q].job].state = "RUNNING"
        BY <3>1 DEF IInv, Owners, NoTimerLeft
      <3>4. CASE proc[q].job = j
        BY <1>4, <1>6, <3>1, <3>3, <3>4
      <3>5. CASE proc[q].job # j
        BY <1>4, <3>1, <3>2, <3>3, <3>5
      <3> QED BY <3>4, <3>5
    <2> QED BY <2>1, <2>2, <2>3 DEF Owners, NoTimerLeft
  <1>10. Counters' /\ d_running' \in Nat
    <2>1. RunningJobs' = RunningJobs \ {j} /\ j \in RunningJobs
      BY <1>4 DEF RunningJobs
    <2>2. /\ d_running = Cardinality(RunningJobs) /\ d_running <= d_maxJobs
          /\ \A i \in Job : job[i].state = "PENDING" <=> d_nextJob <= i
      BY DEF IInv, Counters
    <2>3. /\ Cardinality(RunningJobs) \in Nat
          /\ Cardinality(RunningJobs) # 0
          /\ Cardinality(RunningJobs \ {j}) = Cardinality(RunningJobs) - 1
      BY <2>1, Count
    <2>4. /\ d_running' = Cardinality(RunningJobs') /\ d_running' \in Nat
          /\ d_running' <= d_maxJobs
      BY <1>3, <2>1, <2>2, <2>3, PoolAssumption
    <2>5. \A i \in Job : job'[i].state = "PENDING" <=> d_nextJob' <= i
      BY <1>3, <1>4, <2>2
    <2> QED BY <2>4, <2>5 DEF Counters
  <1>11. Verdicts' /\ verdict[j] = proc[w].st
    <2>1. verdict[j] = proc[w].st
      BY <1>1 DEF IInv, Verdicts, Terminated, End, w
    <2>2. ASSUME NEW q \in Pid, proc'[q].kind = "worker"
          PROVE  verdict'[proc'[q].job] = IF proc'[q].st \in End THEN proc'[q].st ELSE "none"
      BY <1>7, <2>2 DEF IInv, Verdicts
    <2>3. \A i \in Job : job'[i].state = "PENDING" => job[i].state = "PENDING"
      BY <1>4
    <2>4. UNCHANGED <<verdict, nature, written>>
      BY DEF output
    <2> QED BY <2>1, <2>2, <2>3, <2>4 DEF IInv, Verdicts
  <1> QED BY <1>3, <1>4, <1>6, <1>9, <1>10, <1>11 DEF w

(* When no job is pending and none is running, all are done.               *)
LEMMA AllDone ==
    ASSUME Types, Counters, d_nextJob > NumJobs, d_running = 0
    PROVE  \A j \in Job : job[j].state = "DONE"
  <1> SUFFICES ASSUME NEW j \in Job PROVE job[j].state = "DONE"
    OBVIOUS
  <1>1. job[j].state \in {"PENDING", "RUNNING", "DONE"}
    BY DEF Types, TypeOK
  <1>2. job[j].state # "PENDING"
    BY PoolAssumption DEF Counters, Job, Types, TypeOK
  <1>3. RunningJobs = {}
    BY Count DEF Counters
  <1> QED BY <1>1, <1>2, <1>3 DEF RunningJobs

(* The parent goes on in one of its loops: what is left to show when the   *)
(* rest of the invariant holds and no job is known to be solved.           *)
LEMMA LoopIInv ==
    ASSUME Types', Owners', Counters', Verdicts', UNCHANGED <<pipe, written, stdout>>,
           stdout = <<>> /\ pipe = written,
           \A j \in Job : job'[j].state = "DONE" => verdict'[j] \in {ExitedUnsolved, Signalled},
           \/ pc' \in {"poll", "wait"}
           \/ pc' = "start" /\ d_nextJob' <= NumJobs /\ d_running' < d_maxJobs
           \/ pc' = "lastpoll" /\ d_nextJob' > NumJobs /\ d_running' = 0
           \/ pc' \in {"lastpoll", "failed"} /\ \A j \in Job : job'[j].state = "DONE"
    PROVE  IInv'
  <1>1. CASE pc' = "lastpoll" /\ d_nextJob' > NumJobs /\ d_running' = 0
    <2>1. (\A j \in Job : job[j].state = "DONE")'
      <3>1. Types' /\ Counters' /\ (d_nextJob > NumJobs)' /\ (d_running = 0)'
        BY <1>1
      <3> QED BY <3>1, AllDone, PTL
    <2> QED BY <1>1, <2>1 DEF IInv, Control
  <1>2. CASE pc' \in {"poll", "wait"}
    BY <1>2 DEF IInv, Control
  <1>3. CASE pc' = "start" /\ d_nextJob' <= NumJobs /\ d_running' < d_maxJobs
    BY <1>3 DEF IInv, Control
  <1>4. CASE pc' \in {"lastpoll", "failed"} /\ \A j \in Job : job'[j].state = "DONE"
    BY <1>4 DEF IInv, Control
  <1> QED BY <1>1, <1>2, <1>3, <1>4

LEMMA FlushIInv ==
    ASSUME IInv, Flush
    PROVE  IInv'
  <1>1. /\ pc = "flush" /\ pc' = "solved" /\ at' = at /\ at \in Job
        /\ stdout' = Append(stdout, <<at, pipe[at]>>) /\ pipe' = [pipe EXCEPT ![at] = 0]
        /\ UNCHANGED <<job, d_nextJob, d_running, proc, used, writers, written, nature, verdict>>
    BY DEF Flush, pool, IInv, Types, TypeOK
  <1>2. stdout = <<>> /\ pipe = written /\ verdict[at] = ExitedSolved
        /\ job[at].state = "DONE" /\ written[at] = nature[at].out
    BY <1>1 DEF IInv, Control, Verdicts
  <1>3. Types'
    <2>1. pipe' \in [Job -> 0 .. Capacity]
      BY <1>1, PoolAssumption DEF IInv, Types, TypeOK
    <2> QED BY <1>1, <2>1 DEF IInv, Types, TypeOK
  <1>4. Owners' /\ Counters' /\ Verdicts'
    BY <1>1 DEF IInv, Owners, NoTimerLeft, Counters, RunningJobs, Verdicts
  <1>5. stdout' = <<<<at, nature[at].out>>>>
    BY <1>1, <1>2
  <1>6. Control'
    BY <1>1, <1>2, <1>5 DEF Control
  <1> QED BY <1>3, <1>4, <1>6 DEF IInv

(* checkResults returns true for job j.                                    *)
LEMMA SuccessIInv ==
    ASSUME Types', Owners', Counters', Verdicts', UNCHANGED <<pipe, written, stdout>>,
           stdout = <<>> /\ pipe = written,
           NEW j \in Job, Success(j), job'[j].state = "DONE", verdict'[j] = ExitedSolved
    PROVE  IInv'
  BY DEF Success, IInv, Control

(* The types when checkResults has reaped a worker, or done nothing.       *)
LEMMA ParentTypes ==
    ASSUME Types, UNCHANGED <<output, nature, verdict>>,
           job' \in [Job -> [state : {"PENDING", "RUNNING", "DONE"},
                             worker : Pid \cup {NoPid}, timeout : Pid \cup {NoPid}]],
           proc' \in [Pid -> Process], d_nextJob' = d_nextJob, d_running' \in Nat,
           pc' \in {"poll", "lastpoll", "start", "wait", "flush", "solved", "failed"},
           at' \in Job
    PROVE  Types'
  <1>1. \A p \in Pid : proc'[p].kind \in {"none", "worker", "timer"}
    BY Entries
  <1>2. \A j \in Job : /\ job'[j].state \in {"PENDING", "RUNNING", "DONE"}
                       /\ {job'[j].worker, job'[j].timeout} \subseteq Pid \cup {NoPid}
    OBVIOUS
  <1>3. TypeOK'
    BY <1>1, <1>2 DEF Types, TypeOK, output
  <1> QED BY <1>3 DEF Types

LEMMA PollIInv ==
    ASSUME IInv, Poll
    PROVE  IInv'
  <1> DEFINE w == job[at].worker
  <1>1. /\ pc \in {"poll", "lastpoll"} /\ at \in Job /\ d_running \in Nat /\ d_nextJob \in Nat
        /\ stdout = <<>> /\ pipe = written
        /\ \A j \in Job : job[j].state = "DONE" => verdict[j] \in {ExitedUnsolved, Signalled}
        /\ pc = "lastpoll" => \A j \in Job : job[j].state = "DONE"
    <2>1. pc \in {"poll", "lastpoll"}
      BY DEF Poll
    <2>2. at \in Job /\ d_running \in Nat /\ d_nextJob \in Nat
      BY PoolAssumption DEF IInv, Types, TypeOK
    <2> QED BY <2>1, <2>2 DEF IInv, Control
  <1>2. UNCHANGED <<used, output, nature, verdict, stdout>> /\ UNCHANGED <<pipe, written>>
    BY DEF Poll, output
  <1>3. ASSUME NEW running \in Nat, NextPoll(running), d_nextJob' = d_nextJob,
               d_running' = running
        PROVE  /\ at' \in Job
               /\ \/ pc' = "poll"
                  \/ pc' = "wait"
                  \/ pc' = "start" /\ d_nextJob' <= NumJobs /\ d_running' < d_maxJobs
                  \/ pc' = "lastpoll" /\ d_nextJob' > NumJobs /\ d_running' = 0
                  \/ pc' \in {"lastpoll", "failed"} /\ pc = "lastpoll"
    <2>1. CASE at < NumJobs
      BY <1>1, <1>3, <2>1, PoolAssumption DEF NextPoll, Job
    <2>2. CASE ~(at < NumJobs)
      <3>1. at' = 1 /\ pc' = IF pc = "poll" THEN InnerLoop(d_nextJob, running) ELSE "failed"
        BY <1>3, <2>2 DEF NextPoll
      <3> QED BY <1>1, <1>3, <3>1, Loops, PoolAssumption DEF Job
    <2> QED BY <2>1, <2>2
  <1>4. CASE job[at].state = "RUNNING" /\ Terminated(w)
    <2>1. /\ Analyse(at, [proc EXCEPT ![w] = Free])
          /\ IF IsSolved(proc[w].st) THEN Success(at) ELSE NextPoll(d_running - 1)
      BY <1>4 DEF Poll
    <2>2. /\ Owners' /\ Counters' /\ Verdicts'
          /\ job' \in [Job -> [state : {"PENDING", "RUNNING", "DONE"},
                               worker : Pid \cup {NoPid}, timeout : Pid \cup {NoPid}]]
          /\ proc' \in [Pid -> Process]
          /\ d_nextJob' = d_nextJob /\ d_running' = d_running - 1 /\ d_running' \in Nat
          /\ job'[at].state = "DONE" /\ verdict[at] = proc[w].st
          /\ \A i \in Job \ {at} : job'[i] = job[i]
      BY <1>1, <1>2, <1>4, <2>1, ReapJob
    <2>3. pc = "poll"
      BY <1>1, <1>4
    <2>4. CASE IsSolved(proc[w].st)
      <3>1. Success(at) /\ verdict'[at] = ExitedSolved
        BY <1>2, <2>1, <2>2, <2>4 DEF IsSolved
      <3>2. Types'
        <4>1. pc' = "flush" /\ at' = at
          BY <3>1 DEF Success
        <4> QED BY <1>1, <1>2, <2>2, <4>1, ParentTypes DEF IInv
      <3> QED BY <1>1, <1>2, <2>2, <3>1, <3>2, SuccessIInv
    <2>5. CASE ~IsSolved(proc[w].st)
      <3>1. /\ at' \in Job
            /\ \/ pc' = "poll"
               \/ pc' = "wait"
               \/ pc' = "start" /\ d_nextJob' <= NumJobs /\ d_running' < d_maxJobs
               \/ pc' = "lastpoll" /\ d_nextJob' > NumJobs /\ d_running' = 0
        BY <1>3, <2>1, <2>2, <2>3, <2>5
      <3>2. Types'
        BY <1>1, <1>2, <2>2, <3>1, ParentTypes DEF IInv
      <3>3. verdict'[at] \in {ExitedUnsolved, Signalled}
        BY <1>2, <1>4, <2>2, <2>5 DEF Terminated, IsSolved
      <3>4. \A j \in Job : job'[j].state = "DONE" => verdict'[j] \in {ExitedUnsolved, Signalled}
        BY <1>1, <1>2, <2>2, <3>3
      <3> QED BY <1>1, <1>2, <2>2, <3>1, <3>2, <3>4, LoopIInv
    <2> QED BY <2>4, <2>5
  <1>5. CASE ~(job[at].state = "RUNNING" /\ Terminated(w))
    <2>1. NextPoll(d_running) /\ UNCHANGED <<job, d_nextJob, d_running, proc>>
      BY <1>5 DEF Poll, pool
    <2>2. /\ at' \in Job
          /\ \/ pc' = "poll"
             \/ pc' = "wait"
             \/ pc' = "start" /\ d_nextJob' <= NumJobs /\ d_running' < d_maxJobs
             \/ pc' = "lastpoll" /\ d_nextJob' > NumJobs /\ d_running' = 0
             \/ pc' \in {"lastpoll", "failed"} /\ pc = "lastpoll"
      BY <1>1, <1>3, <2>1
    <2>3. Types'
      BY <1>1, <1>2, <2>1, <2>2, ParentTypes DEF IInv, Types
    <2>4. Owners' /\ Counters' /\ Verdicts'
      BY <1>2, <2>1 DEF IInv, Owners, NoTimerLeft, Counters, RunningJobs, Verdicts, output
    <2> QED BY <1>1, <1>2, <2>1, <2>2, <2>3, <2>4, LoopIInv
  <1> QED BY <1>4, <1>5

LEMMA WaitIInv ==
    ASSUME IInv, Wait
    PROVE  IInv'
  <1>1. /\ pc = "wait" /\ at \in Job /\ d_running \in Nat /\ d_nextJob \in Nat
        /\ stdout = <<>> /\ pipe = written
        /\ \A j \in Job : job[j].state = "DONE" => verdict[j] \in {ExitedUnsolved, Signalled}
    <2>1. pc = "wait"
      BY DEF Wait
    <2>2. at \in Job /\ d_running \in Nat /\ d_nextJob \in Nat
      BY PoolAssumption DEF IInv, Types, TypeOK
    <2> QED BY <2>1, <2>2 DEF IInv, Control
  <1>2. UNCHANGED <<used, output, nature, verdict, stdout>> /\ UNCHANGED <<pipe, written>>
    BY DEF Wait, output
  <1> DEFINE match(p) == {j \in Job : job[j].state = "RUNNING" /\ job[j].worker = p}
             table(p) == [proc EXCEPT ![p] = Free]
  <1>3. PICK p \in Pid :
           /\ Terminated(p)
           /\ IF match(p) = {}
              THEN /\ proc' = table(p)
                   /\ pc' = OuterLoop(d_nextJob, d_running)
                   /\ UNCHANGED <<pool, at>>
              ELSE /\ Analyse(Min(match(p)), table(p))
                   /\ IF IsSolved(proc[p].st) THEN Success(Min(match(p)))
                      ELSE /\ pc' = OuterLoop(d_nextJob, d_running - 1)
                           /\ UNCHANGED at
    BY DEF Wait
  <1>4. ASSUME NEW running \in Nat, pc' = OuterLoop(d_nextJob, running), d_nextJob' = d_nextJob,
               d_running' = running
        PROVE  pc' = "poll" \/ (pc' = "lastpoll" /\ d_nextJob' > NumJobs /\ d_running' = 0)
    BY <1>1, <1>4, Loops
  <1>5. CASE match(p) = {}
    <2>1. /\ proc' = table(p) /\ pc' = OuterLoop(d_nextJob, d_running)
          /\ UNCHANGED <<job, d_nextJob, d_running, at>>
      BY <1>3, <1>5 DEF pool
    <2>2. proc[p].kind # "worker"
      BY <1>5, WorkerJob DEF IInv, Owners
    <2>3. /\ proc' \in [Pid -> Process] /\ proc'[p] = Free
          /\ \A q \in Pid \ {p} : proc'[q] = proc[q]
      BY <2>1 DEF IInv, Types, Process
    <2>4. Types'
      BY <1>1, <1>2, <1>4, <2>1, <2>3, ParentTypes DEF IInv, Types
    <2>5. Owners'
      <3>1. ASSUME NEW j \in Job, job'[j].state = "RUNNING"
            PROVE  /\ job'[j].worker \in Pid
                   /\ proc'[job'[j].worker].kind = "worker" /\ proc'[job'[j].worker].job = j
        <4>1. /\ job[j].worker \in Pid /\ proc[job[j].worker].kind = "worker"
              /\ proc[job[j].worker].job = j
          BY <2>1, <3>1 DEF IInv, Owners
        <4> QED BY <2>1, <2>2, <2>3, <4>1
      <3>2. \A q \in Pid : proc'[q].kind \in {"worker", "timer"} => proc'[q] = proc[q]
        BY <2>3 DEF Free
      <3> QED BY <2>1, <3>1, <3>2 DEF IInv, Owners, NoTimerLeft
    <2>6. Counters' /\ Verdicts'
      <3>1. \A q \in Pid : proc'[q].kind = "worker" => proc'[q] = proc[q]
        BY <2>3 DEF Free
      <3>2. UNCHANGED written
        BY <1>2
      <3> QED BY <1>2, <2>1, <3>1, <3>2 DEF IInv, Counters, RunningJobs, Verdicts
    <2> QED BY <1>1, <1>2, <1>4, <2>1, <2>4, <2>5, <2>6, LoopIInv
  <1>6. CASE match(p) # {}
    <2>1. PICK j \in Job : job[j].state = "RUNNING" /\ job[j].worker = p
      BY <1>6
    <2>2. match(p) = {j}
      BY <2>1 DEF IInv, Owners
    <2>3. Min(match(p)) = j
      <3>1. j \in Int
        BY DEF Job
      <3> QED BY <2>2, <3>1 DEF Min
    <2>4. /\ Analyse(j, [proc EXCEPT ![job[j].worker] = Free])
          /\ IF IsSolved(proc[p].st) THEN Success(j)
             ELSE /\ pc' = OuterLoop(d_nextJob, d_running - 1)
                  /\ UNCHANGED at
      BY <1>3, <1>6, <2>1, <2>3
    <2>5. /\ Owners' /\ Counters' /\ Verdicts'
          /\ job' \in [Job -> [state : {"PENDING", "RUNNING", "DONE"},
                               worker : Pid \cup {NoPid}, timeout : Pid \cup {NoPid}]]
          /\ proc' \in [Pid -> Process]
          /\ d_nextJob' = d_nextJob /\ d_running' = d_running - 1 /\ d_running' \in Nat
          /\ job'[j].state = "DONE" /\ verdict[j] = proc[p].st
          /\ \A i \in Job \ {j} : job'[i] = job[i]
      BY <1>2, <1>3, <2>1, <2>4, ReapJob
    <2>6. CASE IsSolved(proc[p].st)
      <3>1. Success(j) /\ verdict'[j] = ExitedSolved
        BY <1>2, <2>4, <2>5, <2>6 DEF IsSolved
      <3>2. Types'
        <4>1. pc' = "flush" /\ at' = j
          BY <3>1 DEF Success
        <4> QED BY <1>2, <2>5, <4>1, ParentTypes DEF IInv
      <3> QED BY <1>1, <1>2, <2>5, <3>1, <3>2, SuccessIInv
    <2>7. CASE ~IsSolved(proc[p].st)
      <3>1. /\ at' = at
            /\ pc' = "poll" \/ (pc' = "lastpoll" /\ d_nextJob' > NumJobs /\ d_running' = 0)
        BY <1>4, <2>4, <2>5, <2>7
      <3>2. Types'
        BY <1>1, <1>2, <2>5, <3>1, ParentTypes DEF IInv
      <3>3. verdict'[j] \in {ExitedUnsolved, Signalled}
        BY <1>2, <1>3, <2>5, <2>7 DEF Terminated, IsSolved
      <3>4. \A i \in Job : job'[i].state = "DONE" => verdict'[i] \in {ExitedUnsolved, Signalled}
        BY <1>1, <1>2, <2>5, <3>3
      <3> QED BY <1>1, <1>2, <2>5, <3>1, <3>2, <3>4, LoopIInv
    <2> QED BY <2>6, <2>7
  <1> QED BY <1>5, <1>6

LEMMA StartIInv ==
    ASSUME IInv, startNextJob
    PROVE  IInv'
  <1> DEFINE j == d_nextJob
  <1>1. /\ pc = "start" /\ j \in Job /\ job[j].state = "PENDING"
        /\ d_running \in Nat /\ d_running < d_maxJobs /\ d_maxJobs \in Nat
        /\ stdout = <<>> /\ pipe = written
        /\ \A i \in Job : job[i].state = "DONE" => verdict[i] \in {ExitedUnsolved, Signalled}
    <2>1. pc = "start"
      BY DEF startNextJob
    <2>2. j <= NumJobs /\ d_running < d_maxJobs
      BY <2>1 DEF IInv, Control
    <2>3. j \in Job /\ d_running \in Nat
      BY <2>2, PoolAssumption DEF IInv, Types, TypeOK, Job
    <2>4. job[j].state = "PENDING"
      BY <2>3, PoolAssumption DEF IInv, Counters, Job
    <2> QED BY <2>1, <2>2, <2>3, <2>4, PoolAssumption DEF IInv, Control
  <1> DEFINE Table(w, t) ==
                [p \in Pid |-> CASE p = w -> [kind |-> "worker", job |-> j, st |-> "solve"]
                                 [] p = t -> [kind |-> "timer", job |-> j, st |-> "sleep",
                                              target |-> w]
                                 [] OTHER -> proc[p]]
             Started(w, t) ==
                /\ proc' = Table(w, t)
                /\ job' = [job EXCEPT ![j] = [state |-> "RUNNING", worker |-> w, timeout |-> t]]
                /\ writers' = [writers EXCEPT ![j] = closeIn(w)]
  <1>a. PICK w \in Forkable({}) :
           \E t \in IF j \in Timed THEN Forkable({w}) ELSE {NoPid} : Started(w, t)
    BY DEF startNextJob
  <1>2. PICK t \in IF j \in Timed THEN Forkable({w}) ELSE {NoPid} : Started(w, t)
    BY <1>a
  <1>3. /\ d_nextJob' = d_nextJob + 1 /\ d_running' = d_running + 1
        /\ pc' = InnerLoop(d_nextJob + 1, d_running + 1)
        /\ UNCHANGED <<at, pipe, written, nature, verdict, stdout>>
    BY DEF startNextJob
  <1>4. /\ w \in Pid /\ proc[w] = Free
        /\ t = NoPid \/ (t \in Pid /\ proc[t] = Free)
        /\ t # w
    <2>1. w \in Pid /\ proc[w] = Free
      BY DEF Forkable
    <2>2. t = NoPid \/ (t \in Pid /\ t # w /\ proc[t] = Free)
      BY DEF Forkable
    <2> QED BY <2>1, <2>2, Identifiers
  <1>5. /\ proc'[w] = [kind |-> "worker", job |-> j, st |-> "solve"]
        /\ t \in Pid => proc'[t] = [kind |-> "timer", job |-> j, st |-> "sleep", target |-> w]
        /\ \A q \in Pid : q # w /\ q # t => proc'[q] = proc[q]
    BY <1>2, <1>4
  <1>6. proc' \in [Pid -> Process]
    <2>1. proc'[w] \in Process
      BY <1>1, <1>5 DEF Process, Worker
    <2>2. t \in Pid => proc'[t] \in Process
      BY <1>1, <1>4, <1>5 DEF Process, Timer
    <2>3. DOMAIN proc' = Pid /\ proc' = [p \in Pid |-> proc'[p]]
      BY <1>2
    <2>4. \A q \in Pid : proc[q] \in Process
      BY DEF IInv, Types
    <2>5. \A q \in Pid : proc'[q] \in Process
      BY <1>5, <2>1, <2>2, <2>4
    <2> QED BY <2>3, <2>5
  <1>7. /\ job' \in [Job -> [state : {"PENDING", "RUNNING", "DONE"},
                             worker : Pid \cup {NoPid}, timeout : Pid \cup {NoPid}]]
        /\ job'[j].state = "RUNNING" /\ job'[j].worker = w /\ job'[j].timeout = t
        /\ \A i \in Job \ {j} : job'[i] = job[i]
    <2>1. [state |-> "RUNNING", worker |-> w, timeout |-> t]
             \in [state : {"PENDING", "RUNNING", "DONE"},
                  worker : Pid \cup {NoPid}, timeout : Pid \cup {NoPid}]
      BY <1>4
    <2>2. job \in [Job -> [state : {"PENDING", "RUNNING", "DONE"},
                           worker : Pid \cup {NoPid}, timeout : Pid \cup {NoPid}]]
      BY DEF IInv, Types
    <2> QED BY <1>1, <1>2, <2>1, <2>2
  <1> HIDE DEF j, Table, Started
  <1>8. j \in Nat /\ d_nextJob = j /\ d_nextJob \in 1 .. NumJobs /\ NumJobs \in Nat
    BY <1>1, PoolAssumption DEF j, Job
  <1>9. /\ pc' \in {"poll", "lastpoll", "start", "wait"}
        /\ pc' = "start" => d_nextJob' <= NumJobs /\ d_running' < d_maxJobs
        /\ pc' = "lastpoll" => d_nextJob' > NumJobs /\ d_running' = 0
    <2>1. d_nextJob + 1 \in Nat /\ d_running + 1 \in Nat
      BY <1>1, <1>8
    <2> QED BY <1>3, <2>1, Loops
  <1>10. Types'
    <2>1. \A p \in Pid : proc'[p].kind \in {"none", "worker", "timer"}
      BY <1>6, Entries
    <2>2. \A i \in Job : /\ job'[i].state \in {"PENDING", "RUNNING", "DONE"}
                         /\ {job'[i].worker, job'[i].timeout} \subseteq Pid \cup {NoPid}
      BY <1>7
    <2>3. writers' \in [Job -> SUBSET (Pid \cup {Parent})]
      BY <1>2, <1>4 DEF IInv, Types, TypeOK, closeIn, Started
    <2>4. d_nextJob' \in 1 .. NumJobs + 1 /\ d_running' \in Nat
      BY <1>1, <1>3, <1>8
    <2>5. TypeOK'
      BY <1>3, <1>9, <2>1, <2>2, <2>3, <2>4 DEF IInv, Types, TypeOK
    <2> QED BY <1>3, <1>6, <1>7, <2>5 DEF IInv, Types
  <1>11. \A q \in Pid : proc[q].kind \in {"worker", "timer"} =>
            proc[q].job # j /\ proc[q].job \in Job /\ proc'[q] = proc[q]
    <2> SUFFICES ASSUME NEW q \in Pid, proc[q].kind \in {"worker", "timer"}
                 PROVE  proc[q].job # j /\ proc[q].job \in Job /\ proc'[q] = proc[q]
      OBVIOUS
    <2>1. proc[q].job \in Job
      BY Entries DEF IInv, Types
    <2>2. job[proc[q].job].state # "PENDING"
      BY DEF IInv, Owners
    <2>3. q # w /\ q # t
      <3>1. q # NoPid /\ proc[q] # Free
        BY Identifiers DEF Free
      <3> QED BY <1>4, <3>1
    <2> QED BY <1>1, <1>5, <2>1, <2>2, <2>3
  <1>12. \A q \in Pid : proc'[q].kind \in {"worker", "timer"} =>
            \/ q = w \/ q = t
            \/ proc[q].kind = proc'[q].kind /\ proc'[q] = proc[q]
    BY <1>5
  <1>13. Owners'
    <2>1. ASSUME NEW i \in Job, job'[i].state = "RUNNING"
          PROVE  /\ job'[i].worker \in Pid
                 /\ proc'[job'[i].worker].kind = "worker" /\ proc'[job'[i].worker].job = i
      <3>1. CASE i = j
        BY <1>4, <1>5, <1>7, <3>1
      <3>2. CASE i # j
        <4>1. /\ job'[i] = job[i] /\ job[i].worker \in Pid
              /\ proc[job[i].worker].kind = "worker" /\ proc[job[i].worker].job = i
          BY <1>7, <2>1, <3>2 DEF IInv, Owners
        <4> QED BY <1>11, <4>1
      <3> QED BY <3>1, <3>2
    <2>2. ASSUME NEW q \in Pid, proc'[q].kind = "worker"
          PROVE  job'[proc'[q].job].state = "RUNNING" /\ job'[proc'[q].job].worker = q
      <3>1. CASE q = w
        BY <1>5, <1>7, <3>1
      <3>2. CASE q # w
        <4>1. q # t
          BY <1>5, <2>2
        <4>2. proc[q].kind = "worker" /\ proc'[q] = proc[q]
          BY <1>12, <2>2, <3>2, <4>1
        <4>3. job[proc[q].job].state = "RUNNING" /\ job[proc[q].job].worker = q
          BY <4>2 DEF IInv, Owners
        <4> QED BY <1>7, <1>11, <4>2, <4>3
      <3> QED BY <3>1, <3>2
    <2>3. ASSUME NEW q \in Pid, proc'[q].kind = "timer"
          PROVE  /\ job'[proc'[q].job].state # "PENDING" /\ job'[proc'[q].job].timeout = q
                 /\ proc'[q].st = "sleep" => job'[proc'[q].job].state = "RUNNING"
      <3>1. CASE q = t
        BY <1>5, <1>7, <3>1
      <3>2. CASE q # t
        <4>1. q # w
          BY <1>5, <2>3
        <4>2. proc[q].kind = "timer" /\ proc'[q] = proc[q]
          BY <1>12, <2>3, <3>2, <4>1
        <4>3. /\ job[proc[q].job].state # "PENDING" /\ job[proc[q].job].timeout = q
              /\ proc[q].st = "sleep" => job[proc[q].job].state = "RUNNING"
          BY <4>2 DEF IInv, Owners, NoTimerLeft
        <4> QED BY <1>7, <1>11, <4>2, <4>3
      <3> QED BY <3>1, <3>2
    <2> QED BY <2>1, <2>2, <2>3 DEF Owners, NoTimerLeft
  <1>14. Counters'
    <2>1. RunningJobs' = RunningJobs \cup {j} /\ j \notin RunningJobs
      BY <1>1, <1>7 DEF RunningJobs, j
    <2>2. d_running' = Cardinality(RunningJobs')
      BY <1>3, <2>1, Count DEF IInv, Counters
    <2>3. d_running' <= d_maxJobs
      BY <1>1, <1>3
    <2>4. ASSUME NEW i \in Job PROVE job'[i].state = "PENDING" <=> d_nextJob' <= i
      <3>1. i \in Nat
        BY PoolAssumption DEF Job
      <3>2. job[i].state = "PENDING" <=> j <= i
        BY <1>8 DEF IInv, Counters
      <3> QED BY <1>3, <1>7, <1>8, <3>1, <3>2
    <2> QED BY <2>2, <2>3, <2>4 DEF Counters
  <1>15. Verdicts'
    <2>1. ASSUME NEW q \in Pid, proc'[q].kind = "worker"
          PROVE  verdict'[proc'[q].job] = IF proc'[q].st \in End THEN proc'[q].st ELSE "none"
      <3>1. CASE q = w
        <4>1. verdict[j] = "none"
          BY <1>1 DEF IInv, Verdicts, j
        <4> QED BY <1>3, <1>5, <3>1, <4>1
            DEF End, ExitedSolved, ExitedUnsolved, Signalled
      <3>2. CASE q # w
        <4>1. proc[q].kind = "worker" /\ proc'[q] = proc[q]
          BY <1>5, <1>12, <2>1, <3>2
        <4> QED BY <1>3, <4>1 DEF IInv, Verdicts
      <3> QED BY <3>1, <3>2
    <2>2. \A i \in Job : job'[i].state = "PENDING" => job[i].state = "PENDING"
      BY <1>7
    <2> QED BY <1>3, <2>1, <2>2 DEF IInv, Verdicts
  <1>16. \A i \in Job : job'[i].state = "DONE" => verdict'[i] \in {ExitedUnsolved, Signalled}
    BY <1>1, <1>3, <1>7
  <1> QED BY <1>1, <1>3, <1>9, <1>10, <1>13, <1>14, <1>15, <1>16, LoopIInv

LEMMA NextIInv == IInv /\ [Next]_vars => IInv'
  <1> SUFFICES ASSUME IInv, [Next]_vars PROVE IInv'
    OBVIOUS
  <1>1. CASE UNCHANGED vars
    BY <1>1 DEF vars, pool, output, IInv, Types, TypeOK, Owners, NoTimerLeft, Counters,
                RunningJobs, Verdicts, Control
  <1>2. CASE ParentStep
    BY <1>2, PollIInv, StartIInv, WaitIInv, FlushIInv DEF ParentStep
  <1>3. CASE \E p \in Pid : ProcessStep(p)
    BY <1>3, ProcessStepIInv
  <1>4. CASE Returned
    BY <1>1, <1>4 DEF Returned
  <1> QED BY <1>1, <1>2, <1>3, <1>4 DEF Next

LEMMA Invariant == Spec => []IInv
  BY InitIInv, NextIInv, PTL DEF Spec

(* The counter that run() waits and ends by counts the running jobs, stays *)
(* within --portfolio-jobs, and every running job has a worker to wait for *)
(* and no other worker is left, whatever the order in which workers and    *)
(* timers end and are reaped (startNextJob, checkResults).                 *)
THEOREM PoolCountsExactly == Spec => []RunningIsExact
  <1>1. IInv => RunningIsExact
    <2> SUFFICES ASSUME IInv PROVE RunningIsExact
      OBVIOUS
    <2>1. \A j \in RunningJobs : /\ job[j].worker \in Pid
                                 /\ proc[job[j].worker].kind = "worker"
      BY DEF IInv, Owners, RunningJobs
    <2>2. ASSUME NEW p \in Pid, proc[p].kind = "worker"
          PROVE  \E j \in RunningJobs : p = job[j].worker
      <3>1. proc[p].job \in Job
        BY <2>2, WorkerJob
      <3> QED BY <2>2, <3>1 DEF IInv, Owners, RunningJobs
    <2>3. {job[j].worker : j \in RunningJobs} = {p \in Pid : proc[p].kind = "worker"}
      BY <2>1, <2>2
    <2> QED BY <2>3 DEF RunningIsExact, IInv, Types, Counters
  <1> QED BY <1>1, Invariant, PTL

(* run() returns true only with all of the output of one worker that       *)
(* solved the input, and false only when every worker has ended without an *)
(* answer (checkResults, flushTo).                                         *)
THEOREM PoolAnswersRight == Spec => []RightAnswer
  <1>1. IInv => RightAnswer
    <2> SUFFICES ASSUME IInv PROVE RightAnswer
      OBVIOUS
    <2>1. at \in Job
      BY DEF IInv, Types, TypeOK
    <2> QED BY <2>1 DEF RightAnswer, IInv, Control, Verdicts
  <1> QED BY <1>1, Invariant, PTL

(* The timer of a job that is done is never left asleep (checkResults).    *)
THEOREM PoolLeavesNoTimer == Spec => []NoTimerLeft
  <1>1. IInv => NoTimerLeft
    BY DEF IInv, Owners
  <1> QED BY <1>1, Invariant, PTL

=============================================================================
