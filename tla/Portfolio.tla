----------------------------- MODULE Portfolio -----------------------------
(***************************************************************************)
(* The portfolio of cvc5 (--use-portfolio): class PortfolioProcessPool in  *)
(* src/cvc5/src/main/portfolio_driver.cpp.                                 *)
(*                                                                         *)
(* The parent forks a worker for each configuration of the strategy, at    *)
(* most d_maxJobs at a time, each with its output redirected to pipes that *)
(* the parent reads once the worker has terminated, and, for a             *)
(* configuration with a share of the time limit, a timer: a process that   *)
(* sleeps, kills the worker and exits.  The parent collects both kinds of  *)
(* children with wait() and looks for workers among them.                  *)
(*                                                                         *)
(* All processes run concurrently; a step is a system call or the work     *)
(* between two of them.  The two pipes of a job are one here, and its      *)
(* contents are counted in units of which Capacity fit.                    *)
(***************************************************************************)
EXTENDS Integers, Sequences, FiniteSets, FiniteSetsExt

CONSTANTS
    NumJobs,    (* d_jobs.size()                                           *)
    d_maxJobs,  (* option portfolio-jobs                                   *)
    Timed,      (* the jobs whose configuration has a timeout              *)
    Outcomes,   (* what solving may come to: see Nature                    *)
    MaxOut,     (* bound: the largest output of a worker                   *)
    Capacity,   (* what fits in a pipe                                     *)
    Pid         (* the process identifiers, a set of positive numbers      *)

Job == 1 .. NumJobs
NoPid == -1
Parent == 0     \* stands for the pool's own process among the writers of a pipe

ASSUME PoolAssumption ==
    /\ NumJobs \in Nat \ {0} /\ d_maxJobs \in Nat \ {0} /\ Timed \subseteq Job
    /\ Outcomes \subseteq {"solved", "unsolved", "crash", "diverge"}
    /\ MaxOut \in Nat /\ Capacity \in Nat /\ Pid \subseteq Nat \ {0}

VARIABLES
    job,        (* per job: d_state, d_worker, d_timeout                   *)
    d_nextJob,  (* the next job to start                                   *)
    d_running,  (* the number of running jobs                              *)
    pc,         (* where the parent is                                     *)
    at,         (* the job checkResults looks at                           *)
    proc,       (* the process table                                       *)
    used,       (* the identifiers used so far                             *)
    pipe,       (* what is in the pipe of each job                         *)
    writers,    (* who has the writing end of the pipe of each job open    *)
    written,    (* how much the worker of each job has written             *)
    nature,     (* what the worker of each job does, known once it is at it *)
    verdict,    (* how the worker of each job ended                        *)
    stdout      (* what the parent printed: pairs of a job and an amount   *)

pool == <<job, d_nextJob, d_running>>
output == <<pipe, writers, written>>
vars == <<pool, pc, at, proc, used, output, nature, verdict, stdout>>

Free == [kind |-> "none", job |-> 0, st |-> "free"]

(* How a terminated process looks to wait().                               *)
ExitedSolved == "solved"        \* WIFEXITED, STATUS_SOLVED
ExitedUnsolved == "unsolved"    \* WIFEXITED, STATUS_UNSOLVED
Signalled == "signaled"         \* WIFSIGNALED

(* What a worker does when it is left alone: whether check-sat answers sat *)
(* or unsat, gives up, crashes or never ends, and how much it prints.      *)
Nature == {n \in [outcome : Outcomes, out : 0 .. MaxOut] :
              n.outcome \in {"crash", "diverge"} => n.out = 0}
Unknown == [outcome |-> "unknown", out |-> 0]

Init ==
    /\ job = [j \in Job |-> [state |-> "PENDING", worker |-> NoPid, timeout |-> NoPid]]
    /\ d_nextJob = 1
    /\ d_running = 0
    /\ pc = "poll"
    /\ at = 1
    /\ proc = [p \in Pid |-> Free]
    /\ used = {}
    /\ pipe = [j \in Job |-> 0]
    /\ writers = [j \in Job |-> {}]
    /\ written = [j \in Job |-> 0]
    /\ nature = [j \in Job |-> Unknown]
    /\ verdict = [j \in Job |-> "none"]
    /\ stdout = <<>>

-----------------------------------------------------------------------------
(* The system calls.                                                       *)

Alive == {"solve", "diverge", "write", "sleep", "fired"}

(* kill(p, SIGKILL): p dies some time later; a process that has already    *)
(* terminated, or that does not exist, is not affected.                    *)
Kill(table, p) ==
    IF table[p].st \in Alive
    THEN [table EXCEPT ![p].st = "dying"]
    ELSE table

(* The identifiers fork() may return: they are not used again.             *)
Forkable(excluded) ==
    LET fresh == {p \in Pid \ (excluded \cup used) : proc[p] = Free} IN
    {p \in fresh : \A q \in fresh : p <= q}

(* A terminated process closes its end of all pipes.                       *)
ClosedBy(p) == [j \in Job |-> writers[j] \ {p}]

-----------------------------------------------------------------------------
(* The workers and timers.                                                 *)

Terminate(p, st) ==
    /\ proc' = [proc EXCEPT ![p].st = st]
    /\ writers' = ClosedBy(p)
    /\ verdict' = IF proc[p].kind = "worker"
                  THEN [verdict EXCEPT ![proc[p].job] = st] ELSE verdict

(* The worker's check-sat returns, or crashes, or it turns out never to    *)
(* end.                                                                    *)
WorkerSolve(p) ==
    /\ proc[p].st = "solve"
    /\ \E n \in Nature :
          /\ nature' = [nature EXCEPT ![proc[p].job] = n]
          /\ CASE n.outcome = "crash" -> Terminate(p, Signalled)
               [] n.outcome = "diverge" ->
                     /\ proc' = [proc EXCEPT ![p].st = "diverge"]
                     /\ UNCHANGED <<writers, verdict>>
               [] OTHER ->
                     /\ proc' = [proc EXCEPT ![p].st = "write"]
                     /\ UNCHANGED <<writers, verdict>>
    /\ UNCHANGED <<pool, pc, at, used, pipe, written, stdout>>

WorkerDiverge(p) == proc[p].st = "diverge" /\ UNCHANGED vars

(* The worker prints its answer and those of the commands that follow; a   *)
(* write to a full pipe blocks.                                            *)
WorkerWrite(p) ==
    /\ proc[p].st = "write"
    /\ LET j == proc[p].job IN
       /\ written[j] < nature[j].out
       /\ pipe[j] < Capacity
       /\ pipe' = [pipe EXCEPT ![j] = @ + 1]
       /\ written' = [written EXCEPT ![j] = @ + 1]
    /\ UNCHANGED <<pool, pc, at, proc, used, writers, nature, verdict, stdout>>

(* _exit(rc). *)
WorkerExit(p) ==
    /\ proc[p].st = "write"
    /\ LET j == proc[p].job IN
       /\ written[j] = nature[j].out
       /\ Terminate(p, IF nature[j].outcome = "solved"
                       THEN ExitedSolved ELSE ExitedUnsolved)
    /\ UNCHANGED <<pool, pc, at, used, pipe, written, nature, stdout>>

(* The timer wakes up and kills the worker it was started for.             *)
TimerFire(p) ==
    /\ proc[p].st = "sleep"
    /\ proc' = Kill([proc EXCEPT ![p].st = "fired"], proc[p].target)
    /\ UNCHANGED <<pool, pc, at, used, output, nature, verdict, stdout>>

(* The timer's _exit(0). *)
TimerExit(p) ==
    /\ proc[p].st = "fired"
    /\ Terminate(p, ExitedSolved)
    /\ UNCHANGED <<pool, pc, at, used, pipe, written, nature, stdout>>

(* A process that was sent SIGKILL terminates.                             *)
Die(p) ==
    /\ proc[p].st = "dying"
    /\ Terminate(p, Signalled)
    /\ UNCHANGED <<pool, pc, at, used, pipe, written, nature, stdout>>

-----------------------------------------------------------------------------
(* The parent: PortfolioProcessPool::run.  Its tests of its own variables  *)
(* are part of the step before them.                                       *)

Terminated(p) == proc[p].st \in {ExitedSolved, ExitedUnsolved, Signalled}

(* The job's worker says that it has solved the input.                     *)
IsSolved(st) == st = ExitedSolved

(* Faulty: the loop ends when all jobs have been started.                  *)
OuterLoopJobsOnly(next, running) == IF next <= NumJobs THEN "poll" ELSE "lastpoll"

(* The condition of the outer loop, with next and running the values of    *)
(* d_nextJob and d_running: its body starts with checkResults(), and       *)
(* checkResults() is also the last thing run() does after it.              *)
OuterLoop(next, running) ==
    IF next <= NumJobs \/ running > 0 THEN "poll" ELSE "lastpoll"

(* The loop that starts jobs, and the test before wait().                  *)
InnerLoop(next, running) ==
    IF next <= NumJobs /\ running < d_maxJobs THEN "start"
    ELSE IF running > 0 THEN "wait" ELSE OuterLoop(next, running)

(* checkResults() goes on to the next job, or returns false.               *)
NextPoll(running) ==
    IF at < NumJobs
    THEN /\ at' = at + 1
         /\ pc' = pc
    ELSE /\ at' = 1
         /\ pc' = IF pc = "poll" THEN InnerLoop(d_nextJob, running) ELSE "failed"

(* Faulty: d_running is not decremented.                                   *)
AnalyseNotCounted(j, table) ==
    /\ job' = [job EXCEPT ![j].state = "DONE"]
    /\ UNCHANGED <<d_running, d_nextJob>>
    /\ proc' = IF job[j].timeout > 0 THEN Kill(table, job[j].timeout) ELSE table

(* Faulty: the timer is left alone.                                        *)
AnalyseNoKill(j, table) ==
    /\ job' = [job EXCEPT ![j].state = "DONE"]
    /\ d_running' = d_running - 1
    /\ UNCHANGED d_nextJob
    /\ proc' = table

(* What checkResults does for job j, whose worker has been reaped, leaving *)
(* this process table: kill the timer, count the job as done.              *)
Analyse(j, table) ==
    /\ job' = [job EXCEPT ![j].state = "DONE"]
    /\ d_running' = d_running - 1
    /\ UNCHANGED d_nextJob
    /\ proc' = IF job[j].timeout > 0 THEN Kill(table, job[j].timeout) ELSE table

(* It returns true, after flushTo, if the worker exited as solved.         *)
Success(j) == pc' = "flush" /\ at' = j

(* The turn of the loop of checkResults() for job at: waitpid(d_worker,    *)
(* WNOHANG) says whether the worker has terminated, and reaps it.          *)
Poll ==
    /\ pc \in {"poll", "lastpoll"}
    /\ LET w == job[at].worker IN
       IF job[at].state = "RUNNING" /\ Terminated(w)
       THEN /\ Analyse(at, [proc EXCEPT ![w] = Free])
            /\ IF IsSolved(proc[w].st) THEN Success(at) ELSE NextPoll(d_running - 1)
       ELSE /\ NextPoll(d_running)
            /\ UNCHANGED <<pool, proc>>
    /\ UNCHANGED <<used, output, nature, verdict, stdout>>

(* Faulty: the parent keeps the writing end.                               *)
WritersWithParent(w) == {w, Parent}

(* Who has the writing end of the pipe of a job open once its worker has   *)
(* been started: closeIn() closes the parent's, so only the worker.        *)
closeIn(w) == {w}

(* startNextJob: the pipe, the worker and the timer, which is forked after *)
(* closeIn() and does not inherit the writing end.                         *)
startNextJob ==
    /\ pc = "start"
    /\ LET j == d_nextJob IN
       \E w \in Forkable({}) :
       \E t \in IF j \in Timed THEN Forkable({w}) ELSE {NoPid} :
          /\ proc' = [p \in Pid |->
                         CASE p = w -> [kind |-> "worker", job |-> j, st |-> "solve"]
                           [] p = t -> [kind |-> "timer", job |-> j, st |-> "sleep",
                                        target |-> w]
                           [] OTHER -> proc[p]]
          /\ used' = used \cup ({w, t} \ {NoPid})
          /\ job' = [job EXCEPT ![j] = [state |-> "RUNNING", worker |-> w, timeout |-> t]]
          /\ writers' = [writers EXCEPT ![j] = closeIn(w)]
    /\ d_nextJob' = d_nextJob + 1
    /\ d_running' = d_running + 1
    /\ pc' = InnerLoop(d_nextJob + 1, d_running + 1)
    /\ UNCHANGED <<at, pipe, written, nature, verdict, stdout>>

(* wait(&wstatus), then checkResults(child, wstatus).  The child may be a  *)
(* timer, which is no job's worker.                                        *)
Wait ==
    /\ pc = "wait"
    /\ \E p \in Pid :
          /\ Terminated(p)
          /\ LET table == [proc EXCEPT ![p] = Free]
                 match == {j \in Job : job[j].state = "RUNNING" /\ job[j].worker = p}
             IN IF match = {}
                THEN /\ proc' = table
                     /\ pc' = OuterLoop(d_nextJob, d_running)
                     /\ UNCHANGED <<pool, at>>
                ELSE /\ Analyse(Min(match), table)
                     /\ IF IsSolved(proc[p].st) THEN Success(Min(match))
                        ELSE /\ pc' = OuterLoop(d_nextJob, d_running - 1)
                             /\ UNCHANGED at
    /\ UNCHANGED <<used, output, nature, verdict, stdout>>

(* flushTo: read to the end of the pipe, which comes only when nobody has  *)
(* its writing end open, and print it.                                     *)
Flush ==
    /\ pc = "flush"
    /\ writers[at] = {}
    /\ stdout' = Append(stdout, <<at, pipe[at]>>)
    /\ pipe' = [pipe EXCEPT ![at] = 0]
    /\ pc' = "solved"
    /\ UNCHANGED <<pool, at, proc, used, writers, written, nature, verdict>>

(* run() has returned; the parent goes on to exit.                         *)
Returned == pc \in {"solved", "failed"} /\ UNCHANGED vars

ParentStep == Poll \/ startNextJob \/ Wait \/ Flush

ProcessStep(p) ==
    \/ WorkerSolve(p) \/ WorkerDiverge(p) \/ WorkerWrite(p) \/ WorkerExit(p)
    \/ TimerFire(p) \/ TimerExit(p) \/ Die(p)

Next == ParentStep \/ (\E p \in Pid : ProcessStep(p)) \/ Returned

(* The scheduler of the operating system runs every process that can run,  *)
(* a sleeping timer included: it wakes up when its time has come.          *)
Fairness == WF_vars(ParentStep) /\ \A p \in Pid : WF_vars(ProcessStep(p))

Spec == Init /\ [][Next]_vars /\ Fairness

-----------------------------------------------------------------------------
(* Every variable has its type.                                            *)
TypeOK ==
    /\ \A j \in Job : /\ job[j].state \in {"PENDING", "RUNNING", "DONE"}
                      /\ {job[j].worker, job[j].timeout} \subseteq Pid \cup {NoPid}
    /\ d_nextJob \in 1 .. NumJobs + 1
    /\ d_running \in Nat
    /\ pc \in {"poll", "lastpoll", "start", "wait", "flush", "solved", "failed"}
    /\ at \in Job
    /\ \A p \in Pid : proc[p].kind \in {"none", "worker", "timer"}
    /\ pipe \in [Job -> 0 .. Capacity]
    /\ writers \in [Job -> SUBSET (Pid \cup {Parent})]
    /\ written \in [Job -> 0 .. MaxOut]

RunningJobs == {j \in Job : job[j].state = "RUNNING"}

(* The counter that run() waits and terminates by is the number of running *)
(* jobs, never above the limit; the worker of every running job is still   *)
(* there to be waited for, and no other worker is.                         *)
RunningIsExact ==
    /\ TypeOK
    /\ d_running = Cardinality(RunningJobs)
    /\ d_running <= d_maxJobs
    /\ {job[j].worker : j \in RunningJobs} = {p \in Pid : proc[p].kind = "worker"}

(* When run() returns true the parent has printed all of the output of one *)
(* worker, one that solved the input, and nothing else (checkResults); it  *)
(* returns false, and "unknown" is printed, only after all workers have    *)
(* ended without an answer: no exit status is lost between wait() and      *)
(* waitpid(), although wait() also collects the timers.                    *)
RightAnswer ==
    /\ pc = "solved" =>
          /\ nature[at].outcome = "solved" /\ verdict[at] = ExitedSolved
          /\ stdout = <<<<at, nature[at].out>>>>
    /\ pc = "failed" =>
          \A j \in Job : /\ job[j].state = "DONE"
                         /\ verdict[j] \in {ExitedUnsolved, Signalled}

(* No timer is left asleep once its job is done (checkResults kills it).   *)
NoTimerLeft ==
    \A p \in Pid : proc[p].kind = "timer" /\ proc[p].st = "sleep" =>
                      job[proc[p].job].state = "RUNNING"

(* What the configurations must be like for the pool to end: a job without *)
(* a timer neither runs forever nor prints more than the pipe holds.       *)
Tame == \A j \in Job \ Timed :
           nature[j].outcome # "diverge" /\ nature[j].out <= Capacity

(* The pool ends: whatever the timed jobs do, run() returns.               *)
PoolEnds == []Tame => <>(pc \in {"solved", "failed"})

(* "Manages running portfolio configurations until one has solved the      *)
(* input problem": if no worker runs forever, run() returns.               *)
PoolEndsIfWorkersDo ==
    [](\A j \in Job : nature[j].outcome # "diverge")
        => <>(pc \in {"solved", "failed"})

=============================================================================
