------------------------------ MODULE CronJobs ------------------------------
(***************************************************************************)
(* Scheduled jobs, util/cron_job.go: the proxy that StartCronJob wraps     *)
(* around every job, and CronJobShutdown, which waits for the jobs.        *)
(*                                                                         *)
(* The scheduler (robfig/cron) runs each firing in a goroutine of its own. *)
(* The proxy skips a firing while JobRunningState says that a job of the   *)
(* same name runs; it reads that flag and sets it in two critical sections.*)
(***************************************************************************)
EXTENDS Integers, FiniteSets

CONSTANTS
  Task,       \* the enabled tasks of the configuration
  Name,       \* names of jobs
  NameOf,     \* the name of a task; nothing keeps two tasks from sharing one
  Immediate,  \* tasks that also run once when they are added
  Run         \* goroutines of firings; bounds how many there are at once

ASSUME TaskAssumption == NameOf \in [Task -> Name] /\ Immediate \subseteq Task

VARIABLES
  added,    \* tasks that StartCronJob has dealt with
  engine,   \* the scheduler: "nil", "made", "running" or "stopped"
  running,  \* JobRunningState
  run,      \* each firing: where its proxy is
  waiting,  \* CronJobShutdown: "no", "polling", "returned" or "expired"
  \* history variable, which no action of the code reads
  raced     \* names of which a firing has passed the check while another was between
            \* its check and its set, until every run that has passed is over

cronVars == <<added, engine, running, run, waiting, raced>>

Idle == [pc |-> "idle"]
At(pc, t) == [pc |-> pc, task |-> t]

\* The firings of a name that have passed the check, and those of them that have not
\* set the flag yet.
Passed(n) == {r \in Run : run[r].pc \in {"set", "job", "reset"} /\ NameOf[run[r].task] = n}
BeforeSet(n) == {r \in Run : run[r].pc = "set" /\ NameOf[run[r].task] = n}

CronInit ==
  /\ added = {}
  /\ engine = "nil"
  /\ running = [n \in Name |-> FALSE]
  /\ run = [r \in Run |-> Idle]
  /\ waiting = "no"
  /\ raced = {}

-----------------------------------------------------------------------------
(* StartCronJob.                                                           *)

\* The task is handed to the scheduler, which the first one makes, and run at once if
\* it asks for that.
AddTask(t) ==
  /\ engine \in {"nil", "made"}
  /\ t \notin added
  /\ added' = added \cup {t}
  /\ engine' = "made"
  /\ IF t \in Immediate
     THEN \E r \in Run : run[r] = Idle /\ run' = [run EXCEPT ![r] = At("check", t)]
     ELSE UNCHANGED run
  /\ UNCHANGED <<running, waiting, raced>>

StartEngine ==
  /\ engine = "made"
  /\ Task # {} /\ added = Task
  /\ engine' = "running"
  /\ UNCHANGED <<added, running, run, waiting, raced>>

\* StartCronJob has returned, with a task to schedule or without.
CronStarted == Task = {} \/ engine \in {"running", "stopped"}

\* The schedule of a task comes round.
Fire(t) ==
  /\ engine = "running"
  /\ \E r \in Run : run[r] = Idle /\ run' = [run EXCEPT ![r] = At("check", t)]
  /\ UNCHANGED <<added, engine, running, waiting, raced>>

-----------------------------------------------------------------------------
(* jobFuncProxy.                                                           *)

\* GetJobRunningState: the firing is skipped while the flag is set.
Check(r) ==
  LET t == run[r].task
      n == NameOf[t]
  IN  /\ run[r].pc = "check"
      /\ run' = [run EXCEPT ![r] = IF running[n] THEN Idle ELSE At("set", t)]
      /\ raced' = IF ~running[n] /\ BeforeSet(n) # {} THEN raced \cup {n} ELSE raced
      /\ UNCHANGED <<added, engine, running, waiting>>

\* A mutated form of SetRunning: the flag is left for the job to set.
SetRunningForgotten(r) ==
  /\ run[r].pc = "set"
  /\ run' = [run EXCEPT ![r] = At("job", run[r].task)]
  /\ UNCHANGED <<added, engine, running, waiting, raced>>

SetRunning(r) ==
  LET t == run[r].task
  IN  /\ run[r].pc = "set"
      /\ running' = [running EXCEPT ![NameOf[t]] = TRUE]
      /\ run' = [run EXCEPT ![r] = At("job", t)]
      /\ UNCHANGED <<added, engine, waiting, raced>>

\* A mutated form of EndJob: the flag is cleared behind the call, which a panic
\* does not reach.
EndJobInline(r, panics) ==
  LET t == run[r].task
  IN  /\ run[r].pc = "job"
      /\ run' = [run EXCEPT ![r] = IF panics THEN Idle ELSE At("reset", t)]
      /\ UNCHANGED <<added, engine, running, waiting, raced>>

\* The job returns, panics, or is not found; the deferred function runs.
EndJob(r, panics) ==
  LET t == run[r].task
  IN  /\ run[r].pc = "job"
      /\ run' = [run EXCEPT ![r] = At("reset", t)]
      /\ UNCHANGED <<added, engine, running, waiting, raced>>

\* The flag is cleared even if another run of the name goes on.
Reset(r) ==
  LET n == NameOf[run[r].task]
  IN  /\ run[r].pc = "reset"
      /\ running' = [running EXCEPT ![n] = FALSE]
      /\ run' = [run EXCEPT ![r] = Idle]
      /\ raced' = IF Passed(n) = {r} THEN raced \ {n} ELSE raced
      /\ UNCHANGED <<added, engine, waiting>>

-----------------------------------------------------------------------------
(* CronJobShutdown.                                                        *)

\* The scheduler fires no more. Without one there is nothing to wait for.
StopEngine ==
  /\ waiting = "no"
  /\ waiting' = IF engine = "nil" THEN "returned" ELSE "polling"
  /\ engine' = IF engine = "running" THEN "stopped" ELSE engine
  /\ UNCHANGED <<added, running, run, raced>>

IsAnyJobRunning == \E n \in Name : running[n]

\* A poll that finds a flag set changes nothing and comes round again.
Poll ==
  /\ waiting = "polling"
  /\ ~IsAnyJobRunning
  /\ waiting' = "returned"
  /\ UNCHANGED <<added, engine, running, run, raced>>

\* A mutated form of Expire: the context is only looked at when no flag is set.
ExpireUnflagged ==
  /\ waiting = "polling"
  /\ ~IsAnyJobRunning
  /\ waiting' = "expired"
  /\ UNCHANGED <<added, engine, running, run, raced>>

\* The context is done, and the poll before has found a flag set.
Expire ==
  /\ waiting = "polling"
  /\ waiting' = "expired"
  /\ UNCHANGED <<added, engine, running, run, raced>>

-----------------------------------------------------------------------------
RunStep ==
  \/ \E r \in Run : Check(r)
  \/ \E r \in Run : SetRunning(r)
  \/ \E r \in Run, panics \in BOOLEAN : EndJob(r, panics)
  \/ \E r \in Run : Reset(r)

CronNext ==
  \/ \E t \in Task : AddTask(t)
  \/ StartEngine
  \/ \E t \in Task : Fire(t)
  \/ RunStep
  \/ StopEngine
  \/ Poll
  \/ Expire

CronSpec == CronInit /\ [][CronNext]_cronVars

-----------------------------------------------------------------------------
(* Properties.                                                             *)

RunState == {Idle} \cup [pc : {"check", "set", "job", "reset"}, task : Task]

\* Types of the scheduler's state.
CronTypeOK ==
  /\ added \in SUBSET Task
  /\ engine \in {"nil", "made", "running", "stopped"}
  /\ running \in [Name -> BOOLEAN]
  /\ run \in [Run -> RunState]
  /\ waiting \in {"no", "polling", "returned", "expired"}
  /\ raced \in SUBSET Name

Working(n) == {r \in Run : run[r].pc \in {"job", "reset"} /\ NameOf[run[r].task] = n}

\* SingletonCronTask, "previous job is running,skip once.": two runs of a name are
\* under way only after two firings were between the check (73) and the set (85)
\* together, and never again once every run of that race is over. A firing that comes
\* while a job is at work finds its flag, however jobs end and however often names
\* have raced before.
SingletonUnlessRaced ==
  \A n \in Name \ raced : \A q, r \in Passed(n) : q = r

\* JobRunningState: outside of such a race the flag is right, and even in one it is
\* not left set by a run that has ended, in a panic or not, so no job is locked out.
FlagIsRight ==
  \A n \in Name : /\ running[n] => Working(n) # {}
                  /\ n \notin raced => (running[n] <=> Working(n) # {})
=============================================================================
