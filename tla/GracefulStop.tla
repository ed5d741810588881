---------------------------- MODULE GracefulStop ----------------------------
(***************************************************************************)
(* The life of a process from the start of its cron jobs to its end:       *)
(* LandauServer.Start and gracefulStop, entry/engine.go, over CronJobs.    *)
(*                                                                         *)
(* gracefulStop waits for a signal and then shuts everything down at once: *)
(* two HTTP servers, the gRPC server, the cron jobs and the application's  *)
(* callback, each in a goroutine, and the keep-alive notice in its own.    *)
(* A shutdown that fails ends the process on the spot (log.Fatalf).        *)
(***************************************************************************)
EXTENDS CronJobs

CONSTANTS
  HttpServer,  \* "srv" and "secondSrv", as far as configured
  GrpcServer,  \* grpcServer, if configured
  MaxLoad      \* cap: requests in progress at one server

ASSUME LoadAssumption == MaxLoad \in Nat /\ HttpServer \cap GrpcServer = {}

VARIABLES
  main,     \* "starting", "waiting" for signals, "reloading", "stopping", and at
            \* its end "clean" or "killed"
  server,   \* each server: "up", "closing" or "down"
  load,     \* requests a server is working on
  destroy,  \* destoryCallback: "no", "running" or "done"
  app,      \* appShutdownCallback: "no", "polling" or "returned"
  notice,   \* NotifyCheckerShutdown has returned
  late      \* GracefulTimeout is over

engineVars == <<main, server, load, destroy, app, notice, late>>
vars == <<cronVars, main, server, load, destroy, app, notice, late>>

Server == HttpServer \cup GrpcServer
Alive == main \notin {"clean", "killed"}

Init ==
  /\ CronInit
  /\ main = "starting"
  /\ server = [s \in Server |-> "up"]
  /\ load = [s \in Server |-> 0]
  /\ destroy = "no"
  /\ app = "no"
  /\ notice = FALSE
  /\ late = FALSE

-----------------------------------------------------------------------------
(* Serving.                                                                *)

\* The servers are started behind the jobs, and the signals are subscribed to.
Started ==
  /\ main = "starting"
  /\ CronStarted
  /\ main' = "waiting"
  /\ UNCHANGED <<cronVars, server, load, destroy, app, notice, late>>

Request(s) ==
  /\ CronStarted
  /\ server[s] = "up" /\ load[s] < MaxLoad
  /\ load' = [load EXCEPT ![s] = @ + 1]
  /\ UNCHANGED <<cronVars, main, server, destroy, app, notice, late>>

Respond(s) ==
  /\ load[s] > 0
  /\ load' = [load EXCEPT ![s] = @ - 1]
  /\ UNCHANGED <<cronVars, main, server, destroy, app, notice, late>>

\* SIGUSR1. The channel of signals has no buffer: one that comes while the main
\* goroutine is not waiting, here or once it stops, is lost.
Reload ==
  /\ main = "waiting"
  /\ main' = "reloading"
  /\ UNCHANGED <<cronVars, server, load, destroy, app, notice, late>>

ReloadReturns ==
  /\ main = "reloading"
  /\ main' = "waiting"
  /\ UNCHANGED <<cronVars, server, load, destroy, app, notice, late>>

-----------------------------------------------------------------------------
(* gracefulStop.                                                           *)

\* SIGTERM and the like: the clocks of all shutdowns start now.
Terminate ==
  /\ main = "waiting"
  /\ main' = "stopping"
  /\ UNCHANGED <<cronVars, server, load, destroy, app, notice, late>>

Timeout ==
  /\ main = "stopping" /\ ~late
  /\ late' = TRUE
  /\ UNCHANGED <<cronVars, main, server, load, destroy, app, notice>>

\* Shutdown and GracefulStop take no new requests and wait for those in progress.
CloseServer(s) ==
  /\ main = "stopping"
  /\ server[s] = "up"
  /\ server' = [server EXCEPT ![s] = "closing"]
  /\ UNCHANGED <<cronVars, main, load, destroy, app, notice, late>>

\* A mutated form of ServerDown: nobody waits for the requests in progress.
ServerDownAtOnce(s) ==
  /\ server[s] = "closing"
  /\ server' = [server EXCEPT ![s] = "down"]
  /\ UNCHANGED <<cronVars, main, load, destroy, app, notice, late>>

ServerDown(s) ==
  /\ server[s] = "closing" /\ load[s] = 0
  /\ server' = [server EXCEPT ![s] = "down"]
  /\ UNCHANGED <<cronVars, main, load, destroy, app, notice, late>>

\* The HTTP servers' Shutdown gives up at the timeout; gRPC's GracefulStop has none.
ServerExpires(s) ==
  /\ server[s] = "closing" /\ late
  /\ main' = "killed"
  /\ UNCHANGED <<cronVars, server, load, destroy, app, notice, late>>

StopCron ==
  /\ main = "stopping"
  /\ StopEngine
  /\ UNCHANGED engineVars

CronExpires ==
  /\ late
  /\ Expire
  /\ main' = "killed"
  /\ UNCHANGED <<server, load, destroy, app, notice, late>>

\* appShutdownCallback starts destoryCallback, if there is one, and polls a flag
\* that it sets when it is done.
StartDestroy ==
  /\ main = "stopping" /\ app = "no"
  /\ \/ app' = "polling" /\ destroy' = "running"
     \/ app' = "returned" /\ UNCHANGED destroy
  /\ UNCHANGED <<cronVars, main, server, load, notice, late>>

DestroyReturns ==
  /\ destroy = "running"
  /\ destroy' = "done"
  /\ UNCHANGED <<cronVars, main, server, load, app, notice, late>>

PollDestroy ==
  /\ app = "polling" /\ destroy = "done"
  /\ app' = "returned"
  /\ UNCHANGED <<cronVars, main, server, load, destroy, notice, late>>

DestroyExpires ==
  /\ app = "polling" /\ late
  /\ main' = "killed"
  /\ UNCHANGED <<cronVars, server, load, destroy, app, notice, late>>

\* Every check of the round that carries the notice ends at HealthCheckTimeout.
NoticeReturns ==
  /\ main = "stopping" /\ ~notice
  /\ notice' = TRUE
  /\ UNCHANGED <<cronVars, main, server, load, destroy, app, late>>

\* wg.Wait is over.
Complete ==
  /\ main = "stopping"
  /\ notice
  /\ \A s \in Server : server[s] = "down"
  /\ waiting = "returned" /\ app = "returned"
  /\ main' = "clean"
  /\ UNCHANGED <<cronVars, server, load, destroy, app, notice, late>>

-----------------------------------------------------------------------------
\* The scheduler and the jobs go on whatever the main goroutine does.
CronStep ==
  /\ \/ \E t \in Task : AddTask(t)
     \/ StartEngine
     \/ \E t \in Task : Fire(t)
     \/ RunStep
     \/ Poll
  /\ UNCHANGED engineVars

Step ==
  \/ Started \/ Reload \/ ReloadReturns \/ Terminate \/ Timeout
  \/ \E s \in Server : Request(s)
  \/ \E s \in Server : Respond(s)
  \/ \E s \in Server : CloseServer(s)
  \/ \E s \in Server : ServerDown(s)
  \/ \E s \in HttpServer : ServerExpires(s)
  \/ StopCron \/ CronExpires
  \/ StartDestroy \/ DestroyReturns \/ PollDestroy \/ DestroyExpires
  \/ NoticeReturns \/ Complete
  \/ CronStep

Next == Alive /\ Step

Spec == Init /\ [][Next]_vars

\* The goroutines of gracefulStop, each of which goes from one wait to the next.
ShutdownServer(s) == CloseServer(s) \/ ServerDown(s) \/ (s \in HttpServer /\ ServerExpires(s))
ShutdownCron == StopCron \/ CronExpires \/ (Poll /\ UNCHANGED engineVars)
ShutdownApp == StartDestroy \/ PollDestroy \/ DestroyExpires
Proxy(r) == (Check(r) \/ SetRunning(r) \/ Reset(r)) /\ UNCHANGED engineVars

\* They go on, time passes, and a proxy leaves the steps around its job. Nothing is
\* assumed of the jobs, of the HTTP handlers or of destoryCallback; calls of gRPC,
\* for which no timeout is set, do end.
EngineFairness ==
  /\ WF_vars(Alive /\ Timeout)
  /\ \A s \in Server : WF_vars(Alive /\ ShutdownServer(s))
  /\ \A s \in GrpcServer : WF_vars(Alive /\ Respond(s))
  /\ WF_vars(Alive /\ ShutdownCron)
  /\ WF_vars(Alive /\ ShutdownApp)
  /\ WF_vars(Alive /\ (NoticeReturns \/ Complete))
  /\ \A r \in Run : WF_vars(Alive /\ Proxy(r))

FairSpec == Spec /\ EngineFairness

-----------------------------------------------------------------------------
(* Properties.                                                             *)

\* Types of the engine's state; the scheduler fires no more once gracefulStop waits
\* for its jobs.
TypeOK ==
  /\ CronTypeOK
  /\ waiting # "no" => engine # "running"
  /\ main \in {"starting", "waiting", "reloading", "stopping", "clean", "killed"}
  /\ server \in [Server -> {"up", "closing", "down"}]
  /\ load \in [Server -> 0 .. MaxLoad]
  /\ destroy \in {"no", "running", "done"}
  /\ app \in {"no", "polling", "returned"}
  /\ notice \in BOOLEAN
  /\ late \in BOOLEAN

\* gracefulStop: a clean end interrupts nothing it has waited for, neither a
\* request nor the application's callback.
CleanEndIsDrained ==
  main = "clean" => /\ \A s \in Server : load[s] = 0
                    /\ destroy # "running"

\* gracefulStop always ends, cleanly or at its timeout, whatever jobs, handlers and
\* the application's callback do.
StopEnds == main = "stopping" ~> ~Alive

\* A job that ends is not locked out: a name that fires again and again is run
\* again and again, for as long as the process does not stop.
Fires(n) == \E t \in Task : NameOf[t] = n /\ Fire(t)

JobsComeRound ==
  \A n \in Name :
    /\ []<><<Fires(n)>>_vars
    /\ \A r \in Run : []<>(run[r].pc # "job")
    => []<>(\E r \in Run : run[r].pc = "job" /\ NameOf[run[r].task] = n)

\* CronJobShutdown waits for the cron jobs to complete (the comment of
\* cron_job.go:144): when the process ends cleanly, none is still at work.
JobsCompleted ==
  main = "clean" => \A r \in Run : run[r].pc # "job"
=============================================================================
