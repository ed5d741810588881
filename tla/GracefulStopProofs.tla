------------------------- MODULE GracefulStopProofs -------------------------
(***************************************************************************)
(* Proofs about CronJobs and GracefulStop: for any tasks, names, firings,  *)
(* servers and bounds.                                                     *)
(***************************************************************************)
EXTENDS GracefulStop, TLAPS

CronIInv == CronTypeOK /\ SingletonUnlessRaced /\ FlagIsRight

-----------------------------------------------------------------------------
(* One firing moves.                                                       *)

\* A firing that goes from one state to another of the same task is the only one
\* that joins or leaves the firings that have passed the check, or are at work.
LEMMA RunMoves ==
  ASSUME NEW r \in Run, NEW t \in Task,
         run[r] = Idle \/ run[r].task = t, run'[r] = Idle \/ run'[r].task = t,
         \A q \in Run \ {r} : run'[q] = run[q]
  PROVE  \A n \in Name, q \in Run :
           /\ q \in Passed(n)' <=> IF q = r /\ n = NameOf[t]
                                   THEN run'[r].pc \in {"set", "job", "reset"}
                                   ELSE q \in Passed(n)
           /\ q \in Working(n)' <=> IF q = r /\ n = NameOf[t]
                                    THEN run'[r].pc \in {"job", "reset"}
                                    ELSE q \in Working(n)
<1>2. Idle.pc \notin {"set", "job", "reset"}
  BY DEF Idle
<1>3. ASSUME NEW n \in Name, n # NameOf[t] PROVE r \notin Passed(n) /\ r \notin Working(n)
  BY <1>2, <1>3 DEF Passed, Working
<1>4. ASSUME NEW n \in Name, n # NameOf[t] PROVE r \notin Passed(n)' /\ r \notin Working(n)'
  BY <1>2, <1>4 DEF Passed, Working
<1>5. /\ r \in Passed(NameOf[t])' <=> run'[r].pc \in {"set", "job", "reset"}
      /\ r \in Working(NameOf[t])' <=> run'[r].pc \in {"job", "reset"}
  BY <1>2 DEF Passed, Working
<1>6. \A n \in Name, q \in Run \ {r} : /\ q \in Passed(n)' <=> q \in Passed(n)
                                       /\ q \in Working(n)' <=> q \in Working(n)
  BY DEF Passed, Working
<1> QED
  BY <1>3, <1>4, <1>5, <1>6

\* A firing that goes on, and one that is over.
LEMMA RunGoesOn ==
  ASSUME CronTypeOK, NEW r \in Run, NEW t \in Task, run[r].task = t,
         NEW pc \in {"check", "set", "job", "reset"}, run' = [run EXCEPT ![r] = At(pc, t)]
  PROVE  /\ \A q \in Run \ {r} : run'[q] = run[q]
         /\ run'[r].task = t
         /\ run'[r].pc = pc
<1>1. run'[r] = At(pc, t) /\ \A q \in Run \ {r} : run'[q] = run[q]
  BY DEF CronTypeOK
<1> QED
  BY <1>1 DEF At

LEMMA RunEnds ==
  ASSUME CronTypeOK, NEW r \in Run, NEW t \in Task, run[r].task = t,
         run' = [run EXCEPT ![r] = Idle]
  PROVE  /\ \A q \in Run \ {r} : run'[q] = run[q]
         /\ run'[r] = Idle
         /\ run'[r].pc = "idle"
<1>1. run'[r] = Idle /\ \A q \in Run \ {r} : run'[q] = run[q]
  BY DEF CronTypeOK
<1> QED
  BY <1>1 DEF Idle

LEMMA RunFacts ==
  ASSUME CronTypeOK, NEW r \in Run, run[r].pc # "idle"
  PROVE  /\ run[r].task \in Task
         /\ NameOf[run[r].task] \in Name
         /\ \A pc \in {"check", "set", "job", "reset"} : At(pc, run[r].task) \in RunState
  BY TaskAssumption DEF CronTypeOK, RunState, Idle, At

\* Passed and Working are sets of firings, the latter part of the former.
LEMMA WorkingPassed ==
  \A n \in Name : Working(n) \subseteq Passed(n) /\ Passed(n) \subseteq Run
  BY DEF Working, Passed

\* The invariant in terms of single firings.
LEMMA Unfolded ==
  ASSUME CronIInv
  PROVE  /\ \A n \in Name \ raced : \A q, r \in Passed(n) : q = r
         /\ \A n \in Name : running[n] => \E q \in Run : q \in Working(n)
         /\ \A n \in Name \ raced : \A q \in Working(n) : running[n]
  BY WorkingPassed DEF CronIInv, SingletonUnlessRaced, FlagIsRight

LEMMA Folded ==
  ASSUME CronTypeOK',
         \A n \in Name \ raced' : \A q, r \in Passed(n)' : q = r,
         \A n \in Name : running'[n] => \E q \in Run : q \in Working(n)',
         \A n \in Name \ raced' : \A q \in Working(n)' : running'[n]
  PROVE  CronIInv'
<1>1. SingletonUnlessRaced'
  BY DEF SingletonUnlessRaced
<1>3. FlagIsRight'
  <2> SUFFICES ASSUME NEW n \in Name
               PROVE  /\ running'[n] => Working(n)' # {}
                      /\ n \notin raced' => (running'[n] <=> Working(n)' # {})
    BY DEF FlagIsRight
  <2>1. running'[n] => Working(n)' # {}
    OBVIOUS
  <2>2. ASSUME n \notin raced', Working(n)' # {} PROVE running'[n]
    BY <2>2
  <2> QED
    BY <2>1, <2>2
<1> QED
  BY <1>1, <1>3 DEF CronIInv

-----------------------------------------------------------------------------
(* The steps of the jobs.                                                  *)

\* A firing that has not passed the check, and does not pass it, changes nothing.
LEMMA BeforeCheck ==
  ASSUME CronIInv, NEW r \in Run, NEW t \in Task, NEW new \in RunState,
         run[r] = Idle \/ (run[r].task = t /\ run[r].pc = "check"),
         new = Idle \/ (new.task = t /\ new.pc = "check"),
         run' = [run EXCEPT ![r] = new],
         CronTypeOK', UNCHANGED <<running, raced>>
  PROVE  CronIInv'
<1>1. CronTypeOK /\ NameOf[t] \in Name
  BY TaskAssumption DEF CronIInv
<1>2. r \notin Passed(NameOf[t]) /\ r \notin Working(NameOf[t])
  BY DEF Passed, Working, Idle
<1>3. /\ run'[r] = Idle \/ run'[r].task = t
      /\ run'[r].pc \notin {"set", "job", "reset"}
      /\ \A q \in Run \ {r} : run'[q] = run[q]
  <2>1. run'[r] = new /\ \A q \in Run \ {r} : run'[q] = run[q]
    BY <1>1 DEF CronTypeOK
  <2> QED
    BY <2>1 DEF Idle
<1>4. \A n \in Name, q \in Run : /\ q \in Passed(n)' <=> q \in Passed(n)
                                 /\ q \in Working(n)' <=> q \in Working(n)
  BY <1>2, <1>3, RunMoves
<1>5. \A n \in Name : Passed(n)' = Passed(n) /\ Working(n)' = Working(n)
  <2>1. \A n \in Name : Passed(n)' \subseteq Run /\ Working(n)' \subseteq Run
    BY DEF Passed, Working
  <2> QED
    BY <1>4, <2>1, WorkingPassed
<1> QED
  BY <1>5, Unfolded, Folded

LEMMA FiringStarts ==
  ASSUME CronIInv, NEW t \in Task, NEW r \in Run, run[r] = Idle,
         run' = [run EXCEPT ![r] = At("check", t)],
         CronTypeOK', UNCHANGED <<running, raced>>
  PROVE  CronIInv'
<1>1. At("check", t) \in RunState
  BY DEF At, RunState
<1> QED
  BY <1>1, BeforeCheck DEF At

LEMMA CheckStep == ASSUME CronIInv, NEW r \in Run, Check(r) PROVE CronIInv'
<1>a. PICK t \in Task, n \in Name : run[r].task = t /\ NameOf[t] = n
  BY RunFacts DEF CronIInv, Check
<1>1. /\ CronTypeOK /\ run[r].pc = "check"
      /\ run' = [run EXCEPT ![r] = IF running[n] THEN Idle ELSE At("set", t)]
      /\ raced' = IF ~running[n] /\ BeforeSet(n) # {} THEN raced \cup {n} ELSE raced
      /\ UNCHANGED <<added, engine, running, waiting>>
  BY <1>a DEF Check, CronIInv
<1>2. t \in Task /\ n \in Name /\ Idle \in RunState /\ At("set", t) \in RunState
  BY <1>1, <1>a, RunFacts DEF RunState
<1>3. CronTypeOK'
  BY <1>1, <1>2 DEF CronTypeOK
<1>4. CASE running[n]
  <2>1. run' = [run EXCEPT ![r] = Idle] /\ raced' = raced
    BY <1>1, <1>4
  <2> QED
    BY <1>1, <1>2, <1>3, <1>a, <2>1, BeforeCheck
<1>5. CASE ~running[n]
  <2>1. run' = [run EXCEPT ![r] = At("set", t)]
    BY <1>1, <1>5
  <2>3. r \notin Working(n)
    BY <1>1, <1>a DEF Working
  <2>4. \A m \in Name, q \in Run : /\ q \in Passed(m)' <=> (q \in Passed(m) \/ (q = r /\ m = n))
                                   /\ q \in Working(m)' <=> q \in Working(m)
    <3>1. run'[r].pc = "set" /\ run'[r].task = t /\ \A q \in Run \ {r} : run'[q] = run[q]
      BY <1>1, <1>a, <2>1, RunGoesOn
    <3> QED
      BY <1>a, <2>3, <3>1, RunMoves
  <2>5. \A m \in Name : Passed(m)' \subseteq Run /\ Working(m)' \subseteq Run
    BY DEF Passed, Working
  <2>6. \A m \in Name \ raced' : \A p, q \in Passed(m)' : p = q
    <3> SUFFICES ASSUME NEW m \in Name \ raced', NEW p \in Passed(m)', NEW q \in Passed(m)'
                 PROVE  p = q
      OBVIOUS
    <3>1. m \notin raced /\ (m = n => BeforeSet(n) = {})
      BY <1>1, <1>5
    \* Who has passed and is not before its set is at work, and the flag says so.
    <3>2. m = n => Passed(n) = {}
      <4>1. m = n => Passed(n) \subseteq Working(n)
        BY <3>1 DEF Passed, BeforeSet, Working
      <4>2. m = n => Working(n) = {}
        BY <1>5, <3>1, Unfolded
      <4> QED
        BY <4>1, <4>2
    <3> QED
      BY <2>4, <2>5, <3>1, <3>2, Unfolded
  <2>7. \A m \in Name : running'[m] => \E q \in Run : q \in Working(m)'
    BY <1>1, <2>4, Unfolded
  <2>8. \A m \in Name \ raced' : \A q \in Working(m)' : running'[m]
    BY <1>1, <2>4, <2>5, Unfolded
  <2> QED
    BY <1>3, <2>6, <2>7, <2>8, Folded
<1> QED
  BY <1>4, <1>5

LEMMA SetRunningStep == ASSUME CronIInv, NEW r \in Run, SetRunning(r) PROVE CronIInv'
<1>a. PICK t \in Task, n \in Name : run[r].task = t /\ NameOf[t] = n
  BY RunFacts DEF CronIInv, SetRunning
<1>1. /\ CronTypeOK /\ run[r].pc = "set"
      /\ running' = [running EXCEPT ![n] = TRUE]
      /\ run' = [run EXCEPT ![r] = At("job", t)]
      /\ UNCHANGED <<added, engine, waiting, raced>>
  BY <1>a DEF SetRunning, CronIInv
<1>2. t \in Task /\ n \in Name /\ At("job", t) \in RunState
  BY <1>1, <1>a, RunFacts
<1>3. /\ running' \in [Name -> BOOLEAN] /\ running'[n] = TRUE
      /\ \A m \in Name \ {n} : running'[m] = running[m]
  BY <1>1, <1>2 DEF CronTypeOK
<1>4. CronTypeOK'
  BY <1>1, <1>2, <1>3 DEF CronTypeOK
<1>5. r \in Passed(n)
  BY <1>1, <1>a DEF Passed
<1>6. \A m \in Name, q \in Run :
        /\ q \in Passed(m)' <=> q \in Passed(m)
        /\ q \in Working(m)' <=> (q \in Working(m) \/ (q = r /\ m = n))
  <2>1. run'[r].pc = "job" /\ run'[r].task = t /\ \A q \in Run \ {r} : run'[q] = run[q]
    BY <1>1, <1>a, RunGoesOn
  <2> QED
    BY <1>a, <1>5, <2>1, RunMoves
<1>7. \A m \in Name : Passed(m)' \subseteq Run /\ Working(m)' \subseteq Run
  BY DEF Passed, Working
<1>8. \A m \in Name \ raced' : \A p, q \in Passed(m)' : p = q
  BY <1>1, <1>6, <1>7, Unfolded
<1>9. \A m \in Name : running'[m] => \E q \in Run : q \in Working(m)'
  <2> SUFFICES ASSUME NEW m \in Name, running'[m] PROVE \E q \in Run : q \in Working(m)'
    OBVIOUS
  <2>1. CASE m = n
    BY <1>6, <2>1
  <2>2. CASE m # n
    BY <1>3, <1>6, <2>2, Unfolded
  <2> QED
    BY <2>1, <2>2
<1>10. \A m \in Name \ raced' : \A q \in Working(m)' : running'[m]
  <2> SUFFICES ASSUME NEW m \in Name \ raced', NEW q \in Working(m)' PROVE running'[m]
    OBVIOUS
  <2>1. CASE m = n
    BY <1>3, <2>1
  <2>2. CASE m # n
    <3>1. q \in Working(m) /\ m \notin raced
      BY <1>1, <1>6, <1>7, <2>2
    <3>2. running[m]
      BY <3>1, Unfolded
    <3> QED
      BY <1>3, <2>2, <3>2
  <2> QED
    BY <2>1, <2>2
<1> QED
  BY <1>4, <1>8, <1>9, <1>10, Folded

LEMMA EndJobStep ==
  ASSUME CronIInv, NEW r \in Run, NEW panics \in BOOLEAN, EndJob(r, panics) PROVE CronIInv'
<1>a. PICK t \in Task, n \in Name : run[r].task = t /\ NameOf[t] = n
  BY RunFacts DEF CronIInv, EndJob
<1>1. /\ CronTypeOK /\ run[r].pc = "job"
      /\ run' = [run EXCEPT ![r] = At("reset", t)]
      /\ UNCHANGED <<added, engine, running, waiting, raced>>
  BY <1>a DEF EndJob, CronIInv
<1>2. t \in Task /\ n \in Name /\ At("reset", t) \in RunState
  BY <1>1, <1>a, RunFacts
<1>3. CronTypeOK'
  BY <1>1, <1>2 DEF CronTypeOK
<1>4. r \in Passed(n) /\ r \in Working(n)
  BY <1>1, <1>a DEF Passed, Working
<1>5. \A m \in Name, q \in Run : /\ q \in Passed(m)' <=> q \in Passed(m)
                                 /\ q \in Working(m)' <=> q \in Working(m)
  <2>1. run'[r].pc = "reset" /\ run'[r].task = t /\ \A q \in Run \ {r} : run'[q] = run[q]
    BY <1>1, <1>a, RunGoesOn
  <2> QED
    BY <1>a, <1>4, <2>1, RunMoves
<1>6. \A m \in Name : Passed(m)' \subseteq Run /\ Working(m)' \subseteq Run
  BY DEF Passed, Working
<1>7. \A m \in Name : Passed(m)' = Passed(m) /\ Working(m)' = Working(m)
  BY <1>5, <1>6, WorkingPassed
<1> QED
  BY <1>1, <1>3, <1>7, Unfolded, Folded

LEMMA ResetStep == ASSUME CronIInv, NEW r \in Run, Reset(r) PROVE CronIInv'
<1>a. PICK t \in Task, n \in Name : run[r].task = t /\ NameOf[t] = n
  BY RunFacts DEF CronIInv, Reset
<1>1. /\ CronTypeOK /\ run[r].pc = "reset"
      /\ running' = [running EXCEPT ![n] = FALSE]
      /\ run' = [run EXCEPT ![r] = Idle]
      /\ raced' = IF Passed(n) = {r} THEN raced \ {n} ELSE raced
      /\ UNCHANGED <<added, engine, waiting>>
  BY <1>a DEF Reset, CronIInv
<1>2. t \in Task /\ n \in Name /\ Idle \in RunState
  BY <1>1, <1>a, RunFacts DEF RunState
<1>3. /\ running' \in [Name -> BOOLEAN] /\ running'[n] = FALSE
      /\ \A m \in Name \ {n} : running'[m] = running[m]
  BY <1>1, <1>2 DEF CronTypeOK
<1>4. CronTypeOK'
  BY <1>1, <1>2, <1>3 DEF CronTypeOK
<1>5. r \in Passed(n)
  BY <1>1, <1>a DEF Passed
<1>6. \A m \in Name, q \in Run :
        /\ q \in Passed(m)' <=> (q \in Passed(m) /\ ~(q = r /\ m = n))
        /\ q \in Working(m)' <=> (q \in Working(m) /\ ~(q = r /\ m = n))
  <2>1. run'[r] = Idle /\ run'[r].pc = "idle" /\ \A q \in Run \ {r} : run'[q] = run[q]
    BY <1>1, <1>a, RunEnds
  <2> QED
    BY <1>a, <2>1, RunMoves
<1>7. \A m \in Name : Passed(m)' \subseteq Run /\ Working(m)' \subseteq Run
  BY DEF Passed, Working
\* Where the last run of a name ends, nothing is left of it.
<1>8. n \notin raced' => Passed(n) = {r}
  BY <1>1, <1>2, <1>5, Unfolded
<1>9. n \notin raced' => Passed(n)' = {} /\ Working(n)' = {}
  BY <1>2, <1>6, <1>7, <1>8, WorkingPassed
<1>10. \A m \in Name \ {n} : m \notin raced' => m \notin raced
  BY <1>1
<1>11. \A m \in Name \ raced' : \A p, q \in Passed(m)' : p = q
  BY <1>6, <1>7, <1>9, <1>10, Unfolded
<1>12. \A m \in Name : running'[m] => \E q \in Run : q \in Working(m)'
  BY <1>3, <1>6, Unfolded
<1>13. \A m \in Name \ raced' : \A q \in Working(m)' : running'[m]
  <2> SUFFICES ASSUME NEW m \in Name \ raced', NEW q \in Working(m)' PROVE running'[m]
    OBVIOUS
  <2>1. m # n /\ m \notin raced
    BY <1>9, <1>10
  <2>2. q \in Working(m)
    BY <1>6, <1>7
  <2>3. running[m]
    BY <2>1, <2>2, Unfolded
  <2> QED
    BY <1>3, <2>1, <2>3
<1> QED
  BY <1>4, <1>11, <1>12, <1>13, Folded

\* A step that moves no firing and no flag.
LEMMA QuietStep ==
  ASSUME CronIInv, CronTypeOK', UNCHANGED <<running, run, raced>> PROVE CronIInv'
<1>1. \A n \in Name : Passed(n)' = Passed(n) /\ Working(n)' = Working(n)
  BY DEF Passed, Working
<1> QED
  BY <1>1, Unfolded, Folded

LEMMA CronInvInit == CronInit => CronIInv
<1> SUFFICES ASSUME CronInit PROVE CronIInv
  OBVIOUS
<1>1. CronTypeOK
  BY DEF CronInit, CronTypeOK, RunState
<1>2. \A n \in Name : Passed(n) = {} /\ Working(n) = {}
  BY DEF CronInit, Passed, Working, Idle
<1> QED
  BY <1>1, <1>2 DEF CronIInv, SingletonUnlessRaced, FlagIsRight, CronInit

LEMMA CronInvNext == CronIInv /\ [CronNext]_cronVars => CronIInv'
<1> SUFFICES ASSUME CronIInv, [CronNext]_cronVars PROVE CronIInv'
  OBVIOUS
<1>1. CronTypeOK
  BY DEF CronIInv
<1>2. ASSUME NEW t \in Task, AddTask(t) PROVE CronIInv'
  <2>1. /\ UNCHANGED <<running, waiting, raced>>
        /\ added' = added \cup {t} /\ engine' = "made"
        /\ \/ UNCHANGED run
           \/ \E r \in Run : run[r] = Idle /\ run' = [run EXCEPT ![r] = At("check", t)]
    BY <1>2 DEF AddTask
  <2>2. CASE UNCHANGED run
    <3>1. CronTypeOK'
      BY <1>1, <2>1, <2>2 DEF CronTypeOK
    <3> QED
      BY <2>1, <2>2, <3>1, QuietStep
  <2>3. ASSUME NEW r \in Run, run[r] = Idle, run' = [run EXCEPT ![r] = At("check", t)]
        PROVE  CronIInv'
    <3>1. CronTypeOK'
      BY <1>1, <2>1, <2>3 DEF CronTypeOK, RunState, At
    <3> QED
      BY <2>1, <2>3, <3>1, FiringStarts
  <2> QED
    BY <2>1, <2>2, <2>3
<1>3. CASE StartEngine
  <2>1. CronTypeOK' /\ UNCHANGED <<running, run, raced>>
    BY <1>1, <1>3 DEF StartEngine, CronTypeOK
  <2> QED
    BY <2>1, QuietStep
<1>4. ASSUME NEW t \in Task, Fire(t) PROVE CronIInv'
  <2>1. PICK r \in Run : run[r] = Idle /\ run' = [run EXCEPT ![r] = At("check", t)]
    BY <1>4 DEF Fire
  <2>2. UNCHANGED <<added, engine, running, waiting, raced>>
    BY <1>4 DEF Fire
  <2>3. CronTypeOK'
    BY <1>1, <2>1, <2>2 DEF CronTypeOK, RunState, At
  <2> QED
    BY <2>1, <2>2, <2>3, FiringStarts
<1>5. CASE RunStep
  BY <1>5, CheckStep, SetRunningStep, EndJobStep, ResetStep DEF RunStep
<1>6. CASE StopEngine \/ Poll \/ Expire \/ UNCHANGED cronVars
  <2>1. CASE StopEngine
    BY <1>1, <2>1, QuietStep DEF StopEngine, CronTypeOK
  <2>2. CASE Poll \/ Expire
    BY <1>1, <2>2, QuietStep DEF Poll, Expire, CronTypeOK
  <2>3. CASE UNCHANGED cronVars
    BY <1>1, <2>3, QuietStep DEF cronVars, CronTypeOK
  <2> QED
    BY <1>6, <2>1, <2>2, <2>3
<1> QED
  BY <1>2, <1>3, <1>4, <1>5, <1>6 DEF CronNext

\* The jobs by themselves, whoever shuts them down.
THEOREM CronJobsKeep == CronSpec => []CronIInv
  BY CronInvInit, CronInvNext, PTL DEF CronSpec

-----------------------------------------------------------------------------
(* The process.                                                            *)

\* Whatever the process does, its cron jobs do what they do by themselves.
LEMMA StepRunsJobs == [Next]_vars => [CronNext]_cronVars
<1> SUFFICES ASSUME [Next]_vars PROVE CronNext \/ UNCHANGED cronVars
  OBVIOUS
<1>1. CASE CronStep
  BY <1>1 DEF CronStep, CronNext
<1>2. CASE StopCron \/ CronExpires
  BY <1>2 DEF StopCron, CronExpires, CronNext
<1>3. CASE UNCHANGED vars
  BY <1>3 DEF vars
<1>4. CASE Started \/ Reload \/ ReloadReturns \/ Terminate \/ Timeout
  BY <1>4 DEF Started, Reload, ReloadReturns, Terminate, Timeout
<1>5. CASE StartDestroy \/ DestroyReturns \/ PollDestroy \/ DestroyExpires \/ NoticeReturns \/ Complete
  BY <1>5 DEF StartDestroy, DestroyReturns, PollDestroy, DestroyExpires, NoticeReturns, Complete
<1>6. ASSUME NEW s \in Server, Request(s) \/ Respond(s) \/ CloseServer(s) \/ ServerDown(s)
      PROVE  UNCHANGED cronVars
  BY <1>6 DEF Request, Respond, CloseServer, ServerDown
<1>7. ASSUME NEW s \in HttpServer, ServerExpires(s) PROVE UNCHANGED cronVars
  BY <1>7 DEF ServerExpires
<1> QED
  BY <1>1, <1>2, <1>3, <1>4, <1>5, <1>6, <1>7 DEF Next, Step

\* The engine implements the component of the cron jobs.
THEOREM EngineRunsCronJobs == Spec => CronSpec
<1>1. Init => CronInit
  BY DEF Init
<1> QED
  BY <1>1, StepRunsJobs, PTL DEF Spec, CronSpec

\* SingletonCronTask, "previous job is running,skip once.": whatever the engine does, two
\* runs of a name are under way only if two firings were between check and set together.
THEOREM SingletonUnlessRacedHolds == Spec => []SingletonUnlessRaced
<1>1. CronIInv => SingletonUnlessRaced
  BY DEF CronIInv
<1> QED
  BY <1>1, CronJobsKeep, EngineRunsCronJobs, PTL

\* JobRunningState.
THEOREM FlagIsRightHolds == Spec => []FlagIsRight
<1>1. CronIInv => FlagIsRight
  BY DEF CronIInv
<1> QED
  BY <1>1, CronJobsKeep, EngineRunsCronJobs, PTL

\* The engine's own state, and what each goroutine of gracefulStop has seen when it
\* is done: no request at its server, destoryCallback back.
EngineTypeOK ==
  /\ main \in {"starting", "waiting", "reloading", "stopping", "clean", "killed"}
  /\ server \in [Server -> {"up", "closing", "down"}]
  /\ load \in [Server -> 0 .. MaxLoad]
  /\ destroy \in {"no", "running", "done"}
  /\ app \in {"no", "polling", "returned"}
  /\ notice \in BOOLEAN
  /\ late \in BOOLEAN

Drained ==
  /\ \A s \in Server : server[s] = "down" => load[s] = 0
  /\ app = "no" => destroy = "no"
  /\ app = "returned" => destroy # "running"

EngineIInv == EngineTypeOK /\ Drained /\ CleanEndIsDrained

LEMMA EngineInvInit == Init => EngineIInv
<1> SUFFICES ASSUME Init PROVE EngineIInv
  OBVIOUS
<1>1. EngineTypeOK
  <2>1. 0 \in 0 .. MaxLoad
    BY LoadAssumption
  <2> QED
    BY <2>1 DEF Init, EngineTypeOK
<1>2. Drained /\ CleanEndIsDrained
  BY DEF Init, Drained, CleanEndIsDrained
<1> QED
  BY <1>1, <1>2 DEF EngineIInv

LEMMA EngineInvNext == EngineIInv /\ [Next]_vars => EngineIInv'
<1> SUFFICES ASSUME EngineIInv, [Next]_vars PROVE EngineIInv'
  OBVIOUS
<1> USE DEF EngineIInv
<1>1. CASE UNCHANGED engineVars
  BY <1>1 DEF engineVars, EngineTypeOK, Drained, CleanEndIsDrained
<1>2. CASE Started \/ Reload \/ ReloadReturns \/ Terminate \/ Timeout
  BY <1>2 DEF Started, Reload, ReloadReturns, Terminate, Timeout,
              EngineTypeOK, Drained, CleanEndIsDrained
<1>3. ASSUME Alive, NEW s \in Server, Request(s) PROVE EngineIInv'
  <2>1. EngineTypeOK'
    BY <1>3, LoadAssumption DEF Request, EngineTypeOK
  <2>2. Drained' /\ CleanEndIsDrained'
    BY <1>3 DEF Request, Alive, EngineTypeOK, Drained, CleanEndIsDrained
  <2> QED
    BY <2>1, <2>2
<1>4. ASSUME Alive, NEW s \in Server, Respond(s) PROVE EngineIInv'
  <2>1. EngineTypeOK'
    BY <1>4, LoadAssumption DEF Respond, EngineTypeOK
  <2>2. Drained' /\ CleanEndIsDrained'
    BY <1>4 DEF Respond, Alive, EngineTypeOK, Drained, CleanEndIsDrained
  <2> QED
    BY <2>1, <2>2
<1>5. ASSUME Alive, NEW s \in Server, CloseServer(s) \/ ServerDown(s) PROVE EngineIInv'
  BY <1>5 DEF CloseServer, ServerDown, Alive, EngineTypeOK, Drained, CleanEndIsDrained
<1>6. ASSUME NEW s \in HttpServer, ServerExpires(s) PROVE EngineIInv'
  BY <1>6 DEF ServerExpires, EngineTypeOK, Drained, CleanEndIsDrained
<1>7. CASE StopCron
  BY <1>1, <1>7 DEF StopCron
<1>8. CASE CronExpires \/ DestroyExpires
  BY <1>8 DEF CronExpires, DestroyExpires, EngineTypeOK, Drained, CleanEndIsDrained
<1>9. CASE Alive /\ (StartDestroy \/ DestroyReturns \/ PollDestroy \/ NoticeReturns)
  BY <1>9 DEF StartDestroy, DestroyReturns, PollDestroy, NoticeReturns, Alive,
              EngineTypeOK, Drained, CleanEndIsDrained
<1>10. CASE Complete
  BY <1>10 DEF Complete, EngineTypeOK, Drained, CleanEndIsDrained
<1>11. CASE CronStep
  BY <1>1, <1>11 DEF CronStep
<1>12. CASE UNCHANGED vars
  BY <1>1, <1>12 DEF vars, engineVars
<1> QED
  BY <1>2, <1>3, <1>4, <1>5, <1>6, <1>7, <1>8, <1>9, <1>10, <1>11, <1>12 DEF Next, Step

\* A clean end of gracefulStop.
THEOREM CleanEndIsDrainedHolds == Spec => []CleanEndIsDrained
<1>1. EngineIInv => CleanEndIsDrained
  BY DEF EngineIInv
<1> QED
  BY <1>1, EngineInvInit, EngineInvNext, PTL DEF Spec

\* The scheduler is started before the process may be stopped, and never again.
Scheduled ==
  /\ waiting # "no" => main # "starting" /\ engine # "running"
  /\ main \notin {"starting", "clean", "killed"} => CronStarted

LEMMA ScheduledInit == Init => Scheduled
  BY DEF Init, CronInit, Scheduled, CronStarted

LEMMA ScheduledNext == Scheduled /\ [Next]_vars => Scheduled'
<1> SUFFICES ASSUME Scheduled, [Next]_vars PROVE Scheduled'
  OBVIOUS
<1>1. CASE CronStep /\ Alive
  <2>1. UNCHANGED main
    BY <1>1 DEF CronStep, engineVars
  <2>2. ASSUME NEW t \in Task, AddTask(t) PROVE Scheduled'
    BY <2>1, <2>2 DEF AddTask, Scheduled, CronStarted
  <2>3. CASE StartEngine
    BY <1>1, <2>1, <2>3 DEF StartEngine, Scheduled, CronStarted, Alive
  <2>4. ASSUME NEW t \in Task, Fire(t) PROVE Scheduled'
    BY <2>1, <2>4 DEF Fire, Scheduled, CronStarted
  <2>5. CASE RunStep
    BY <2>1, <2>5 DEF RunStep, Check, SetRunning, EndJob, Reset, Scheduled, CronStarted
  <2>6. CASE Poll
    BY <2>1, <2>6 DEF Poll, Scheduled, CronStarted
  <2> QED
    BY <1>1, <2>2, <2>3, <2>4, <2>5, <2>6 DEF CronStep
<1>2. CASE StopCron
  BY <1>2 DEF StopCron, StopEngine, engineVars, Scheduled, CronStarted
<1>3. CASE CronExpires
  BY <1>3 DEF CronExpires, Expire, Scheduled, CronStarted
<1>4. CASE Started
  BY <1>4 DEF Started, cronVars, Scheduled, CronStarted
<1>5. CASE Reload \/ ReloadReturns \/ Terminate \/ Timeout
  BY <1>5 DEF Reload, ReloadReturns, Terminate, Timeout, cronVars, Scheduled, CronStarted
<1>6. CASE StartDestroy \/ DestroyReturns \/ PollDestroy \/ DestroyExpires \/ NoticeReturns \/ Complete
  BY <1>6 DEF StartDestroy, DestroyReturns, PollDestroy, DestroyExpires, NoticeReturns, Complete,
              cronVars, Scheduled, CronStarted
<1>7. ASSUME NEW s \in Server, Request(s) \/ Respond(s) \/ CloseServer(s) \/ ServerDown(s)
      PROVE  Scheduled'
  BY <1>7 DEF Request, Respond, CloseServer, ServerDown, cronVars, Scheduled, CronStarted
<1>8. ASSUME NEW s \in HttpServer, ServerExpires(s) PROVE Scheduled'
  BY <1>8 DEF ServerExpires, cronVars, Scheduled, CronStarted
<1>9. CASE UNCHANGED vars
  BY <1>9 DEF vars, cronVars, Scheduled, CronStarted
<1> QED
  BY <1>1, <1>2, <1>3, <1>4, <1>5, <1>6, <1>7, <1>8, <1>9 DEF Next, Step

\* Type correctness.
THEOREM TypeCorrect == Spec => []TypeOK
<1>1. CronIInv /\ EngineIInv /\ Scheduled => TypeOK
  BY DEF CronIInv, EngineIInv, EngineTypeOK, Scheduled, TypeOK
<1>2. Spec => []EngineIInv
  BY EngineInvInit, EngineInvNext, PTL DEF Spec
<1>3. Spec => []Scheduled
  BY ScheduledInit, ScheduledNext, PTL DEF Spec
<1> QED
  BY <1>1, <1>2, <1>3, CronJobsKeep, EngineRunsCronJobs, PTL
=============================================================================
