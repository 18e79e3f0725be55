---------------------------- MODULE PipelineManager ----------------------------
(***************************************************************************)
(* class PipelineManager of pipeline/pipeline_manager.py: the registry of  *)
(* pipelines and the threads that work on it.  An operator is a thread of  *)
(* the API's executor, with one request at a time; Main is the thread in   *)
(* start(), Monitor the one in _monitor_threads().                         *)
(*                                                                         *)
(* The manager's lock is held to look at the registry and to change it,    *)
(* never while a pipeline stops or a job is loaded.  What happens under    *)
(* the lock is one action; at[a] says which of them actor a is before.     *)
(***************************************************************************)
EXTENDS Pipeline

CONSTANTS
  Operators,   \* concurrent API requests
  Main,
  Monitor,
  Ops,         \* the requests operators make; "shutdown" is the signal
  MaxCalls,    \* bound: API requests
  Limit,       \* max_threads
  Early,       \* requests may come while start() starts the jobs
  MaxAttempt   \* bound: attempts counted in _crash_backoff

JobOps == {"start", "stop", "restart"}
AllOps == JobOps \cup {"restart_all", "offline", "online"}

ASSUME ManagerAssumption ==
  /\ Ops \subseteq AllOps \cup {"shutdown"}
  /\ MaxCalls \in Nat /\ Limit \in Nat /\ MaxAttempt \in Nat \ {0}
  /\ Early \in BOOLEAN
  /\ Main # Monitor /\ Main \notin Operators /\ Monitor \notin Operators

Actors == Operators \cup {Main, Monitor}

VARIABLES
  registry,  \* registry[j]: _pipelines
  offline,   \* _offline
  managing,  \* _running of the manager
  shutdown,  \* _shutdown_event of the manager
  backoff,   \* backoff[j]: the attempts in _crash_backoff; 0 for no entry or (0, 0)
  at,        \* at[a]: what actor a does next
  doing,     \* doing[a]: the request it works on
  todo,      \* todo[a]: the jobs it has not reached
  job,       \* job[a]: the job it is at
  pipe,      \* pipe[a]: the pipeline it stops
  joins,     \* joins[a]: the thread it waits for
  attempt,   \* the monitor's local attempt
  calls      \* API requests so far

managerVars == <<registry, offline, managing, shutdown, backoff>>
actorVars == <<at, doing, todo, job, pipe, joins, attempt, calls>>
vars == <<pipelineVars, managerVars, actorVars>>

Places == {"idle", "request", "next", "find", "signal", "join", "forget",
           "start", "load", "look", "wait", "gone"}

\* Every variable has its type.
ManagerTypeOK ==
  /\ PipelineTypeOK
  /\ registry \in [Jobs -> Pipelines \cup {None}]
  /\ offline \in BOOLEAN /\ managing \in BOOLEAN /\ shutdown \in BOOLEAN
  /\ backoff \in [Jobs -> 0..MaxAttempt] /\ attempt \in 0..MaxAttempt
  /\ at \in [Actors -> Places]
  /\ doing \in [Actors -> AllOps \cup {"none", "boot", "watch", "shutdown"}]
  /\ todo \in [Actors -> SUBSET Jobs]
  /\ job \in [Actors -> Jobs \cup {NoJob}]
  /\ pipe \in [Actors -> Pipelines \cup {None}]
  /\ joins \in [Actors -> Threads \cup {None}]
  /\ calls \in 0..MaxCalls

Init ==
  /\ PipelineInit
  /\ registry = [j \in Jobs |-> None]
  /\ offline = FALSE /\ managing = FALSE /\ shutdown = FALSE
  /\ backoff = [j \in Jobs |-> 0] /\ attempt = 0
  /\ at = [a \in Actors |-> IF a = Main THEN "request" ELSE "idle"]
  /\ doing = [a \in Actors |-> IF a = Main THEN "boot" ELSE "none"]
  /\ todo = [a \in Actors |-> {}]
  /\ job = [a \in Actors |-> NoJob]
  /\ pipe = [a \in Actors |-> None]
  /\ joins = [a \in Actors |-> None]
  /\ calls = 0

Registered == {j \in Jobs : registry[j] # None}

\* The pools.
AnyOf(S) == CHOOSE x \in S : TRUE
FreeThreads == {t \in Threads : ~Alive(t) /\ \A a \in Actors : joins[a] # t}
FreePipelines ==
  {p \in Pipelines : /\ \A j \in Jobs : registry[j] # p
                     /\ \A a \in Actors : pipe[a] # p
                     /\ \A t \in Threads : of[t] # p}

Goto(a, place) == at' = [at EXCEPT ![a] = place]

-----------------------------------------------------------------------------
(* Requests. *)

\* The handler, in the API's event loop, which ends with a shutdown: it
\* answers a start of a running job and an empty change of mode by itself.
Call(a) ==
  /\ a \in Operators /\ at[a] = "idle" /\ ~shutdown
  /\ Early \/ managing
  /\ calls < MaxCalls /\ calls' = calls + 1
  /\ \E op \in Ops \cap AllOps :
       /\ op = "offline" => ~offline
       /\ op = "online" => offline
       /\ doing' = [doing EXCEPT ![a] = op]
       /\ IF op \in JobOps
          THEN \E j \in Jobs :
                 /\ op = "start" /\ j \in Registered => ~running[registry[j]]
                 /\ job' = [job EXCEPT ![a] = j]
          ELSE UNCHANGED job
  /\ Goto(a, "request")
  /\ UNCHANGED <<pipelineVars, managerVars, todo, pipe, joins, attempt>>

\* The first locked part of the manager's method: the list of jobs to work on.
\* Loading the enabled jobs may fail and give none.
Request(a) ==
  /\ at[a] = "request"
  /\ \/ doing[a] \in JobOps /\ todo' = [todo EXCEPT ![a] = {job[a]}]
     \/ doing[a] \in {"restart_all", "offline"} /\ todo' = [todo EXCEPT ![a] = Registered]
     \/ doing[a] \in {"online", "boot"} /\ todo' = [todo EXCEPT ![a] = Jobs]
     \/ doing[a] \in {"online", "boot"} /\ todo' = [todo EXCEPT ![a] = {}]
  /\ offline' = ((offline \/ doing[a] = "offline") /\ doing[a] # "online")
  /\ Goto(a, "next")
  /\ UNCHANGED <<pipelineVars, registry, managing, shutdown, backoff>>
  /\ UNCHANGED <<doing, job, pipe, joins, attempt, calls>>

\* The next job of the loop.
NextJob(a) ==
  /\ at[a] = "next"
  /\ \E j \in todo[a] :
       /\ job' = [job EXCEPT ![a] = j]
       /\ todo' = [todo EXCEPT ![a] = @ \ {j}]
  /\ Goto(a, CASE doing[a] \in {"start", "online"} -> "start"
               [] doing[a] = "boot" -> "load"
               [] doing[a] = "watch" -> "look"
               [] OTHER -> "find")
  /\ UNCHANGED <<pipelineVars, managerVars, doing, pipe, joins, attempt, calls>>

\* The end of the loop; start() then waits for the shutdown signal.
Return(a) ==
  /\ at[a] = "next" /\ todo[a] = {}
  /\ Goto(a, CASE doing[a] = "boot" -> "wait"
               [] doing[a] = "shutdown" -> "gone"
               [] OTHER -> "idle")
  /\ managing' = (managing \/ doing[a] = "boot")
  /\ doing' = [doing EXCEPT ![a] = "none"]
  /\ job' = [job EXCEPT ![a] = NoJob]
  /\ UNCHANGED <<pipelineVars, registry, offline, shutdown, backoff>>
  /\ UNCHANGED <<todo, pipe, joins, attempt, calls>>

-----------------------------------------------------------------------------
(* stop_job; a restart goes on with start_job whatever stop_job returned. *)

AfterStop(a) == IF doing[a] \in {"restart", "restart_all"} THEN "start" ELSE "next"

FindPipeline(a) ==
  /\ at[a] = "find"
  /\ pipe' = [pipe EXCEPT ![a] = registry[job[a]]]
  /\ Goto(a, IF registry[job[a]] = None THEN AfterStop(a) ELSE "signal")
  /\ UNCHANGED <<pipelineVars, managerVars, doing, todo, job, joins, attempt, calls>>

Signal(a) ==
  /\ at[a] = "signal"
  /\ IF NothingToStop(pipe[a])
     THEN Goto(a, "forget") /\ UNCHANGED <<pipelineVars, joins>>
     ELSE /\ Tell(pipe[a])
          /\ joins' = [joins EXCEPT ![a] = thread[pipe[a]]]
          /\ Goto(a, "join")
  /\ UNCHANGED <<managerVars, doing, todo, job, pipe, attempt, calls>>

StopJoined(a) ==
  /\ at[a] = "join" /\ ~Alive(joins[a])
  /\ joins' = [joins EXCEPT ![a] = None]
  /\ Goto(a, "forget")
  /\ UNCHANGED <<pipelineVars, managerVars, doing, todo, job, pipe, attempt, calls>>

\* Slip: the result of Pipeline.stop is not looked at.
StopTimesOutUnseen(a) ==
  /\ at[a] = "join" /\ Alive(joins[a])
  /\ joins' = [joins EXCEPT ![a] = None]
  /\ Goto(a, "forget")
  /\ UNCHANGED <<pipelineVars, managerVars, doing, todo, job, pipe, attempt, calls>>

\* join() gives up: the pipeline stays in the registry.
StopTimesOut(a) ==
  /\ at[a] = "join" /\ Alive(joins[a])
  /\ joins' = [joins EXCEPT ![a] = None]
  /\ pipe' = [pipe EXCEPT ![a] = None]
  /\ Goto(a, AfterStop(a))
  /\ UNCHANGED <<pipelineVars, managerVars, doing, todo, job, attempt, calls>>

\* The entry of the job is deleted, whatever it holds by now; without one the
\* KeyError ends the work on this job.
Forget(a) ==
  /\ at[a] = "forget"
  /\ pipe' = [pipe EXCEPT ![a] = None]
  /\ IF registry[job[a]] = None
     THEN Goto(a, "next") /\ UNCHANGED <<registry, backoff>>
     ELSE /\ registry' = [registry EXCEPT ![job[a]] = None]
          /\ backoff' = [backoff EXCEPT ![job[a]] = 0]
          /\ Goto(a, AfterStop(a))
  /\ UNCHANGED <<pipelineVars, offline, managing, shutdown>>
  /\ UNCHANGED <<doing, todo, job, joins, attempt, calls>>

-----------------------------------------------------------------------------
(* start_job and _start_job_internal. *)

\* What _handle_job_crash makes of start_job's result.
Returned(a, success) ==
  backoff' = IF a = Monitor
             THEN [backoff EXCEPT ![job[a]] = IF success THEN 0 ELSE attempt]
             ELSE backoff

\* A pipeline of the registry is started again, with no look at max_threads.
StartKnown(a) ==
  /\ at[a] = "start" /\ job[a] \in Registered
  /\ LET p == registry[job[a]]
     IN \/ IsRunning(p) /\ Returned(a, FALSE) /\ UNCHANGED pipelineVars
        \/ /\ ~IsRunning(p) /\ FreeThreads # {}
           /\ Start(p, AnyOf(FreeThreads))
           /\ Returned(a, TRUE)
  /\ Goto(a, "next")
  /\ UNCHANGED <<registry, offline, managing, shutdown>>
  /\ UNCHANGED <<doing, todo, job, pipe, joins, attempt, calls>>

\* Otherwise the lock is released and the job is loaded, or not found.
StartUnknown(a) ==
  /\ at[a] = "start" /\ job[a] \notin Registered
  /\ \/ Goto(a, "load") /\ UNCHANGED backoff
     \/ Goto(a, "next") /\ Returned(a, FALSE)
  /\ UNCHANGED <<pipelineVars, registry, offline, managing, shutdown>>
  /\ UNCHANGED <<doing, todo, job, pipe, joins, attempt, calls>>

RunningCount == Cardinality({j \in Registered : IsRunning(registry[j])})

\* Slip: no second look at the registry after the job was loaded.
MayStartUnseen(j) == RunningCount < Limit

MayStart(j) == (j \in Registered => ~IsRunning(registry[j])) /\ RunningCount < Limit

\* _start_job_internal, which returns nothing: start_job answers True.
StartInternal(a) ==
  /\ at[a] = "load"
  /\ \/ ~MayStart(job[a]) /\ UNCHANGED <<pipelineVars, registry>>
     \/ /\ MayStart(job[a]) /\ FreePipelines # {} /\ FreeThreads # {}
        /\ Make(job[a], AnyOf(FreePipelines), AnyOf(FreeThreads))
        /\ registry' = [registry EXCEPT ![job[a]] = AnyOf(FreePipelines)]
  /\ Returned(a, TRUE)
  /\ Goto(a, "next")
  /\ UNCHANGED <<offline, managing, shutdown, doing, todo, job, pipe, joins, attempt, calls>>

-----------------------------------------------------------------------------
(* _monitor_threads *)

\* Slip: only jobs that run are looked at.
MonitorTickRunning ==
  /\ at[Monitor] = "idle" /\ managing /\ ~offline
  /\ todo' = [todo EXCEPT ![Monitor] = {j \in Registered : IsRunning(registry[j])}]
  /\ doing' = [doing EXCEPT ![Monitor] = "watch"]
  /\ Goto(Monitor, "next")
  /\ UNCHANGED <<pipelineVars, managerVars, job, pipe, joins, attempt, calls>>

MonitorTick ==
  /\ at[Monitor] = "idle" /\ managing /\ ~offline
  /\ todo' = [todo EXCEPT ![Monitor] = Registered]
  /\ doing' = [doing EXCEPT ![Monitor] = "watch"]
  /\ Goto(Monitor, "next")
  /\ UNCHANGED <<pipelineVars, managerVars, job, pipe, joins, attempt, calls>>

HasCrashed(j) == j \in Registered /\ ~IsRunning(registry[j]) /\ Crashed(registry[j])
NextAttempt(j) == IF backoff[j] = MaxAttempt THEN MaxAttempt ELSE backoff[j] + 1

LooksFine ==
  /\ at[Monitor] = "look" /\ ~HasCrashed(job[Monitor])
  /\ Goto(Monitor, "next")
  /\ UNCHANGED <<pipelineVars, managerVars, doing, todo, job, pipe, joins, attempt, calls>>

\* _handle_job_crash: too early, after a restart that returned False, ...
BacksOff ==
  /\ at[Monitor] = "look" /\ HasCrashed(job[Monitor])
  /\ backoff[job[Monitor]] > 0
  /\ backoff' = [backoff EXCEPT ![job[Monitor]] = NextAttempt(job[Monitor])]
  /\ Goto(Monitor, "next")
  /\ UNCHANGED <<pipelineVars, registry, offline, managing, shutdown>>
  /\ UNCHANGED <<doing, todo, job, pipe, joins, attempt, calls>>

\* ... or start_job.
RestartsCrashed ==
  /\ at[Monitor] = "look" /\ HasCrashed(job[Monitor])
  /\ attempt' = NextAttempt(job[Monitor])
  /\ Goto(Monitor, "start")
  /\ UNCHANGED <<pipelineVars, managerVars, doing, todo, job, pipe, joins, calls>>

-----------------------------------------------------------------------------
(* Shutdown: the signal wakes start() up, which calls stop(). *)

TriggerShutdown ==
  /\ "shutdown" \in Ops /\ ~shutdown
  /\ shutdown' = TRUE
  /\ UNCHANGED <<pipelineVars, registry, offline, managing, backoff, actorVars>>

StopAll ==
  /\ at[Main] = "wait" /\ shutdown
  /\ managing' = FALSE
  /\ todo' = [todo EXCEPT ![Main] = Registered]
  /\ doing' = [doing EXCEPT ![Main] = "shutdown"]
  /\ Goto(Main, "next")
  /\ UNCHANGED <<pipelineVars, registry, offline, shutdown, backoff>>
  /\ UNCHANGED <<job, pipe, joins, attempt, calls>>

-----------------------------------------------------------------------------
ActorStep(a) ==
  \/ Request(a) \/ NextJob(a) \/ Return(a)
  \/ FindPipeline(a) \/ Signal(a) \/ StopJoined(a) \/ StopTimesOut(a) \/ Forget(a)
  \/ StartKnown(a) \/ StartUnknown(a) \/ StartInternal(a)

MonitorStep == MonitorTick \/ LooksFine \/ BacksOff \/ RestartsCrashed

ThreadStep(t) ==
  /\ \/ Begin(t) \/ SetupRaises(t) \/ EnterLoop(t)
     \/ Obey(t) \/ EndByItself(t) \/ Finish(t)
  /\ UNCHANGED <<managerVars, actorVars>>

Next ==
  \/ \E a \in Actors : Call(a) \/ ActorStep(a)
  \/ MonitorStep \/ TriggerShutdown \/ StopAll
  \/ \E t \in Threads : ThreadStep(t)

\* A thread that can run does; a coroutine that is told ends; a backoff passes.
Fairness ==
  /\ \A a \in Actors : WF_vars(ActorStep(a))
  /\ WF_vars(MonitorStep) /\ SF_vars(RestartsCrashed)
  /\ \A t \in Threads : WF_vars((Begin(t) \/ EnterLoop(t) \/ Obey(t) \/ Finish(t))
                                /\ UNCHANGED <<managerVars, actorVars>>)

Spec == Init /\ [][Next]_vars /\ Fairness

-----------------------------------------------------------------------------
(***************************************************************************)
(* A pipeline that runs is the one the registry holds for its job: nobody  *)
(* loses a thread.  stop_job reads the entry, waits without the lock and   *)
(* deletes whatever the entry holds then.                                  *)
(***************************************************************************)
NoOrphan == \A t \in Threads : Alive(t) => registry[owner[of[t]]] = of[t]

(***************************************************************************)
(* The entry of a running pipeline is never replaced by another one:       *)
(* _start_job_internal looks again after start_job released the lock to    *)
(* load the job.                                                           *)
(***************************************************************************)
RunningNotReplaced ==
  [][\A j \in Registered : IsRunning(registry[j]) => registry'[j] \in {registry[j], None}]_vars

(***************************************************************************)
(* max_threads bounds the jobs that run at the same time.                  *)
(***************************************************************************)
LimitRespected == Cardinality({t \in Threads : Alive(t)}) <= Limit

(***************************************************************************)
(* A job that crashed does not stay crashed while the manager is online:   *)
(* the monitor restarts it, however the requests interleave with it.       *)
(***************************************************************************)
CrashedJobRestarted ==
  \A j \in Jobs : []<>(~HasCrashed(j) \/ offline \/ ~managing)
=============================================================================
