------------------------ MODULE PipelineManagerProofs ------------------------
(***************************************************************************)
(* Proofs about PipelineManager, for any number of jobs, operators,        *)
(* requests, pipelines and threads.                                        *)
(***************************************************************************)
EXTENDS PipelineManager, FiniteSetTheorems, TLAPS

Busy == {"find", "signal", "join", "forget", "start", "load", "look"}

\* An actor in the middle of a job has one, and one that stops a pipeline has it.
AtJob ==
  \A a \in Actors :
    /\ at[a] \in Busy => job[a] \in Jobs
    /\ at[a] = "request" /\ doing[a] \in JobOps => job[a] \in Jobs
    /\ at[a] = "signal" => pipe[a] \in Pipelines

TypeInv == ManagerTypeOK /\ AtJob

PipelineType == PipelineTypeOK
RegistryType ==
  /\ registry \in [Jobs -> Pipelines \cup {None}]
  /\ offline \in BOOLEAN /\ managing \in BOOLEAN /\ shutdown \in BOOLEAN
  /\ backoff \in [Jobs -> 0..MaxAttempt] /\ attempt \in 0..MaxAttempt
ActorType ==
  /\ at \in [Actors -> Places]
  /\ doing \in [Actors -> AllOps \cup {"none", "boot", "watch", "shutdown"}]
  /\ todo \in [Actors -> SUBSET Jobs]
  /\ job \in [Actors -> Jobs \cup {NoJob}]
  /\ pipe \in [Actors -> Pipelines \cup {None}]
  /\ joins \in [Actors -> Threads \cup {None}]
  /\ calls \in 0..MaxCalls

LEMMA TypeParts == TypeInv <=> PipelineType /\ RegistryType /\ ActorType /\ AtJob
BY DEF TypeInv, ManagerTypeOK, PipelineType, RegistryType, ActorType

LEMMA TypePartsNext == TypeInv' <=> PipelineType' /\ RegistryType' /\ ActorType' /\ AtJob'
BY DEF TypeInv, ManagerTypeOK, PipelineType, RegistryType, ActorType

LEMMA PipelineUnchanged == PipelineType /\ UNCHANGED pipelineVars => PipelineType'
BY DEF PipelineType, PipelineTypeOK, pipelineVars

LEMMA RegistryUnchanged == RegistryType /\ UNCHANGED <<managerVars, attempt>> => RegistryType'
BY DEF RegistryType, managerVars

LEMMA ActorUnchanged == ActorType /\ AtJob /\ UNCHANGED actorVars => ActorType' /\ AtJob'
BY DEF ActorType, AtJob, actorVars

\* Thread numbers and pipeline numbers are not None.
LEMMA Numbers == None \notin Pipelines /\ None \notin Threads
BY PipelineAssumption DEF Pipelines, Threads, None

LEMMA AnyOfIn == ASSUME NEW S, S # {}  PROVE  AnyOf(S) \in S
BY DEF AnyOf

LEMMA FreeTypes == FreeThreads \subseteq Threads /\ FreePipelines \subseteq Pipelines
BY DEF FreeThreads, FreePipelines

-----------------------------------------------------------------------------
(* Pipelines. *)

LEMMA StartType ==
  ASSUME PipelineType, NEW p \in Pipelines, NEW t \in Threads, Start(p, t)
  PROVE  PipelineType'
<1>1. CASE ~running[p] /\ Spawn(p, t) /\ UNCHANGED owner
  <2>1. slow' \in 0..MaxSlow
    BY <1>1, PipelineAssumption DEF PipelineType, PipelineTypeOK, Spawn
  <2> QED BY <1>1, <2>1 DEF PipelineType, PipelineTypeOK, Spawn, Stages
<1>2. CASE UNCHANGED pipelineVars
  BY <1>2, PipelineUnchanged
<1> QED BY <1>1, <1>2 DEF Start

LEMMA MakeType ==
  ASSUME PipelineType, NEW j \in Jobs, NEW p \in Pipelines, NEW t \in Threads, Make(j, p, t)
  PROVE  PipelineType'
<1>1. slow' \in 0..MaxSlow
  BY PipelineAssumption DEF PipelineType, PipelineTypeOK, Make
<1> QED BY <1>1 DEF PipelineType, PipelineTypeOK, Make, Stages

LEMMA TellType == ASSUME PipelineType, NEW p, Tell(p)  PROVE  PipelineType'
BY DEF PipelineType, PipelineTypeOK, Tell

LEMMA LeaveLoopType ==
  ASSUME PipelineType, NEW t \in Threads, NEW how \in {"returned", "raised"}, LeaveLoop(t, how)
  PROVE  PipelineType'
BY DEF PipelineType, PipelineTypeOK, LeaveLoop, Stages

LEMMA RunType ==
  ASSUME PipelineType, NEW t \in Threads,
         \/ Begin(t) \/ SetupRaises(t) \/ EnterLoop(t)
         \/ Obey(t) \/ EndByItself(t) \/ Finish(t)
  PROVE  PipelineType'
<1>1. CASE Begin(t)
  <2>1. stage' \in [Threads -> Stages]
    BY <1>1 DEF PipelineType, PipelineTypeOK, Begin, Stages
  <2>2. running' \in [Pipelines -> BOOLEAN] /\ failed' \in [Pipelines -> BOOLEAN]
    BY <1>1 DEF PipelineType, PipelineTypeOK, Begin
  <2> QED BY <1>1, <2>1, <2>2 DEF PipelineType, PipelineTypeOK, Begin
<1>2. CASE EnterLoop(t) \/ SetupRaises(t)
  BY <1>2 DEF PipelineType, PipelineTypeOK, EnterLoop, SetupRaises, Stages
<1>3. CASE Obey(t) \/ EndByItself(t)
  BY <1>3, LeaveLoopType DEF Obey, EndByItself
<1>4. CASE Finish(t)
  <2>1. stage' \in [Threads -> Stages]
    BY <1>4 DEF PipelineType, PipelineTypeOK, Finish, Stages
  <2>2. running' \in [Pipelines -> BOOLEAN]
    BY <1>4 DEF PipelineType, PipelineTypeOK, Finish
  <2>3. failed' \in [Pipelines -> BOOLEAN]
    <3>1. \A p \in Pipelines : (failed[p] \/ stage[t] = "raised") \in BOOLEAN
      OBVIOUS
    <3> QED BY <1>4, <3>1 DEF PipelineType, PipelineTypeOK, Finish
  <2>4. of' \in [Threads -> Pipelines \cup {None}] /\ told' \in [Threads -> BOOLEAN]
    BY <1>4 DEF PipelineType, PipelineTypeOK, Finish
  <2>5. /\ thread' \in [Pipelines -> Threads \cup {None}]
        /\ event' \in [Pipelines -> Threads \cup {None}]
    BY <1>4 DEF PipelineType, PipelineTypeOK, Finish
  <2> QED BY <1>4, <2>1, <2>2, <2>3, <2>4, <2>5 DEF PipelineType, PipelineTypeOK, Finish
<1> QED BY <1>1, <1>2, <1>3, <1>4

-----------------------------------------------------------------------------
(* The initial state. *)

LEMMA InitTypes == Init => TypeInv
<1> SUFFICES ASSUME Init  PROVE TypeInv
  OBVIOUS
<1>1. PipelineType
  BY PipelineAssumption DEF Init, PipelineInit, PipelineType, PipelineTypeOK, Stages
<1>2. RegistryType
  <2>1. 0 \in 0..MaxAttempt
    BY ManagerAssumption
  <2>2. registry \in [Jobs -> Pipelines \cup {None}]
    BY DEF Init
  <2> QED BY <2>1, <2>2 DEF Init, RegistryType
<1>3. ActorType
  <2>1. at \in [Actors -> Places]
    BY DEF Init, Places
  <2>2. doing \in [Actors -> AllOps \cup {"none", "boot", "watch", "shutdown"}]
    BY DEF Init
  <2>3. calls \in 0..MaxCalls
    BY ManagerAssumption DEF Init
  <2> QED BY <2>1, <2>2, <2>3 DEF Init, ActorType
<1>4. AtJob
  BY ManagerAssumption DEF Init, AtJob, Busy, JobOps, Actors
<1> QED BY <1>1, <1>2, <1>3, <1>4, TypeParts

-----------------------------------------------------------------------------
(* Steps. *)

LEMMA CallTypes ==
  ASSUME TypeInv, NEW a \in Actors, Call(a)
  PROVE  TypeInv'
<1>1. calls' \in 0..MaxCalls
  BY ManagerAssumption DEF TypeInv, ManagerTypeOK, Call
<1>2. PICK op \in AllOps :
        /\ doing' = [doing EXCEPT ![a] = op]
        /\ op \in JobOps => \E j \in Jobs : job' = [job EXCEPT ![a] = j]
        /\ op \notin JobOps => job' = job
  BY DEF Call
<1>3. at' = [at EXCEPT ![a] = "request"]
  BY DEF Call, Goto
<1>4. ActorType'
  BY <1>1, <1>2, <1>3, TypeParts DEF ActorType, Call, Places
<1>5. AtJob'
  BY <1>2, <1>3, TypeParts DEF ActorType, AtJob, Call, Busy
<1>6. PipelineType' /\ RegistryType'
  BY TypeParts, PipelineUnchanged, RegistryUnchanged DEF Call
<1> QED BY <1>4, <1>5, <1>6, TypePartsNext

LEMMA RequestTypes ==
  ASSUME TypeInv, NEW a \in Actors, Request(a)
  PROVE  TypeInv'
<1>1. at' = [at EXCEPT ![a] = "next"]
  BY DEF Request, Goto
<1>2. todo' \in [Actors -> SUBSET Jobs]
  BY TypeParts DEF ActorType, AtJob, Request, Registered
<1>3. ActorType'
  BY <1>1, <1>2, TypeParts DEF ActorType, Request, Places
<1>4. AtJob'
  BY <1>1, TypeParts DEF ActorType, AtJob, Request, Busy
<1>5. offline' \in BOOLEAN
  BY DEF Request
<1>6. RegistryType'
  BY <1>5, TypeParts DEF RegistryType, Request
<1>7. PipelineType'
  BY TypeParts, PipelineUnchanged DEF Request
<1> QED BY <1>3, <1>4, <1>6, <1>7, TypePartsNext

LEMMA NextJobTypes ==
  ASSUME TypeInv, NEW a \in Actors, NextJob(a)
  PROVE  TypeInv'
<1>1. PICK j \in todo[a] : /\ job' = [job EXCEPT ![a] = j]
                           /\ todo' = [todo EXCEPT ![a] = @ \ {j}]
  BY DEF NextJob
<1>2. j \in Jobs
  BY TypeParts DEF ActorType
<1>3. PICK place \in {"start", "load", "look", "find"} : at' = [at EXCEPT ![a] = place]
  BY DEF NextJob, Goto
<1>4. ActorType'
  BY <1>1, <1>2, <1>3, TypeParts DEF ActorType, NextJob, Places
<1>5. AtJob'
  BY <1>1, <1>2, <1>3, TypeParts DEF ActorType, AtJob, NextJob, Busy
<1>6. PipelineType' /\ RegistryType'
  BY TypeParts, PipelineUnchanged, RegistryUnchanged DEF NextJob
<1> QED BY <1>4, <1>5, <1>6, TypePartsNext

LEMMA ReturnTypes ==
  ASSUME TypeInv, NEW a \in Actors, Return(a)
  PROVE  TypeInv'
<1>1. PICK place \in {"wait", "gone", "idle"} : at' = [at EXCEPT ![a] = place]
  BY DEF Return, Goto
<1>2. ActorType'
  BY <1>1, TypeParts DEF ActorType, Return, Places
<1>3. AtJob'
  BY <1>1, TypeParts DEF ActorType, AtJob, Return, Busy
<1>4. managing' \in BOOLEAN
  BY DEF Return
<1>5. RegistryType'
  BY <1>4, TypeParts DEF RegistryType, Return
<1>6. PipelineType'
  BY TypeParts, PipelineUnchanged DEF Return
<1> QED BY <1>2, <1>3, <1>5, <1>6, TypePartsNext

LEMMA FindPipelineTypes ==
  ASSUME TypeInv, NEW a \in Actors, FindPipeline(a)
  PROVE  TypeInv'
<1>1. job[a] \in Jobs
  BY TypeParts DEF AtJob, FindPipeline, Busy
<1>2. registry[job[a]] \in Pipelines \cup {None}
  BY <1>1, TypeParts DEF RegistryType
<1>3. PICK place \in {"start", "next", "signal"} :
        /\ at' = [at EXCEPT ![a] = place]
        /\ place = "signal" => registry[job[a]] # None
  BY DEF FindPipeline, Goto, AfterStop
<1>4. ActorType'
  BY <1>2, <1>3, TypeParts DEF ActorType, FindPipeline, Places
<1>5. AtJob'
  BY <1>1, <1>2, <1>3, TypeParts DEF ActorType, AtJob, FindPipeline, Busy
<1>6. PipelineType' /\ RegistryType'
  BY TypeParts, PipelineUnchanged, RegistryUnchanged DEF FindPipeline
<1> QED BY <1>4, <1>5, <1>6, TypePartsNext

LEMMA SignalTypes ==
  ASSUME TypeInv, NEW a \in Actors, Signal(a)
  PROVE  TypeInv'
<1>1. job[a] \in Jobs /\ pipe[a] \in Pipelines
  BY TypeParts DEF AtJob, Signal, Busy
<1>2. thread[pipe[a]] \in Threads \cup {None}
  BY <1>1, TypeParts DEF PipelineType, PipelineTypeOK
<1>3. PICK place \in {"forget", "join"} : at' = [at EXCEPT ![a] = place]
  BY DEF Signal, Goto
<1>4. joins' \in [Actors -> Threads \cup {None}]
  BY <1>2, TypeParts DEF ActorType, Signal
<1>5. ActorType'
  BY <1>3, <1>4, TypeParts DEF ActorType, Signal, Places
<1>6. AtJob'
  BY <1>1, <1>3, TypeParts DEF ActorType, AtJob, Signal, Busy
<1>7. PipelineType'
  BY TypeParts, PipelineUnchanged, TellType DEF Signal
<1>8. RegistryType'
  BY TypeParts, RegistryUnchanged DEF Signal
<1> QED BY <1>5, <1>6, <1>7, <1>8, TypePartsNext

LEMMA JoinTypes ==
  ASSUME TypeInv, NEW a \in Actors, StopJoined(a) \/ StopTimesOut(a)
  PROVE  TypeInv'
<1>1. job[a] \in Jobs
  BY TypeParts DEF AtJob, StopJoined, StopTimesOut, Busy
<1>2. PICK place \in {"forget", "start", "next"} : at' = [at EXCEPT ![a] = place]
  BY DEF StopJoined, StopTimesOut, Goto, AfterStop
<1>3. ActorType'
  BY <1>2, TypeParts DEF ActorType, StopJoined, StopTimesOut, Places
<1>4. AtJob'
  BY <1>1, <1>2, TypeParts DEF ActorType, AtJob, StopJoined, StopTimesOut, Busy
<1>5. PipelineType' /\ RegistryType'
  BY TypeParts, PipelineUnchanged, RegistryUnchanged DEF StopJoined, StopTimesOut
<1> QED BY <1>3, <1>4, <1>5, TypePartsNext

LEMMA ForgetTypes ==
  ASSUME TypeInv, NEW a \in Actors, Forget(a)
  PROVE  TypeInv'
<1>1. job[a] \in Jobs
  BY TypeParts DEF AtJob, Forget, Busy
<1>2. PICK place \in {"start", "next"} : at' = [at EXCEPT ![a] = place]
  BY DEF Forget, Goto, AfterStop
<1>3. ActorType'
  BY <1>2, TypeParts DEF ActorType, Forget, Places
<1>4. AtJob'
  BY <1>1, <1>2, TypeParts DEF ActorType, AtJob, Forget, Busy
<1>5. 0 \in 0..MaxAttempt
  BY ManagerAssumption
<1>6. RegistryType'
  BY <1>5, TypeParts DEF RegistryType, Forget
<1>7. PipelineType'
  BY TypeParts, PipelineUnchanged DEF Forget
<1> QED BY <1>3, <1>4, <1>6, <1>7, TypePartsNext

LEMMA ReturnedType ==
  ASSUME TypeInv, NEW a \in Actors, NEW ok \in BOOLEAN, Returned(a, ok)
  PROVE  backoff' \in [Jobs -> 0..MaxAttempt]
<1>1. 0 \in 0..MaxAttempt
  BY ManagerAssumption
<1> QED BY <1>1, TypeParts DEF RegistryType, Returned

\* The end of start_job: the actor goes on, or goes to load the job.
LEMMA AfterStartTypes ==
  ASSUME TypeInv, NEW a \in Actors, NEW place \in {"next", "load"}, Goto(a, place),
         job[a] \in Jobs, UNCHANGED <<doing, todo, job, pipe, joins, attempt, calls>>
  PROVE  ActorType' /\ AtJob'
<1>1. ActorType'
  BY TypeParts DEF ActorType, Goto, Places
<1>2. AtJob'
  BY TypeParts DEF ActorType, AtJob, Goto, Busy
<1> QED BY <1>1, <1>2

LEMMA StartKnownTypes ==
  ASSUME TypeInv, NEW a \in Actors, StartKnown(a)
  PROVE  TypeInv'
<1>1. job[a] \in Registered /\ job[a] \in Jobs
  BY DEF StartKnown, Registered
<1>2. registry[job[a]] \in Pipelines
  BY <1>1, TypeParts DEF RegistryType, Registered
<1>3. ActorType' /\ AtJob'
  BY <1>1, AfterStartTypes DEF StartKnown
<1>4. backoff' \in [Jobs -> 0..MaxAttempt]
  BY ReturnedType DEF StartKnown
<1>5. RegistryType'
  BY <1>4, TypeParts DEF RegistryType, StartKnown
<1>6. PipelineType'
  <2>1. CASE UNCHANGED pipelineVars
    BY <2>1, TypeParts, PipelineUnchanged
  <2>2. CASE FreeThreads # {} /\ Start(registry[job[a]], AnyOf(FreeThreads))
    <3>1. AnyOf(FreeThreads) \in Threads
      BY <2>2, AnyOfIn, FreeTypes
    <3> QED BY <2>2, <3>1, <1>2, TypeParts, StartType
  <2> QED BY <2>1, <2>2 DEF StartKnown
<1> QED BY <1>3, <1>5, <1>6, TypePartsNext

LEMMA StartUnknownTypes ==
  ASSUME TypeInv, NEW a \in Actors, StartUnknown(a)
  PROVE  TypeInv'
<1>1. job[a] \in Jobs
  BY TypeParts DEF AtJob, StartUnknown, Busy
<1>2. ActorType' /\ AtJob'
  BY <1>1, AfterStartTypes DEF StartUnknown
<1>3. backoff' \in [Jobs -> 0..MaxAttempt]
  BY ReturnedType, TypeParts DEF StartUnknown, RegistryType
<1>4. RegistryType'
  BY <1>3, TypeParts DEF RegistryType, StartUnknown
<1>5. PipelineType'
  BY TypeParts, PipelineUnchanged DEF StartUnknown
<1> QED BY <1>2, <1>4, <1>5, TypePartsNext

LEMMA StartInternalTypes ==
  ASSUME TypeInv, NEW a \in Actors, StartInternal(a)
  PROVE  TypeInv'
<1>1. job[a] \in Jobs
  BY TypeParts DEF AtJob, StartInternal, Busy
<1>2. ActorType' /\ AtJob'
  BY <1>1, AfterStartTypes DEF StartInternal
<1>3. backoff' \in [Jobs -> 0..MaxAttempt]
  BY ReturnedType DEF StartInternal
<1>4. PipelineType' /\ registry' \in [Jobs -> Pipelines \cup {None}]
  <2>1. CASE UNCHANGED <<pipelineVars, registry>>
    BY <2>1, TypeParts, PipelineUnchanged DEF RegistryType
  <2>2. CASE /\ FreePipelines # {} /\ FreeThreads # {}
             /\ Make(job[a], AnyOf(FreePipelines), AnyOf(FreeThreads))
             /\ registry' = [registry EXCEPT ![job[a]] = AnyOf(FreePipelines)]
    <3>1. AnyOf(FreeThreads) \in Threads /\ AnyOf(FreePipelines) \in Pipelines
      BY <2>2, AnyOfIn, FreeTypes
    <3> QED BY <2>2, <3>1, <1>1, TypeParts, MakeType DEF RegistryType
  <2> QED BY <2>1, <2>2 DEF StartInternal
<1>5. RegistryType'
  BY <1>3, <1>4, TypeParts DEF RegistryType, StartInternal
<1> QED BY <1>2, <1>4, <1>5, TypePartsNext

LEMMA MonitorTypes ==
  ASSUME TypeInv, MonitorStep
  PROVE  TypeInv'
<1>1. CASE MonitorTick
  <2>1. ActorType' /\ AtJob'
    BY <1>1, TypeParts
    DEF ActorType, AtJob, MonitorTick, Goto, Places, Busy, Registered, JobOps, Actors
  <2> QED BY <1>1, <2>1, TypeParts, TypePartsNext, PipelineUnchanged, RegistryUnchanged
          DEF MonitorTick
<1>2. CASE LooksFine
  <2>1. ActorType' /\ AtJob'
    BY <1>2, TypeParts DEF ActorType, AtJob, LooksFine, Goto, Places, Busy
  <2> QED BY <1>2, <2>1, TypeParts, TypePartsNext, PipelineUnchanged, RegistryUnchanged
          DEF LooksFine
<1>3. ASSUME NEW j \in Jobs
      PROVE  NextAttempt(j) \in 0..MaxAttempt
  <2>1. backoff[j] \in 0..MaxAttempt
    BY TypeParts DEF RegistryType
  <2> QED BY <2>1, ManagerAssumption DEF NextAttempt
<1>4. CASE BacksOff
  <2>1. ActorType' /\ AtJob'
    BY <1>4, TypeParts DEF ActorType, AtJob, BacksOff, Goto, Places, Busy
  <2>2. job[Monitor] \in Jobs
    BY <1>4, TypeParts DEF AtJob, BacksOff, Busy, Actors
  <2>3. RegistryType'
    BY <1>3, <1>4, <2>2, TypeParts DEF RegistryType, BacksOff
  <2> QED BY <1>4, <2>1, <2>3, TypeParts, TypePartsNext, PipelineUnchanged DEF BacksOff
<1>5. CASE RestartsCrashed
  <2>1. job[Monitor] \in Jobs
    BY <1>5, TypeParts DEF AtJob, RestartsCrashed, Busy, Actors
  <2>2. ActorType' /\ AtJob'
    BY <1>5, <2>1, TypeParts DEF ActorType, AtJob, RestartsCrashed, Goto, Places, Busy
  <2>3. RegistryType'
    BY <1>3, <1>5, <2>1, TypeParts DEF RegistryType, RestartsCrashed, managerVars
  <2> QED BY <1>5, <2>2, <2>3, TypeParts, TypePartsNext, PipelineUnchanged DEF RestartsCrashed
<1> QED BY <1>1, <1>2, <1>4, <1>5 DEF MonitorStep

LEMMA ShutdownTypes ==
  ASSUME TypeInv, TriggerShutdown \/ StopAll
  PROVE  TypeInv'
<1>1. CASE TriggerShutdown
  <2>1. RegistryType'
    BY <1>1, TypeParts DEF RegistryType, TriggerShutdown, actorVars
  <2> QED BY <1>1, <2>1, TypeParts, TypePartsNext, PipelineUnchanged, ActorUnchanged
          DEF TriggerShutdown
<1>2. CASE StopAll
  <2>1. ActorType' /\ AtJob'
    BY <1>2, TypeParts
    DEF ActorType, AtJob, StopAll, Goto, Places, Busy, Registered, JobOps, Actors
  <2>2. RegistryType'
    BY <1>2, TypeParts DEF RegistryType, StopAll
  <2> QED BY <1>2, <2>1, <2>2, TypeParts, TypePartsNext, PipelineUnchanged DEF StopAll
<1> QED BY <1>1, <1>2

LEMMA ThreadTypes ==
  ASSUME TypeInv, NEW t \in Threads, ThreadStep(t)
  PROVE  TypeInv'
<1>1. PipelineType'
  BY TypeParts, RunType DEF ThreadStep
<1>2. RegistryType'
  BY TypeParts, RegistryUnchanged DEF ThreadStep, actorVars
<1>3. ActorType' /\ AtJob'
  BY TypeParts, ActorUnchanged DEF ThreadStep
<1> QED BY <1>1, <1>2, <1>3, TypePartsNext

LEMMA StepTypes == TypeInv /\ [Next]_vars => TypeInv'
<1> SUFFICES ASSUME TypeInv, [Next]_vars  PROVE TypeInv'
  OBVIOUS
<1>1. ASSUME NEW a \in Actors, Call(a) \/ ActorStep(a)
      PROVE  TypeInv'
  BY <1>1, CallTypes, RequestTypes, NextJobTypes, ReturnTypes, FindPipelineTypes,
     SignalTypes, JoinTypes, ForgetTypes, StartKnownTypes, StartUnknownTypes,
     StartInternalTypes DEF ActorStep
<1>2. ASSUME NEW t \in Threads, ThreadStep(t)
      PROVE  TypeInv'
  BY <1>2, ThreadTypes
<1>3. CASE UNCHANGED vars
  BY <1>3, TypeParts, TypePartsNext, PipelineUnchanged, RegistryUnchanged, ActorUnchanged
  DEF vars, actorVars
<1> QED BY <1>1, <1>2, <1>3, MonitorTypes, ShutdownTypes DEF Next

\* Every variable of the manager, its actors and its pipelines has its type.
THEOREM ManagerTypeCorrect == Spec => []ManagerTypeOK
<1>1. TypeInv => ManagerTypeOK
  BY DEF TypeInv
<1> QED BY <1>1, InitTypes, StepTypes, PTL DEF Spec

-----------------------------------------------------------------------------
(* The fields of a pipeline and its thread.                                *)

\* Inductive together with the types when no start is slow.
FieldsInv ==
  \A t \in Threads : Alive(t) => /\ of[t] \in Pipelines
                                 /\ running[of[t]] /\ thread[of[t]] = t
                                 /\ stage[t] # "new"

LEMMA FieldsInit == Init => FieldsInv
BY DEF Init, PipelineInit, FieldsInv, Alive

LEMMA FieldsUnchanged == FieldsInv /\ UNCHANGED pipelineVars => FieldsInv'
BY DEF FieldsInv, Alive, pipelineVars

\* start() gives a thread to a pipeline that has none.
LEMMA FieldsStart ==
  ASSUME MaxSlow = 0, PipelineType, FieldsInv, NEW p \in Pipelines, NEW t \in FreeThreads,
         Start(p, t)
  PROVE  FieldsInv'
<1>1. CASE UNCHANGED pipelineVars
  BY <1>1, FieldsUnchanged
<1>2. CASE ~running[p] /\ Spawn(p, t)
  <2>1. ~(slow < MaxSlow)
    BY DEF PipelineType, PipelineTypeOK
  <2>2. \A u \in Threads : Alive(u) => of[u] # p
    BY <1>2 DEF FieldsInv
  <2>3. t \in Threads
    BY FreeTypes
  <2> QED BY <1>2, <2>1, <2>2, <2>3 DEF FieldsInv, Alive, Spawn, PipelineType, PipelineTypeOK
<1> QED BY <1>1, <1>2 DEF Start

LEMMA FieldsMake ==
  ASSUME MaxSlow = 0, PipelineType, FieldsInv, NEW j \in Jobs, NEW p \in FreePipelines,
         NEW t \in FreeThreads, Make(j, p, t)
  PROVE  FieldsInv'
<1>1. ~(slow < MaxSlow)
  BY DEF PipelineType, PipelineTypeOK, Make
<1>2. \A u \in Threads : of[u] # p
  BY DEF FreePipelines
<1>3. t \in Threads /\ p \in Pipelines
  BY FreeTypes
<1> QED BY <1>1, <1>2, <1>3 DEF FieldsInv, Alive, Make, PipelineType, PipelineTypeOK

\* run() clears the fields of its own pipeline, where nobody else is.
LEMMA FieldsRun ==
  ASSUME PipelineType, FieldsInv, NEW t \in Threads,
         \/ Begin(t) \/ SetupRaises(t) \/ EnterLoop(t)
         \/ Obey(t) \/ EndByItself(t) \/ Finish(t)
  PROVE  FieldsInv'
<1>1. t # None
  BY Numbers
<1>2. ~Begin(t)
  BY <1>1 DEF FieldsInv, Alive, Begin
<1>3. CASE EnterLoop(t) \/ SetupRaises(t) \/ Obey(t) \/ EndByItself(t)
  BY <1>1, <1>3
  DEF FieldsInv, Alive, EnterLoop, SetupRaises, Obey, EndByItself, LeaveLoop, PipelineType, PipelineTypeOK
<1>4. CASE Finish(t)
  <2>1. \A u \in Threads : Alive(u) /\ u # t => of[u] # of[t]
    BY <1>1, <1>4 DEF FieldsInv, Alive, Finish
  <2> QED BY <1>1, <1>4, <2>1 DEF FieldsInv, Alive, Finish, PipelineType, PipelineTypeOK
<1> QED BY <1>2, <1>3, <1>4

LEMMA FieldsActor ==
  ASSUME MaxSlow = 0, TypeInv, FieldsInv, NEW a \in Actors, Call(a) \/ ActorStep(a)
  PROVE  FieldsInv'
<1>1. CASE UNCHANGED pipelineVars
  BY <1>1, FieldsUnchanged
<1>2. CASE Signal(a)
  BY <1>2, FieldsUnchanged DEF Signal, Tell, FieldsInv, Alive
<1>3. CASE StartKnown(a) /\ ~UNCHANGED pipelineVars
  <2>1. registry[job[a]] \in Pipelines
    BY <1>3, TypeParts DEF StartKnown, Registered, RegistryType
  <2>2. FreeThreads # {} /\ Start(registry[job[a]], AnyOf(FreeThreads))
    BY <1>3 DEF StartKnown
  <2> QED BY <2>1, <2>2, AnyOfIn, TypeParts, FieldsStart
<1>4. CASE StartInternal(a) /\ ~UNCHANGED pipelineVars
  <2>1. job[a] \in Jobs
    BY <1>4, TypeParts DEF StartInternal, AtJob, Busy
  <2>2. /\ FreePipelines # {} /\ FreeThreads # {}
        /\ Make(job[a], AnyOf(FreePipelines), AnyOf(FreeThreads))
    BY <1>4 DEF StartInternal
  <2> QED BY <2>1, <2>2, AnyOfIn, TypeParts, FieldsMake
<1> QED BY <1>1, <1>2, <1>3, <1>4
    DEF ActorStep, Call, Request, NextJob, Return, FindPipeline, StopJoined, StopTimesOut,
        Forget, StartUnknown

LEMMA FieldsStep == MaxSlow = 0 /\ TypeInv /\ FieldsInv /\ [Next]_vars => FieldsInv'
<1> SUFFICES ASSUME MaxSlow = 0, TypeInv, FieldsInv, [Next]_vars  PROVE FieldsInv'
  OBVIOUS
<1>1. ASSUME NEW t \in Threads, ThreadStep(t)
      PROVE  FieldsInv'
  BY <1>1, TypeParts, FieldsRun DEF ThreadStep
<1>2. CASE MonitorStep \/ TriggerShutdown \/ StopAll
  BY <1>2, FieldsUnchanged
  DEF MonitorStep, MonitorTick, LooksFine, BacksOff, RestartsCrashed, TriggerShutdown, StopAll
<1>3. CASE UNCHANGED vars
  BY <1>3, FieldsUnchanged DEF vars
<1> QED BY <1>1, <1>2, <1>3, FieldsActor DEF Next

\* Without slow starts, a thread in run() is the only one of its pipeline, and
\* the pipeline says so: for any number of concurrent requests and crashes.
THEOREM FieldsSafe == ASSUME MaxSlow = 0  PROVE Spec => []ThreadFields
<1>1. FieldsInv => ThreadFields
  BY DEF FieldsInv, ThreadFields
<1>2. TypeInv /\ FieldsInv /\ [Next]_vars => (TypeInv /\ FieldsInv)'
  BY StepTypes, FieldsStep
<1>3. Init => TypeInv /\ FieldsInv
  BY InitTypes, FieldsInit
<1> QED BY <1>1, <1>2, <1>3, PTL DEF Spec

-----------------------------------------------------------------------------
(* The registry. *)

LEMMA EntryKept ==
  ASSUME TypeInv, [Next]_vars, NEW j \in Registered, IsRunning(registry[j])
  PROVE  registry'[j] \in {registry[j], None}
<1>1. CASE UNCHANGED registry
  BY <1>1
<1>2. ASSUME NEW a \in Actors, Forget(a)
      PROVE  registry'[j] \in {registry[j], None}
  BY <1>2, TypeParts DEF Forget, RegistryType, Registered
<1>3. ASSUME NEW a \in Actors, StartInternal(a), ~UNCHANGED registry
      PROVE  registry'[j] \in {registry[j], None}
  <2>1. MayStart(job[a]) /\ registry' = [registry EXCEPT ![job[a]] = AnyOf(FreePipelines)]
    BY <1>3 DEF StartInternal
  <2>2. job[a] # j
    BY <2>1 DEF MayStart
  <2> QED BY <2>1, <2>2, TypeParts DEF RegistryType, Registered
<1>4. ASSUME NEW a \in Actors, Call(a) \/ (ActorStep(a) /\ ~Forget(a) /\ ~StartInternal(a))
      PROVE  UNCHANGED registry
  BY <1>4 DEF Call, ActorStep, Request, NextJob, Return, FindPipeline, Signal, StopJoined,
              StopTimesOut, StartKnown, StartUnknown, managerVars
<1>5. CASE \/ MonitorStep \/ TriggerShutdown \/ StopAll \/ UNCHANGED vars
           \/ \E t \in Threads : ThreadStep(t)
  BY <1>5 DEF MonitorStep, MonitorTick, LooksFine, BacksOff, RestartsCrashed,
              TriggerShutdown, StopAll, ThreadStep, managerVars, vars
<1> QED BY <1>1, <1>2, <1>3, <1>4, <1>5 DEF Next, ActorStep

\* Nobody puts another pipeline in the place of a running one, however the
\* requests, the start of the manager and its monitor interleave, with slow
\* starts too.
THEOREM EntrySafe == Spec => RunningNotReplaced
<1>1. TypeInv /\ [Next]_vars =>
        [\A j \in Registered : IsRunning(registry[j]) => registry'[j] \in {registry[j], None}]_vars
  BY EntryKept
<1> QED BY <1>1, InitTypes, StepTypes, PTL DEF Spec, RunningNotReplaced

-----------------------------------------------------------------------------
(* No thread is lost when requests come one at a time and nothing crashes.   *)

\* One operator, no request before start() has started the jobs, no shutdown
\* signal, no slow start, and coroutines that only return.
Orderly ==
  /\ MaxSlow = 0 /\ Ends \subseteq {"returns"}
  /\ \A a, b \in Operators : a = b
  /\ ~Early /\ "shutdown" \notin Ops

\* No pipeline has failed, so the monitor finds nothing to restart.
CalmInv ==
  /\ ~shutdown
  /\ \A p \in Pipelines : ~failed[p]
  /\ \A t \in Threads : stage[t] # "raised"
  /\ at[Monitor] \in {"idle", "next", "look"}
  /\ at[Monitor] # "idle" => doing[Monitor] = "watch"

\* One actor at a time changes the registry: first start(), then the operator.
TurnInv ==
  /\ managing => at[Main] = "wait"
  /\ ~managing => /\ at[Main] \in {"request", "next", "load"} /\ doing[Main] = "boot"
                  /\ \A a \in Operators : at[a] = "idle"

\* Threads in run() of pipeline p.
Runs(p) == {t \in Threads : Alive(t) /\ of[t] = p}

\* The operator that stops a pipeline stops the one of the registry: it waits
\* for the only thread there can be, and forgets it when there is none.
StopInv ==
  \A a \in Operators :
    /\ at[a] \in {"signal", "join", "forget"} => pipe[a] = registry[job[a]]
    /\ at[a] = "join" => Runs(pipe[a]) \subseteq {joins[a]}
    /\ at[a] = "forget" => Runs(pipe[a]) = {}

OwnerInv == \A j \in Registered : owner[registry[j]] = j

OrphanInv == CalmInv /\ TurnInv /\ StopInv /\ OwnerInv /\ NoOrphan

LEMMA OrphanInit == Init => OrphanInv
<1> SUFFICES ASSUME Init  PROVE OrphanInv
  OBVIOUS
<1>1. /\ at = [a \in Actors |-> IF a = Main THEN "request" ELSE "idle"]
      /\ doing[Main] = "boot" /\ ~managing /\ ~shutdown
      /\ registry = [j \in Jobs |-> None]
      /\ failed = [p \in Pipelines |-> FALSE] /\ stage = [t \in Threads |-> "free"]
  BY DEF Init, PipelineInit, Actors
<1>2. CalmInv
  BY <1>1, ManagerAssumption DEF CalmInv, Actors
<1>3. TurnInv /\ StopInv
  BY <1>1, ManagerAssumption DEF TurnInv, StopInv, Actors
<1>4. OwnerInv /\ NoOrphan
  BY <1>1 DEF OwnerInv, Registered, NoOrphan, Alive
<1> QED BY <1>2, <1>3, <1>4 DEF OrphanInv

\* Only the operator stops pipelines; start() loads jobs while it is idle.
LEMMA WhoseTurn ==
  ASSUME TypeInv, CalmInv, TurnInv, NEW a \in Actors
  PROVE  /\ at[a] \in {"find", "signal", "join", "forget", "start"} => a \in Operators
         /\ at[a] = "load" => \/ a \in Operators
                              \/ \A b \in Operators : at[b] = "idle"
         /\ a \in Operators => a # Main /\ a # Monitor
<1>1. managing \in BOOLEAN
  BY TypeParts DEF RegistryType
<1> QED BY <1>1, ManagerAssumption DEF CalmInv, TurnInv, Actors

\* A start that is not slow, and a stop, report no failure.
LEMMA StartsCalm ==
  ASSUME MaxSlow = 0, PipelineType, CalmInv, NEW p \in Pipelines, NEW t \in Threads,
         Start(p, t) \/ (\E j \in Jobs : Make(j, p, t))
  PROVE  (\A q \in Pipelines : ~failed'[q]) /\ (\A u \in Threads : stage'[u] # "raised")
<1>1. ~(slow < MaxSlow)
  BY DEF PipelineType, PipelineTypeOK
<1>2. failed \in [Pipelines -> BOOLEAN] /\ stage \in [Threads -> Stages]
  BY DEF PipelineType, PipelineTypeOK
<1>3. \/ UNCHANGED <<failed, stage>>
      \/ /\ stage' = [stage EXCEPT ![t] = "setup"]
         /\ failed' = [failed EXCEPT ![p] = FALSE]
  BY <1>1 DEF Start, Spawn, Make, pipelineVars
<1> QED BY <1>2, <1>3 DEF CalmInv

LEMMA ThreadCalm ==
  ASSUME Ends \subseteq {"returns"}, PipelineType, CalmInv, NEW t \in Threads, ThreadStep(t)
  PROVE  (\A p \in Pipelines : ~failed'[p]) /\ (\A u \in Threads : stage'[u] # "raised")
<1>1. failed \in [Pipelines -> BOOLEAN] /\ stage \in [Threads -> Stages]
  BY DEF PipelineType, PipelineTypeOK
<1>2. stage[t] # "raised"
  BY DEF CalmInv
<1>3. \/ failed' = failed
      \/ failed' = [failed EXCEPT ![of[t]] = FALSE]
      \/ failed' = [failed EXCEPT ![of[t]] = @ \/ FALSE]
  BY <1>2 DEF ThreadStep, Begin, SetupRaises, EnterLoop, Obey, EndByItself, LeaveLoop, Finish
<1>4. \E s \in Stages \ {"raised"} : stage' = [stage EXCEPT ![t] = s]
  BY DEF ThreadStep, Begin, SetupRaises, EnterLoop, Obey, EndByItself, LeaveLoop, Finish, Stages
<1> QED BY <1>1, <1>3, <1>4 DEF CalmInv

LEMMA ActorCalm ==
  ASSUME Orderly, TypeInv, CalmInv, TurnInv, NEW a \in Actors, Call(a) \/ ActorStep(a)
  PROVE  CalmInv'
<1>1. shutdown' = shutdown
  BY DEF Call, ActorStep, Request, NextJob, Return, FindPipeline, Signal, StopJoined,
         StopTimesOut, Forget, StartKnown, StartUnknown, StartInternal, managerVars
<1>2. (\A q \in Pipelines : ~failed'[q]) /\ (\A u \in Threads : stage'[u] # "raised")
  <2>1. CASE StartKnown(a)
    <3>1. CASE UNCHANGED pipelineVars
      BY <3>1 DEF pipelineVars, CalmInv
    <3>2. CASE FreeThreads # {} /\ Start(registry[job[a]], AnyOf(FreeThreads))
      <4>1. registry[job[a]] \in Pipelines /\ AnyOf(FreeThreads) \in Threads
        BY <2>1, <3>2, AnyOfIn, FreeTypes, TypeParts DEF StartKnown, Registered, RegistryType
      <4> QED BY <3>2, <4>1, StartsCalm, TypeParts DEF Orderly
    <3> QED BY <2>1, <3>1, <3>2 DEF StartKnown
  <2>2. CASE StartInternal(a)
    <3>1. CASE UNCHANGED pipelineVars
      BY <3>1 DEF pipelineVars, CalmInv
    <3>2. CASE /\ FreePipelines # {} /\ FreeThreads # {}
               /\ Make(job[a], AnyOf(FreePipelines), AnyOf(FreeThreads))
      <4>1. AnyOf(FreePipelines) \in Pipelines /\ AnyOf(FreeThreads) \in Threads
        BY <3>2, AnyOfIn, FreeTypes
      <4>2. job[a] \in Jobs
        BY <2>2, TypeParts DEF StartInternal, AtJob, Busy
      <4> QED BY <3>2, <4>1, <4>2, StartsCalm, TypeParts DEF Orderly
    <3> QED BY <2>2, <3>1, <3>2 DEF StartInternal
  <2>3. CASE UNCHANGED <<failed, stage>>
    BY <2>3 DEF CalmInv
  <2> QED BY <2>1, <2>2, <2>3
      DEF Call, ActorStep, Request, NextJob, Return, FindPipeline, Signal, Tell, StopJoined,
          StopTimesOut, Forget, StartUnknown, pipelineVars
<1>3. /\ at'[Monitor] \in {"idle", "next", "look"}
      /\ at'[Monitor] # "idle" => doing'[Monitor] = "watch"
  <2>0. /\ at \in [Actors -> Places] /\ Monitor \in Actors
        /\ doing \in [Actors -> AllOps \cup {"none", "boot", "watch", "shutdown"}]
    BY TypeParts DEF ActorType, Actors
  <2>1. CASE a = Monitor
    <3>1. ~Call(a)
      BY <2>1, ManagerAssumption DEF Call
    <3>2. CASE NextJob(a)
      <4>1. doing[a] = "watch" /\ doing' = doing /\ at' = [at EXCEPT ![a] = "look"]
        BY <2>1, <3>2 DEF NextJob, Goto, CalmInv
      <4> QED BY <2>0, <2>1, <4>1
    <3>3. CASE Return(a)
      <4>1. doing[a] = "watch"
        BY <2>1, <3>3 DEF Return, CalmInv
      <4>2. at' = [at EXCEPT ![a] = "idle"]
        BY <3>3, <4>1 DEF Return, Goto
      <4> QED BY <2>0, <2>1, <4>2
    <3> QED BY <2>1, <3>1, <3>2, <3>3
        DEF ActorStep, CalmInv, Request, FindPipeline, Signal, StopJoined, StopTimesOut,
            Forget, StartKnown, StartUnknown, StartInternal
  <2>2. CASE a # Monitor
    <3>1. at'[Monitor] = at[Monitor] /\ doing'[Monitor] = doing[Monitor]
      BY <2>0, <2>2
      DEF Call, ActorStep, Request, NextJob, Return, FindPipeline, Signal, StopJoined,
          StopTimesOut, Forget, StartKnown, StartUnknown, StartInternal, Goto
    <3> QED BY <3>1 DEF CalmInv
  <2> QED BY <2>1, <2>2
<1> QED BY <1>1, <1>2, <1>3 DEF CalmInv

LEMMA OtherCalm ==
  ASSUME Orderly, TypeInv, CalmInv,
         \/ MonitorStep \/ TriggerShutdown \/ StopAll \/ UNCHANGED vars
         \/ \E t \in Threads : ThreadStep(t)
  PROVE  /\ CalmInv' /\ UNCHANGED <<registry, managing>>
         /\ \A a \in Actors \ {Monitor} :
              UNCHANGED <<at[a], doing[a], job[a], pipe[a], joins[a]>>
         /\ UNCHANGED pipelineVars \/ \E t \in Threads : ThreadStep(t)
<1>0. /\ at \in [Actors -> Places] /\ Monitor \in Actors
      /\ doing \in [Actors -> AllOps \cup {"none", "boot", "watch", "shutdown"}]
  BY TypeParts DEF ActorType, Actors
<1>1. CASE MonitorStep
  <2>1. \A j \in Jobs : ~HasCrashed(j)
    BY TypeParts DEF HasCrashed, Crashed, CalmInv, RegistryType, Registered
  <2>2. CASE MonitorTick
    BY <1>0, <2>2 DEF MonitorTick, Goto, CalmInv, pipelineVars, managerVars
  <2>3. CASE LooksFine
    BY <1>0, <2>3 DEF LooksFine, Goto, CalmInv, pipelineVars, managerVars
  <2>4. ~BacksOff /\ ~RestartsCrashed
    BY <1>0, <2>1, TypeParts DEF BacksOff, RestartsCrashed, AtJob, Busy
  <2> QED BY <1>1, <2>2, <2>3, <2>4 DEF MonitorStep
<1>2. CASE TriggerShutdown \/ StopAll
  BY <1>2 DEF TriggerShutdown, StopAll, Orderly, CalmInv
<1>3. CASE UNCHANGED vars
  BY <1>3 DEF vars, pipelineVars, managerVars, actorVars, CalmInv
<1>4. ASSUME NEW t \in Threads, ThreadStep(t)
      PROVE  /\ CalmInv' /\ UNCHANGED <<managerVars, actorVars>>
  BY <1>4, ThreadCalm, TypeParts DEF Orderly, ThreadStep, managerVars, actorVars, CalmInv
<1> QED BY <1>1, <1>2, <1>3, <1>4 DEF managerVars, actorVars

LEMMA ActorTurn ==
  ASSUME Orderly, TypeInv, CalmInv, TurnInv, NEW a \in Actors, Call(a) \/ ActorStep(a)
  PROVE  TurnInv'
<1>0. at \in [Actors -> Places] /\ managing \in BOOLEAN /\ Main \in Actors
      /\ doing \in [Actors -> AllOps \cup {"none", "boot", "watch", "shutdown"}]
  BY TypeParts DEF ActorType, RegistryType, Actors
<1>1. CASE a = Main
  <2>1. ~managing /\ doing[a] = "boot" /\ \A b \in Operators : at[b] = "idle"
    BY <1>0, <1>1, ManagerAssumption
    DEF TurnInv, Call, ActorStep, Request, NextJob, Return, FindPipeline, Signal, StopJoined,
        StopTimesOut, Forget, StartKnown, StartUnknown, StartInternal
  <2>2. \A b \in Operators : at'[b] = "idle"
    BY <1>0, <1>1, <2>1, ManagerAssumption
    DEF Call, ActorStep, Request, NextJob, Return, FindPipeline, Signal, StopJoined, Actors,
        StopTimesOut, Forget, StartKnown, StartUnknown, StartInternal, Goto
  <2>3. CASE Request(a) \/ StartInternal(a)
    <3>1. at' = [at EXCEPT ![a] = "next"] /\ doing' = doing /\ managing' = managing
      BY <2>3 DEF Request, StartInternal, Goto
    <3>2. at'[Main] = "next" /\ doing'[Main] = "boot"
      BY <1>0, <1>1, <2>1, <3>1
    <3> QED BY <1>1, <2>1, <2>2, <3>1, <3>2 DEF TurnInv
  <2>4. CASE NextJob(a)
    <3>1. at' = [at EXCEPT ![a] = "load"] /\ doing' = doing /\ managing' = managing
      BY <2>1, <2>4 DEF NextJob, Goto, managerVars
    <3> QED BY <1>0, <1>1, <2>1, <2>2, <3>1 DEF TurnInv
  <2>5. CASE Return(a)
    <3>1. at' = [at EXCEPT ![a] = "wait"] /\ managing'
      BY <2>1, <2>5 DEF Return, Goto
    <3> QED BY <1>0, <1>1, <3>1 DEF TurnInv
  <2> QED BY <1>0, <1>1, <2>1, <2>3, <2>4, <2>5, ManagerAssumption
      DEF TurnInv, Call, ActorStep, FindPipeline, Signal, StopJoined,
          StopTimesOut, Forget, StartKnown, StartUnknown
<1>2. CASE a # Main
  <2>1. at'[Main] = at[Main] /\ doing'[Main] = doing[Main]
    BY <1>0, <1>2
    DEF Call, ActorStep, Request, NextJob, Return, FindPipeline, Signal, StopJoined,
        StopTimesOut, Forget, StartKnown, StartUnknown, StartInternal, Goto
  <2>2. CASE a \in Operators
    <3>1. managing
      BY <1>0, <2>2
      DEF Orderly, TurnInv, Call, ActorStep, Request, NextJob, Return, FindPipeline, Signal,
          StopJoined, StopTimesOut, Forget, StartKnown, StartUnknown, StartInternal
    <3>2. managing'
      BY <3>1
      DEF Call, ActorStep, Request, NextJob, Return, FindPipeline, Signal, StopJoined,
          StopTimesOut, Forget, StartKnown, StartUnknown, StartInternal, managerVars
    <3> QED BY <2>1, <3>1, <3>2 DEF TurnInv
  <2>3. CASE a = Monitor
    <3>1. ~Call(a) /\ (NextJob(a) \/ Return(a)) /\ doing[a] = "watch"
      BY <2>3, ManagerAssumption
      DEF CalmInv, Call, ActorStep, Request, NextJob, Return, FindPipeline, Signal, StopJoined,
          StopTimesOut, Forget, StartKnown, StartUnknown, StartInternal
    <3>2. managing' = managing
      BY <1>0, <3>1 DEF NextJob, Return, managerVars
    <3>3. \A b \in Operators : at'[b] = at[b]
      BY <1>0, <2>3, <3>1, ManagerAssumption DEF NextJob, Return, Goto, Actors
    <3> QED BY <2>1, <3>2, <3>3 DEF TurnInv
  <2> QED BY <1>2, <2>2, <2>3 DEF Actors
<1> QED BY <1>1, <1>2

-----------------------------------------------------------------------------
(* The registry and the threads. *)

\* No thread is in run() that was not there before.
Fewer == \A t \in Threads : Alive(t)' => Alive(t) /\ of'[t] = of[t]

LEMMA SameFewer == UNCHANGED pipelineVars => Fewer
BY DEF Fewer, Alive, pipelineVars

LEMMA ThreadFewer ==
  ASSUME PipelineType, FieldsInv, NEW t \in Threads, ThreadStep(t)
  PROVE  Fewer /\ UNCHANGED owner
<1>1. t # None
  BY Numbers
<1>2. ~Begin(t)
  BY <1>1 DEF FieldsInv, Alive, Begin
<1> QED BY <1>1, <1>2
        DEF ThreadStep, SetupRaises, EnterLoop, Obey, EndByItself, LeaveLoop, Finish, Fewer,
            Alive, PipelineType, PipelineTypeOK

LEMMA FewerKeeps ==
  ASSUME Fewer, UNCHANGED <<registry, owner>>
  PROVE  /\ OwnerInv => OwnerInv'
         /\ NoOrphan => NoOrphan'
         /\ \A p : Runs(p)' \subseteq Runs(p)
BY DEF Fewer, OwnerInv, Registered, NoOrphan, Runs

\* An operator that does not move keeps what it found.
LEMMA StopKept ==
  ASSUME StopInv, Fewer, UNCHANGED <<registry, owner>>, NEW b \in Operators,
         UNCHANGED <<at[b], job[b], pipe[b], joins[b]>>
  PROVE  /\ at'[b] \in {"signal", "join", "forget"} => pipe'[b] = registry'[job'[b]]
         /\ at'[b] = "join" => Runs(pipe[b])' \subseteq {joins'[b]}
         /\ at'[b] = "forget" => Runs(pipe[b])' = {}
BY FewerKeeps DEF StopInv

\* With one operator, only its own step can disturb StopInv.
LEMMA StopOwnStep ==
  ASSUME Orderly, TypeInv, CalmInv, TurnInv, NEW a \in Actors, Call(a) \/ ActorStep(a),
         StopInv, Fewer, UNCHANGED <<registry, owner>>,
         a \in Operators =>
           /\ at'[a] \in {"signal", "join", "forget"} => pipe'[a] = registry'[job'[a]]
           /\ at'[a] = "join" => Runs(pipe'[a]) \subseteq {joins'[a]}
           /\ at'[a] = "forget" => Runs(pipe'[a]) = {}
  PROVE  StopInv'
<1> SUFFICES ASSUME NEW b \in Operators
             PROVE  /\ at'[b] \in {"signal", "join", "forget"} => pipe'[b] = registry'[job'[b]]
                    /\ at'[b] = "join" => Runs(pipe[b])' \subseteq {joins'[b]}
                    /\ at'[b] = "forget" => Runs(pipe[b])' = {}
  BY DEF StopInv
<1>1. CASE a = b
  <2>1. Runs(pipe[b])' \subseteq Runs(pipe'[b])
    BY DEF Runs, Fewer
  <2> QED BY <1>1, <2>1
<1>2. CASE a # b
  <2>1. b \in Actors
    BY DEF Actors
  <2>2. UNCHANGED <<at[b], job[b], pipe[b], joins[b]>>
    BY <1>2, <2>1, TypeParts
    DEF ActorType, Call, ActorStep, Request, NextJob, Return, FindPipeline, Signal, StopJoined,
        StopTimesOut, Forget, StartKnown, StartUnknown, StartInternal, Goto
  <2> QED BY <2>2, StopKept
<1> QED BY <1>1, <1>2

\* A step that starts no thread and leaves the registry.
LEMMA QuietActor ==
  ASSUME Orderly, TypeInv, FieldsInv, OrphanInv, NEW a \in Actors, Call(a) \/ ActorStep(a),
         Fewer, UNCHANGED <<registry, owner>>
  PROVE  StopInv' /\ OwnerInv' /\ NoOrphan'
<1>0. /\ at \in [Actors -> Places] /\ job \in [Actors -> Jobs \cup {NoJob}]
      /\ pipe \in [Actors -> Pipelines \cup {None}]
      /\ joins \in [Actors -> Threads \cup {None}]
  BY TypeParts DEF ActorType
<1>1. OwnerInv' /\ NoOrphan'
  BY FewerKeeps DEF OrphanInv
<1>2. CASE FindPipeline(a)
  <2>1. \/ at'[a] \notin {"signal", "join", "forget"}
        \/ at'[a] = "signal" /\ pipe'[a] = registry[job[a]] /\ job' = job
    BY <1>0, <1>2 DEF FindPipeline, Goto, AfterStop
  <2> QED BY <1>1, <2>1, StopOwnStep DEF OrphanInv
<1>3. CASE Signal(a)
  <2>1. pipe' = pipe /\ job' = job /\ at[a] = "signal"
    BY <1>3 DEF Signal
  <2>2. a \in Operators /\ pipe[a] = registry[job[a]]
    BY <2>1, WhoseTurn DEF OrphanInv, StopInv
  <2>3. Runs(pipe[a]) \subseteq {thread[pipe[a]]}
    BY DEF FieldsInv, Runs
  <2>4. CASE NothingToStop(pipe[a])
    <3>1. at'[a] = "forget"
      BY <1>0, <1>3, <2>4 DEF Signal, Goto
    <3>2. Runs(pipe[a]) = {}
      BY <2>4, Numbers DEF FieldsInv, Runs, NothingToStop
    <3> QED BY <1>1, <2>1, <2>2, <3>1, <3>2, StopOwnStep DEF OrphanInv
  <2>5. CASE ~NothingToStop(pipe[a])
    <3>1. at'[a] = "join" /\ joins'[a] = thread[pipe[a]]
      BY <1>0, <1>3, <2>5 DEF Signal, Goto
    <3> QED BY <1>1, <2>1, <2>2, <2>3, <3>1, StopOwnStep DEF OrphanInv
  <2> QED BY <2>4, <2>5
<1>4. CASE StopJoined(a)
  <2>1. /\ pipe' = pipe /\ job' = job /\ at[a] = "join" /\ at'[a] = "forget"
        /\ ~Alive(joins[a])
    BY <1>0, <1>4 DEF StopJoined, Goto
  <2>2. a \in Operators /\ pipe[a] = registry[job[a]] /\ Runs(pipe[a]) \subseteq {joins[a]}
    BY <2>1, WhoseTurn DEF OrphanInv, StopInv
  <2>3. Runs(pipe[a]) = {}
    BY <2>1, <2>2 DEF Runs
  <2> QED BY <1>1, <2>1, <2>2, <2>3, StopOwnStep DEF OrphanInv
<1>5. CASE ~FindPipeline(a) /\ ~Signal(a) /\ ~StopJoined(a)
  <2>1. at'[a] \notin {"signal", "join", "forget"}
    BY <1>0, <1>5
    DEF Call, ActorStep, Request, NextJob, Return, StopTimesOut, AfterStop, Forget,
        StartKnown, StartUnknown, StartInternal, Goto
  <2> QED BY <1>1, <2>1, StopOwnStep DEF OrphanInv
<1> QED BY <1>2, <1>3, <1>4, <1>5

\* An actor that starts or forgets a pipeline leaves no operator in a stop.
LEMMA StopOver ==
  ASSUME Orderly, TypeInv, CalmInv, TurnInv, NEW a \in Actors,
         at[a] \in {"forget", "start", "load"},
         NEW place \in {"next", "start"}, at' = [at EXCEPT ![a] = place]
  PROVE  StopInv'
<1> SUFFICES ASSUME NEW b \in Operators
             PROVE  at'[b] \notin {"signal", "join", "forget"}
  BY DEF StopInv
<1>1. b \in Actors /\ at \in [Actors -> Places]
  BY TypeParts DEF ActorType, Actors
<1>2. CASE a \in Operators
  BY <1>1, <1>2 DEF Orderly
<1>3. CASE a \notin Operators
  BY <1>1, <1>3, WhoseTurn
<1> QED BY <1>2, <1>3

LEMMA ForgetOrphan ==
  ASSUME Orderly, TypeInv, FieldsInv, OrphanInv, NEW a \in Actors, Forget(a)
  PROVE  StopInv' /\ OwnerInv' /\ NoOrphan'
<1>1. at[a] = "forget" /\ a \in Operators /\ UNCHANGED pipelineVars
  BY WhoseTurn DEF Forget, OrphanInv
<1>2. pipe[a] = registry[job[a]] /\ Runs(pipe[a]) = {} /\ job[a] \in Jobs
  BY <1>1, TypeParts DEF OrphanInv, StopInv, AtJob, Busy
<1>3. StopInv'
  <2>1. \E place \in {"next", "start"} : at' = [at EXCEPT ![a] = place]
    BY DEF Forget, Goto, AfterStop
  <2> QED BY <1>1, <2>1, StopOver DEF OrphanInv
<1>4. registry' = [registry EXCEPT ![job[a]] = None]
  BY <1>2, TypeParts DEF Forget, RegistryType
<1>5. OwnerInv'
  BY <1>1, <1>4, TypeParts DEF OrphanInv, OwnerInv, Registered, RegistryType, pipelineVars
<1>6. NoOrphan'
  <2> SUFFICES ASSUME NEW t \in Threads, Alive(t)
               PROVE  registry'[owner[of[t]]] = of[t]
    BY <1>1 DEF NoOrphan, Alive, pipelineVars
  <2>1. registry[owner[of[t]]] = of[t]
    BY DEF OrphanInv, NoOrphan
  <2>2. owner[of[t]] # job[a]
    BY <1>2, <2>1 DEF Runs
  <2> QED BY <1>4, <2>1, <2>2, TypeParts DEF RegistryType
<1> QED BY <1>3, <1>5, <1>6

LEMMA StartOrphan ==
  ASSUME Orderly, TypeInv, FieldsInv, OrphanInv, NEW a \in Actors, StartKnown(a),
         ~UNCHANGED pipelineVars
  PROVE  StopInv' /\ OwnerInv' /\ NoOrphan'
<1> DEFINE p == registry[job[a]]
           t == AnyOf(FreeThreads)
<1>1. /\ FreeThreads # {} /\ Start(p, t) /\ job[a] \in Registered /\ registry' = registry
      /\ at[a] = "start" /\ at' = [at EXCEPT ![a] = "next"]
  BY DEF StartKnown, Goto
<1>2. t \in FreeThreads /\ t \in Threads /\ p \in Pipelines
  BY <1>1, AnyOfIn, FreeTypes, TypeParts DEF Registered, RegistryType
<1>3. StopInv'
  BY <1>1, StopOver DEF OrphanInv
<1>4. Spawn(p, t) /\ owner' = owner
  BY <1>1 DEF Start
<1>5. OwnerInv'
  BY <1>1, <1>4 DEF OrphanInv, OwnerInv, Registered
<1>6. owner[p] = job[a]
  BY <1>1 DEF OrphanInv, OwnerInv
<1>7. of' = [of EXCEPT ![t] = p] /\ \A u \in Threads \ {t} : stage'[u] = stage[u]
  BY <1>2, <1>4, TypeParts DEF Spawn, PipelineType, PipelineTypeOK
<1>8. NoOrphan'
  <2> SUFFICES ASSUME NEW u \in Threads, Alive(u)'
               PROVE  registry[owner[of'[u]]] = of'[u]
    BY <1>1, <1>4 DEF NoOrphan
  <2>1. CASE u = t
    BY <1>2, <1>6, <1>7, <2>1, TypeParts DEF PipelineType, PipelineTypeOK
  <2>2. CASE u # t
    BY <1>2, <1>7, <2>2, TypeParts DEF PipelineType, PipelineTypeOK, Alive, OrphanInv, NoOrphan
  <2> QED BY <2>1, <2>2
<1> QED BY <1>3, <1>5, <1>8

LEMMA MakeOrphan ==
  ASSUME Orderly, TypeInv, FieldsInv, OrphanInv, NEW a \in Actors, StartInternal(a),
         ~UNCHANGED <<pipelineVars, registry>>
  PROVE  StopInv' /\ OwnerInv' /\ NoOrphan'
<1> DEFINE j == job[a]
           p == AnyOf(FreePipelines)
           t == AnyOf(FreeThreads)
<1>1. /\ FreePipelines # {} /\ FreeThreads # {} /\ MayStart(j) /\ Make(j, p, t)
      /\ registry' = [registry EXCEPT ![j] = p]
      /\ at[a] = "load" /\ at' = [at EXCEPT ![a] = "next"]
  BY DEF StartInternal, Goto
<1>2. t \in FreeThreads /\ t \in Threads /\ p \in FreePipelines /\ p \in Pipelines /\ j \in Jobs
  BY <1>1, AnyOfIn, FreeTypes, TypeParts DEF AtJob, Busy
<1>3. StopInv'
  BY <1>1, StopOver DEF OrphanInv
<1>4. owner' = [owner EXCEPT ![p] = j] /\ of' = [of EXCEPT ![t] = p]
  BY <1>1 DEF Make
<1>5. \A u \in Threads \ {t} : stage'[u] = stage[u]
  BY <1>1, <1>2, TypeParts DEF Make, PipelineType, PipelineTypeOK
<1>6. \A k \in Jobs : registry[k] # p
  BY <1>2 DEF FreePipelines
<1>7. OwnerInv'
  <2> SUFFICES ASSUME NEW k \in Jobs, registry'[k] # None
               PROVE  owner'[registry'[k]] = k
    BY DEF OwnerInv, Registered
  <2>1. CASE k = j
    BY <1>1, <1>2, <1>4, <2>1, TypeParts DEF RegistryType, PipelineType, PipelineTypeOK
  <2>2. CASE k # j
    <3>1. registry'[k] = registry[k] /\ registry[k] \in Pipelines
      BY <1>1, <2>2, TypeParts DEF RegistryType
    <3>2. owner[registry[k]] = k
      BY <3>1 DEF OrphanInv, OwnerInv, Registered
    <3> QED BY <1>4, <1>6, <3>1, <3>2, TypeParts DEF PipelineType, PipelineTypeOK
  <2> QED BY <2>1, <2>2
<1>8. NoOrphan'
  <2> SUFFICES ASSUME NEW u \in Threads, Alive(u)'
               PROVE  registry'[owner'[of'[u]]] = of'[u]
    BY DEF NoOrphan
  <2>1. CASE u = t
    BY <1>1, <1>2, <1>4, <2>1, TypeParts DEF RegistryType, PipelineType, PipelineTypeOK
  <2>2. CASE u # t
    <3>1. Alive(u) /\ of'[u] = of[u] /\ of[u] # p
      BY <1>2, <1>4, <1>5, <2>2, TypeParts
      DEF FreePipelines, Alive, PipelineType, PipelineTypeOK
    <3>2. of[u] \in Pipelines /\ IsRunning(of[u]) /\ registry[owner[of[u]]] = of[u]
      BY <3>1 DEF OrphanInv, NoOrphan, FieldsInv, IsRunning
    <3>3. owner[of[u]] # j
      BY <1>1, <1>2, <3>2, Numbers DEF MayStart, Registered
    <3> QED BY <1>1, <1>2, <1>4, <3>1, <3>2, <3>3, TypeParts
            DEF RegistryType, PipelineType, PipelineTypeOK
  <2> QED BY <2>1, <2>2
<1> QED BY <1>3, <1>7, <1>8

LEMMA ActorOrphan ==
  ASSUME Orderly, TypeInv, FieldsInv, OrphanInv, NEW a \in Actors, Call(a) \/ ActorStep(a)
  PROVE  OrphanInv'
<1>1. CalmInv' /\ TurnInv'
  BY ActorCalm, ActorTurn DEF OrphanInv
<1>2. CASE Fewer /\ UNCHANGED <<registry, owner>>
  BY <1>1, <1>2, QuietActor DEF OrphanInv
<1>3. CASE Forget(a)
  BY <1>1, <1>3, ForgetOrphan DEF OrphanInv
<1>4. CASE StartKnown(a)
  <2>1. CASE UNCHANGED pipelineVars
    BY <1>2, <1>4, <2>1, SameFewer DEF StartKnown, pipelineVars
  <2> QED BY <1>1, <1>4, <2>1, StartOrphan DEF OrphanInv
<1>5. CASE StartInternal(a)
  <2>1. CASE UNCHANGED <<pipelineVars, registry>>
    BY <1>2, <2>1, SameFewer DEF pipelineVars
  <2> QED BY <1>1, <1>5, <2>1, MakeOrphan DEF OrphanInv
<1>6. CASE Signal(a)
  <2>1. UNCHANGED <<stage, of, owner, registry>>
    BY <1>6 DEF Signal, Tell, pipelineVars, managerVars
  <2> QED BY <1>2, <2>1 DEF Fewer, Alive
<1>7. CASE \/ Call(a)
           \/ ActorStep(a) /\ ~Forget(a) /\ ~StartKnown(a) /\ ~StartInternal(a) /\ ~Signal(a)
  <2>1. UNCHANGED pipelineVars /\ UNCHANGED registry
    BY <1>7 DEF Call, ActorStep, Request, NextJob, Return, FindPipeline, StopJoined,
                StopTimesOut, StartUnknown, managerVars
  <2> QED BY <1>2, <2>1, SameFewer DEF pipelineVars
<1> QED BY <1>3, <1>4, <1>5, <1>6, <1>7

LEMMA OtherOrphan ==
  ASSUME Orderly, TypeInv, FieldsInv, OrphanInv,
         \/ MonitorStep \/ TriggerShutdown \/ StopAll \/ UNCHANGED vars
         \/ \E t \in Threads : ThreadStep(t)
  PROVE  OrphanInv'
<1>1. /\ CalmInv' /\ UNCHANGED <<registry, managing>>
      /\ \A a \in Actors \ {Monitor} :
           UNCHANGED <<at[a], doing[a], job[a], pipe[a], joins[a]>>
      /\ UNCHANGED pipelineVars \/ \E t \in Threads : ThreadStep(t)
  BY OtherCalm DEF OrphanInv
<1>2. Fewer /\ UNCHANGED owner
  BY <1>1, SameFewer, ThreadFewer, TypeParts DEF pipelineVars
<1>3. OwnerInv' /\ NoOrphan'
  BY <1>1, <1>2, FewerKeeps DEF OrphanInv
<1>4. Main \in Actors \ {Monitor} /\ Operators \subseteq Actors \ {Monitor}
  BY ManagerAssumption DEF Actors
<1>5. TurnInv'
  BY <1>1, <1>4 DEF OrphanInv, TurnInv
<1>6. StopInv'
  <2> SUFFICES ASSUME NEW b \in Operators
               PROVE  /\ at'[b] \in {"signal", "join", "forget"} => pipe'[b] = registry'[job'[b]]
                      /\ at'[b] = "join" => Runs(pipe[b])' \subseteq {joins'[b]}
                      /\ at'[b] = "forget" => Runs(pipe[b])' = {}
    BY DEF StopInv
  <2> QED BY <1>1, <1>2, <1>4, StopKept DEF OrphanInv
<1> QED BY <1>1, <1>3, <1>5, <1>6 DEF OrphanInv

LEMMA OrphanStep ==
  ASSUME Orderly, TypeInv, FieldsInv, OrphanInv, [Next]_vars
  PROVE  OrphanInv'
BY ActorOrphan, OtherOrphan DEF Next

\* With one operator, no crashes and no shutdown, a thread in run() belongs to
\* the pipeline the registry holds for its job: stop_job, start_job and the
\* restarts of any number of jobs lose none, however long a stop takes.
THEOREM NoneOrphaned ==
  ASSUME Orderly
  PROVE  Spec => []NoOrphan
<1>1. OrphanInv => NoOrphan
  BY DEF OrphanInv
<1>2. TypeInv /\ FieldsInv /\ OrphanInv /\ [Next]_vars => (TypeInv /\ FieldsInv /\ OrphanInv)'
  BY StepTypes, FieldsStep, OrphanStep DEF Orderly
<1>3. Init => TypeInv /\ FieldsInv /\ OrphanInv
  BY InitTypes, FieldsInit, OrphanInit
<1> QED BY <1>1, <1>2, <1>3, PTL DEF Spec
=============================================================================
