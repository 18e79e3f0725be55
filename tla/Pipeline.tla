------------------------------- MODULE Pipeline -------------------------------
(***************************************************************************)
(* class Pipeline of pipeline/pipeline.py: an object that runs one job's   *)
(* feed in a thread of its own.  Its fields are written by its thread,     *)
(* mostly without its lock, and read by whoever starts or stops it.        *)
(*                                                                         *)
(* The coroutine the thread runs (poll_changes, see Worker) is abstracted  *)
(* to how it ends.  Pipelines and threads are numbers from bounded pools;  *)
(* a number is used again when nothing refers to its last owner.           *)
(***************************************************************************)
EXTENDS Naturals, FiniteSets

CONSTANTS
  Jobs,          \* job ids
  NoJob,         \* not a job
  MaxPipelines,  \* bound: Pipeline objects at a time
  MaxThreads,    \* bound: threads at a time
  MaxSlow,       \* bound: times that others run between Thread.start() and run()
  Ends           \* how a coroutine may end: "returns", "raises", "raisesWhenTold"

ASSUME PipelineAssumption ==
  /\ MaxPipelines \in Nat /\ MaxThreads \in Nat /\ MaxSlow \in Nat
  /\ Ends \subseteq {"returns", "raises", "raisesWhenTold"}
  /\ NoJob \notin Jobs

Pipelines == 1..MaxPipelines
Threads == 1..MaxThreads
None == 0        \* Python's None, for a pipeline or a thread

VARIABLES
  owner,    \* owner[p]: the job of pipeline p
  running,  \* running[p]: _running
  thread,   \* thread[p]: _thread
  event,    \* event[p]: the thread whose _loop and _shutdown_event p holds
  failed,   \* failed[p]: _error is set
  of,       \* of[t]: the pipeline whose run() thread t executes
  stage,    \* stage[t]: how far thread t is in run()
  told,     \* told[t]: the _shutdown_event of thread t's loop is set
  slow      \* slow starts so far

pipelineVars == <<owner, running, thread, event, failed, of, stage, told, slow>>

\* "free": no such thread; "new": before the first line of run(); "setup":
\* before the event loop exists; "live": inside poll_changes; then after it.
Stages == {"free", "new", "setup", "live", "returned", "raised"}

PipelineTypeOK ==
  /\ owner \in [Pipelines -> Jobs \cup {NoJob}]
  /\ running \in [Pipelines -> BOOLEAN] /\ failed \in [Pipelines -> BOOLEAN]
  /\ thread \in [Pipelines -> Threads \cup {None}]
  /\ event \in [Pipelines -> Threads \cup {None}]
  /\ of \in [Threads -> Pipelines \cup {None}]
  /\ stage \in [Threads -> Stages] /\ told \in [Threads -> BOOLEAN]
  /\ slow \in 0..MaxSlow

PipelineInit ==
  /\ owner = [p \in Pipelines |-> NoJob]
  /\ running = [p \in Pipelines |-> FALSE]
  /\ failed = [p \in Pipelines |-> FALSE]
  /\ thread = [p \in Pipelines |-> None]
  /\ event = [p \in Pipelines |-> None]
  /\ of = [t \in Threads |-> None]
  /\ stage = [t \in Threads |-> "free"]
  /\ told = [t \in Threads |-> FALSE]
  /\ slow = 0

Alive(t) == t # None /\ stage[t] # "free"
IsRunning(p) == Alive(thread[p]) /\ running[p]

\* get_state()["status"] = "error"
Crashed(p) == ~running[p] /\ failed[p]

-----------------------------------------------------------------------------
(* start(), by a caller that has found no _running; t is the new thread.   *)

Spawn(p, t) ==
  /\ thread' = [thread EXCEPT ![p] = t]
  /\ of' = [of EXCEPT ![t] = p]
  /\ \/ /\ slow < MaxSlow /\ slow' = slow + 1
        /\ stage' = [stage EXCEPT ![t] = "new"]
        /\ UNCHANGED <<running, failed>>
     \/ /\ stage' = [stage EXCEPT ![t] = "setup"]
        /\ running' = [running EXCEPT ![p] = TRUE]
        /\ failed' = [failed EXCEPT ![p] = FALSE]
        /\ UNCHANGED slow
  /\ UNCHANGED <<event, told>>

Start(p, t) ==
  \/ ~running[p] /\ Spawn(p, t) /\ UNCHANGED owner
  \/ running[p] /\ UNCHANGED pipelineVars

\* A new Pipeline for job j, started.
Make(j, p, t) ==
  /\ owner' = [owner EXCEPT ![p] = j]
  /\ thread' = [thread EXCEPT ![p] = t]
  /\ event' = [event EXCEPT ![p] = None]
  /\ of' = [of EXCEPT ![t] = p]
  /\ failed' = [failed EXCEPT ![p] = FALSE]
  /\ \/ /\ slow < MaxSlow /\ slow' = slow + 1
        /\ stage' = [stage EXCEPT ![t] = "new"]
        /\ running' = [running EXCEPT ![p] = FALSE]
     \/ /\ stage' = [stage EXCEPT ![t] = "setup"]
        /\ running' = [running EXCEPT ![p] = TRUE]
        /\ UNCHANGED slow
  /\ UNCHANGED told

-----------------------------------------------------------------------------
(* run(), in thread t. *)

Begin(t) ==
  /\ stage[t] = "new"
  /\ stage' = [stage EXCEPT ![t] = "setup"]
  /\ running' = [running EXCEPT ![of[t]] = TRUE]
  /\ failed' = [failed EXCEPT ![of[t]] = FALSE]
  /\ UNCHANGED <<owner, thread, event, of, told, slow>>

EnterLoop(t) ==
  /\ stage[t] = "setup"
  /\ stage' = [stage EXCEPT ![t] = "live"]
  /\ event' = [event EXCEPT ![of[t]] = t]
  /\ UNCHANGED <<owner, running, thread, failed, of, told, slow>>

\* Slip: the inner "finally" clears what belongs to the outer one.
LeaveLoopEarly(t, how) ==
  /\ stage[t] = "live"
  /\ stage' = [stage EXCEPT ![t] = how]
  /\ event' = [event EXCEPT ![of[t]] = None]
  /\ running' = [running EXCEPT ![of[t]] = FALSE]
  /\ UNCHANGED <<owner, thread, failed, of, told, slow>>

\* poll_changes returns or raises; the inner "finally" drops the loop.
LeaveLoop(t, how) ==
  /\ stage[t] = "live"
  /\ stage' = [stage EXCEPT ![t] = how]
  /\ event' = [event EXCEPT ![of[t]] = None]
  /\ UNCHANGED <<owner, running, thread, failed, of, told, slow>>

\* The coroutine saw its event, or ended by itself.
Obey(t) ==
  /\ told[t]
  /\ \/ LeaveLoop(t, "returned")
     \/ "raisesWhenTold" \in Ends /\ LeaveLoop(t, "raised")

EndByItself(t) ==
  \/ "returns" \in Ends /\ LeaveLoop(t, "returned")
  \/ "raises" \in Ends /\ LeaveLoop(t, "raised")

\* The job document does not give a configuration.
SetupRaises(t) ==
  /\ "raises" \in Ends
  /\ stage[t] = "setup"
  /\ stage' = [stage EXCEPT ![t] = "raised"]
  /\ UNCHANGED <<owner, running, thread, event, failed, of, told, slow>>

\* "except" and "finally": the fields are cleared, whichever thread set them.
Finish(t) ==
  /\ stage[t] \in {"returned", "raised"}
  /\ failed' = [failed EXCEPT ![of[t]] = @ \/ stage[t] = "raised"]
  /\ running' = [running EXCEPT ![of[t]] = FALSE]
  /\ thread' = [thread EXCEPT ![of[t]] = None]
  /\ event' = [event EXCEPT ![of[t]] = None]
  /\ stage' = [stage EXCEPT ![t] = "free"]
  /\ of' = [of EXCEPT ![t] = None]
  /\ told' = [told EXCEPT ![t] = FALSE]
  /\ UNCHANGED <<owner, slow>>

-----------------------------------------------------------------------------
(* stop(), in the caller's thread: it reads the fields under the lock, sets
   the event, and joins the thread (StopJoined, StopTimesOut of the manager). *)

NothingToStop(p) == ~running[p] \/ thread[p] = None

\* Without a loop there is nothing to set: the signal is lost.
Tell(p) ==
  /\ told' = IF event[p] = None THEN told ELSE [told EXCEPT ![event[p]] = TRUE]
  /\ UNCHANGED <<owner, running, thread, event, failed, of, stage, slow>>

-----------------------------------------------------------------------------
(***************************************************************************)
(* A thread in run() is the one its pipeline names, and the pipeline says  *)
(* it is running: so is_running() answers for the thread, and a pipeline   *)
(* never has two.  start() and the two "finally" clauses share the fields  *)
(* without a common lock; it holds only if no one gets to run between      *)
(* Thread.start() and the first line of run() (MaxSlow = 0).               *)
(***************************************************************************)
ThreadFields == \A t \in Threads : Alive(t) => running[of[t]] /\ thread[of[t]] = t
=============================================================================
