---------------------------- MODULE CloudOutput ----------------------------
(***************************************************************************)
(* The object-store outputs: BaseCloudForwarder with the S3 client.  A     *)
(* document is an object of its own, or a line of an upload that the       *)
(* forwarder collects ("batch"); the checkpoint follows what send()        *)
(* answered.                                                               *)
(*                                                                         *)
(* The batch lock is held over no await, so what it guards is one step.    *)
(***************************************************************************)
EXTENDS Naturals, FiniteSets

CONSTANTS
  Docs,           \* documents; each has one send() in a batch of the feed
  Closer,         \* close(), which flushes like a send() does
  Buffered,       \* values of batch.enabled to explore
  OnDelete,       \* "delete", "tombstone" or "ignore"
  KeyByRev,       \* the key template names {rev}
  MaxDocs,        \* batch.max_docs
  MaxRetries,     \* max_retries
  Halt,           \* halt_on_failure
  SkipErrors,     \* data_error_action is "skip": an object that is refused is dropped
  Faults,         \* what may go wrong, of FaultKinds
  UniqueSecond,   \* no two uploads of a buffer are made within one second
  MaxFaults,      \* bound: faults
  MaxRev,         \* bound: revisions of a document
  MaxSecond       \* bound: seconds in which uploads are named

FaultKinds == {"transient", "reply", "permanent", "cancelled", "abandoned", "crash"}

ASSUME CloudAssumption ==
  /\ IsFiniteSet(Docs) /\ Closer \notin Docs
  /\ Buffered \subseteq BOOLEAN /\ {KeyByRev, Halt, SkipErrors, UniqueSecond} \subseteq BOOLEAN
  /\ OnDelete \in {"delete", "tombstone", "ignore"}
  /\ MaxDocs \in Nat \ {0} /\ MaxRetries \in Nat \ {0}
  /\ Faults \subseteq FaultKinds
  /\ {MaxFaults, MaxRev, MaxSecond} \subseteq Nat \ {0}

VARIABLES
  buffered,  \* batch.enabled
  rev,       \* [Docs -> latest revision read from the feed]
  gone,      \* [Docs -> revisions that are deletions]
  batch,     \* documents of the feed's batch; kept when it is to be sent again
  running,   \* the pipeline polls; FALSE while and after it closes
  pc,        \* [Tasks -> where the task is]
  attempt,   \* [Tasks -> attempts made]
  held,      \* [Tasks -> lines the task took from the buffer]
  key,       \* [Tasks -> the key of their upload]
  buffer,    \* _batch_buffer; a line that a repeated batch adds again counts once
  timer,     \* _batch_timer_task sleeps
  loose,     \* uploads of a cancelled timer that a worker thread has begun
  second,    \* the clock, when the last upload was named
  object,    \* [Docs -> [key -> revision of the object, 0: none]]
  upload,    \* uploads in the store: their key and their lines
  ckpt,      \* [Docs -> latest revision the checkpoint covers]
  dlq,       \* [Docs -> latest revision in the dead letter queue]
  reported,  \* history: lines whose upload failed, as the log says
  lost,      \* history: lines that waited when the process crashed, or whose
             \* upload was cancelled with the timer, or failed behind its back
  faults     \* faults so far

feed == <<rev, gone, batch, running>>
task == <<pc, attempt, held, key>>
lines == <<buffer, timer, loose>>
store == <<object, upload>>
saved == <<ckpt, dlq, reported, lost>>
cloudvars == <<buffered, feed, task, lines, second, store, saved, faults>>

Tasks == Docs \cup {Closer}
Revs == 1..MaxRev
Lines == Docs \X Revs
UploadKeys == [second : 0..MaxSecond, size : 0..Cardinality(Lines)]
States == {"idle", "try", "flush", "pause", "flushpause", "ok", "failed", "refused",
           "down"}
Ended == {"ok", "failed", "refused", "down"}

BatchLines == {<<d, rev[d]>> : d \in batch}

CloudTypeOK ==
  /\ buffered \in Buffered /\ running \in BOOLEAN /\ timer \in BOOLEAN
  /\ rev \in [Docs -> 0..MaxRev] /\ gone \in [Docs -> SUBSET Revs] /\ batch \subseteq Docs
  /\ pc \in [Tasks -> States] /\ attempt \in [Tasks -> 0..MaxRetries]
  /\ held \in [Tasks -> SUBSET Lines] /\ key \in [Tasks -> UploadKeys]
  /\ buffer \subseteq Lines /\ loose \subseteq [key : UploadKeys, lines : SUBSET Lines]
  /\ second \in 0..MaxSecond
  /\ object \in [Docs -> [0..MaxRev -> 0..MaxRev]]
  /\ upload \subseteq [key : UploadKeys, lines : SUBSET Lines]
  /\ ckpt \in [Docs -> 0..MaxRev] /\ dlq \in [Docs -> 0..MaxRev]
  /\ reported \subseteq Lines /\ lost \subseteq Lines /\ faults \in 0..MaxFaults
  \* A line waits in one place, but for those of a batch that is sent again, and
  \* there is a timer only for lines that wait.
  /\ \A t \in Tasks : held[t] # {} <=> pc[t] \in {"flush", "flushpause"}
  /\ \A t, u \in Tasks : t # u => held[t] \cap held[u] \subseteq BatchLines
  /\ \A t \in Tasks : held[t] \cap buffer \subseteq BatchLines
  /\ timer => buffer # {}

NoKey == [second |-> 0, size |-> 0]

\* connect() succeeded: a client, an empty buffer.
Init ==
  /\ buffered \in Buffered
  /\ rev = [d \in Docs |-> 0] /\ gone = [d \in Docs |-> {}] /\ batch = {} /\ running = TRUE
  /\ pc = [t \in Tasks |-> "idle"] /\ attempt = [t \in Tasks |-> 0]
  /\ held = [t \in Tasks |-> {}] /\ key = [t \in Tasks |-> NoKey]
  /\ buffer = {} /\ timer = FALSE /\ loose = {} /\ second = 0
  /\ object = [d \in Docs |-> [k \in 0..MaxRev |-> 0]]
  /\ upload = {}
  /\ ckpt = [d \in Docs |-> 0] /\ dlq = [d \in Docs |-> 0]
  /\ reported = {} /\ lost = {} /\ faults = 0

Fault(kind) == kind \in Faults /\ faults < MaxFaults /\ faults' = faults + 1
NoFault == UNCHANGED faults
\* Bound: nothing else goes wrong after one of these.
LastFault(kind) == kind \in Faults /\ faults < MaxFaults /\ faults' = MaxFaults

-----------------------------------------------------------------------------
(* The feed's batch. *)

Poll ==
  /\ running /\ batch = {}
  /\ \E D \in SUBSET {d \in Docs : rev[d] < MaxRev} \ {{}} : \E X \in SUBSET D :
       /\ batch' = D
       /\ rev' = [d \in Docs |-> IF d \in D THEN rev[d] + 1 ELSE rev[d]]
       /\ gone' = [d \in Docs |-> IF d \in X THEN gone[d] \cup {rev[d] + 1} ELSE gone[d]]
  /\ UNCHANGED <<buffered, running, task, lines, second, store, saved, faults>>

IsDelete(d) == rev[d] \in gone[d] /\ OnDelete = "delete"
Ignored(d) == rev[d] \in gone[d] /\ OnDelete = "ignore"

\* send() of each document of the batch begins.
SendAll ==
  /\ running /\ batch # {} /\ \A t \in Tasks : pc[t] = "idle"
  /\ pc' = [t \in Tasks |-> IF t \notin batch THEN "idle"
                            ELSE IF Ignored(t) THEN "ok" ELSE "try"]
  /\ UNCHANGED <<buffered, feed, attempt, held, key, lines, second, store, saved, faults>>

\* The sends that did not succeed go to the dead letter queue, an object that was
\* refused only if it is not to be dropped.
Queued(d) == pc[d] = "failed" \/ (pc[d] = "refused" /\ ~SkipErrors)

\* Slip: a send that is down does not fail the batch.
BatchEndsRegardless ==
  /\ batch # {} /\ \A d \in batch : pc[d] \in Ended
  /\ pc' = [t \in Tasks |-> "idle"] /\ attempt' = [t \in Tasks |-> 0]
  /\ batch' = {}
  /\ ckpt' = [d \in Docs |-> IF d \in batch THEN rev[d] ELSE ckpt[d]]
  /\ dlq' = [d \in Docs |-> IF d \in batch /\ Queued(d) THEN rev[d] ELSE dlq[d]]
  /\ UNCHANGED <<buffered, rev, gone, running, held, key, lines, second, store,
                 reported, lost, faults>>

\* All have ended.  One that is down fails the batch, which is read again; else
\* the queue is written and the checkpoint is saved.
BatchEnds ==
  /\ batch # {} /\ \A d \in batch : pc[d] \in Ended
  /\ pc' = [t \in Tasks |-> "idle"] /\ attempt' = [t \in Tasks |-> 0]
  /\ IF \E d \in batch : pc[d] = "down" THEN UNCHANGED <<batch, ckpt, dlq>>
     ELSE /\ batch' = {}
          /\ ckpt' = [d \in Docs |-> IF d \in batch THEN rev[d] ELSE ckpt[d]]
          /\ dlq' = [d \in Docs |-> IF d \in batch /\ Queued(d) THEN rev[d] ELSE dlq[d]]
  /\ UNCHANGED <<buffered, rev, gone, running, held, key, lines, second, store,
                 reported, lost, faults>>

-----------------------------------------------------------------------------
(* One object per document: _send_with_retry. *)

KeyOf(d) == IF KeyByRev THEN rev[d] ELSE 0

\* Slip: a deletion is stored like any other revision.
StoredAlways(d) == [object EXCEPT ![d][KeyOf(d)] = rev[d]]

\* PUT of the document or of its tombstone, or DELETE.
Stored(d) == [object EXCEPT ![d][KeyOf(d)] = IF IsDelete(d) THEN 0 ELSE rev[d]]

\* Where an attempt that failed for a passing reason leads.
Failed(t, again) ==
  IF attempt[t] + 1 < MaxRetries THEN again ELSE IF Halt THEN "down" ELSE "failed"

SendObject(d) ==
  /\ pc[d] = "try" /\ (buffered => IsDelete(d))
  /\ attempt' = [attempt EXCEPT ![d] = @ + 1]
  /\ \/ /\ NoFault /\ object' = Stored(d)
        /\ pc' = [pc EXCEPT ![d] = "ok"]
     \/ /\ Fault("reply") /\ object' = Stored(d)
        /\ pc' = [pc EXCEPT ![d] = Failed(d, "pause")]
     \/ /\ Fault("transient") /\ UNCHANGED object
        /\ pc' = [pc EXCEPT ![d] = Failed(d, "pause")]
     \/ /\ Fault("permanent") /\ UNCHANGED object
        /\ pc' = [pc EXCEPT ![d] = "refused"]
  /\ UNCHANGED <<buffered, feed, held, key, lines, second, upload, saved>>

\* Slip: only the send of an object is tried again.
WakeSend(t) ==
  /\ pc[t] = "pause" /\ pc' = [pc EXCEPT ![t] = "try"]
  /\ UNCHANGED <<buffered, feed, attempt, held, key, lines, second, store, saved, faults>>

Wake(t) ==
  /\ pc[t] \in {"pause", "flushpause"}
  /\ pc' = [pc EXCEPT ![t] = IF @ = "pause" THEN "try" ELSE "flush"]
  /\ UNCHANGED <<buffered, feed, attempt, held, key, lines, second, store, saved, faults>>

-----------------------------------------------------------------------------
(* Lines of one upload: _batch_add, the timer and _flush_batch. *)

\* The object's name: the second in which it is named, and how many lines.
Name(L, k) ==
  /\ second' \in IF UniqueSecond THEN {second + 1} ELSE {second, second + 1}
  /\ second' <= MaxSecond
  /\ k = [second |-> second', size |-> Cardinality(L)]

\* _flush_batch takes the buffer and cancels the timer.
Take(t, L) ==
  /\ \E k \in UploadKeys : Name(L, k) /\ key' = [key EXCEPT ![t] = k]
  /\ held' = [held EXCEPT ![t] = L]
  /\ buffer' = {} /\ timer' = FALSE
  /\ pc' = [pc EXCEPT ![t] = "flush"]

\* Slip: the timer is started by the second line.
AddLineLateTimer(d) ==
  /\ pc[d] = "try" /\ buffered /\ ~IsDelete(d)
  /\ LET added == buffer \cup {<<d, rev[d]>>}
     IN  IF Cardinality(added) >= MaxDocs THEN Take(d, added)
         ELSE /\ buffer' = added
              /\ timer' = (timer \/ Cardinality(added) > 1)
              /\ pc' = [pc EXCEPT ![d] = "ok"]
              /\ UNCHANGED <<held, key, second>>
  /\ UNCHANGED <<buffered, feed, attempt, loose, store, saved, faults>>

\* A line joins the buffer.  The first starts the timer; the one that fills it
\* flushes it; all others are acknowledged here.
AddLine(d) ==
  /\ pc[d] = "try" /\ buffered /\ ~IsDelete(d)
  /\ LET added == buffer \cup {<<d, rev[d]>>}
     IN  IF Cardinality(added) >= MaxDocs THEN Take(d, added)
         ELSE /\ buffer' = added
              /\ timer' = (timer \/ Cardinality(added) = 1)
              /\ pc' = [pc EXCEPT ![d] = "ok"]
              /\ UNCHANGED <<held, key, second>>
  /\ UNCHANGED <<buffered, feed, attempt, loose, store, saved, faults>>

\* Slip: what was uploaded stays in hand.
ReleaseKey(t) == key' = [key EXCEPT ![t] = NoKey] /\ UNCHANGED held
Release(t) == held' = [held EXCEPT ![t] = {}] /\ key' = [key EXCEPT ![t] = NoKey]
\* What follows a flush, however it ended: its answer is not looked at.
Flushed(t) == pc' = [pc EXCEPT ![t] = "ok"]
Put(k, L) == upload' = {u \in upload : u.key # k} \cup {[key |-> k, lines |-> L]}

FlushOk(t) ==
  /\ pc[t] = "flush" /\ Put(key[t], held[t]) /\ Release(t) /\ Flushed(t)
  /\ UNCHANGED <<buffered, feed, attempt, lines, second, object, saved, faults>>

FlushFails(t) ==
  /\ pc[t] = "flush"
  /\ attempt' = [attempt EXCEPT ![t] = @ + 1]
  /\ \/ Fault("transient") /\ UNCHANGED upload
     \/ Fault("reply") /\ Put(key[t], held[t])
  /\ IF attempt[t] + 1 < MaxRetries
     THEN /\ pc' = [pc EXCEPT ![t] = "flushpause"]
          /\ UNCHANGED <<held, key, reported>>
     ELSE reported' = reported \cup held[t] /\ Release(t) /\ Flushed(t)
  /\ UNCHANGED <<buffered, feed, lines, second, object, ckpt, dlq, lost>>

\* Slip: an upload that is refused is not reported.
FlushRefusedSilently(t) ==
  /\ pc[t] = "flush" /\ Fault("permanent")
  /\ Release(t) /\ Flushed(t)
  /\ UNCHANGED <<buffered, feed, attempt, lines, second, store, saved>>

FlushRefused(t) ==
  /\ pc[t] = "flush" /\ Fault("permanent")
  /\ reported' = reported \cup held[t] /\ Release(t) /\ Flushed(t)
  /\ UNCHANGED <<buffered, feed, attempt, lines, second, store, ckpt, dlq, lost>>

\* The timer flushes, and _flush_batch cancels the pending timer: the task it
\* runs in.  The cancellation is raised at the upload, whose job is by then
\* with a worker thread, or still queued and cancelled with it ("cancelled").
TimerFires ==
  /\ timer /\ buffer # {}
  /\ buffer' = {} /\ timer' = FALSE
  /\ \E k \in UploadKeys :
       /\ Name(buffer, k)
       /\ \/ NoFault /\ loose' = loose \cup {[key |-> k, lines |-> buffer]} /\ UNCHANGED lost
          \/ LastFault("cancelled") /\ lost' = lost \cup buffer /\ UNCHANGED loose
  /\ UNCHANGED <<buffered, feed, task, store, ckpt, dlq, reported>>

\* The worker thread's upload.  Nobody waits for it: if it fails, it is not tried
\* again, and the log does not say so.
LooseUpload ==
  /\ \E u \in loose :
       /\ loose' = loose \ {u}
       /\ \/ NoFault /\ Put(u.key, u.lines) /\ UNCHANGED lost
          \/ Fault("abandoned") /\ lost' = lost \cup u.lines /\ UNCHANGED upload
  /\ UNCHANGED <<buffered, feed, task, buffer, timer, second, object, ckpt, dlq, reported>>

-----------------------------------------------------------------------------
(* close(), a later start, and a crash of the process. *)

\* The pipeline is stopped between two batches: close() flushes the buffer.
Close ==
  /\ running /\ \A t \in Tasks : pc[t] = "idle"
  /\ running' = FALSE
  /\ IF buffer = {}
     THEN pc' = [pc EXCEPT ![Closer] = "ok"] /\ UNCHANGED <<held, key, lines, second>>
     ELSE Take(Closer, buffer) /\ UNCHANGED loose
  /\ UNCHANGED <<buffered, rev, gone, batch, attempt, store, saved, faults>>

Start ==
  /\ ~running /\ pc[Closer] = "ok"
  /\ running' = TRUE /\ pc' = [pc EXCEPT ![Closer] = "idle"]
  /\ attempt' = [attempt EXCEPT ![Closer] = 0]
  /\ UNCHANGED <<buffered, rev, gone, batch, held, key, lines, second, store, saved,
                 faults>>

Waiting ==
  buffer \cup (UNION {held[t] : t \in Tasks}) \cup (UNION {u.lines : u \in loose})

Crash ==
  /\ LastFault("crash")
  /\ running' = TRUE
  /\ pc' = [t \in Tasks |-> "idle"] /\ attempt' = [t \in Tasks |-> 0]
  /\ held' = [t \in Tasks |-> {}] /\ key' = [t \in Tasks |-> NoKey]
  /\ buffer' = {} /\ timer' = FALSE /\ loose' = {}
  /\ lost' = lost \cup Waiting
  /\ UNCHANGED <<buffered, rev, gone, batch, second, store, ckpt, dlq, reported>>

Send(d) == SendObject(d) \/ AddLine(d)
Flush(t) == FlushOk(t) \/ FlushFails(t) \/ FlushRefused(t)

Next ==
  \/ Poll \/ SendAll \/ BatchEnds
  \/ \E d \in Docs : Send(d)
  \/ \E t \in Tasks : Flush(t) \/ Wake(t)
  \/ TimerFires \/ LooseUpload
  \/ Close \/ Start \/ Crash

\* The event loop runs what is ready, and a timer fires.
Spec ==
  /\ Init /\ [][Next]_cloudvars
  /\ \A d \in Docs : WF_cloudvars(Send(d))
  /\ \A t \in Tasks : WF_cloudvars(Flush(t)) /\ WF_cloudvars(Wake(t))
  /\ WF_cloudvars(TimerFires) /\ WF_cloudvars(LooseUpload)

-----------------------------------------------------------------------------
(* Properties. *)

\* Revision r of document d is what its object says.
Reflects(d, r) ==
  LET content == object[d][IF KeyByRev THEN r ELSE 0]
  IN  CASE r = 0 -> content = 0
        [] r \in gone[d] /\ OnDelete = "delete" -> content = 0
        [] r \in gone[d] /\ OnDelete = "ignore" -> TRUE
        [] OTHER -> content = r

\* Without a buffer, what the checkpoint covers is in the store, or something
\* newer is, or it is in the dead letter queue.
CheckpointInStore ==
  ~buffered =>
    \A d \in Docs : dlq[d] >= ckpt[d] \/ \E r \in ckpt[d]..rev[d] : Reflects(d, r)

InUpload(line) == \E u \in upload : line \in u.lines
\* Lines the checkpoint covers: revisions that were sent to the buffer.
Line(d, r) == r # 0 /\ (r \in gone[d] => OnDelete = "tombstone")
Acknowledged == {l \in Lines : l[2] <= ckpt[l[1]] /\ Line(l[1], l[2])}

\* With a buffer, a line the checkpoint covers is in the store, on its way to
\* it, or reported in the log: none disappears without a word ...
NoneLost ==
  buffered => \A l \in Acknowledged : InUpload(l) \/ l \in Waiting \cup reported

\* ... but in two ways: the process crashed while it waited, or the upload of the
\* timer, which cancels itself, did not come about.
OnlyCrashOrTimerLoses ==
  buffered => \A l \in Acknowledged : InUpload(l) \/ l \in Waiting \cup reported \cup lost

\* "Network error: Retry with backoff, then stop" and "hold checkpoint"
\* (CLOUD_BLOB_PLAN.md) under halt_on_failure: what the checkpoint covers did
\* not fail to be uploaded.
HoldsCheckpoint ==
  Halt => /\ \A l \in Acknowledged : l \notin reported \/ InUpload(l)
          /\ \A d \in Docs : dlq[d] = 0

\* A document that was deleted has no object ("the object is removed from the
\* bucket", CLOUD_BLOB_PLAN.md).
DeletedGone ==
  \A d \in Docs : ckpt[d] = rev[d] /\ ckpt[d] \in gone[d] /\ OnDelete = "delete" /\ dlq[d] = 0
                    => \A k \in 0..MaxRev : object[d][k] = 0

\* Every send ends, or ends with the process.
CloudSendsEnd == \A d \in Docs : pc[d] = "try" ~> pc[d] \in Ended \cup {"idle"}

\* "Flush after N seconds since first doc in buffer" (CLOUD_BLOB_PLAN.md): a
\* line leaves the buffer.
BufferDrains == \A l \in Lines : l \in buffer ~> l \notin buffer
=============================================================================
