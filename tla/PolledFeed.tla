----------------------------- MODULE PolledFeed -----------------------------
(***************************************************************************)
(* poll_changes with feed_type longpoll or normal: poll _changes, process  *)
(* the batch, sleep, again.                                                *)
(***************************************************************************)
EXTENDS Worker

\* The request: active_only during the initial sync, except for CouchDB; the
\* limit of the job.
ActiveOnly == initSync /\ ~Job.couchdb

Poll ==
  /\ pc = "poll" /\ ~stopping
  /\ \E m \in since..Len(log) :
       /\ LastSeq(since, ActiveOnly, Job.limit, m)
       /\ Receive({s \in Feed(since, ActiveOnly) : s <= m},
                  {s \in Feed(since, FALSE) : s <= m /\ ActiveOnly /\ ~Live(s)}, m)
  /\ UNCHANGED <<replay, target>>

\* poll_changes returns: stop_event, or a 4xx or 3xx on _changes.  (A poll whose
\* retries are exhausted changes nothing: the loop sleeps and polls again.)
LeaveLoop ==
  /\ pc = "poll"
  /\ (stopping /\ NoFault) \/ Fault("feed")
  /\ End("ended") /\ ForgetWorker
  /\ UNCHANGED <<log, sinkVars, sg, fb, stopping>>

\* output_failed: sleep and poll again from the cursor that was returned.
RetryBatch ==
  /\ pc = "failed"
  /\ pc' = "poll"
  /\ UNCHANGED <<log, sinkVars, since, initSync, batchVars, ckptVars, worldVars,
                 replay, target>>

\* Slip: an empty response does not end the initial sync.
EndsAtTarget == initSync /\ last >= target

\* After a batch.  No rows, or the target reached, ends the initial sync:
\* the flag is saved with the cursor.
InitialSyncEnds == initSync /\ (~got \/ last >= target)

NextPoll ==
  /\ pc = "after" /\ ~InitialSyncEnds
  /\ pc' = "poll" /\ ForgetBatch
  /\ UNCHANGED <<log, sinkVars, since, initSync, ckptVars, worldVars, replay, target>>

FinishInitialSync ==
  /\ pc = "after" /\ InitialSyncEnds
  /\ \/ /\ Save(since, TRUE)
        /\ initSync' = FALSE
        /\ pc' = "poll" /\ ForgetBatch
        /\ UNCHANGED <<since, replay, target>>
     \/ SaveRaises(since, TRUE) /\ Die /\ ForgetWorker
  /\ UNCHANGED <<log, sinkVars>>

Batch == BatchStep /\ UNCHANGED <<replay, target>>

WorkerStep ==
  \/ Restart \/ Unreachable \/ LoadCheckpoint \/ ReplayEntry \/ ReplayEnds
  \/ Poll \/ LeaveLoop \/ RetryBatch \/ NextPoll \/ FinishInitialSync \/ Batch

Environment == Mutate \/ StartAgain \/ Stop \/ Crash \/ Expire

Init == WorkerInit
Next == WorkerStep \/ Environment

\* The worker's own steps are taken: the event loop runs, the monitor restarts
\* a pipeline that raised (pipeline_manager.py, _monitor_threads).  Nothing
\* obliges an operator to start a job again.
Spec == Init /\ [][Next]_vars /\ WF_vars(WorkerStep)

-----------------------------------------------------------------------------
\* The changes the worker has dealt with.
Handled == {s \in DOMAIN log : Accounted(s)}

Promise == INSTANCE AtLeastOnce
             WITH length <- Len(log), handled <- Handled, cursor <- sg.seq

\* The worker keeps the promise of AtLeastOnce: whatever fails, a change is
\* looked at before the checkpoint on Sync Gateway passes it, and neither the
\* checkpoint nor the record of what was looked at goes back.
KeepsPromise == Promise!Spec
=============================================================================
