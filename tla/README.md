# change_stream_db in TLA+

A verification development for the Changes Worker: a Python service that follows the `_changes`
feed of Sync Gateway, App Services, Edge Server or CouchDB and sends every change to an output
(HTTP endpoint, SQL database, cloud store). TLA+ modules model its components, TLC checks them on
small instances, and TLAPS proves the main safety results for every instance.

Paths are relative to the repository's root (`src/` in `PROJECT.json`). `PROJECT.json` maps every
definition that models code to the lines it stands for.

1. [The system](#1-the-system)
2. [The modules](#2-the-modules)
3. [What is checked](#3-what-is-checked)
4. [What is proved](#4-what-is-proved)
5. [Divergences between code and documentation](#5-divergences-between-code-and-documentation)
6. [What is not modelled](#6-what-is-not-modelled)
7. [Plan](#7-plan)
8. [Running it](#8-running-it)

## 1. The system

Two processes. The worker: `main.py` loads the configuration, migrates the store, starts a web
server (metrics and API) and a `PipelineManager` in a thread of its own. The manager runs one
`Pipeline` per job, each a thread with an asyncio event loop that executes the coroutine
`poll_changes`: load the checkpoint, replay the dead letter queue (DLQ), then follow the feed until
told to stop. Documents go from the feed through `_process_changes_batch` to an output forwarder;
what fails goes to the DLQ. The Admin UI (`web/server.py`) works on the same Couchbase Lite store
and the same mapping directory.

| component | source | state it keeps | operations | talks to |
|---|---|---|---|---|
| Checkpoint | `main.py` 2197-2452 | `_seq`, `_rev`, `initial_sync_done` in memory; a `_local` document on Sync Gateway; a fallback (file or Couchbase Lite) | `load`, `save` with fallback | HTTP client, store |
| Batch processing | `rest/changes_http.py` 883-1487 | locals of one batch: rows, results, tasks, pending cursor | filter, fetch bodies, process rows (parallel, sequential, sub-batches), halt, DLQ, save | outputs, DLQ, checkpoint |
| Polled feed | `main.py` 2460-2995 | cursor `since`, `initial_sync`, `target_seq`, failure counters | longpoll/normal loop | HTTP client, batch |
| Streams | `rest/changes_http.py` 1490-2200 | the same, a connection, a buffer of rows | catch-up, continuous stream, WebSocket stream | HTTP client, batch |
| Dead letter queue | `rest/output_http.py` 940-1200, `storage/cbl_store.py` 1190-1620, `rest/changes_http.py` 2205-2374 | entries with retry counters, metadata document | write, list, purge, expire, replay at start, requests | outputs, store |
| HTTP output | `rest/output_http.py` 200-760 | session, counters, heartbeat state | `send`, health check, heartbeat | HTTP client |
| Database outputs | `db/*.py`, `schema/mapper.py` | connection pool and its lock, mappers | map, transaction, retries, reconnect | database |
| Cloud outputs | `cloud/*.py` | buffer of lines and its timer | put or delete an object; buffer, flush, upload | object store |
| HTTP client | `rest/changes_http.py` 100-200 | none between requests | request with retries and backoff, interrupted by `stop_event` | network |
| Pipeline | `pipeline/pipeline.py` | `_thread`, `_running`, `_loop`, `_shutdown_event`, `_error` | `run`, `start`, `stop`, `is_running`, `get_state` | poll_changes |
| Pipeline manager | `pipeline/pipeline_manager.py` | registry of pipelines, `_offline`, `_running`, `_shutdown_event`, `_crash_backoff` | start/stop/restart a job, restart all, offline/online, monitor, shutdown | pipelines, store |
| Job control API | `rest/api_v2_jobs_control.py` | none | one handler per request, each in an executor thread | manager |
| Job store API | `rest/api_v2.py`, `web/server.py` | none | lists of inputs, outputs and tables, sources, jobs with copies of them | store, manager |
| Local store | `storage/cbl_store.py` | inputs, outputs, tables, sources, jobs, checkpoints, mappings with a manifest, configuration, DLQ, users, sessions | one read or write of a document each, migrations | Couchbase Lite |
| Start-up | `main.py` 3030-3362, `storage/cbl_store.py` 2850-3465 | where the start is | seed and migrate the configuration, sync mapping files, move old documents, validate, load jobs | store, files |
| Mapping, validation, eventing | `schema/`, `eventing/` | none | transform one document | |
| Attachments | `rest/attachment*.py` | temporary files, upload state | detect, download, upload, postprocess | source, object store |
| Metrics, logging, log collection | `main.py`, `pipeline/pipeline_logging.py`, `rest/log_collect.py` | counters, log files | | |

### What is hard in it

* **Partial failure inside a batch.** Some rows are delivered, one fails, others are in flight; the
  cursor may move to here but not there; the three modes each decide it with their own code.
* **Three copies of the checkpoint** (memory, Sync Gateway, fallback) that a failed save, a lost
  reply or a crash sets apart, and a `load` that takes the first that answers.
* **A source that changes while a batch is processed**, so bodies are fetched for revisions that
  may be gone.
* **Connections of a stream** that end in the middle of a buffer, and a cursor that is asked for
  when the next one is made.
* **Shutdown signals** that turn any request into an exception, in the middle of anything.
* **Redelivery**: retries, restarts and the DLQ send changes again, in other orders.
* **A queue shared by all pipelines and another process**, where every change of an entry is a
  read and a later write.
* **A pool shared by the sends of a batch**, taken away by one while others use it.
* **Acknowledgement before delivery** in the buffered cloud output.
* **A start made of many writes**, stopped between any two and run again, beside another process.
* **Threads of the manager**: API requests, the monitor, the start and the shutdown share a
  registry whose lock is not held while a job stops or loads; a pipeline's own fields are written
  by its thread mostly without its lock.
* **Liveness**: the initial sync, a replay, a send, a start have to end, the checkpoint to catch
  up, a buffer to drain, a crashed job to come back.

`PROJECT.json` lists these as hazards, each at its line, with the properties that cover it.

### What makes each component correct

* Checkpoint: never passes a change nobody looked at; never moves back; catches up.
* Batch: what the cursor passes was delivered, queued whole, or excluded by the settings.
* Worker and streams: every change is dealt with at some point, also across connections; the
  output converges to the source.
* DLQ: a failure keeps its entry until it is made good, the entry has what a replay needs, a
  replay ends and does not undo newer state.
* Outputs: what the checkpoint covers is in the database or store, or known to have failed; child
  rows and objects are those of one revision.
* Start-up: the pipeline is not lost, its job resumes where the old one was, the mappings are the
  files, the worker comes up.
* Job store: a request changes what it names, all of it or nothing.
* Pipeline: its fields name its one thread. Manager: no running thread is lost, at most one per
  job, `max_threads` holds, a crashed job returns, a shutdown leaves nothing behind.

## 2. The modules

```
Checkpoint <- ChangesBatch <- Worker <- PolledFeed <- MCPolledFeed
                                           '-- INSTANCE AtLeastOnce
                              Worker <- StreamFeed <- MCStreamFeed
                              Worker <- WorkerProofs;  PolledFeed, StreamFeed, WorkerProofs <- FeedProofs
Pipeline <- PipelineManager <- PipelineManagerProofs
DeadLetter  <- MCDeadLetter,  DeadLetterProofs
DbOutput    <- MCDbOutput,    DbOutputProofs
CloudOutput <- MCCloudOutput, CloudOutputProofs
StartUp     <- MCStartUp,     StartUpProofs
JobStore    <- MCJobStore,    JobStoreProofs;    JobStore -- INSTANCE Registry
```

An arrow is EXTENDS. A module adds its variables and actions to those it extends. TLC reads the
`MC` modules, which name the model values and the jobs that their configurations use; TLAPS reads
the `Proofs`.

`ChangesBatch` has its own small models of the queue and of the outputs (which entry a failure
leaves, what `send()` can come to). `DeadLetter`, `DbOutput` and `CloudOutput` model what is behind
them, with a small model of the batch in return: documents sent at once, the batch read again when
one of them is down, the checkpoint saved otherwise.

### Checkpoint

Variables `sg`, `fb`, `ck`: the document on Sync Gateway, the fallback, the object in memory.
Sequence numbers are naturals. The `_rev` is one bit, `ck.revOk`: whether the `_rev` in memory is
the one Sync Gateway has; only this worker writes the document, so only its own lost replies and
its loads from elsewhere can make it wrong. `Load` and `Save` list the outcomes of the request:
stored, refused (409, stop, retries exhausted) with the fallback written, or applied with the
reply lost. `SaveRaises` is the Couchbase Lite fallback: its call has three arguments for a method
that takes two, so the exception leaves `save`.

`faults` counts failures and `Faults` says which kinds an instance allows: a failure is any
outcome the code does not choose (a refused PUT, a send that fails, a crash, a stop, ...). The
bound `MaxFaults` is per behaviour; the proofs hold for any. The other modules do the same.

### ChangesBatch

`_process_changes_batch` from the response on. The source is a `log` of mutations; a mutation's
index is its sequence number and stands for the revision it made; `_changes` lists a document once,
at its latest mutation. A batch is a set of rows, `res[s]` the state of a row (`todo`, `held` with
its document resolved, then what `send()` came to). Actions: `Receive` (the filters),
`EmptyBatch`, `FetchDocs` (prefetch), `TakeDoc`/`SkipRow` (`_resolve_doc`), `SendRow`,
`SettleRow`/`HaltRow`/`EndSequential` (sequential mode, with a stride or with sub-batches),
`EndParallel`/`HaltParallel` (parallel mode), `RaiseFromBatch`. Interleaving happens where the
code awaits: the source may change, `stop_event` may be set and the process may die between any
two actions; code between awaits is one action, with the save that ends it.

`Job` is the record of settings that choose between these paths (`JobSettings`). The three kinds
of change are live, deleted, and removed from the worker's channels.

`fate` is a history variable: what happened to each mutation. No action reads it.

### Worker, PolledFeed and StreamFeed

`Worker` adds the life cycle all feed modes share: `LoadCheckpoint`, the replay of the DLQ
(newest entry first, `ReplayEntry`), `Stop`, `Crash`, `Restart` (by the monitor, after an
exception), `StartAgain` (by an operator, after a clean end), the clean end of a start that does not
reach its HTTP output (`Unreachable`), and the source's `Mutate`.

`PolledFeed` is the longpoll/normal loop: `Poll` with `active_only` and `limit`, `NextPoll`,
`RetryBatch` (poll again from the same cursor), the end of the initial sync, `LeaveLoop`. A poll's
response is every row of the feed up to its `last_seq`, which is the end of the log, the old cursor
or the last row (`LastSeq`); the code never sees more of the server than that.

`StreamFeed` is the other two modes (`feedType`). `phase` is catch-up or the stream itself, `conn`
the connection, `asked` the `since` it was asked for, `pos` what the server has sent on it,
`buffer` the rows drained from it and not yet processed, `final` the batch of a message that ends a
WebSocket drain. Its initial predicate and specification are `StreamInit` and `StreamSpec`, so that
one module can reason about both drivers. `Connect`, `ReadRow`, `Flush` (rows to a batch), `FlushFailed` (the batch failed:
a WebSocket is closed, a continuous stream goes on from the old cursor), `LastMessage`/`FinalDone`,
`Closed`, `ReadError`, `FetchError`. Each is one turn of a consumer's loop between two awaits.

### AtLeastOnce

What a worker promises: a change is looked at before the stored checkpoint passes it, and neither
goes back. `PolledFeed` implements it under `length <- Len(log)`, `handled <- Handled`,
`cursor <- sg.seq` (property `KeepsPromise`, theorem `PromiseKept`). `StreamFeed` has the first half
(`CheckpointCovered`) and `WebSocketMonotone`; a continuous stream that reconnects may move the
cursor back (section 5).

### DeadLetter

The queue in Couchbase Lite: entries under ids "document, second" with a revision, a `retried` flag
and a count of attempts. Each pipeline is in a stage `pc[j]` of its start (select the expired, purge
them, list, replay one entry after the other, count a failure) or in the feed, where `Write` and
`Deliver` are its batches. The web server's request `api` reads in one step and writes in a later
one, as do the purge and the count: all store calls are last write wins. `Sink[j]` is the output of
pipeline `j`, which its batches and its replay send to; an entry does not say whose failure it is, so a
replay takes those of all jobs. `owed[d]` is a history variable: the revision whose failure is still to
be made good at the output it happened at. Documents of different jobs are different here; two jobs
that follow one document share its ids as well.

### DbOutput

`BaseOutputForwarder.send` for the documents of a parallel batch: `pc[d]` is where the send of `d`
is, from `Acquire` (a connection of the pool) through `Execute` (the transaction) to `LosePool`,
`ClosePool`, `MakePool` under `_pool_lock`, or a pause before another attempt. A document is its
parent row's revision and how often the child rows of each revision are there; `db` is what
sessions see, `disk` what a crash of the server keeps. An upsert with `delete_insert` replaces child
rows, one without adds to them; a tombstone's rows go by the first mapping (`FirstMapped`). A row
that is refused is queued or, with `data_error_action: skip` (`SkipErrors`), dropped. The four
engines repeat the same methods, so definitions are mapped to different engines.

### CloudOutput

`BaseCloudForwarder` with the S3 client, in either mode (`buffered`). Without a buffer, a document
is an object per key (`KeyOf`), put, deleted or left alone (`OnDelete`). With a buffer, a line is
acknowledged when it joins `buffer`; the line that fills it, the timer or `close()` takes the lines
(`Take`, `TimerFires`) and uploads them under a name made of a second and a count. The timer's flush
cancels the task it runs in, so its upload is with a worker thread nobody waits for (`loose`) or is
cancelled. `LooseUpload` is that thread's: it succeeds, or fails without another attempt and
without a report. An object that is refused is queued or dropped, as rows are. `Put` replaces an upload of the same name.

### StartUp

`main()` up to the load of the jobs, one write to the store per action: `LoadConfig` (seeds from
config.json), `MigrateInputs`, `MigrateOutputs`, `MigrateJob`, `MigrateCheckpoint`, `SlimConfig`
(migrate_v1_to_v2), `SyncFile`, `SyncListed`, `SyncDelete`, `SyncEnds` (migrate_files_to_cbl),
`MigrateDefault`, `EmbedMappings`, `Validate`, `LoadJobs`; then `Resume` and `FeedSaves`, the load and
the save of the job's checkpoint. `keys` says which checkpoint documents there are, the one the
migration writes under the job's uuid or the one the feed reads and writes under a hash, and
`begins` where the job began. `cfg` is the stored configuration: version 1, settings without a mark, or
marked. Saves and deletions of mappings (`op`) are three or four steps in either process: document,
read manifest, write manifest, file. The UI edits mappings and settings, users edit files and delete
jobs, the worker stops anywhere and its container starts it again.

### JobStore and Registry

`JobStore` has the documents that inputs, outputs, tables, sources, jobs and checkpoints are, and a
request in hand per server, each with its steps of reading and writing; a write may be refused.
Jobs hold copies of their input and output. `Registry` is the abstract specification: one change of
one thing at a time, or none. With one server each request implements it (`KeepsRegistry`); with
the UI and the worker's API on one store it does not (section 5).

### Pipeline and PipelineManager

`Pipeline` has the fields of the object and its threads: `Spawn`/`Start`, the stages of `run`
(`Begin` sets `_running`, `EnterLoop` makes the event, `LeaveLoop`, `Finish` clears the fields),
and `Tell`, the part of `stop` that sets the event of a loop if there is one. The coroutine is
abstracted to how it ends (`Ends`). `MaxSlow` says how often others may run between
`Thread.start()` and the first line of `run()`; with 0 both are one step.

`PipelineManager` has the registry and its actors: each request in an executor thread, the thread
in `start()`, the monitor. What the code does under the manager's lock is one action; `at[a]` is
the part actor `a` is before. So `stop_job` is `FindPipeline`, `Signal`, `StopJoined` or
`StopTimesOut`, `Forget`; `start_job` is `StartKnown`, or `StartUnknown` and `StartInternal`. A
crash delay is abstracted: the monitor may back off (`BacksOff`) after a restart that returned
False, and otherwise restarts. Pipelines and threads are numbers that are reused when nothing
refers to them, so only the pools are bounded.

### Slips

A definition marked "slip" is a plausible bug of the definition that follows it (a dropped guard,
a missing save, a swapped order). Nothing refers to it. For each property of a passing run,
`PROJECT.json` names a definition and a slip; with the slip in its place TLC finds the property
violated under the same configuration, so the property does depend on that code.

## 3. What is checked

| run (cfg, module) | question | properties |
|---|---|---|
| `polled_queue` (PolledQueue, MCPolledFeed) | parallel mode with the DLQ in Couchbase Lite, refused and 4xx documents, failed saves, lost replies, crashes, stops, entries that expire | `CheckpointDelivered`: what a stored cursor passes was delivered, queued or excluded; `QueueKeepsChange`: an entry has the body and method a replay needs; `CheckpointCovered`: no stored cursor passes a change nobody looked at; `CheckpointMonotone`: the checkpoint on Sync Gateway never moves back; `KeepsPromise`: refinement of AtLeastOnce |
| `polled_liveness` (PolledLiveness, MCPolledFeed) | a chunked initial sync with or without a target, finitely many crashes, failed sends, lost replies | `WorkerTypeOK`, `InitialSyncCompletes`, `EveryChangeHandled`, `OutputConverges`: the output ends with the latest revision of every document; `CheckpointCatchesUp` |
| `stream_feed` (StreamFeed, MCStreamFeed) | both streams after catch-up: an output unreachable at the start, read errors, EOF, closing messages, failed flushes, fetches and saves, crashes, stops | `StreamTypeOK`, `CheckpointCovered`, `NoGap`: what a connection was not asked for was dealt with before it; `WebSocketMonotone`, `StreamHandlesAll`, `StreamCheckpointCatchesUp` |
| `manager_orderly` (ManagerOrderly, PipelineManager) | two jobs, one request at a time once the manager has started, feeds that may end but do not crash, joins that may time out | `NoOrphan`: a running thread is that of the pipeline the registry has for its job; `ThreadFields`: a pipeline's fields name its one thread |
| `manager_races` (ManagerRaces, PipelineManager) | one request at a time beside the start, the monitor and a shutdown, crashes, slow starts | `RunningNotReplaced`: the entry of a running pipeline is never replaced; `CrashedJobRestarted` |
| `dead_letter` (DeadLetter, MCDeadLetter) | two pipelines with one output replay the queue one of them fills, beside requests of the web server, expiry, crashes | `DlqTypeOK`; `QueueKeepsFailure`: the latest failure of a document keeps an entry until the output has it or a newer one; `ReplayTerminates` |
| `db_output` (DbOutput, MCDbOutput) | two sends share a pool that is lost and made anew; lost replies, deadlocks, refused rows, a crash of the server | `DbTypeOK`; `CheckpointStored`: what the checkpoint covers is in the database or queued; `RowsWhole`: child rows are those of the parent's revision, once; `SendsEnd` |
| `cloud_output` (CloudOutput, MCCloudOutput) | an object per document, or a buffer flushed by size, timer and close; failed uploads, lost replies, cancellations, uploads that fail behind the timer's back, crashes | `CloudTypeOK`, `CheckpointInStore`, `OnlyCrashOrTimerLoses`: a covered line is stored, waiting or reported, or was lost with the process or the timer; `DeletedGone`; `CloudSendsEnd`, `BufferDrains` |
| `start_up` (StartUp, MCStartUp) | a start that migrates a version 1 configuration and syncs mapping files, stopped between any two writes, with edits between the starts | `StartTypeOK`, `PipelineKept`, `MappingsFollowDisk`, `ComesUp` |
| `job_store` (JobStore, MCJobStore) | one server's requests on lists, sources and jobs, and a write the store refuses | `JobStoreTypeOK`; `KeepsRegistry`: refinement of Registry |
| `mapping_not_stored` (V_JobMapping, MCJobStore) | a code bug, section 5 | `MappingStored` violated |
| `start_loops` (V_StartMapping, MCStartUp) | a code bug, section 5 | `ComesUp` violated |

### Bounds

* Feeds: logs of at most 3 mutations (2 for the streams, whose two consumers multiply the states;
  3 has been checked as well), 2 or 3 documents, 2 failures in a behaviour, a checkpoint stride of
  2 rows (100 in the code), 2 tasks at a time. Three mutations are enough for a row before, at and
  after the failing one, for a full and a partial sub-batch, and for a document that changes while
  its row is processed; two failures for one during the recovery from another.
* Manager: two jobs, or two requests at a time: each race of section 5 needs two actors.
* DLQ: two pipelines, a document with two failures, three seconds: an entry to expire, one that
  stays, one to come. One restart, so that a replay meets what an interrupted one left.
* Outputs: two documents, two revisions, two attempts, two faults. One document loses the pool and
  the other meets the loss; the second attempt is the last. Buffers of two lines: one that
  fills and one left to the timer. `MaxSecond` (8) exceeds the uploads that two faults can cause.
* Start-up: two mapping files, two edits, two stops: the second interrupts the recovery from the
  first. Job store: two ids, one job, four edits, one refused write.

### What the passing runs are restricted to

A passing run shows what it shows for its settings. Section 5 has what happens without these.

* `CheckpointDelivered` and `QueueKeepsChange`: parallel mode with bodies in the feed and the queue
  in Couchbase Lite. `OutputConverges`: sequential order.
* `NoOrphan`: no crashes, no requests during the start. `ThreadFields`: no slow starts.
* Streams: parallel mode; after a closing message that a WebSocket drains together with rows, no
  failure follows (without the fault `drained` that message is the last one of a behaviour).
* `CheckpointCatchesUp`: no failed save and no lost reply of one. `InitialSyncCompletes` and
  `EveryChangeHandled`: a sequential job, and no document the output answers with a 4xx.
* `QueueKeepsFailure`: two failures of a document have different seconds (`OwnSecond`), and all
  pipelines deliver to one output (`OneSink`).
* `CheckpointStored`: the database commits synchronously, every document's first mapping has its
  tombstone (`FirstMapped = Docs`). `RowsWhole`: child tables use `delete_insert`.
* `CheckpointStored`, `CheckpointInStore` and `DeletedGone`: what the output refuses is queued, not
  dropped (`~SkipErrors`).
* `OnlyCrashOrTimerLoses`: uploads fall in different seconds (`UniqueSecond`). `DeletedGone`: the key
  of an object does not have the revision in it.
* Start-up: nobody uses the UI while the worker starts (`Overlap`), no process dies inside one save
  or deletion of a mapping (`MapCrash`), no mapping for the migrated job (`JobMapping = None`), an
  output other than stdout (`Stdout`), a checkpoint.json that can be parsed (`CkptFile`).
* `KeepsRegistry`: one server.

`CheckpointCovered`, `CheckpointMonotone`, `KeepsPromise` of the polled feed and
`RunningNotReplaced` need no restriction; they are proved for every instance.

Deadlock is checked in the polled runs. It is off elsewhere: a stream whose source is quiet, an
idle, offline or shut down manager, a replayed queue, an output without a batch, a worker that is
up and a store without requests really rest.

### Fairness

* Feeds: `WF(WorkerStep)` and `WF(StreamStep)`. The worker's own steps happen: its event loop runs,
  requests return (every one has a timeout), a pipeline that raised is restarted by the monitor
  every five seconds. Not fair: the source's writes, stops, crashes, expiry, and `StartAgain`, for
  nothing obliges an operator to start a job that ended. The polled liveness run therefore excludes
  stops, the `unreachable` output and the `feed` failure, which end the job for good (a 4xx on
  `_changes`: docs/DESIGN.md's failure table); the streams' liveness properties have the premise that the job was not stopped.
  Weak fairness of the whole disjunction is enough because a worker is sequential, and in parallel
  mode every task that is left waiting stays the only thing to do.
* Manager: weak fairness of every actor's steps (a join has a timeout, so it is never
  stuck), of the monitor and of the threads' own steps, except that a coroutine ends by itself;
  strong fairness of `RestartsCrashed`, because a backoff delay passes (it is at most 60 seconds).
* DLQ: weak fairness of each pipeline's replay. The requests and the feed owe nothing.
* Database: strong fairness of each document's send. The pool's lock is an asyncio lock, which
  wakes its waiters first come, first served, so a send that can proceed again and again does.
* Cloud: weak fairness of sends, flushes, wakes, the timer and an upload in its worker thread.
* Start-up: weak fairness of the start, as the container has `restart: unless-stopped`, and of a
  request of the UI already begun. Job store: none; it has safety properties only.

## 4. What is proved

By TLAPS, for every value of the constants that meets the modules' named assumptions
(`FaultsAssumption`, `JobAssumption`, `StartAssumption`, ...): any number of documents, jobs,
servers, pipelines, retries and failures, any log length. TLC evaluates the assumptions in its
runs. Every invariant and every action property of the passing runs is a theorem, but for the
settings named in the column "if".

| module | theorem | states | if |
|---|---|---|---|
| FeedProofs | `TypeCorrect` | `Spec => []WorkerTypeOK` | |
| | `CheckpointSafe` | `Spec => []CheckpointCovered` | |
| | `CheckpointNeverBack` | `Spec => CheckpointMonotone` | |
| | `PromiseKept` | `Spec => KeepsPromise` (AtLeastOnce) | |
| | `CheckpointMeansDelivered` | `Spec => []CheckpointDelivered` | `NothingLost` |
| | `QueueAlwaysKeeps` | `Spec => []QueueKeepsChange` | `NothingLost` |
| | `StreamTypeCorrect` | `StreamSpec => []StreamTypeOK` | |
| | `StreamCheckpointSafe` | `StreamSpec => []CheckpointCovered` | `Undrained` |
| | `StreamNoGap` | `StreamSpec => []NoGap` | `Undrained` |
| | `WebSocketNeverBack` | `StreamSpec => WebSocketMonotone` | `Undrained` |
| PipelineManagerProofs | `ManagerTypeCorrect` | `Spec => []ManagerTypeOK` | |
| | `FieldsSafe` | `Spec => []ThreadFields` | `MaxSlow = 0` |
| | `EntrySafe` | `Spec => RunningNotReplaced` | |
| | `NoneOrphaned` | `Spec => []NoOrphan` | `Orderly` |
| StartUpProofs | `StartTypeCorrect` | `Spec => []StartTypeOK` | |
| | `PipelineSafe` | `Spec => []PipelineKept` | `~Overlap`, `~Stdout` |
| | `MappingsAlwaysFollow` | `Spec => []MappingsFollowDisk` | `~Overlap`, `~MapCrash` |
| DbOutputProofs | `DbTypeCorrect` | `Spec => []DbTypeOK` | |
| | `CheckpointAlwaysStored` | `Spec => []CheckpointStored` | `FirstMapped = Docs`, `SyncCommit`, `~SkipErrors` |
| | `RowsAlwaysWhole` | `Spec => []RowsWhole` | `DeleteInsert` |
| DeadLetterProofs | `DlqTypeCorrect` | `Spec => []DlqTypeOK` | |
| | `FailureKept` | `Spec => []QueueKeepsFailure` | `OwnSecond`, `OneSink` |
| CloudOutputProofs | `CloudTypeCorrect` | `Spec => []CloudTypeOK` | |
| | `CheckpointAlwaysInStore` | `Spec => []CheckpointInStore` | `~SkipErrors` |
| | `LinesSafe` | `Spec => []OnlyCrashOrTimerLoses` | `UniqueSecond` |
| | `NoLineLost` | `Spec => []NoneLost` | `UniqueSecond`, none of the faults `crash`, `cancelled`, `abandoned` |
| | `DeletedStaysGone` | `Spec => []DeletedGone` | `~KeyByRev`, `~SkipErrors` |
| JobStoreProofs | `JobStoreTypeCorrect` | `Spec => []JobStoreTypeOK` | |
| | `RegistryKept` | `Spec => KeepsRegistry` (Registry) | `OneServer` |

The conditions are settings of the program, or the absence of a race or failure; section 5 has the
counterexamples without them:

* `NothingLost` (`Worker`): the job has `include_docs`, its initial sync is over and the checkpoint
  can be read (else the initial sync, which asks for no bodies, begins again), and a queue is
  written in parallel mode for an HTTP output.
* `Undrained` (`FeedProofs`): no WebSocket, or no failure after a closing message that was drained
  together with rows.
* `Orderly` (`PipelineManagerProofs`): one operator, who begins after the start, no shutdown, no
  slow start, and feeds that return but do not raise. Joins may still time out.
* `OneServer` (`JobStoreProofs`): any two servers are the same one. Its writes may be refused
  between any two steps of a handler.
* `~Overlap`, `~MapCrash`, `~Stdout`, `OwnSecond`, `OneSink`, `UniqueSecond`, `~SkipErrors`, ...: as
  in section 3.

### Arguments

**Feeds.** `CheckpointCovered` is not inductive: a save writes the cursor in memory, which says
nothing of the stored one. The invariant `IInv` of `Worker` adds

* `Covered(since)`: the cursor in memory passes no change that was not looked at;
* `BatchInv`: below the batch's `last_seq` every change is accounted for or is a row still being
  worked on, so that an end of the batch may move the cursor to `last_seq`;
* `OrderInv`: in sequential mode rows settle in order and the cursor is not past one that is not,
  so that a row may move the cursor to itself, and a sub-batch to its end;
* `RevInv`: while the `_rev` in memory is good, the stored cursor is not ahead of the one in
  memory. This is what makes the checkpoint monotone although `load` may return an older copy: a
  load from the fallback or after a failure leaves `_rev` at None, and Sync Gateway refuses the
  save that would move the cursor back.

The last three have a parameter: `IInv(TRUE)` says that the cursor only moves forward as well,
which holds for polls and WebSockets; a continuous stream that reconnects asks for an old `since`,
and only `IInv(FALSE)` holds for it. The lemmas on saves, loads, queue writes and the steps of a
batch are in `WorkerProofs`, for either value, so both drivers cite them. `PromiseKept` follows
from `IInv(TRUE)`: a step of the worker maps to `Work`, `Mutate` to `Write`, the rest to a stutter.

**Delivery.** Under `NothingLost` a change has only the fates `GoodFates`: delivered, ignored by a
filter, dropped by a setting, or expired from the queue. `DeliveryInv` has that, what every queue
entry holds, and `SyncedInv`: the stored copies say that the initial sync is over, so a start that
read one of them does not begin it again. `CheckpointDelivered` is then `CheckpointCovered` with
the fates that are possible.

**Streams.** `StreamInv(fwd)` joins `IInv(fwd)` with what the connection adds: the cursor the next
connection asks for is covered (`ConnInv`); a change the server has sent past on this one was dealt
with or is in the buffer (`BufferInv`, `ReadInv`); and the changes between the last row and a
closing message are no longer the latest of their documents (`FinalInv`). `NoGap` and
`CheckpointCovered` are parts of it. `WebSocketNeverBack` takes `StreamInv(TRUE)` as long as the
job is a WebSocket.

**Manager.** `FieldsSafe` uses the invariant that a living thread's pipeline is marked running and
names that thread: `start` then gives a thread only to a pipeline that has none, and the `finally`
of `run` clears fields nobody else uses. With slow starts it does not hold (section 5). `EntrySafe`
uses that `_start_job_internal` looks at the registry again under the lock. `NoneOrphaned` needs
`OrphanInv`: the monitor never finds a failed pipeline (`CalmInv`), one actor at a time changes the
registry (`TurnInv`), and who stops a job has the pipeline that is registered, waits for the only
thread it can have, and deletes the entry when that thread is gone (`StopInv`).

**Start-up.** `MInv` says per stage of the migration what has been written: settings without a
pipeline are stored only after a job and its output, and a start that finds version 1 begins
over. Several starts may leave several jobs (section 5), never none: `CountInv` has at most one
more than there were stops. For the mappings, `ListInv`: one process works on them at a time and
the manifest is the set of mappings but for that one; `SyncInv`: per file and per mapping, whether
the sync has been there.

**Database output.** Steps of a send are first reduced to two kinds (`SendSteps`): a move that
leaves the data alone, and the commit. Then: only documents of the batch are sent, the checkpoint
is behind the revision read, with synchronous commits `db` and `disk` agree, and a send that is ok
left the database reflecting its revision. `RowsAlwaysWhole` needs only that a commit with
`delete_insert` replaces all child rows. The types need `SendInv`: the lock of the pool is held by
the one send that renews it, and a send that tries again has an attempt left.

**Dead letter queue.** The queue's calls are a read and a later write of the whole entry, so that
`QueueKeepsFailure` needs to know what may be written back. `CopyInv`: all copies of an entry, in
the store, in the hands of a replay or of a request, agree on the revision, and none has an id a
later failure can get. A late write is then a write of what is there, or of an entry whose failure
is no longer owed. That a replay settles the failure it purges needs that the pipeline that replays
and the one that failed have the same output.

**Cloud output.** `FlowInv` says where documents and lines can be in each state of a task (a
document of the batch has a checkpoint one revision behind). For lines, `NameInv` says that a name
stands for one upload, whether it is in flight or stored, so that `Put` overwrites only itself;
`LineInv` follows a line from the buffer to the store, or to `lost`, which only a crash and the
timer's two faults add to: hence `NoLineLost`. `GoneInv`: a deletion that was sent left no
object, now or when the checkpoint moves on. The types need `PlaceInv`: where a line may wait twice.

**Job store.** `TypeInv` adds to the types what a request has copied: each part it will save is of
the list or job it was read from (`RequestOK`). With one server, `CurrentInv` says more: what it
has read is what the store still holds, since nothing else writes between. The proof of
`RegistryKept` maps `PostList` to `ReplaceAll`, `SaveList` to `SetEntry`, the two writes of a source
to `SetSource`, `SaveNewJob` to `CreateJob`, `SaveJob` to `RenameJob`, `RefreshJob` or, for a
mapping, a stutter, `PurgeJob` to `DeleteJob`, and every other step to a stutter.

Two proof attempts corrected the model. "A line waits in one place" was part of `CloudTypeOK`, and
is false with three documents: a batch that is sent again adds a line that another task already
uploads. And the cases of `MapWrite` in `StartUp` overlapped, so that the value was any of two
where both applied; they now have an order.

### Only model-checked

Liveness, which is out of the prover's reach: `InitialSyncCompletes`, `EveryChangeHandled`,
`OutputConverges`, `CheckpointCatchesUp`, `StreamHandlesAll`, `StreamCheckpointCatchesUp`,
`CrashedJobRestarted`, `ReplayTerminates`, `SendsEnd`, `CloudSendsEnd`, `BufferDrains`, `ComesUp`.
Nor is there a proof that a `Job` without the conditions above fails: TLC has the counterexamples.

## 5. Divergences between code and documentation

Two are runs of `PROJECT.json`:

* **A job's mapping is never stored** (`mapping_not_stored`). `CBLStore.save_job`
  (storage/cbl_store.py:2161-2176) copies the fields it knows, and `mapping` is not one of them;
  `PUT` of a mapping answers "Mapping updated" (rest/api_v2.py:516-530, docstring at 493, test at
  tests/test_api_v2_jobs.py:457) and the mapping is gone.
* **A migrated job with a mapping keeps the worker from starting** (`start_loops`).
  `migrate_mappings_to_jobs` calls `store.update_job` (storage/cbl_store.py:3431), which does not
  exist; `main()` calls it outside any try (main.py:3168), so every start ends with AttributeError.

Two more lose data or work without a word, and have a configuration each:

* **The migrated checkpoint is not the one the feed reads** (V_StartCheckpoint).
  `migrate_v1_to_v2` saves `checkpoint::{job uuid}` with `last_seq` (storage/cbl_store.py:3002,
  2325-2337); `Checkpoint.load` reads `_local/checkpoint-{hash}` from the gateway or
  `checkpoint::{hash}` from the store, and `remote` or `SGs_Seq` in it (main.py:2209-2304, 2410-2420).
  The job begins at 0, where RELEASE_NOTES.md:132 says the migration "preserves the checkpoint";
  docs/DESIGN_2_0.md:1334 has the change to `Checkpoint` as an open task.
* **A replay sends other jobs' failures to its own output** (V_DlqOtherOutput). The start of a
  pipeline replays the entries of all jobs, at most with a warning where the target differs, and purges
  what its output accepts (rest/changes_http.py:2231, 2266-2321): the output the change failed at
  never gets it. docs/DLQ.md:3 says "nothing is silently lost", docs/MULTI_PIPELINE_PLAN.md:178 that
  one can "view, retry, or purge one job's dead letter queue without touching another's". The `job_id`
  that docs/DESIGN_2_0.md:123 says entries carry is not among their fields (storage/cbl_store.py:1245-1257).

The others are shown by a configuration, or by the property and constants named: put them in a copy
of a configuration of the same module. A cfg in *italics* is such a change. Paths without a
directory are in `rest/`, `cloud/`, `db/`, `storage/`, `pipeline/` or `docs/`; `main.py` and
`README.md` are the repository's.

### Polled feed and batch (MCPolledFeed)

| cfg, property | what the code does | what the documentation says |
|---|---|---|
| V_ClientError, `EveryChangeHandled` | a 4xx from the output stops the feed for good: `send` catches the error classes of its own module, `RetryableHTTP` raises others (output_http.py:435); the pipeline crashes, is restarted and meets the same document | skipped and queued, DESIGN.md:379 |
| V_Fetch, `CheckpointDelivered` | a body whose GETs all fail counts as a deleted document and the cursor passes it (changes_http.py:391) | DESIGN.md:274, 353 |
| *V_Fetch with Faults {"stop"}* | the same when `stop_event` is set during the GET: `except Exception` takes ShutdownRequested for a failed fetch | DLQ.md:485 |
| *V_Fetch with FirstSyncJob, no faults* | the initial sync asks for `include_docs=false` (main.py:2865) but `_resolve_doc` believes the job's setting and sends the row in place of the body | CHANGES_PROCESSING.md:194 |
| V_InitialDelete, `DeletesReachOutput` | a deletion between the first and the last request of the initial sync is filtered by `active_only` and passed by the cursor | CHANGES_PROCESSING.md:105 |
| *CouchJob, no faults*, `InitialSyncCompletes` | a batch whose rows were all filtered out leaves no task, and `asyncio.wait` of nothing raises (changes_http.py:1343) | CHANGES_PROCESSING.md:209 |
| *SequentialQueueJob, {"send"}*, `QueueKeepsChange` | sequential mode queues a failed document without its body | DLQ.md:3, 100 |
| *DatabaseQueueJob, {"send"}*, `QueueKeepsChange` | the failure results of databases have no method, so a deletion is queued as PUT | DLQ.md:92 |
| V_Replay, `NoStaleOverwrite` | the replay at start sends an old revision over a newer one | DLQ.md:3 |
| *SafestJob, {"send"}*, `NoDuplicates` | the "safest" settings deliver twice after a failure inside a sub-batch | DESIGN.md:665 |
| *UseCbl, {"save"}*, `WorkerSurvives` | a failed save ends the worker when the store is Couchbase Lite | DESIGN.md:356 |
| *SequentialJob, {"save", "crash"}, 3 failures*, `ResumesFurthest` | `load` prefers an older document on Sync Gateway to a newer fallback | README.md:60, DESIGN.md:356 |
| V_StaleRev, `CheckpointCatchesUp` | after one lost reply every later save is a 409 until a restart | CHANGES_PROCESSING.md:314 |

### Streams (MCStreamFeed)

| cfg, property | what the code does | what the documentation says |
|---|---|---|
| V_StreamReconnect, `ReconnectsFromCursor` | after a read error the continuous stream reconnects with the `since` of its first request, without a catch-up (changes_http.py:1886-1896) | DESIGN.md:345, FEATURES.md:414 |
| *the same with* `CheckpointMonotone` | so rows come again, and the cursor and the stored checkpoint move back | |
| V_LastMessage, `CheckpointCovered` | the batch drained together with the closing message may fail; its result is discarded and the cursor moves on: the change is lost (changes_http.py:2132) | |
| *ParallelStreamJob, no faults*, `OutputConverges` | two revisions of a document in one buffer are sent in parallel, and the older may arrive last | |
| *StrideStreamJob, websocket, no faults*, `CheckpointCatchesUp` | rows after the last full stride of a sequential flush have no final save | comment at changes_http.py:1473 |

### Dead letter queue (MCDeadLetter)

| cfg, property | what the code does | what the documentation says |
|---|---|---|
| V_DlqOtherOutput, `QueueKeepsFailure` | each pipeline replays the entries of all jobs, to its own output (above) | DLQ.md:3, MULTI_PIPELINE_PLAN.md:178, DESIGN_2_0.md:123 |
| *OwnSecond FALSE*, `QueueKeepsFailure` | a second failure within a second replaces the entry, and its deletion by the replay of the first loses it (cbl_store.py:1228) | |
| *the run's constants*, `CountsKept` | an entry written back late, by a retry request or another pipeline's replay, undoes a count made meanwhile | DLQ.md:242 |
| V_DlqDeleted, `StaysDeleted` | an entry deleted through the UI comes back when a replay or a retry request that read it before writes it | DLQ.md, around 271 |
| *the same*, `ReplayLetsStart` | an expired entry that a request or another pipeline deletes first makes the purge raise; nothing catches it and the pipeline ends (it also awaits the whole replay before the feed) | DLQ.md:226, 433 |

Also: the file queue is never replayed (DLQ.md:603 says otherwise); the API's retry only marks
an entry as retried.

### Database output (MCDbOutput)

| cfg, property | what the code does | what the documentation says |
|---|---|---|
| V_DbAsync, `CheckpointStored` | with `synchronous_commit: off` a crash of the server loses what the checkpoint covers | RDBMS_IMPLEMENTATION.md:407, DESIGN_2_0.md:1431 |
| V_DbMerge, `NoRowTwice` | without `delete_insert`, a change applied again doubles its child rows | SCHEMA_MAPPING.md:177, 300-301 |
| *FirstMapped {a}*, `CheckpointStored` | a tombstone has no fields to match, so it goes by the first mapping and leaves rows of any other | comment at db_base.py:759-763 |
| *SkipErrors TRUE*, `CheckpointStored` | a row the database refuses is neither stored nor queued (db_base.py:962, changes_http.py:1352): what the setting says | |
| V_DbStorm, `RetriesAreForFailures` | a send that lost its connection closes the pool others use or made anew, so one loss can use up the retries of all | |

A document without a mapper goes to the queue even where the settings say halt, mappings of the
store ignore `active`, and errors of a mapping have no `data_error_action`.

### Cloud output (MCCloudOutput)

| cfg, property | what the code does | what the documentation says |
|---|---|---|
| V_CloudTimer, `NoneLost` | the timer's flush cancels its own task: lines acknowledged long ago are dropped with its upload, or the thread that has it fails and nobody tries again or logs it (cloud_base.py:528-574, cloud_s3.py:153-187) | |
| *UniqueSecond FALSE*, *Faults {"crash"}*, `NoneLost` | two uploads of a second with as many lines have one name, and the later replaces the earlier; a crash loses the buffer behind the checkpoint | |
| V_CloudHalt, `HoldsCheckpoint` | a permanent error does not hold the checkpoint, though `halt_on_failure` is on | CLOUD_BLOB_PLAN.md:358, 360 |
| *Buffered, {"transient"}*, `HoldsCheckpoint` | nor does a failed flush | |
| *SkipErrors TRUE*, `CheckpointInStore` | an object the store refuses is neither stored nor queued (cloud_base.py:780): what the setting says | |
| *KeyByRev TRUE*, `DeletedGone` | with the revision in the key, a deletion deletes a key that never was | CLOUD_BLOB_PLAN.md:401-409 |

A line sent again before a flush is one line of the model's `buffer`.

### Start-up and job store (MCStartUp, MCJobStore)

| cfg, property | what the code does | what the documentation says |
|---|---|---|
| V_StartCheckpoint, `CheckpointPreserved` | the migrated checkpoint is not the one the feed reads (above) | RELEASE_NOTES.md:132 |
| *Stdout TRUE*, `PipelineKept` | the output of a pipeline to stdout is not migrated, and the settings lose it: the job has none (cbl_store.py:2898-2900) | |
| *CkptFile "bad"*, `ComesUp` | the migration passes over a checkpoint.json it cannot parse (cbl_store.py:2934), the sync parses it again outside any try (cbl_store.py:3318) and ends every start | |
| *MapCrash TRUE*, `MappingsFollowDisk` | a crash between a mapping and its manifest hides the mapping: it stays unlisted (cbl_store.py:942) | |
| *the run's constants*, `OneJob` | a migration interrupted after the job makes another job at the next start, for the same feed | "one-time operation", comment at cbl_store.py:3238 |
| *the run's constants*, `OldDocsMoved` | `load_config` stores a configuration in the collections before the move looks for one there, so the move is always skipped | docstring at cbl_store.py:3132 |
| *Overlap TRUE*, `PipelineKept` | settings saved through the UI during the migration are those it read: the pipeline is lost | |
| V_JobLost, `KeepsRegistry` | the UI and the worker's API have each a server on one store: the later write undoes the earlier | |
| *one fault*, `CheckpointPerJob` | a refused write leaves a job without its checkpoint, or the checkpoint of a deleted job | |

The migration also drops the settings' `schema_mapping`; the UI's restart does not reload the
configuration, which the comment at web/server.py:341 says it does.

### Manager (PipelineManager)

| cfg, property | what the code does | what the documentation says |
|---|---|---|
| V_StopOrphans, `NoOrphan` | between `Pipeline.stop`, which finds nothing to stop, and the deletion of the entry, the monitor restarts the crashed pipeline: the request answers "stopped" and the thread runs on, out of reach of any request | pipeline_manager.py:246 |
| *Limit 1, MaxThreads 4*, `LimitRespected` | `max_threads` is not checked when a pipeline is started again | pipeline_manager.py:9, DESIGN_2_0.md:1404 |

Races the model also has, without a configuration of their own: with a slow start
(`MaxSlow = 1`) two starts of a known pipeline make two threads (`ThreadFields` fails); a stop
before the thread has made its event loop signals nobody, times out, and leaves the pipeline
running even under `go_offline`; the monitor looks at `_offline` once per round and may restart a
job after the manager went offline (the comment at pipeline/pipeline_manager.py:480 says it does
not); two stops of one job end in a KeyError for the second; two concurrent restarts, or a request
while `start()` is still starting jobs, can delete each other's new entry. Outside the model, the
`/_shutdown` handler sets an event no pipeline reads (main.py:1318).

## 6. What is not modelled

* Attachments: download, upload and postprocessing of one document's attachments between fetch and
  send; off by default. Planned, section 7.
* The id of an entry: a PUT merges its body over a list's entry, and may so give it another id
  (api_v2.py:121, 254); `SaveList` keeps the id.
* Clocks: delays, backoff and retention are nondeterministic choices. So the claim "exponential
  backoff" of the manager (pipeline/pipeline_manager.py:10) is not a property here; the code resets
  the delay at every restart, since `start_job` returns True before the pipeline has run. The two
  seconds a configuration is cached for are left out too.
* Document contents: a body is right, a stub or absent. The transforms of a mapping, validation
  and eventing are pure functions of one document whose errors appear as data errors.
* The number of attempts inside `RetryableHTTP`: its callers see that a request succeeded, failed
  for good or was broken off.
* The health check, heartbeat, dry run and statistics of the HTTP output; metrics; backpressure,
  which only delays the loop; the queue's metadata document (times of its last insert and drain).
* A torn write of the fallback file; documents of the checkpoint in older formats; several workers
  on one checkpoint.
* Users, sessions, audit log, metrics history and maintenance of the store; requests that only
  read; pages, log views, log collection, the wizard, the load generator: no state a property is
  about.

## 7. Plan

Most important first.

1. `DeadLetter`, `DbOutput` and `CloudOutput` composed with `ChangesBatch`, whose small models of
   them they would implement: a refinement per output, with a proof.
2. `ThreadFields` and `NoOrphan` under weaker assumptions than one operator without crashes: which
   of the races of section 5 each of the assumptions keeps out.
3. `CheckpointDelivered` for the streams, and for the databases once their failure results carry a
   method.
4. `Attachments`, with partial failure between fetch and send.
5. Shutdown of the whole process: API, manager, pipelines.

## 8. Running it

```
tlc -workers 2 -config PolledQueue.cfg MCPolledFeed.tla
tlc -workers 2 -config ManagerRaces.cfg PipelineManager.tla
tlc -workers 2 -config V_DbMerge.cfg MCDbOutput.tla
for m in WorkerProofs FeedProofs PipelineManagerProofs StartUpProofs DbOutputProofs \
         DeadLetterProofs CloudOutputProofs JobStoreProofs; do tlapm $m.tla; done
```

| configurations | module |
|---|---|
| `Polled*`, `V_ClientError`, `V_Fetch`, `V_InitialDelete`, `V_Replay`, `V_StaleRev` | MCPolledFeed |
| `StreamFeed`, `V_StreamReconnect`, `V_LastMessage` | MCStreamFeed |
| `Manager*`, `V_StopOrphans` | PipelineManager |
| `DeadLetter`, `V_Dlq*` | MCDeadLetter |
| `DbOutput`, `V_Db*` | MCDbOutput |
| `CloudOutput`, `V_Cloud*` | MCCloudOutput |
| `StartUp`, `V_Start*` | MCStartUp |
| `JobStore`, `V_Job*` | MCJobStore |

A `V_` configuration ends with the counterexample of section 5. A passing run takes a few minutes
at most.
