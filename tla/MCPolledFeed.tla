---------------------------- MODULE MCPolledFeed ----------------------------
(***************************************************************************)
(* Instances of PolledFeed for TLC: the jobs the runs check.               *)
(***************************************************************************)
EXTENDS PolledFeed

\* A job with the defaults of the code: include_docs off, halt_on_failure on.
BaseJob ==
  [ sequential |-> TRUE, everyN |-> 0, stride |-> 2, maxConcurrent |-> 2,
    includeDocs |-> TRUE, ignore |-> {}, couchdb |-> FALSE,
    kinds |-> {"live", "deleted"}, output |-> "http", halt |-> TRUE,
    dataErrorAction |-> "dlq", dlq |-> FALSE, dlqInflight |-> FALSE,
    limit |-> 0, optimize |-> FALSE, established |-> TRUE ]

SequentialJob == BaseJob

\* A database output, sub-batches of two, channel removals, a limit on a poll;
\* a row the database refuses is skipped.
SubBatchJob ==
  [BaseJob EXCEPT !.everyN = 2, !.kinds = Kinds, !.ignore = {"removed"}, !.limit = 3,
                  !.output = "db", !.dataErrorAction = "skip"]

\* The defaults of the code: parallel, bodies fetched, initial sync still to do.
ParallelJob ==
  [BaseJob EXCEPT !.sequential = FALSE, !.includeDocs = FALSE, !.established = FALSE]

\* Parallel with a dead letter queue: failures do not stop the worker.
QueueJob ==
  [BaseJob EXCEPT !.sequential = FALSE, !.halt = FALSE, !.dlq = TRUE, !.dlqInflight = TRUE,
                  !.kinds = Kinds, !.ignore = {"deleted"}]

\* A chunked initial sync with a target.
InitialSyncJob ==
  [BaseJob EXCEPT !.includeDocs = FALSE, !.established = FALSE, !.optimize = TRUE, !.limit = 2]

\* The jobs of the runs that refute a document.
SequentialFetchJob == [BaseJob EXCEPT !.includeDocs = FALSE]
FirstSyncJob == [BaseJob EXCEPT !.established = FALSE]
SequentialQueueJob == [BaseJob EXCEPT !.halt = FALSE, !.dlq = TRUE]
DatabaseQueueJob == [QueueJob EXCEPT !.output = "db"]
CouchJob == [ParallelJob EXCEPT !.couchdb = TRUE]
FirstSyncFetchJob == [FirstSyncJob EXCEPT !.includeDocs = FALSE]
SafestJob == [BaseJob EXCEPT !.everyN = 2]
=============================================================================
