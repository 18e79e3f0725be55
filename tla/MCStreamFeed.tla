---------------------------- MODULE MCStreamFeed ----------------------------
(***************************************************************************)
(* Instances of StreamFeed for TLC: the jobs the runs check.               *)
(***************************************************************************)
EXTENDS StreamFeed

\* Sequential with sub-batches of two, bodies fetched row by row.
StreamJob ==
  [ sequential |-> TRUE, everyN |-> 2, stride |-> 2, maxConcurrent |-> 2,
    includeDocs |-> FALSE, ignore |-> {"removed"}, couchdb |-> FALSE,
    kinds |-> {"live", "deleted"}, output |-> "http", halt |-> TRUE,
    dataErrorAction |-> "dlq", dlq |-> FALSE, dlqInflight |-> FALSE,
    limit |-> 2, optimize |-> FALSE, established |-> TRUE ]

\* The defaults of the code, the first sync still to do.
ParallelStreamJob == [StreamJob EXCEPT !.sequential = FALSE, !.everyN = 0, !.established = FALSE]

\* The jobs of the configurations that refute a document.
StrideStreamJob == [StreamJob EXCEPT !.everyN = 0]
=============================================================================
