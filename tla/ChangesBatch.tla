---------------------------- MODULE ChangesBatch ----------------------------
(***************************************************************************)
(* _process_changes_batch of rest/changes_http.py and what it works on: the*)
(* source's feed, the output, the dead letter queue and the checkpoint.    *)
(* The feed drivers (PolledFeed) extend this module.                       *)
(*                                                                         *)
(* The source is a log of mutations; the sequence number of a mutation is  *)
(* its index, and stands for the revision it made.  _changes lists a       *)
(* document once, at its latest mutation, so a batch is a set of numbers   *)
(* and its order is their order.                                           *)
(*                                                                         *)
(* fate is a history variable: the actions never read it.                   *)
(***************************************************************************)
EXTENDS Checkpoint, Sequences, FiniteSets

CONSTANTS
  Docs,             \* document ids
  MaxLog,           \* bound: length of the source's log
  Job,              \* the settings of the job (see JobSettings)
  PoisonDocs,       \* documents the output refuses with a data error
  ClientErrorDocs   \* documents an HTTP output answers with a 4xx

\* "deleted" and "removed" rows carry that flag; "live" rows carry neither.
Kinds == {"live", "deleted", "removed"}

JobSettings ==
  [ sequential : BOOLEAN,         \* processing.sequential
    everyN : Nat,                 \* checkpoint.every_n_docs
    stride : Nat \ {0},           \* seq_ckpt_stride (100 in the code)
    maxConcurrent : Nat \ {0},    \* processing.max_concurrent
    includeDocs : BOOLEAN,        \* changes_feed.include_docs
    ignore : SUBSET (Kinds \ {"live"}),  \* ignore_delete, ignore_remove
    couchdb : BOOLEAN,            \* src == "couchdb"
    kinds : SUBSET Kinds,         \* the mutations this instance makes
    output : {"http", "db"},
    halt : BOOLEAN,               \* output.halt_on_failure
    dataErrorAction : {"dlq", "skip"},
    dlq : BOOLEAN,                \* dlq.enabled
    dlqInflight : BOOLEAN,        \* shutdown.dlq_inflight_on_shutdown
    limit : Nat,                  \* limit on a poll, 0 for none
    optimize : BOOLEAN,           \* changes_feed.optimize_initial_sync
    established : BOOLEAN ]       \* the initial sync was done before Init

ASSUME JobAssumption ==
  /\ Job \in JobSettings
  /\ MaxLog \in Nat
  /\ PoisonDocs \subseteq Docs
  /\ ClientErrorDocs \subseteq Docs

VARIABLES
  log,       \* the source: log[s] is mutation s
  out,       \* out[d]: what the output holds for document d
  dlq,       \* entries of the dead letter queue
  fate,      \* history: fate[s] is what happened to mutation s
  pc,        \* where the worker is
  since,     \* the cursor in memory
  initSync,  \* initial_sync
  rows,      \* filtered: the rows of the batch
  last,      \* last_seq of the batch
  got,       \* the response had rows
  res,       \* res[s]: state of row s
  have,      \* docs_by_id: rows whose body was prefetched
  unsaved    \* seq_since_pending

batchVars == <<rows, last, got, res, have, unsaved>>
sinkVars == <<out, dlq, fate>>

Seqs == 1..MaxLog
Fates == {"delivered",  \* the output took the right body with the right method
          "ignored",    \* ignore_delete, ignore_remove
          "unsynced",   \* a deletion the initial sync does not ask for
          "dropped",    \* failed, and not put in the dead letter queue
          "unfetched",  \* its body could not be fetched
          "stub",       \* sent or queued without its body or method
          "expired"}    \* aged out of the dead letter queue

\* States of a row.  "new": not in the batch; "held": its document is resolved
\* and a send is in flight; "settled": accounted for (sequential mode); the
\* others are what send() came to.
RowStates == {"new", "todo", "held", "ok", "bad", "skip", "down", "shut", "err",
              "settled"}

Doc(s) == log[s].doc
Live(s) == log[s].kind = "live"
Current(s) == \A t \in (s + 1)..Len(log) : Doc(t) # Doc(s)
Method(s) == IF Live(s) THEN "PUT" ELSE "DELETE"
Rows == [s \in Seqs |-> "new"]

DlqEntries == [seq : Seqs, full : BOOLEAN, method : {"PUT", "DELETE"}]
OutValues == [seq : 0..MaxLog, as : {"absent", "body", "stub"}]

TypeOK ==
  /\ CheckpointTypeOK
  /\ log \in Seq([doc : Docs, kind : Kinds]) /\ Len(log) <= MaxLog
  /\ out \in [Docs -> OutValues]
  /\ dlq \subseteq DlqEntries
  /\ fate \in [Seqs -> SUBSET Fates]
  /\ pc \in {"down", "ended", "boot", "replay", "poll", "empty", "fetch", "work",
             "after", "failed"}
  /\ since \in Nat /\ last \in Nat /\ unsaved \in Nat
  /\ initSync \in BOOLEAN /\ got \in BOOLEAN
  /\ rows \subseteq Seqs /\ have \subseteq Seqs
  /\ res \in [Seqs -> RowStates]

BatchInit ==
  /\ CheckpointInit(Job.established)
  /\ log = << >>
  /\ out = [d \in Docs |-> [seq |-> 0, as |-> "absent"]]
  /\ dlq = {}
  /\ fate = [s \in Seqs |-> {}]
  /\ pc = "down" /\ since = 0 /\ initSync = FALSE
  /\ rows = {} /\ last = 0 /\ got = FALSE
  /\ res = Rows /\ have = {} /\ unsaved = 0

\* The batch's locals go out of scope.
ForgetBatch ==
  /\ rows' = {} /\ last' = 0 /\ got' = FALSE
  /\ res' = Rows /\ have' = {} /\ unsaved' = 0

\* The coroutine ends, and all its memory goes with it: "down" by an exception
\* nobody catches, "ended" by returning.
End(how) ==
  /\ pc' = how /\ since' = 0 /\ initSync' = FALSE
  /\ ck' = NewCheckpoint
  /\ ForgetBatch
Die == End("down")

-----------------------------------------------------------------------------
(* What is known of a row's document, and what the output makes of it. *)

Mark(f, S, why) == [s \in Seqs |-> IF s \in S THEN f[s] \cup {why} ELSE f[s]]

\* _resolve_doc: a fetch is needed unless the feed was told to carry bodies.
NeedsFetch(s) == ~Job.includeDocs /\ Live(s)

\* The initial sync asks for include_docs=false whatever the job says, but
\* _resolve_doc still believes the job: the "body" is then the row itself.
HasBody(s) == ~Live(s) \/ ~Job.includeDocs \/ ~initSync

\* docs_by_id has one body per document: when a batch has two rows of one (a
\* stream can), both get the body of the later one that came.
Prefetched(s) == \E t \in have : Doc(t) = Doc(s)
Bodies(s) ==
  IF NeedsFetch(s) /\ Prefetched(s)
  THEN {t \in have : Doc(t) = Doc(s) /\ \A u \in have : Doc(u) = Doc(s) => u <= t}
  ELSE {s}

\* Slip: a document the output has already is not written again.
WrittenOnce(s, full, method) ==
  IF method = "DELETE" THEN [seq |-> s, as |-> "absent"]
  ELSE IF out[Doc(s)].as = "absent" THEN [seq |-> s, as |-> "body"]
  ELSE out[Doc(s)]

\* What a request with this much of mutation s leaves in the output.  A
\* database's mapping finds no row to write in a document without a body.
Written(s, full, method) ==
  IF method = "DELETE" THEN [seq |-> s, as |-> "absent"]
  ELSE IF full THEN [seq |-> s, as |-> "body"]
  ELSE IF Job.output = "http" THEN [seq |-> s, as |-> "stub"]
  ELSE out[Doc(s)]

\* Whether the request is the one mutation s calls for.
Faithful(s, full, method) == full /\ method = Method(s)
Fate(s, full, method) == IF Faithful(s, full, method) THEN "delivered" ELSE "stub"

\* OutputForwarder and the database forwarders, on document d: the results of
\* send() and whether the output applied the request.  "down" is
\* OutputEndpointDown, "shut" ShutdownRequested, "err" an exception that
\* neither send() nor the batch catches: send() catches the error classes of
\* its own module, and RetryableHTTP raises those of changes_http.
\* A mapping error has no data_error_action; a serialization error neither.
Interrupted == stopping /\ Job.output = "http"
DataErrors ==
  {"bad"} \cup IF Job.output = "db" /\ Job.dataErrorAction = "skip"
              THEN {"skip"} ELSE {}

\* A timeout, no connection, or the last of the retries.
Undelivered == IF Job.halt THEN "down" ELSE "bad"

Send(d, r, applied) ==
  \/ /\ d \in PoisonDocs
     /\ r \in DataErrors /\ ~applied /\ NoFault
  \/ /\ d \notin PoisonDocs /\ Interrupted
     /\ r = "shut" /\ ~applied /\ NoFault
  \/ /\ d \in ClientErrorDocs \ PoisonDocs /\ ~Interrupted
     /\ Job.output = "http"
     /\ r = "err" /\ ~applied /\ NoFault
  \/ /\ d \notin PoisonDocs /\ ~Interrupted
     /\ d \notin ClientErrorDocs \/ Job.output = "db"
     /\ \/ r = "ok" /\ applied /\ NoFault
        \/ /\ r = Undelivered
           /\ IF applied THEN Fault("sendReply") ELSE Fault("send")

-----------------------------------------------------------------------------
(* The dead letter queue. *)

\* Slip: the body is never kept in the result.
EntryWithoutBody(s) ==
  [seq |-> s, full |-> ~Live(s), method |-> Method(s)]

\* The entry for a row whose send failed.  result["_doc"] is set in parallel
\* mode only; without it the entry holds just the id.  The result of a
\* database has no "method", and the queue then assumes PUT.
FailedEntry(s) ==
  [ seq |-> s,
    full |-> ~Live(s) \/ (~Job.sequential /\ HasBody(s)),
    method |-> IF Job.output = "db" THEN "PUT" ELSE Method(s) ]

\* The entry for a row caught by a shutdown: the body if it is at hand.
InflightEntry(s) ==
  [ seq |-> s,
    full |-> ~Live(s) \/ (IF Job.includeDocs THEN HasBody(s) ELSE Prefetched(s)),
    method |-> Method(s) ]

FaithfulEntry(e) == Faithful(e.seq, e.full, e.method)

\* f after the entries E are written, or not for want of a queue.
Queued(f, E) ==
  IF ~Job.dlq THEN Mark(f, {e.seq : e \in E}, "dropped")
  ELSE Mark(f, {e.seq : e \in {x \in E : ~FaithfulEntry(x)}}, "stub")
Enqueue(E) == dlq' = IF Job.dlq THEN dlq \cup E ELSE dlq

\* Only a shutdown with dlq_inflight_on_shutdown queues the rows left over.
Leftover(r, S) ==
  IF r = "shut" /\ Job.dlqInflight /\ Job.dlq
  THEN {InflightEntry(s) : s \in S} ELSE {}

-----------------------------------------------------------------------------
(* The batch, from the response on. *)

Rank(s) == Cardinality({t \in rows : t <= s})

\* The rows of a response that are filtered out.  CouchDB has no active_only:
\* during the initial sync its deletions are filtered here.
Ignored(R) == {s \in R : log[s].kind \in Job.ignore}
ForceSkipped(R) == {s \in R : initSync /\ Job.couchdb /\ ~Live(s)}

\* A response with rows R, last_seq n, of a request that did not ask for the
\* rows H.  No await until a document is fetched or sent.
Receive(R, H, n) ==
  /\ got' = (R # {})
  /\ last' = n
  /\ rows' = R \ (Ignored(R) \cup ForceSkipped(R))
  /\ res' = [s \in Seqs |-> IF s \in rows' THEN "todo" ELSE "new"]
  /\ have' = {} /\ unsaved' = 0
  /\ fate' = Mark(Mark(fate, Ignored(R), "ignored"),
                  H \cup (ForceSkipped(R) \ Ignored(R)), "unsynced")
  /\ pc' = IF R = {} THEN "empty"
           ELSE IF ~Job.sequential /\ \E s \in rows' : NeedsFetch(s)
           THEN "fetch" ELSE "work"
  /\ UNCHANGED <<log, out, dlq, since, initSync, ckptVars, worldVars>>

\* Slip: an empty batch never saves the cursor.
EmptyBatchUnsaved ==
  /\ pc = "empty"
  /\ since' = last /\ pc' = "after"
  /\ UNCHANGED <<log, sinkVars, initSync, batchVars, ckptVars, worldVars>>

\* No rows: the checkpoint moves only if last_seq did.
EmptyBatch ==
  /\ pc = "empty"
  /\ \/ /\ last = ck.seq
        /\ since' = last /\ pc' = "after"
        /\ UNCHANGED <<ckptVars, worldVars, initSync, batchVars>>
     \/ /\ last # ck.seq
        /\ Save(last, ck.done)
        /\ since' = last /\ pc' = "after"
        /\ UNCHANGED <<initSync, batchVars>>
     \/ /\ last # ck.seq
        /\ SaveRaises(last, ck.done)
        /\ Die
  /\ UNCHANGED <<log, sinkVars>>

\* fetch_docs: one _bulk_get (or GETs) for the bodies.  Rows may come back
\* without one: a superseded revision may be gone, and a row whose own GETs
\* all failed is left out in silence.
FetchDocs ==
  /\ pc = "fetch" /\ ~stopping
  /\ \E missing \in SUBSET {s \in rows : NeedsFetch(s)} :
       /\ have' = {s \in rows : NeedsFetch(s)} \ missing
       /\ IF \A s \in missing : ~Current(s) THEN NoFault ELSE Fault("fetch")
  /\ pc' = "work"
  /\ UNCHANGED <<log, sinkVars, since, initSync, rows, last, got, res, unsaved,
                 ckptVars, stopping>>

\* The same once stop_event is set: _bulk_get raises ShutdownRequested, which
\* nothing catches; a GET for a single document swallows it and has no body.
FetchDocsStopped ==
  /\ pc = "fetch" /\ stopping
  /\ \/ Die
     \/ /\ pc' = "work"
        /\ UNCHANGED <<since, initSync, batchVars, ck>>
  /\ UNCHANGED <<log, sinkVars, sg, fb, worldVars>>

-----------------------------------------------------------------------------
(* process_one: one row.  Sequential mode finishes a row before the next;    *)
(* parallel mode runs a task per row, maxConcurrent inside the semaphore.    *)

Unsettled == {s \in rows : res[s] # "settled"}

Turn(s) ==
  /\ pc = "work" /\ s \in rows
  /\ IF Job.sequential THEN \A t \in Unsettled : s <= t
     ELSE Cardinality({t \in rows : res[t] = "held"}) < Job.maxConcurrent

RowMoves(s, state) ==
  /\ res' = [res EXCEPT ![s] = state]
  /\ UNCHANGED <<log, pc, since, initSync, rows, last, got, have, unsaved,
                 ckptVars, stopping>>

\* _resolve_doc: the document needs no request, or was prefetched, or a GET
\* brings it (sequential mode, or a body the prefetch missed).
TakeDoc(s) ==
  /\ Turn(s) /\ res[s] = "todo"
  /\ ~NeedsFetch(s) \/ Prefetched(s) \/ ~stopping
  /\ RowMoves(s, "held")
  /\ UNCHANGED <<sinkVars, faults>>

\* The fetch comes to nothing and the row counts as done.  The revision is
\* gone, or every GET failed, or stop_event is set: the handler's "except
\* Exception" takes ShutdownRequested for one more failed GET.
SkipRow(s) ==
  /\ Turn(s) /\ res[s] = "todo"
  /\ NeedsFetch(s) /\ ~Prefetched(s)
  /\ IF Current(s) /\ ~stopping THEN Fault("fetch") ELSE NoFault
  /\ fate' = IF Current(s) THEN Mark(fate, {s}, "unfetched") ELSE fate
  /\ RowMoves(s, "ok")
  /\ UNCHANGED <<out, dlq>>

\* output.send() and the result it comes to.
SendRow(s) ==
  /\ pc = "work" /\ s \in rows /\ res[s] = "held"
  /\ \E r \in RowStates, applied \in BOOLEAN, t \in Bodies(s) :
       /\ Send(Doc(s), r, applied)
       /\ IF applied
          THEN /\ out' = [out EXCEPT ![Doc(s)] = Written(t, HasBody(s), Method(s))]
               /\ fate' = Mark(fate, {s}, Fate(s, HasBody(s) /\ t >= s, Method(s)))
          ELSE UNCHANGED <<out, fate>>
       /\ RowMoves(s, r)
  /\ UNCHANGED dlq

-----------------------------------------------------------------------------
(* Sequential mode: a row is settled before the next one starts. *)

\* With every_n_docs the cursor moves, and is saved, at the end of a
\* sub-batch; without, it moves at every row and is saved every stride rows.
SubBatch(s) == IF Job.everyN = 0 THEN rows
               ELSE {t \in rows : (Rank(t) - 1) \div Job.everyN
                                    = (Rank(s) - 1) \div Job.everyN}
MovesCursor(s) == Job.everyN = 0 \/ \A t \in SubBatch(s) : t <= s
SavesCursor(s) == IF Job.everyN = 0 THEN unsaved + 1 >= Job.stride
                  ELSE MovesCursor(s)

SettleRow(s) ==
  /\ pc = "work" /\ Job.sequential
  /\ s \in rows /\ res[s] \in {"ok", "bad", "skip"}
  /\ CASE res[s] = "ok" -> UNCHANGED <<dlq, fate>>
       [] res[s] = "skip" -> fate' = Mark(fate, {s}, "dropped") /\ UNCHANGED dlq
       [] res[s] = "bad" -> /\ fate' = Queued(fate, {FailedEntry(s)})
                            /\ Enqueue({FailedEntry(s)})
  /\ UNCHANGED <<log, out>>
  /\ \/ /\ IF SavesCursor(s)
           THEN Save(s, ck.done) /\ unsaved' = 0
           ELSE unsaved' = unsaved + 1 /\ UNCHANGED <<ckptVars, worldVars>>
        /\ since' = IF MovesCursor(s) THEN s ELSE since
        /\ res' = [res EXCEPT ![s] = "settled"]
        /\ UNCHANGED <<pc, initSync, rows, last, got, have>>
     \/ SavesCursor(s) /\ SaveRaises(s, ck.done) /\ Die

\* Slip: the cursor moves as if the batch was done.
HaltRowMovesOn(s) ==
  /\ pc = "work" /\ Job.sequential
  /\ s \in rows /\ res[s] \in {"down", "shut"}
  /\ since' = last
  /\ pc' = "failed" /\ ForgetBatch
  /\ UNCHANGED <<log, sinkVars, initSync, ckptVars, worldVars>>

\* OutputEndpointDown or ShutdownRequested: the batch returns, the cursor
\* stays.  On a shutdown the rows not settled may be queued (with
\* every_n_docs, those of this sub-batch).
HaltRow(s) ==
  /\ pc = "work" /\ Job.sequential
  /\ s \in rows /\ res[s] \in {"down", "shut"}
  /\ LET E == Leftover(res[s], SubBatch(s) \cap Unsettled)
     IN Enqueue(E) /\ fate' = Queued(fate, E)
  /\ pc' = "failed" /\ ForgetBatch
  /\ UNCHANGED <<log, out, since, initSync, ckptVars, worldVars>>

\* All rows settled: the cursor goes on to last_seq.
EndSequential ==
  /\ pc = "work" /\ Job.sequential /\ Unsettled = {}
  /\ \/ /\ last = since /\ pc' = "after"
        /\ UNCHANGED <<since, initSync, batchVars, ckptVars, worldVars>>
     \/ /\ last # since
        /\ Save(last, ck.done)
        /\ since' = last /\ pc' = "after"
        /\ UNCHANGED <<initSync, batchVars>>
     \/ last # since /\ SaveRaises(last, ck.done) /\ Die
  /\ UNCHANGED <<log, sinkVars>>

-----------------------------------------------------------------------------
(* Parallel mode: asyncio.wait() for all tasks, then their results in the    *)
(* order of a set, which is any order.                                       *)

AllDone == /\ pc = "work" /\ ~Job.sequential
           /\ \A s \in rows : res[s] \notin {"todo", "held"}
InState(S) == {s \in rows : res[s] \in S}
Raised == InState({"down", "shut", "err"})

\* Slip: the failed rows are not queued.
GatheredNone(D) == UNCHANGED <<dlq, fate>>

\* The failed rows D are written to the queue, or dropped.
Gathered(D) ==
  LET E == {FailedEntry(s) : s \in {t \in D : res[t] = "bad"}}
  IN /\ Enqueue(E)
     /\ fate' = Queued(Mark(fate, {s \in D : res[s] = "skip"}, "dropped"), E)

\* Slip: the exceptions of the tasks are not looked at.
EndParallelRegardless ==
  /\ AllDone /\ rows # {}
  /\ Gathered(InState({"bad", "skip"}))
  /\ Save(last, ck.done)
  /\ since' = last /\ pc' = "after"
  /\ UNCHANGED <<log, out, initSync, batchVars>>

\* No task raised: one checkpoint for the batch.
EndParallel ==
  /\ AllDone /\ rows # {} /\ Raised = {}
  /\ Gathered(InState({"bad", "skip"}))
  /\ \/ /\ Save(last, ck.done)
        /\ since' = last /\ pc' = "after"
        /\ UNCHANGED <<initSync, batchVars>>
     \/ SaveRaises(last, ck.done) /\ Die
  /\ UNCHANGED <<log, out>>

\* The first exception met ends the loop: the results not yet looked at are
\* not written to the queue.
HaltParallel ==
  /\ AllDone
  /\ \E s \in Raised \ InState({"err"}), D \in SUBSET InState({"bad", "skip"}) :
       LET E == Leftover(res[s], rows)
           B == {FailedEntry(t) : t \in {u \in D : res[u] = "bad"}}
       IN /\ Enqueue(B \cup E)
          /\ fate' = Queued(Mark(fate, {t \in D : res[t] = "skip"}, "dropped"),
                            B \cup E)
  /\ pc' = "failed" /\ ForgetBatch
  /\ UNCHANGED <<log, out, since, initSync, ckptVars, worldVars>>

\* An exception that is neither OutputEndpointDown nor ShutdownRequested: a
\* 4xx, or asyncio.wait() of no task at all when every row was filtered out.
RaiseFromBatch ==
  /\ \/ /\ AllDone /\ rows = {}
        /\ UNCHANGED <<dlq, fate>>
     \/ /\ AllDone /\ InState({"err"}) # {}
        /\ \E D \in SUBSET InState({"bad", "skip"}) : Gathered(D)
     \/ /\ pc = "work" /\ Job.sequential /\ InState({"err"}) # {}
        /\ UNCHANGED <<dlq, fate>>
  /\ Die
  /\ UNCHANGED <<log, out, sg, fb, worldVars>>

BatchStep ==
  \/ EmptyBatch \/ FetchDocs \/ FetchDocsStopped
  \/ EndSequential \/ EndParallel \/ HaltParallel \/ RaiseFromBatch
  \/ \E s \in Seqs : TakeDoc(s) \/ SkipRow(s) \/ SendRow(s) \/ SettleRow(s) \/ HaltRow(s)
=============================================================================
