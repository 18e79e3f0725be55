------------------------------ MODULE DbOutput ------------------------------
(***************************************************************************)
(* The relational outputs: BaseOutputForwarder.send and the pool of its    *)
(* engine, used by the documents of one parallel batch at once, and the    *)
(* checkpoint that follows the batch.                                      *)
(*                                                                         *)
(* A document is a row of a parent table and the rows of a child table     *)
(* (one array of the document); its change is one transaction.             *)
(***************************************************************************)
EXTENDS Naturals, FiniteSets

CONSTANTS
  Docs,           \* documents; each has one send() in a batch
  FirstMapped,    \* those whose mapping is the first of the list
  DeleteInsert,   \* replace_strategy of the child table is "delete_insert"
  SyncCommit,     \* sync_commit
  MaxRetries,     \* max_retries of the engine
  Halt,           \* halt_on_failure
  SkipErrors,     \* data_error_action is "skip": a row the database refuses is dropped
  Faults,         \* what may go wrong, of FaultKinds
  MaxFaults,      \* bound: faults
  MaxRev,         \* bound: revisions of a document
  NoTask          \* model value: nobody holds the pool lock

FaultKinds == {"connection", "reply", "connect", "deadlock", "data", "mapping", "crash"}

ASSUME DbAssumption ==
  /\ FirstMapped \subseteq Docs
  /\ {DeleteInsert, SyncCommit, Halt, SkipErrors} \subseteq BOOLEAN
  /\ MaxRetries \in Nat \ {0}
  /\ Faults \subseteq FaultKinds
  /\ MaxFaults \in Nat /\ MaxRev \in Nat \ {0}
  /\ NoTask \notin Docs

VARIABLES
  rev,      \* [Docs -> 0..MaxRev]: latest revision read from the feed
  gone,     \* [Docs -> SUBSET revisions]: those that are deletions
  batch,    \* documents of the batch in hand; kept when it has to be sent again
  pc,       \* [Docs -> where the document's send is]
  attempt,  \* [Docs -> attempts made]
  pool,     \* the engine has a pool
  lock,     \* who holds _pool_lock
  db,       \* [Docs -> what other sessions see]
  disk,     \* [Docs -> what survives a crash of the server]
  ckpt,     \* [Docs -> latest revision the checkpoint covers]
  dlq,      \* [Docs -> latest revision in the dead letter queue]
  hurt,     \* [Docs -> times the database failed this send]
  faults    \* faults so far

sendVars == <<pc, attempt, pool, lock, hurt>>
dbvars == <<rev, gone, batch, sendVars, db, disk, ckpt, dlq, faults>>

Revs == 1..MaxRev
SendStates == {"idle", "try", "busy", "reconnect", "closing", "connecting", "sleep",
               "ok", "failed", "refused", "down"}
Ended == {"ok", "failed", "refused", "down"}

\* The parent row's revision (0: no row) and how often the child rows of each
\* revision are there.
Rows == [row : 0..MaxRev, kids : [Revs -> 0..2]]
NoKids == [r \in Revs |-> 0]
NoRows == [row |-> 0, kids |-> NoKids]

DbTypeOK ==
  /\ rev \in [Docs -> 0..MaxRev] /\ gone \in [Docs -> SUBSET Revs]
  /\ batch \subseteq Docs
  /\ pc \in [Docs -> SendStates] /\ attempt \in [Docs -> 0..MaxRetries]
  /\ pool \in BOOLEAN /\ lock \in Docs \cup {NoTask}
  /\ db \in [Docs -> Rows] /\ disk \in [Docs -> Rows]
  /\ ckpt \in [Docs -> 0..MaxRev] /\ dlq \in [Docs -> 0..MaxRev]
  /\ hurt \in [Docs -> 0..MaxFaults] /\ faults \in 0..MaxFaults
  /\ lock # NoTask <=> \E d \in Docs : pc[d] \in {"closing", "connecting"}

\* connect() made the pool before the feed is polled.
Init ==
  /\ rev = [d \in Docs |-> 0] /\ gone = [d \in Docs |-> {}] /\ batch = {}
  /\ pc = [d \in Docs |-> "idle"] /\ attempt = [d \in Docs |-> 0]
  /\ pool = TRUE /\ lock = NoTask
  /\ db = [d \in Docs |-> NoRows] /\ disk = db
  /\ ckpt = [d \in Docs |-> 0] /\ dlq = [d \in Docs |-> 0]
  /\ hurt = [d \in Docs |-> 0] /\ faults = 0

Fault(kind) == kind \in Faults /\ faults < MaxFaults /\ faults' = faults + 1
FaultOf(kind, d) == Fault(kind) /\ hurt' = [hurt EXCEPT ![d] = @ + 1]

Goto(d, p) == pc' = [pc EXCEPT ![d] = p]

-----------------------------------------------------------------------------
(* The batch. *)

\* A poll brings new changes, each document once.
Poll ==
  /\ batch = {} /\ \A d \in Docs : pc[d] = "idle"
  /\ \E D \in SUBSET {d \in Docs : rev[d] < MaxRev} \ {{}} : \E X \in SUBSET D :
       /\ batch' = D
       /\ rev' = [d \in Docs |-> IF d \in D THEN rev[d] + 1 ELSE rev[d]]
       /\ gone' = [d \in Docs |-> IF d \in X THEN gone[d] \cup {rev[d] + 1} ELSE gone[d]]
  /\ UNCHANGED <<sendVars, db, disk, ckpt, dlq, faults>>

\* asyncio.create_task(process_one(c)) for each.
SendAll ==
  /\ batch # {} /\ \A d \in Docs : pc[d] = "idle"
  /\ pc' = [d \in Docs |-> IF d \in batch THEN "try" ELSE "idle"]
  /\ attempt' = [d \in Docs |-> 0] /\ hurt' = [d \in Docs |-> 0]
  /\ UNCHANGED <<rev, gone, batch, pool, lock, db, disk, ckpt, dlq, faults>>

\* The sends that did not succeed go to the dead letter queue, a row that was
\* refused only if it is not to be dropped.
Queued(d) == pc[d] = "failed" \/ (pc[d] = "refused" /\ ~SkipErrors)

\* Slip: a send that is down does not fail the batch.
BatchEndsRegardless ==
  /\ batch # {} /\ \A d \in batch : pc[d] \in Ended
  /\ pc' = [d \in Docs |-> "idle"]
  /\ batch' = {}
  /\ ckpt' = [d \in Docs |-> IF d \in batch THEN rev[d] ELSE ckpt[d]]
  /\ dlq' = [d \in Docs |-> IF d \in batch /\ Queued(d) THEN rev[d] ELSE dlq[d]]
  /\ UNCHANGED <<rev, gone, attempt, pool, lock, hurt, db, disk, faults>>

\* All have ended: one that is down fails the batch, and it is polled again;
\* else the queue is written and the checkpoint is saved.
BatchEnds ==
  /\ batch # {} /\ \A d \in batch : pc[d] \in Ended
  /\ pc' = [d \in Docs |-> "idle"]
  /\ IF \E d \in batch : pc[d] = "down" THEN UNCHANGED <<batch, ckpt, dlq>>
     ELSE /\ batch' = {}
          /\ ckpt' = [d \in Docs |-> IF d \in batch THEN rev[d] ELSE ckpt[d]]
          /\ dlq' = [d \in Docs |-> IF d \in batch /\ Queued(d) THEN rev[d] ELSE dlq[d]]
  /\ UNCHANGED <<rev, gone, attempt, pool, lock, hurt, db, disk, faults>>

-----------------------------------------------------------------------------
(* send(): map the document, then try. *)

IsDelete(d) == rev[d] \in gone[d]

\* Slip: the child rows of before stay.
AppliedOver(d) ==
  IF IsDelete(d) THEN NoRows
  ELSE [row |-> rev[d], kids |-> [db[d].kids EXCEPT ![rev[d]] = IF @ < 2 THEN @ + 1 ELSE @]]

\* The operations of the document's change on its rows.  A tombstone matches no
\* mapping, and the first that has operations for it is taken.
Applied(d) ==
  IF IsDelete(d)
  THEN IF d \in FirstMapped THEN NoRows ELSE db[d]
  ELSE [ row |-> rev[d],
         kids |-> LET old == IF DeleteInsert THEN NoKids ELSE db[d].kids
                  IN  [old EXCEPT ![rev[d]] = IF @ < 2 THEN @ + 1 ELSE @] ]

\* A mapper raises: an answer that is not ok, and nothing is tried.
MappingError(d) ==
  /\ pc[d] = "try" /\ attempt[d] = 0 /\ FaultOf("mapping", d)
  /\ Goto(d, "failed")
  /\ UNCHANGED <<rev, gone, batch, attempt, pool, lock, db, disk, ckpt, dlq>>

\* _execute_ops takes a connection and begins a transaction ...
Acquire(d) ==
  /\ pc[d] = "try" /\ pool
  /\ attempt' = [attempt EXCEPT ![d] = @ + 1]
  /\ Goto(d, "busy")
  /\ UNCHANGED <<rev, gone, batch, pool, lock, hurt, db, disk, ckpt, dlq, faults>>

\* ... or finds the pool gone, which counts as a connection error.
NoPool(d) ==
  /\ pc[d] = "try" /\ ~pool
  /\ attempt' = [attempt EXCEPT ![d] = @ + 1]
  /\ Goto(d, "reconnect")
  /\ UNCHANGED <<rev, gone, batch, pool, lock, hurt, db, disk, ckpt, dlq, faults>>

\* A commit that is not synchronous may reach the disk later than its answer,
\* but not before the commits ahead of it.
Commit(d) ==
  /\ db' = [db EXCEPT ![d] = Applied(d)]
  /\ disk' \in IF SyncCommit THEN {db'} ELSE {disk, db, db'}

Execute(d) ==
  /\ pc[d] = "busy"
  /\ \/ Commit(d) /\ Goto(d, "ok") /\ UNCHANGED <<hurt, faults>>
     \/ Commit(d) /\ FaultOf("reply", d) /\ Goto(d, "reconnect")
     \/ FaultOf("connection", d) /\ Goto(d, "reconnect") /\ UNCHANGED <<db, disk>>
     \/ FaultOf("data", d) /\ Goto(d, "refused") /\ UNCHANGED <<db, disk>>
  /\ UNCHANGED <<rev, gone, batch, attempt, pool, lock, ckpt, dlq>>

\* Where an attempt that failed for a passing reason leads: another, after a
\* pause, or the end of the retries.
Failed(d) ==
  IF attempt[d] < MaxRetries THEN "sleep" ELSE IF Halt THEN "down" ELSE "failed"

\* A deadlock or a timeout: the transaction is rolled back, the pool kept.
Deadlock(d) ==
  /\ pc[d] = "busy" /\ FaultOf("deadlock", d)
  /\ Goto(d, Failed(d))
  /\ UNCHANGED <<rev, gone, batch, attempt, pool, lock, db, disk, ckpt, dlq>>

\* _reconnect_pool, with the lock: the pool is taken away ...
LosePool(d) ==
  /\ pc[d] = "reconnect" /\ lock = NoTask
  /\ lock' = d /\ pool' = FALSE /\ Goto(d, "closing")
  /\ UNCHANGED <<rev, gone, batch, attempt, hurt, db, disk, ckpt, dlq, faults>>

\* Slip: the close also waits for those that wait for the lock it holds.
ClosePoolLast(d) ==
  /\ pc[d] = "closing" /\ \A e \in Docs : pc[e] \notin {"busy", "reconnect"}
  /\ Goto(d, "connecting")
  /\ UNCHANGED <<rev, gone, batch, attempt, pool, lock, hurt, db, disk, ckpt, dlq, faults>>

\* ... closed, which waits for the connections in use ...
ClosePool(d) ==
  /\ pc[d] = "closing" /\ \A e \in Docs : pc[e] # "busy"
  /\ Goto(d, "connecting")
  /\ UNCHANGED <<rev, gone, batch, attempt, pool, lock, hurt, db, disk, ckpt, dlq, faults>>

\* Slip: the lock is not released when the connection fails.
MakePoolKeepsLock(d) ==
  /\ pc[d] = "connecting"
  /\ \/ pool' = TRUE /\ lock' = NoTask /\ UNCHANGED <<hurt, faults>>
     \/ FaultOf("connect", d) /\ UNCHANGED <<pool, lock>>
  /\ Goto(d, Failed(d))
  /\ UNCHANGED <<rev, gone, batch, attempt, db, disk, ckpt, dlq>>

\* ... and made anew, or not: then there is none until somebody reconnects.
MakePool(d) ==
  /\ pc[d] = "connecting"
  /\ \/ pool' = TRUE /\ UNCHANGED <<hurt, faults>>
     \/ FaultOf("connect", d) /\ UNCHANGED pool
  /\ lock' = NoTask
  /\ Goto(d, Failed(d))
  /\ UNCHANGED <<rev, gone, batch, attempt, db, disk, ckpt, dlq>>

Wake(d) ==
  /\ pc[d] = "sleep" /\ Goto(d, "try")
  /\ UNCHANGED <<rev, gone, batch, attempt, pool, lock, hurt, db, disk, ckpt, dlq, faults>>

Send(d) ==
  \/ Acquire(d) \/ NoPool(d) \/ Execute(d) \/ LosePool(d) \/ ClosePool(d) \/ MakePool(d)
  \/ Wake(d)

-----------------------------------------------------------------------------
(* The database server. *)

\* A crash and a restart: commits that were not flushed are lost, and the
\* transactions in progress lose their connections.
ServerCrash ==
  /\ Fault("crash")
  /\ db' = disk
  /\ pc' = [d \in Docs |-> IF pc[d] = "busy" THEN "reconnect" ELSE pc[d]]
  /\ hurt' = [d \in Docs |-> IF pc[d] = "busy" /\ hurt[d] < MaxFaults
                             THEN hurt[d] + 1 ELSE hurt[d]]
  /\ UNCHANGED <<rev, gone, batch, attempt, pool, lock, disk, ckpt, dlq>>

Next ==
  \/ Poll \/ SendAll \/ BatchEnds
  \/ \E d \in Docs : Send(d) \/ MappingError(d) \/ Deadlock(d)
  \/ ServerCrash

\* Each send goes on; whoever waits for the lock of the pool gets it in turn.
Spec == Init /\ [][Next]_dbvars /\ \A d \in Docs : SF_dbvars(Send(d))

-----------------------------------------------------------------------------
(* Properties. *)

Reflects(d, r) ==
  IF r = 0 \/ r \in gone[d] THEN db[d].row = 0 ELSE db[d].row = r

\* What the checkpoint covers is in the database, or something newer is, or it
\* is in the dead letter queue.
CheckpointStored ==
  \A d \in Docs : dlq[d] >= ckpt[d] \/ \E r \in ckpt[d]..rev[d] : Reflects(d, r)

\* "The relational table always exactly mirrors the current JSON array"
\* (SCHEMA_MAPPING.md): child rows of the parent's revision, each once, however
\* often the change was applied.
RowsWhole ==
  \A d \in Docs :
    db[d].kids = IF db[d].row = 0 THEN NoKids ELSE [NoKids EXCEPT ![db[d].row] = 1]

\* "merge = upsert individual rows" (SCHEMA_MAPPING.md): no row twice.
NoRowTwice == \A d \in Docs : \A r \in Revs : db[d].kids[r] <= 1

\* Every send ends: the sends that reconnect do not wait for each other for ever.
SendsEnd == \A d \in Docs : pc[d] = "try" ~> pc[d] \in Ended

\* A send gives up only after the database failed it max_retries times.
RetriesAreForFailures ==
  \A d \in Docs : pc[d] = "down" => hurt[d] >= MaxRetries
=============================================================================
