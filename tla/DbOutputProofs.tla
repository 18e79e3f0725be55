--------------------------- MODULE DbOutputProofs ---------------------------
(***************************************************************************)
(* The relational output keeps what the checkpoint covers and whole child  *)
(* rows, for any number of documents, revisions, retries and faults, if    *)
(* the settings are those the properties need.                             *)
(***************************************************************************)
EXTENDS DbOutput, TLAPS

DataType ==
  /\ rev \in [Docs -> 0..MaxRev] /\ batch \subseteq Docs
  /\ pc \in [Docs -> SendStates]
  /\ db \in [Docs -> Rows] /\ disk \in [Docs -> Rows]
  /\ ckpt \in [Docs -> 0..MaxRev] /\ dlq \in [Docs -> 0..MaxRev]

\* Only documents of the batch are sent, and each has been read.
BatchInv ==
  \A d \in Docs :
    /\ pc[d] # "idle" => d \in batch
    /\ d \in batch => rev[d] > 0
    /\ ckpt[d] <= rev[d]

DInv == DataType /\ BatchInv

\* What a step of a send does to the data: nothing, or the commit.
Moves(d) ==
  /\ pc[d] # "idle"
  /\ \E s \in SendStates \ {"idle", "ok"} : Goto(d, s)
  /\ UNCHANGED <<rev, gone, batch, db, disk, ckpt, dlq>>

Commits(d) ==
  /\ pc[d] # "idle" /\ Commit(d)
  /\ \E s \in SendStates \ {"idle"} : Goto(d, s)
  /\ UNCHANGED <<rev, gone, batch, ckpt, dlq>>

LEMMA SendSteps ==
  ASSUME NEW d \in Docs, Send(d) \/ MappingError(d) \/ Deadlock(d)
  PROVE  Moves(d) \/ Commits(d)
<1>1. Failed(d) \in SendStates \ {"idle", "ok"}
  BY DEF Failed, SendStates
<1>2. CASE Execute(d)
  BY <1>2 DEF Execute, Moves, Commits, Goto, SendStates
<1>3. CASE Deadlock(d) \/ MakePool(d)
  BY <1>1, <1>3 DEF Deadlock, MakePool, Moves, Goto
<1>4. CASE Acquire(d) \/ NoPool(d) \/ LosePool(d)
  BY <1>4 DEF Acquire, NoPool, LosePool, Moves, Goto, SendStates
<1>5. CASE ClosePool(d) \/ Wake(d) \/ MappingError(d)
  BY <1>5 DEF ClosePool, Wake, MappingError, Moves, Goto, SendStates
<1> QED BY <1>2, <1>3, <1>4, <1>5 DEF Send

\* The rows of a change are rows: none, or those of the revision.
LEMMA AppliedRows ==
  ASSUME DInv, NEW d \in Docs, d \in batch
  PROVE  Applied(d) \in Rows
<1>1. rev[d] \in Revs /\ db[d] \in Rows
  BY DEF DInv, DataType, BatchInv, Revs
<1>2. NoKids \in [Revs -> 0..2] /\ NoRows \in Rows
  BY DbAssumption DEF NoKids, NoRows, Rows, Revs
<1>3. ASSUME NEW old \in [Revs -> 0..2]
      PROVE  [old EXCEPT ![rev[d]] = IF @ < 2 THEN @ + 1 ELSE @] \in [Revs -> 0..2]
  BY <1>1
<1>4. db[d].kids \in [Revs -> 0..2]
  BY <1>1 DEF Rows
<1> QED BY <1>1, <1>2, <1>3, <1>4 DEF Applied, Rows, Revs

LEMMA CommitRows ==
  ASSUME DInv, NEW d \in Docs, d \in batch, Commit(d)
  PROVE  db' \in [Docs -> Rows] /\ disk' \in [Docs -> Rows]
BY AppliedRows DEF Commit, DInv, DataType

LEMMA DInvInit == Init => DInv
<1>1. NoRows \in Rows
  BY DbAssumption DEF NoKids, NoRows, Rows, Revs
<1> QED BY <1>1, DbAssumption DEF Init, DInv, DataType, BatchInv, SendStates

LEMMA DInvStep ==
  ASSUME DInv, [Next]_dbvars
  PROVE  DInv'
<1> USE DEF DInv, DataType, BatchInv
<1>1. CASE Poll
  BY <1>1, DbAssumption DEF Poll, sendVars
<1>2. CASE SendAll
  BY <1>2 DEF SendAll, SendStates
<1>3. CASE BatchEnds
  BY <1>3 DEF BatchEnds, SendStates
<1>4. ASSUME NEW d \in Docs, Moves(d)
      PROVE  DInv'
  BY <1>4 DEF Moves, Goto
<1>5. ASSUME NEW d \in Docs, Commits(d)
      PROVE  DInv'
  <2>1. db' \in [Docs -> Rows] /\ disk' \in [Docs -> Rows]
    BY <1>5, CommitRows DEF Commits
  <2> QED BY <1>5, <2>1 DEF Commits, Goto
<1>6. CASE ServerCrash
  BY <1>6 DEF ServerCrash, SendStates
<1>7. CASE UNCHANGED dbvars
  BY <1>7 DEF dbvars, sendVars
<1> QED BY <1>1, <1>2, <1>3, <1>4, <1>5, <1>6, <1>7, SendSteps DEF Next

-----------------------------------------------------------------------------
(* The sends: their retries, their failures and the lock of the pool. *)

\* A send that is to try again has a try left, no send has failed more often
\* than there were faults, and the lock is held by the one that renews the pool.
SendInv ==
  /\ gone \in [Docs -> SUBSET Revs]
  /\ attempt \in [Docs -> 0..MaxRetries]
  /\ \A d \in Docs : pc[d] \in {"try", "sleep"} => attempt[d] < MaxRetries
  /\ faults \in 0..MaxFaults /\ hurt \in [Docs -> 0..MaxFaults]
  /\ \A d \in Docs : hurt[d] <= faults
  /\ pool \in BOOLEAN /\ lock \in Docs \cup {NoTask}
  /\ \A d \in Docs : lock = d <=> pc[d] \in {"closing", "connecting"}

\* A failure is one more fault.
LEMMA FaultStep ==
  ASSUME SendInv, NEW kind, NEW d \in Docs, FaultOf(kind, d)
  PROVE  /\ faults' \in 0..MaxFaults /\ hurt' \in [Docs -> 0..MaxFaults]
         /\ \A e \in Docs : hurt'[e] <= faults'
<1>1. MaxFaults \in Nat
  BY DbAssumption
<1>2. faults' = faults + 1 /\ faults < MaxFaults /\ hurt' = [hurt EXCEPT ![d] = @ + 1]
  BY DEF FaultOf, Fault
<1> QED BY <1>1, <1>2 DEF SendInv

\* A step of one send, by what it does to its place, its tries and the lock.
LEMMA SendMoves ==
  ASSUME DInv, SendInv, NEW d \in Docs, NEW s \in SendStates, Goto(d, s),
         gone' = gone, pool' \in BOOLEAN,
         \/ attempt' = attempt
         \/ pc[d] = "try" /\ attempt' = [attempt EXCEPT ![d] = @ + 1],
         s \in {"try", "sleep"} => attempt'[d] < MaxRetries,
         UNCHANGED <<faults, hurt>> \/ \E kind : FaultOf(kind, d),
         \/ lock' = lock /\ (s \in {"closing", "connecting"}
                               <=> pc[d] \in {"closing", "connecting"})
         \/ lock = NoTask /\ lock' = d /\ s = "closing"
         \/ pc[d] = "connecting" /\ lock' = NoTask /\ s \notin {"closing", "connecting"}
  PROVE  SendInv'
<1>1. pc \in [Docs -> SendStates] /\ pc' = [pc EXCEPT ![d] = s] /\ NoTask \notin Docs
  BY DbAssumption DEF DInv, DataType, Goto
<1>2. /\ faults' \in 0..MaxFaults /\ hurt' \in [Docs -> 0..MaxFaults]
      /\ \A e \in Docs : hurt'[e] <= faults'
  BY FaultStep DEF SendInv
<1>3. attempt' \in [Docs -> 0..MaxRetries]
  BY DbAssumption DEF SendInv
<1>4. \A e \in Docs : pc'[e] \in {"try", "sleep"} => attempt'[e] < MaxRetries
  BY <1>1 DEF SendInv
<1>5. lock' \in Docs \cup {NoTask}
  BY DEF SendInv
<1>6. \A e \in Docs : lock' = e <=> pc'[e] \in {"closing", "connecting"}
  BY <1>1 DEF SendInv
<1> QED BY <1>2, <1>3, <1>4, <1>5, <1>6 DEF SendInv

LEMMA SendInvStep ==
  ASSUME DInv, SendInv, [Next]_dbvars
  PROVE  SendInv'
<1>0. /\ MaxFaults \in Nat /\ MaxRetries \in Nat \ {0} /\ NoTask \notin Docs
      /\ pc \in [Docs -> SendStates]
  BY DbAssumption DEF DInv, DataType
<1>1. CASE Poll
  <2>1. gone' \in [Docs -> SUBSET Revs]
    BY <1>1, DbAssumption DEF Poll, SendInv, DInv, DataType, Revs
  <2> QED BY <1>1, <2>1 DEF Poll, sendVars, SendInv
<1>2. CASE SendAll
  BY <1>0, <1>2 DEF SendAll, SendInv
<1>3. CASE BatchEnds
  <2>1. \A d \in Docs : pc[d] \notin {"closing", "connecting"}
    BY <1>3 DEF BatchEnds, Ended, DInv, BatchInv
  <2> QED BY <1>3, <2>1 DEF BatchEnds, SendInv
<1>4. ASSUME NEW d \in Docs, Send(d) \/ MappingError(d) \/ Deadlock(d)
      PROVE  SendInv'
  <2> USE DEF SendStates
  <2>0. attempt \in [Docs -> 0..MaxRetries] /\ pool \in BOOLEAN
    BY DEF SendInv
  <2>1. CASE Acquire(d)
    BY <1>0, <2>0, <2>1, SendMoves DEF Acquire
  <2>2. CASE NoPool(d)
    BY <1>0, <2>0, <2>2, SendMoves DEF NoPool
  <2>3. CASE Execute(d) \/ MappingError(d)
    <3>1. PICK s \in {"ok", "reconnect", "failed", "refused"} : Goto(d, s)
      BY <2>3 DEF Execute, MappingError
    <3> QED BY <1>0, <2>0, <2>3, <3>1, SendMoves DEF Execute, MappingError
  <2>4. Failed(d) \in {"sleep", "down", "failed"}
        /\ (Failed(d) = "sleep" => attempt[d] < MaxRetries)
    BY DEF Failed
  <2>5. CASE Deadlock(d)
    BY <1>0, <2>0, <2>4, <2>5, SendMoves DEF Deadlock
  <2>6. CASE LosePool(d)
    BY <1>0, <2>0, <2>6, SendMoves DEF LosePool
  <2>7. CASE ClosePool(d)
    BY <1>0, <2>0, <2>7, SendMoves DEF ClosePool
  <2>8. CASE MakePool(d)
    BY <1>0, <2>0, <2>4, <2>8, SendMoves DEF MakePool
  <2>9. CASE Wake(d)
    BY <1>0, <2>0, <2>9, SendMoves DEF Wake, SendInv
  <2> QED BY <1>4, <2>1, <2>2, <2>3, <2>5, <2>6, <2>7, <2>8, <2>9 DEF Send
<1>5. CASE ServerCrash
  <2>1. faults' = faults + 1 /\ faults < MaxFaults
    BY <1>5 DEF ServerCrash, Fault
  <2>2. /\ hurt' \in [Docs -> 0..MaxFaults]
        /\ \A e \in Docs : hurt'[e] <= faults'
    BY <1>0, <1>5, <2>1 DEF ServerCrash, SendInv
  <2>3. \A e \in Docs : pc'[e] \in {"try", "sleep", "closing", "connecting"}
                        \/ pc[e] \in {"try", "sleep", "closing", "connecting"} => pc'[e] = pc[e]
    BY <1>5 DEF ServerCrash
  <2> QED BY <1>0, <1>5, <2>1, <2>2, <2>3 DEF ServerCrash, SendInv
<1>6. CASE UNCHANGED dbvars
  BY <1>6 DEF dbvars, sendVars, SendInv
<1> QED BY <1>1, <1>2, <1>3, <1>4, <1>5, <1>6 DEF Next

\* Every variable of the output keeps its type: no send tries more than
\* max_retries times, and the lock of the pool is held exactly while a send
\* closes or makes one.
THEOREM DbTypeCorrect == Spec => []DbTypeOK
<1>1. Init => DInv /\ SendInv
  <2>1. Init => SendInv
    BY DbAssumption DEF Init, SendInv
  <2> QED BY <2>1, DInvInit
<1>2. (DInv /\ SendInv) /\ [Next]_dbvars => (DInv /\ SendInv)'
  BY DInvStep, SendInvStep
<1>3. DInv /\ SendInv => DbTypeOK
  BY DbAssumption DEF DInv, DataType, SendInv, DbTypeOK
<1> QED BY <1>1, <1>2, <1>3, PTL DEF Spec

-----------------------------------------------------------------------------
(* The child rows. *)

Whole(t) == t.kids = IF t.row = 0 THEN NoKids ELSE [NoKids EXCEPT ![t.row] = 1]
RowsInv == \A d \in Docs : Whole(db[d]) /\ Whole(disk[d])

LEMMA AppliedWhole ==
  ASSUME DInv, RowsInv, DeleteInsert, NEW d \in Docs, d \in batch
  PROVE  Whole(Applied(d))
<1>1. rev[d] \in Revs /\ rev[d] # 0
  BY DEF DInv, DataType, BatchInv, Revs
<1>2. NoKids[rev[d]] = 0
  BY <1>1 DEF NoKids
<1>3. [NoKids EXCEPT ![rev[d]] = IF @ < 2 THEN @ + 1 ELSE @] = [NoKids EXCEPT ![rev[d]] = 1]
  BY <1>2
<1> QED BY <1>1, <1>3 DEF Applied, Whole, NoRows, RowsInv

LEMMA RowsStep ==
  ASSUME DInv, RowsInv, DeleteInsert, [Next]_dbvars
  PROVE  RowsInv'
<1>1. CASE Poll \/ SendAll \/ BatchEnds \/ UNCHANGED dbvars
  BY <1>1 DEF Poll, SendAll, BatchEnds, dbvars, sendVars, RowsInv
<1>2. ASSUME NEW d \in Docs, Moves(d)
      PROVE  RowsInv'
  BY <1>2 DEF Moves, RowsInv
<1>3. ASSUME NEW d \in Docs, Commits(d)
      PROVE  RowsInv'
  <2>1. d \in batch
    BY <1>3 DEF Commits, DInv, BatchInv
  <2>2. \A e \in Docs : Whole(db'[e])
    BY <1>3, <2>1, AppliedWhole DEF Commits, Commit, RowsInv, DInv, DataType
  <2> QED BY <1>3, <2>2 DEF Commits, Commit, RowsInv
<1>4. CASE ServerCrash
  BY <1>4 DEF ServerCrash, RowsInv
<1> QED BY <1>1, <1>2, <1>3, <1>4, SendSteps DEF Next

\* With delete_insert the child rows of every document are those of its parent
\* row's revision, each once, whatever is retried, lost or read again.
THEOREM RowsAlwaysWhole ==
  ASSUME DeleteInsert
  PROVE  Spec => []RowsWhole
<1>1. Init => RowsInv
  BY DEF Init, RowsInv, Whole, NoRows
<1>2. DInv /\ RowsInv /\ [Next]_dbvars => (DInv /\ RowsInv)'
  BY DInvStep, RowsStep
<1>3. RowsInv => RowsWhole
  BY DEF RowsInv, RowsWhole, Whole
<1> QED BY <1>1, <1>2, <1>3, DInvInit, PTL DEF Spec

-----------------------------------------------------------------------------
(* The checkpoint. *)

\* What is committed is on disk, and a send that ended well left its revision.
StoredInv ==
  /\ disk = db
  /\ \A d \in Docs : pc[d] = "ok" => Reflects(d, rev[d])
  /\ CheckpointStored

LEMMA CommitReflects ==
  ASSUME DInv, FirstMapped = Docs, NEW d \in Docs, d \in batch, Commit(d),
         rev' = rev, gone' = gone
  PROVE  Reflects(d, rev[d])'
<1>1. db'[d] = Applied(d) /\ rev[d] # 0
  BY DEF Commit, DInv, DataType, BatchInv
<1> QED BY <1>1 DEF Applied, IsDelete, NoRows, Reflects

LEMMA StoredStep ==
  ASSUME DInv, StoredInv, FirstMapped = Docs, SyncCommit, ~SkipErrors, [Next]_dbvars
  PROVE  StoredInv'
<1> USE DEF DInv, DataType, BatchInv, StoredInv, CheckpointStored, Reflects
<1>1. CASE Poll
  BY <1>1 DEF Poll, sendVars
<1>2. CASE SendAll
  BY <1>2 DEF SendAll
<1>3. CASE BatchEnds
  BY <1>3 DEF BatchEnds, Ended, Queued
<1>4. ASSUME NEW d \in Docs, Moves(d)
      PROVE  StoredInv'
  BY <1>4 DEF Moves, Goto
<1>5. ASSUME NEW d \in Docs, Commits(d)
      PROVE  StoredInv'
  <2>1. disk' = db'
    BY <1>5 DEF Commits, Commit
  <2>2. Reflects(d, rev[d])'
    BY <1>5, CommitReflects DEF Commits
  <2>3. \A e \in Docs \ {d} : db'[e] = db[e] /\ pc'[e] = pc[e]
    BY <1>5 DEF Commits, Commit, Goto
  <2> QED BY <1>5, <2>1, <2>2, <2>3 DEF Commits
<1>6. CASE ServerCrash
  BY <1>6 DEF ServerCrash
<1>7. CASE UNCHANGED dbvars
  BY <1>7 DEF dbvars, sendVars
<1> QED BY <1>1, <1>2, <1>3, <1>4, <1>5, <1>6, <1>7, SendSteps DEF Next

\* If commits are synchronous, every tombstone finds its mapping and refused rows
\* are not dropped, a row the checkpoint covers survives lost replies, a lost pool
\* and crashes of the server.
THEOREM CheckpointAlwaysStored ==
  ASSUME FirstMapped = Docs, SyncCommit, ~SkipErrors
  PROVE  Spec => []CheckpointStored
<1>1. Init => StoredInv
  BY DbAssumption DEF Init, StoredInv, CheckpointStored, Reflects, NoRows
<1>2. DInv /\ StoredInv /\ [Next]_dbvars => (DInv /\ StoredInv)'
  BY DInvStep, StoredStep
<1>3. StoredInv => CheckpointStored
  BY DEF StoredInv
<1> QED BY <1>1, <1>2, <1>3, DInvInit, PTL DEF Spec
=============================================================================
