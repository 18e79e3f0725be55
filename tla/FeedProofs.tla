------------------------------ MODULE FeedProofs ------------------------------
(***************************************************************************)
(* The theorems about the feeds, for every job, log length, buffer size    *)
(* and number of failures.  Polled feeds (Spec of PolledFeed): types, what *)
(* a checkpoint covers, what it means for a change to be delivered, and    *)
(* that PolledFeed implements AtLeastOnce.  Continuous and WebSocket feeds *)
(* (StreamSpec of StreamFeed): types, what a checkpoint covers, and that   *)
(* no change is lost between two connections.                              *)
(***************************************************************************)
EXTENDS PolledFeed, StreamFeed, WorkerProofs

-----------------------------------------------------------------------------
(* Polled feeds. *)

\* The steps polled feeds share with the streams, but those of a batch.
SharedStep ==
  \/ Restart \/ StartAgain \/ Unreachable \/ LoadCheckpoint \/ ReplayEntry \/ ReplayEnds
  \/ Mutate \/ Stop \/ Crash \/ Expire

-----------------------------------------------------------------------------
(* Types. *)

LEMMA DriverTypes ==
  ASSUME WorkerTypeOK, Poll \/ LeaveLoop \/ RetryBatch \/ NextPoll \/ FinishInitialSync \/ Batch
  PROVE  WorkerTypeOK'
<1> USE TypePartsNext
<1>0. /\ CheckpointTypeOK /\ SourceType /\ SinkType
      /\ LocalType /\ RowsType /\ ReplayType
  BY TypeParts
<1>1. CASE Poll
  <2>1. ReplayType'
    BY <1>0, <1>1, ReplayUnchanged DEF Poll
  <2>2. \E m \in since..Len(log) : Request(ActiveOnly, m)
    BY <1>1 DEF Poll, Request
  <2> QED BY <2>1, <2>2, RequestTypes
<1>2. CASE LeaveLoop
  <2>1. LocalType' /\ RowsType' /\ ReplayType' /\ ck' = NewCheckpoint
    BY <1>2, EndType, ForgetWorkerTypes DEF LeaveLoop
  <2>2. faults' \in Nat
    BY <1>0, <1>2 DEF LeaveLoop, Fault, NoFault, CheckpointTypeOK
  <2>3. CheckpointTypeOK' /\ SourceType' /\ SinkType'
    BY <1>0, <1>2, <2>1, <2>2, NewCheckpointType, SourceUnchanged, SinkUnchanged
       DEF LeaveLoop, CheckpointTypeOK
  <2> QED BY <2>1, <2>3
<1>3. CASE RetryBatch
  <2>1. LocalType'
    BY <1>0, <1>3 DEF RetryBatch, LocalType, PCs
  <2> QED BY <1>0, <1>3, <2>1, SourceUnchanged, SinkUnchanged, RowsUnchanged,
             ReplayUnchanged, CkptUnchanged DEF RetryBatch, worldVars, CheckpointTypeOK
<1>4. CASE NextPoll
  <2>1. LocalType'
    BY <1>0, <1>4 DEF NextPoll, LocalType, PCs
  <2>2. RowsType'
    BY <1>4, ForgetBatchType DEF NextPoll
  <2> QED BY <1>0, <1>4, <2>1, <2>2, SourceUnchanged, SinkUnchanged,
             ReplayUnchanged, CkptUnchanged DEF NextPoll, worldVars, CheckpointTypeOK
<1>5. CASE FinishInitialSync
  <2>1. ReplayType'
    BY <1>0, <1>5, ReplayUnchanged, ForgetWorkerTypes DEF FinishInitialSync
  <2> QED BY <1>5, <2>1, FlagTypes DEF FinishInitialSync, FlagSaved, FlagRaises
<1>6. CASE Batch
  <2>1. ReplayType'
    BY <1>0, <1>6, ReplayUnchanged DEF Batch
  <2> QED BY <1>6, <2>1, BatchTypes DEF Batch
<1> QED BY <1>1, <1>2, <1>3, <1>4, <1>5, <1>6

LEMMA ActionTypes ==
  ASSUME WorkerTypeOK, [Next]_vars
  PROVE  WorkerTypeOK'
BY DriverTypes, WorkerTypes DEF Next, WorkerStep, Environment

\* Every state has the types of its variables: what the worker stores, queues
\* and remembers is a cursor, an entry or a row whatever the failures.
THEOREM TypeCorrect == Spec => []WorkerTypeOK
<1>1. WorkerTypeOK /\ [Next]_vars => WorkerTypeOK'
  BY ActionTypes
<1>2. Init => WorkerTypeOK
  BY InitTypes DEF Init
<1> QED BY <1>1, <1>2, PTL DEF Spec

-----------------------------------------------------------------------------
(* What a checkpoint covers: IInv(TRUE) is inductive, a poll moves the cursor *)
(* forward only.                                                              *)

LEMMA StepSafe ==
  ASSUME IInv(TRUE), WorkerTypeOK', [Next]_vars
  PROVE  Safe(TRUE)
<1>0. WorkerTypeOK
  BY IInvParts
<1>1. CASE SharedStep \/ UNCHANGED vars
  BY <1>1, WorkerSafe DEF SharedStep
<1>2. CASE RetryBatch \/ NextPoll
  <2>1. UNCHANGED <<log, sinkVars, since, ckptVars>> /\ pc' = "poll"
    BY <1>2 DEF RetryBatch, NextPoll
  <2> QED BY <1>0, <2>1, SinkKept, SameLogGrows, QuietStep DEF InBatch
<1>3. CASE Poll
  <2>1. \E m \in since..Len(log) : Request(ActiveOnly, m)
    BY <1>3 DEF Poll, Request
  <2> QED BY <2>1, RequestSafe
<1>4. CASE LeaveLoop
  <2>1. UNCHANGED <<log, sinkVars, sg, fb>> /\ End("ended")
    BY <1>4 DEF LeaveLoop
  <2> QED BY <1>0, <2>1, SinkKept, SameLogGrows, EndStep
<1>5. CASE FinishInitialSync
  BY <1>5, FlagSafe DEF FinishInitialSync, FlagSaved, FlagRaises
<1>6. CASE Batch
  BY <1>6, BatchSafe DEF Batch
<1> QED BY <1>1, <1>2, <1>3, <1>4, <1>5, <1>6 DEF Next, WorkerStep, Environment, SharedStep

LEMMA IInvNext == IInv(TRUE) /\ [Next]_vars => IInv(TRUE)' /\ sg'.seq >= sg.seq /\ AccountKept
<1> SUFFICES ASSUME IInv(TRUE), [Next]_vars
             PROVE  IInv(TRUE)' /\ sg'.seq >= sg.seq /\ AccountKept
  OBVIOUS
<1>1. WorkerTypeOK'
  BY ActionTypes, IInvParts
<1>2. Safe(TRUE)
  BY <1>1, StepSafe
<1> QED BY <1>1, <1>2 DEF Safe, IInv, CursorInv

LEMMA IInvAlways == Spec => []IInv(TRUE)
<1>1. Init => IInv(TRUE)
  BY InitSafe DEF Init
<1> QED BY <1>1, IInvNext, PTL DEF Spec

\* Whatever the order of crashes, stops, failed sends and failed saves, no
\* checkpoint passes a change that nobody looked at: a restart cannot skip one
\* (_process_changes_batch moves the cursor, Checkpoint.save stores it).
THEOREM CheckpointSafe == Spec => []CheckpointCovered
<1>1. IInv(TRUE) => CheckpointCovered
  BY DEF IInv
<1> QED BY <1>1, IInvAlways, PTL

\* The checkpoint on Sync Gateway never moves back, whichever of the stored
\* copies a restart resumed from: a save from behind carries a stale _rev.
THEOREM CheckpointNeverBack == Spec => CheckpointMonotone
<1> QED BY IInvAlways, IInvNext, PTL DEF Spec, CheckpointMonotone

-----------------------------------------------------------------------------
(* PolledFeed implements AtLeastOnce. *)

LEMMA PromiseInit == Init => Promise!Init
<1> SUFFICES ASSUME Init PROVE Promise!Init
  OBVIOUS
<1>1. log = << >> /\ sg.seq = 0
  BY DEF Init, WorkerInit, BatchInit, CheckpointInit, NotStored
<1>2. Len(log) = 0 /\ DOMAIN log = {}
  BY <1>1
<1> QED BY <1>1, <1>2 DEF Promise!Init, Handled

\* Only the source changes the log, by appending to it.
LEMMA LogStep ==
  ASSUME WorkerTypeOK, Next
  PROVE  UNCHANGED log \/ Mutate
<1>1. CASE Batch
  BY <1>1 DEF Batch, BatchStep, EmptyBatch, FetchDocs, FetchDocsStopped, TakeDoc, SkipRow,
              SendRow, RowMoves, SettleRow, HaltRow, EndSequential, EndParallel,
              HaltParallel, RaiseFromBatch
<1>2. CASE Poll
  BY <1>2 DEF Poll, Receive
<1>3. CASE Environment
  BY <1>3 DEF Environment, StartAgain, Stop, Crash, Expire
<1> QED
  BY <1>1, <1>2, <1>3
     DEF Next, WorkerStep, Restart, Unreachable, LoadCheckpoint, ReplayEntry, ReplayEnds, LeaveLoop,
         RetryBatch, NextPoll, FinishInitialSync

LEMMA PromiseNext ==
  ASSUME IInv(TRUE), IInv(TRUE)', [Next]_vars
  PROVE  [Promise!Next]_(Promise!vars)
<1>0. /\ WorkerTypeOK /\ Len(log) \in Nat /\ DOMAIN log = 1..Len(log)
      /\ WorkerTypeOK' /\ Len(log)' \in Nat /\ (DOMAIN log)' = 1..Len(log)'
      /\ sg.seq \in Nat /\ sg'.seq \in Nat
  BY IInvParts, LogRange, SeqNat, TypeParts DEF IInv, WorkerTypeOK, TypeOK, CheckpointTypeOK, Stored
<1>1. sg'.seq >= sg.seq /\ AccountKept
  BY IInvNext
<1>2. CASE UNCHANGED log
  <2>1. Len(log)' = Len(log) /\ (DOMAIN log)' = DOMAIN log
    BY <1>2
  <2>2. Handled \subseteq Handled' /\ Handled' \subseteq 1..Len(log)
    BY <1>0, <1>1, <2>1 DEF Handled, AccountKept
  <2>3. 1..sg'.seq \subseteq Handled'
    BY <1>0 DEF IInv, CheckpointCovered, Covered, Handled
  <2> QED BY <1>1, <2>1, <2>2, <2>3, <1>0 DEF Promise!Next, Promise!Work
<1>3. CASE Mutate
  <2>1. Len(log)' = Len(log) + 1 /\ sg' = sg
    BY <1>0, <1>3, TypeParts DEF Mutate, ckptVars, SourceType
  <2>2. Handled \subseteq Handled'
    BY <1>0, <1>1, <2>1 DEF Handled, AccountKept
  <2>3. Handled' \subseteq 1..Len(log)'
    BY <1>0 DEF Handled
  <2> QED BY <2>1, <2>2, <2>3 DEF Promise!Next, Promise!Write
<1> QED BY <1>2, <1>3, LogStep, IInvParts DEF vars

\* PolledFeed implements AtLeastOnce: through every fault, a change is looked at
\* before the checkpoint on Sync Gateway passes it.
THEOREM PromiseKept == Spec => KeepsPromise
<1> QED BY IInvAlways, PromiseInit, PromiseNext, PTL DEF Spec, KeepsPromise, Promise!Spec

-----------------------------------------------------------------------------
(* What is delivered.  Under NothingLost, DeliveryInv is inductive: its two   *)
(* halves are SyncedInv, about the stored copies and the flag, and SinkInv,   *)
(* about the history and the queue.                                           *)

KeptIn(f) == \A s \in Seqs : f[s] \subseteq GoodFates
GoodEntry(e) == e.seq <= Len(log) /\ FaithfulEntry(e)
SinkInv == KeptIn(fate) /\ \A e \in dlq : GoodEntry(e)

LEMMA MarkKept ==
  ASSUME NEW f, KeptIn(f), NEW S, NEW why \in GoodFates
  PROVE  KeptIn(Mark(f, S, why))
BY DEF KeptIn, Mark

\* Writing entries that are good as long as there is a queue to take them.
LEMMA QueuedKept ==
  ASSUME NEW f, KeptIn(f), NEW E, Job.dlq => \A e \in E : GoodEntry(e),
         Enqueue(E), \A e \in dlq : GoodEntry(e)
  PROVE  KeptIn(Queued(f, E)) /\ \A e \in dlq' : GoodEntry(e)
<1>1. CASE ~Job.dlq
  BY <1>1, MarkKept DEF Queued, Enqueue, GoodFates
<1>2. CASE Job.dlq
  <2>1. {x \in E : ~FaithfulEntry(x)} = {}
    BY <1>2 DEF GoodEntry
  <2>2. \A s \in Seqs : Queued(f, E)[s] = f[s]
    BY <1>2, <2>1 DEF Queued, Mark
  <2> QED BY <1>2, <2>2 DEF KeptIn, Enqueue
<1> QED BY <1>1, <1>2

\* The log only grows, and what an entry says of its change stays true.
LEMMA EntryStays ==
  ASSUME SourceType, UNCHANGED log \/ Mutate, NEW e, e.seq \in Seqs, GoodEntry(e)
  PROVE  GoodEntry(e)'
<1>1. CASE UNCHANGED log
  BY <1>1 DEF GoodEntry, FaithfulEntry, Faithful, Method, Live
<1>2. CASE Mutate
  <2>1. PICK x : log' = Append(log, x)
    BY <1>2 DEF Mutate
  <2>2. Len(log) \in Nat /\ Len(log') = Len(log) + 1 /\ log'[e.seq] = log[e.seq]
    BY <2>1, JobAssumption DEF SourceType, GoodEntry, Seqs
  <2>3. Live(e.seq)' = Live(e.seq)
    BY <2>2 DEF Live
  <2> QED BY <2>2, <2>3, JobAssumption DEF GoodEntry, FaithfulEntry, Faithful, Method, Seqs
<1> QED BY <1>1, <1>2

\* A row that fails, or is left over, is queued with what a replay needs.
LEMMA EntriesGood ==
  ASSUME NothingLost, Job.dlq, ~initSync, NEW s \in Seqs, s <= Len(log)
  PROVE  GoodEntry(FailedEntry(s)) /\ GoodEntry(InflightEntry(s))
<1>1. HasBody(s)
  BY DEF HasBody
<1>2. FailedEntry(s) = [seq |-> s, full |-> TRUE, method |-> Method(s)]
  BY <1>1, JobAssumption DEF FailedEntry, NothingLost, JobSettings
<1>3. InflightEntry(s) = [seq |-> s, full |-> TRUE, method |-> Method(s)]
  BY <1>1 DEF InflightEntry, NothingLost
<1> QED BY <1>2, <1>3 DEF GoodEntry, FaithfulEntry, Faithful

LEMMA SaveSynced ==
  ASSUME CheckpointTypeOK, sg.there, sg.done, NEW n \in Nat, NEW done \in BOOLEAN, done,
         Save(n, done)
  PROVE  sg'.there /\ sg'.done /\ ck'.done /\ stopping' = stopping
<1>1. CASE SaveStored(n, done)
  BY <1>1 DEF SaveStored, Save, Body
<1>2. CASE SaveFellBack(n, done)
  <2>1. UNCHANGED sg /\ ck' = [ck EXCEPT !.seq = n, !.done = done] => sg'.there /\ sg'.done /\ ck'.done
    BY DEF CheckpointTypeOK
  <2>2. /\ sg' = Body(n, done)
        /\ ck' = [seq |-> n, done |-> done, revOk |-> FALSE]
        => sg'.there /\ sg'.done /\ ck'.done
    BY DEF Body
  <2> QED BY <1>2, <2>1, <2>2 DEF SaveFellBack, PutFails, Save
<1> QED BY <1>1, <1>2 DEF Save

LEMMA RaiseSynced ==
  ASSUME sg.there, sg.done, NEW n \in Nat, NEW done \in BOOLEAN, done, SaveRaises(n, done)
  PROVE  sg'.there /\ sg'.done
BY DEF SaveRaises, Body

\* Every step of a batch saves the flag it has, keeps it, or ends the worker.
LEMMA BatchSynced ==
  ASSUME CheckpointTypeOK, RowsType, SyncedInv, BatchStep
  PROVE  ~initSync /\ SyncedInv'
<1>1. pc \in {"empty", "fetch", "work"}
  BY DEF BatchStep, EmptyBatch, FetchDocs, FetchDocsStopped, Turn, TakeDoc, SkipRow, SendRow,
         SettleRow, HaltRow, EndSequential, AllDone, EndParallel, HaltParallel, RaiseFromBatch
<1>2. ~initSync /\ ck.done /\ sg.there /\ sg.done
  BY <1>1 DEF SyncedInv
<1>3. ck.done \in BOOLEAN /\ last \in Nat /\ Seqs \subseteq Nat
  BY JobAssumption DEF CheckpointTypeOK, RowsType, Seqs
<1>4. \/ UNCHANGED <<sg, ck, initSync>>
      \/ UNCHANGED initSync /\ \E n \in Nat : Save(n, ck.done)
      \/ Die /\ (UNCHANGED sg \/ \E n \in Nat : SaveRaises(n, ck.done))
  <2>1. CASE EmptyBatch
    BY <1>3, <2>1 DEF EmptyBatch, ckptVars
  <2>2. CASE FetchDocs \/ FetchDocsStopped
    BY <2>2 DEF FetchDocs, FetchDocsStopped, ckptVars
  <2>3. CASE EndSequential
    BY <1>3, <2>3 DEF EndSequential, ckptVars
  <2>4. CASE EndParallel
    BY <1>3, <2>4 DEF EndParallel
  <2>5. CASE HaltParallel \/ RaiseFromBatch
    BY <2>5 DEF HaltParallel, RaiseFromBatch, ckptVars
  <2>6. ASSUME NEW s \in Seqs, TakeDoc(s) \/ SkipRow(s) \/ SendRow(s) \/ HaltRow(s)
        PROVE  UNCHANGED <<sg, ck, initSync>>
    BY <2>6 DEF TakeDoc, SkipRow, SendRow, RowMoves, HaltRow, ckptVars
  <2>7. ASSUME NEW s \in Seqs, SettleRow(s)
        PROVE  \/ UNCHANGED <<sg, ck, initSync>>
               \/ UNCHANGED initSync /\ \E n \in Nat : Save(n, ck.done)
               \/ Die /\ \E n \in Nat : SaveRaises(n, ck.done)
    BY <1>3, <2>7 DEF SettleRow, ckptVars
  <2> QED BY <2>1, <2>2, <2>3, <2>4, <2>5, <2>6, <2>7 DEF BatchStep
<1>5. CASE UNCHANGED <<sg, ck, initSync>>
  BY <1>2, <1>5 DEF SyncedInv
<1>6. CASE UNCHANGED initSync /\ \E n \in Nat : Save(n, ck.done)
  BY <1>2, <1>3, <1>6, SaveSynced DEF SyncedInv
<1>7. CASE Die /\ (UNCHANGED sg \/ \E n \in Nat : SaveRaises(n, ck.done))
  <2>1. initSync' = FALSE /\ pc' = "down"
    BY <1>7 DEF Die, End
  <2> QED BY <1>2, <1>3, <1>7, <2>1, RaiseSynced DEF SyncedInv
<1> QED BY <1>2, <1>4, <1>5, <1>6, <1>7

LEMMA OtherSynced ==
  ASSUME NothingLost, CheckpointTypeOK, LocalType, SyncedInv,
         SharedStep \/ Poll \/ LeaveLoop \/ RetryBatch \/ NextPoll \/ FinishInitialSync
  PROVE  SyncedInv'
<1>1. CASE Restart \/ StartAgain
  BY <1>1 DEF Restart, StartAgain, SyncedInv, ckptVars, worldVars
<1>2. CASE LoadCheckpoint
  <2>1. ck'.done \in BOOLEAN /\ sg' = sg /\ stopping' = stopping
    BY <1>2, LoadEffect DEF LoadCheckpoint, CheckpointTypeOK
  <2>2. ck'.done \/ stopping
    BY <1>2 DEF LoadCheckpoint, Load, LoadStored, LoadMissing, LoadFallback, Fault,
                NothingLost, SyncedInv
  <2> QED BY <1>2, <2>1, <2>2 DEF LoadCheckpoint, SyncedInv
<1>3. CASE ReplayEntry \/ ReplayEnds \/ Mutate \/ Expire
  BY <1>3 DEF ReplayEntry, ReplayEnds, Mutate, Expire, SyncedInv, ckptVars, worldVars
<1>4. CASE Stop
  BY <1>4 DEF Stop, SyncedInv, ckptVars
<1>5. CASE Crash \/ LeaveLoop \/ Unreachable
  BY <1>5 DEF Crash, LeaveLoop, Unreachable, Die, End, SyncedInv
<1>6. CASE Poll
  BY <1>6 DEF Poll, Receive, SyncedInv, ckptVars, worldVars
<1>7. CASE RetryBatch \/ NextPoll
  BY <1>7 DEF RetryBatch, NextPoll, SyncedInv, ckptVars, worldVars
<1>8. CASE FinishInitialSync
  BY <1>8 DEF FinishInitialSync, InitialSyncEnds, SyncedInv
<1> QED BY <1>1, <1>2, <1>3, <1>4, <1>5, <1>6, <1>7, <1>8 DEF SharedStep

\* A row of a batch is in the log, and its document came with the feed.
LEMMA SendKept ==
  ASSUME NothingLost, SinkInv, ~initSync, NEW s \in Seqs, SendRow(s)
  PROVE  KeptIn(fate')
<1>1. \A t \in Bodies(s) : t = s
  BY DEF Bodies, NeedsFetch, NothingLost
<1>2. HasBody(s)
  BY DEF HasBody
<1>3. \/ UNCHANGED fate
      \/ fate' = Mark(fate, {s}, Fate(s, HasBody(s) /\ s >= s, Method(s)))
  BY <1>1 DEF SendRow
<1>4. Fate(s, HasBody(s) /\ s >= s, Method(s)) = "delivered"
  BY <1>2, JobAssumption DEF Fate, Faithful, Seqs
<1> QED BY <1>3, <1>4, MarkKept DEF SinkInv, GoodFates

LEMMA BatchDelivery ==
  ASSUME NothingLost, IInv(TRUE), SinkInv, ~initSync, BatchStep
  PROVE  KeptIn(fate') /\ \A e \in dlq' : GoodEntry(e)
<1>0. rows \subseteq Seqs
  BY IInvParts, TypeParts DEF RowsType
<1>1. ASSUME Job.dlq, pc = "work", NEW s \in rows
      PROVE  GoodEntry(FailedEntry(s)) /\ GoodEntry(InflightEntry(s))
  <2>1. s <= last /\ last <= Len(log) /\ s \in Nat /\ last \in Nat /\ Len(log) \in Nat
    BY <1>0, <1>1, IInvParts, TypeParts, JobAssumption
       DEF IInv, BatchInv, SourceType, RowsType, Seqs
  <2> QED BY <1>0, <1>1, <2>1, EntriesGood
<1>2. CASE UNCHANGED sinkVars
  BY <1>2 DEF sinkVars, SinkInv
<1>3. ASSUME NEW s \in Seqs, SkipRow(s)
      PROVE  FALSE
  BY <1>3 DEF SkipRow, NeedsFetch, NothingLost
<1>4. ASSUME NEW s \in Seqs, SendRow(s)
      PROVE  KeptIn(fate') /\ \A e \in dlq' : GoodEntry(e)
  BY <1>4, SendKept DEF SendRow, SinkInv
<1>5. ASSUME NEW s \in Seqs, SettleRow(s)
      PROVE  KeptIn(fate') /\ \A e \in dlq' : GoodEntry(e)
  <2>0. pc = "work" /\ s \in rows /\ res[s] \in {"ok", "bad", "skip"}
    BY <1>5 DEF SettleRow
  <2>1. CASE res[s] = "ok"
    BY <1>5, <2>1 DEF SettleRow, SinkInv
  <2>2. CASE res[s] = "skip"
    BY <1>5, <2>2, MarkKept DEF SettleRow, SinkInv, GoodFates
  <2>3. CASE res[s] = "bad"
    <3>1. Enqueue({FailedEntry(s)}) /\ fate' = Queued(fate, {FailedEntry(s)})
      BY <1>5, <2>3 DEF SettleRow
    <3> QED BY <1>1, <2>0, <3>1, QueuedKept DEF SinkInv
  <2> QED BY <2>0, <2>1, <2>2, <2>3
<1>6. ASSUME NEW s \in Seqs, HaltRow(s)
      PROVE  KeptIn(fate') /\ \A e \in dlq' : GoodEntry(e)
  <2> DEFINE E == Leftover(res[s], SubBatch(s) \cap Unsettled)
  <2>1. Enqueue(E) /\ fate' = Queued(fate, E) /\ pc = "work"
    BY <1>6 DEF HaltRow
  <2>2. Job.dlq => \A e \in E : GoodEntry(e)
    BY <1>1, <2>1 DEF Leftover, Unsettled
  <2> QED BY <2>1, <2>2, QueuedKept DEF SinkInv
<1>7. ASSUME NEW D \in SUBSET InState({"bad", "skip"}), Gathered(D), pc = "work"
      PROVE  KeptIn(fate') /\ \A e \in dlq' : GoodEntry(e)
  <2> DEFINE E == {FailedEntry(s) : s \in {t \in D : res[t] = "bad"}}
             F == Mark(fate, {s \in D : res[s] = "skip"}, "dropped")
  <2>1. Enqueue(E) /\ fate' = Queued(F, E)
    BY <1>7 DEF Gathered
  <2>2. Job.dlq => \A e \in E : GoodEntry(e)
    BY <1>1, <1>7 DEF InState
  <2>3. KeptIn(F)
    BY MarkKept DEF SinkInv, GoodFates
  <2> QED BY <2>1, <2>2, <2>3, QueuedKept DEF SinkInv
<1>8. CASE HaltParallel
  <2>1. PICK s \in Raised \ InState({"err"}), D \in SUBSET InState({"bad", "skip"}) :
               HaltQueues(s, D)
    BY <1>8 DEF HaltParallel, HaltQueues
  <2> DEFINE E == Leftover(res[s], rows)
             B == {FailedEntry(t) : t \in {u \in D : res[u] = "bad"}}
             F == Mark(fate, {t \in D : res[t] = "skip"}, "dropped")
  <2>2. Enqueue(B \cup E) /\ fate' = Queued(F, B \cup E) /\ pc = "work"
    BY <1>8, <2>1 DEF HaltQueues, HaltParallel, AllDone
  <2>3. Job.dlq => \A e \in B : GoodEntry(e)
    BY <1>1, <2>2 DEF InState
  <2>4. Job.dlq => \A e \in E : GoodEntry(e)
    BY <1>1, <2>2 DEF Leftover
  <2>5. KeptIn(F)
    BY MarkKept DEF SinkInv, GoodFates
  <2> QED BY <2>2, <2>3, <2>4, <2>5, QueuedKept DEF SinkInv
<1>9. CASE EndParallel
  <2>1. Gathered(InState({"bad", "skip"})) /\ pc = "work"
    BY <1>9 DEF EndParallel, AllDone
  <2> QED BY <1>7, <2>1
<1>10. CASE RaiseFromBatch
  BY <1>2, <1>7, <1>10 DEF RaiseFromBatch, AllDone, sinkVars
<1>11. CASE \/ EmptyBatch \/ FetchDocs \/ FetchDocsStopped \/ EndSequential
            \/ \E s \in Seqs : TakeDoc(s)
  BY <1>2, <1>11 DEF EmptyBatch, FetchDocs, FetchDocsStopped, EndSequential, TakeDoc
<1>12. CASE \E s \in Seqs : TakeDoc(s) \/ SkipRow(s) \/ SendRow(s) \/ SettleRow(s) \/ HaltRow(s)
  BY <1>3, <1>4, <1>5, <1>6, <1>11, <1>12
<1> QED BY <1>8, <1>9, <1>10, <1>11, <1>12 DEF BatchStep

LEMMA OtherDelivery ==
  ASSUME NothingLost, WorkerTypeOK, SyncedInv, SinkInv,
         SharedStep \/ Poll \/ LeaveLoop \/ RetryBatch \/ NextPoll \/ FinishInitialSync
  PROVE  KeptIn(fate') /\ \A e \in dlq' : GoodEntry(e)
<1>1. CASE UNCHANGED sinkVars
  BY <1>1 DEF sinkVars, SinkInv
<1>2. CASE ReplayEntry
  <2>1. PICK e \in replay, r \in RowStates, applied \in BOOLEAN : Replayed(e, r, applied)
    BY <1>2 DEF ReplayEntry, Replayed
  <2>2. dlq' \subseteq dlq
    BY <2>1 DEF Replayed
  <2>3. CASE UNCHANGED fate
    BY <2>2, <2>3 DEF SinkInv
  <2>4. CASE e \in dlq /\ fate' = Mark(fate, {e.seq}, Fate(e.seq, e.full, e.method))
    <3>1. Fate(e.seq, e.full, e.method) = "delivered"
      BY <2>4 DEF SinkInv, GoodEntry, FaithfulEntry, Fate
    <3> QED BY <2>2, <2>4, <3>1, MarkKept DEF SinkInv, GoodFates
  <2> QED BY <2>1, <2>3, <2>4 DEF Replayed
<1>3. CASE Expire
  <2>1. PICK e \in dlq : dlq' = dlq \ {e} /\ fate' = Mark(fate, {e.seq}, "expired")
    BY <1>3 DEF Expire
  <2> QED BY <2>1, MarkKept DEF SinkInv, GoodFates
<1>4. CASE Poll
  <2>1. ~initSync /\ dlq' = dlq
    BY <1>4 DEF Poll, Receive, SyncedInv
  <2>2. PICK R, H, n : Receive(R, H, n) /\ H = {}
    BY <1>4, <2>1 DEF Poll, ActiveOnly
  <2>3. ForceSkipped(R) = {}
    BY <2>1 DEF ForceSkipped
  <2>4. fate' = Mark(Mark(fate, Ignored(R), "ignored"), {}, "unsynced")
    BY <2>2, <2>3 DEF Receive
  <2>5. KeptIn(Mark(fate, Ignored(R), "ignored"))
    BY MarkKept DEF SinkInv, GoodFates
  <2>6. KeptIn(fate')
    BY <2>4, <2>5 DEF KeptIn, Mark
  <2> QED BY <2>1, <2>6 DEF SinkInv
<1> QED BY <1>1, <1>2, <1>3, <1>4
        DEF SharedStep, Restart, StartAgain, Unreachable, LoadCheckpoint, ReplayEnds, Mutate, Stop, Crash,
            LeaveLoop, RetryBatch, NextPoll, FinishInitialSync

LEMMA DeliveryNext ==
  ASSUME NothingLost, IInv(TRUE), DeliveryInv, [Next]_vars
  PROVE  DeliveryInv'
<1>0. /\ WorkerTypeOK /\ CheckpointTypeOK /\ SourceType /\ SinkType /\ LocalType /\ RowsType
      /\ SyncedInv /\ SinkInv /\ SinkType'
  <2>1. WorkerTypeOK /\ WorkerTypeOK'
    BY IInvParts, ActionTypes
  <2>2. SinkType'
    BY <2>1 DEF WorkerTypeOK, TypeOK, SinkType
  <2>3. SyncedInv /\ SinkInv
    BY DEF DeliveryInv, SinkInv, KeptIn, GoodEntry
  <2> QED BY <2>1, <2>2, <2>3, TypeParts
<1>1. CASE UNCHANGED vars
  BY <1>1 DEF vars, ckptVars, worldVars, sinkVars, DeliveryInv, SyncedInv, FaithfulEntry,
              Faithful, Method, Live
<1>2. CASE Next
  <2>1. SyncedInv' /\ KeptIn(fate') /\ \A e \in dlq' : GoodEntry(e)
    <3>1. CASE BatchStep
      <4>1. ~initSync /\ SyncedInv'
        BY <1>0, <3>1, BatchSynced
      <4> QED BY <1>0, <3>1, <4>1, BatchDelivery
    <3>2. CASE SharedStep \/ Poll \/ LeaveLoop \/ RetryBatch \/ NextPoll \/ FinishInitialSync
      <4>1. SyncedInv'
        BY <1>0, <3>2, OtherSynced
      <4> QED BY <1>0, <3>2, <4>1, OtherDelivery
    <3> QED BY <1>2, <3>1, <3>2 DEF Next, WorkerStep, Environment, SharedStep, Batch
  <2>2. \A e \in dlq' : e.seq \in Seqs
    BY <1>0 DEF SinkType, DlqEntries
  <2>3. \A e \in dlq' : GoodEntry(e)'
    BY <1>0, <1>2, <2>1, <2>2, EntryStays, LogStep
  <2> QED BY <2>1, <2>3 DEF DeliveryInv, KeptIn, GoodEntry
<1> QED BY <1>1, <1>2

LEMMA DeliveryInit == NothingLost /\ Init => DeliveryInv
<1> SUFFICES ASSUME NothingLost, Init PROVE DeliveryInv
  OBVIOUS
<1>1. sg = [there |-> TRUE, seq |-> 0, done |-> TRUE] /\ ~initSync /\ pc = "down"
  BY DEF NothingLost, Init, WorkerInit, BatchInit, CheckpointInit
<1>2. dlq = {} /\ fate = [s \in Seqs |-> {}]
  BY DEF Init, WorkerInit, BatchInit
<1> QED BY <1>1, <1>2 DEF DeliveryInv, SyncedInv

LEMMA DeliveryAlways == ASSUME NothingLost PROVE Spec => []DeliveryInv
<1>1. Init => DeliveryInv
  BY DeliveryInit
<1>2. IInv(TRUE) /\ DeliveryInv /\ [Next]_vars => DeliveryInv'
  BY DeliveryNext
<1> QED BY <1>1, <1>2, IInvAlways, PTL DEF Spec

\* With bodies in the feed, the initial sync over and the checkpoint readable,
\* the checkpoint passes a change only when it was delivered with its body and
\* method, put in the queue so, or excluded by the settings, whatever the order
\* of crashes, stops, failed sends and failed saves (_process_changes_batch).
THEOREM CheckpointMeansDelivered ==
  ASSUME NothingLost
  PROVE  Spec => []CheckpointDelivered
<1>1. ASSUME IInv(TRUE), DeliveryInv
      PROVE  CheckpointDelivered
  <2> SUFFICES ASSUME NEW n \in Durable, NEW s \in DOMAIN log, s <= n
               PROVE  Honoured(s)
    BY DEF CheckpointDelivered
  <2>1. Accounted(s)
    BY <1>1 DEF IInv, CheckpointCovered, Covered, Durable
  <2>2. s \in Seqs
    BY <1>1, IInvParts, TypeParts, LogRange, JobAssumption DEF SourceType, Seqs
  <2>3. fate[s] \subseteq GoodFates
    BY <1>1, <2>2 DEF DeliveryInv
  <2> QED BY <2>1, <2>3 DEF Accounted, Honoured, GoodFates
<1> QED BY <1>1, IInvAlways, DeliveryAlways, PTL

\* Under the same settings every entry of the dead letter queue has the body
\* and the method a replay needs (result["_doc"], _dlq_write_inflight).
THEOREM QueueAlwaysKeeps ==
  ASSUME NothingLost
  PROVE  Spec => []QueueKeepsChange
<1>1. DeliveryInv => QueueKeepsChange
  BY DEF DeliveryInv, QueueKeepsChange
<1> QED BY <1>1, DeliveryAlways, PTL

-----------------------------------------------------------------------------
(* Types. *)

ConnType ==
  /\ feedType \in FeedTypes
  /\ phase \in {"catchup", "stream"}
  /\ conn \in BOOLEAN
  /\ asked \in Nat /\ pos \in Nat /\ final \in Nat
  /\ buffer \in SUBSET Seqs

LEMMA StreamTypeParts == StreamTypeOK <=> WorkerTypeOK /\ ConnType
BY DEF StreamTypeOK, ConnType

LEMMA StreamTypePartsNext == WorkerTypeOK' /\ ConnType' => StreamTypeOK'
BY DEF StreamTypeOK, ConnType

LEMMA ForgetStreamType == ConnType /\ ForgetStream /\ feedType' = feedType => ConnType'
<1> SUFFICES ASSUME ConnType, ForgetStream, feedType' = feedType  PROVE ConnType'
  OBVIOUS
<1>1. /\ phase' = "catchup" /\ conn' = FALSE
      /\ asked' = 0 /\ pos' = 0 /\ buffer' = {} /\ final' = 0
  BY DEF ForgetStream
<1> QED BY <1>1 DEF ConnType

LEMMA ConnUnchanged == ConnType /\ UNCHANGED <<feedType, streamVars>> => ConnType'
BY DEF ConnType, streamVars

\* The server sends what is in its log.
LEMMA ReadRowRange ==
  ASSUME StreamTypeOK, ReadRow
  PROVE  \E s \in Seqs : /\ pos < s /\ s <= Len(log) /\ pos' = s /\ buffer' = buffer \cup {s}
                         /\ \A t \in (pos + 1)..(s - 1) : ~Current(t)
<1>1. SourceType /\ pos \in Nat /\ Len(log) \in Nat
  BY TypeParts, LogRange DEF StreamTypeOK
<1>2. Len(log) <= MaxLog
  BY <1>1 DEF SourceType
<1>3. PICK s \in (pos + 1)..Len(log) :
        /\ \A t \in (pos + 1)..(s - 1) : ~Current(t)
        /\ pos' = s /\ buffer' = buffer \cup {s}
  BY DEF ReadRow
<1>4. s \in Seqs /\ pos < s /\ s <= Len(log)
  BY <1>1, <1>2, JobAssumption DEF Seqs
<1> QED BY <1>3, <1>4

\* The last of the rows in the buffer is one of them, if there is a last one.
LEMMA LastOfBuffer ==
  ASSUME NEW S \in SUBSET Nat, NEW n \in S, \A s \in S : s <= n
  PROVE  LastOf(S) = n
<1>1. \E s \in S : \A t \in S : t <= s
  OBVIOUS
<1>2. LastOf(S) \in S /\ \A t \in S : t <= LastOf(S)
  BY <1>1 DEF LastOf
<1>3. LastOf(S) \in Nat /\ n \in Nat /\ LastOf(S) <= n /\ n <= LastOf(S)
  BY <1>2
<1> QED BY <1>3

\* No failure is still to come when a closing message arrives with rows before
\* it: the flush of those may fail, and the cursor goes on all the same.
Undrained == "drained" \notin Faults \/ "websocket" \notin FeedTypes

\* What the closing message does to the buffer: empty, or a batch of it.
LastMessageEmpty(n) ==
  /\ since' = n /\ asked' = n /\ conn' = FALSE
  /\ UNCHANGED <<final, rows, last, got, res, have, unsaved, fate, pc, buffer>>
LastMessageBatch(n) ==
  /\ final' = n /\ buffer' = {}
  /\ rows' = buffer \ Ignored(buffer) /\ got' = TRUE
  /\ last' = LastOf(buffer)
  /\ res' = [s \in Seqs |-> IF s \in rows' THEN "todo" ELSE "new"]
  /\ have' = {} /\ unsaved' = 0
  /\ fate' = Mark(fate, Ignored(buffer), "ignored")
  /\ pc' = IF ~Job.sequential /\ \E s \in rows' : NeedsFetch(s)
           THEN "fetch" ELSE "work"
  /\ UNCHANGED <<since, asked, conn>>

LEMMA LastMessageCases ==
  ASSUME LastMessage
  PROVE  /\ pc = "poll" /\ conn /\ feedType = "websocket"
         /\ UNCHANGED <<log, out, dlq, initSync, ckptVars, stopping, replay, target,
                        feedType, phase, pos>>
         /\ \E n \in pos..Len(log) :
              /\ \A t \in (pos + 1)..n : ~Current(t)
              /\ \/ buffer = {} /\ LastMessageEmpty(n) /\ Fault("final")
                 \/ /\ buffer # {} /\ LastMessageBatch(n)
                    /\ Fault("drained") \/ LastFault("final")
BY DEF LastMessage, LastMessageEmpty, LastMessageBatch, Reading

\* Rows wait only while reading, whatever else happens.
TypeInv == StreamTypeOK /\ BufferInv

LEMMA TypeForget ==
  ASSUME TypeInv, WorkerTypeOK', ForgetStream, feedType' = feedType
  PROVE  TypeInv'
<1>1. ConnType'
  BY StreamTypeParts, ForgetStreamType DEF TypeInv
<1> QED BY <1>1, StreamTypePartsNext DEF TypeInv, BufferInv, ForgetStream

\* Steps that leave the stream alone, and those between two batches.
LEMMA TypeKept ==
  ASSUME TypeInv, WorkerTypeOK', UNCHANGED <<feedType, streamVars>>,
         pc # "poll" \/ pc' = "poll" \/ phase = "catchup"
  PROVE  TypeInv'
<1>1. ConnType'
  BY StreamTypeParts, ConnUnchanged DEF TypeInv
<1> QED BY <1>1, StreamTypePartsNext DEF TypeInv, BufferInv, streamVars

LEMMA TypeBetween ==
  ASSUME TypeInv, ConnType', BufferInv', pc' \in PCs, since' \in Nat, faults' \in Nat,
         ForgetBatch \/ UNCHANGED batchVars,
         UNCHANGED <<log, sinkVars, initSync, ckptVars, stopping, replay, target>>
  PROVE  TypeInv'
<1>1. WorkerTypeOK'
  BY StreamTypeParts, BetweenTypes DEF TypeInv
<1> QED BY <1>1, StreamTypePartsNext DEF TypeInv

LEMMA FaultNat ==
  ASSUME WorkerTypeOK, \E k : Fault(k) \/ LastFault(k) \/ NoFault
  PROVE  faults' \in Nat
BY TypeParts, FaultsAssumption DEF CheckpointTypeOK, Fault, LastFault, NoFault

LEMMA LastMessageTypes ==
  ASSUME TypeInv, LastMessage
  PROVE  TypeInv'
<1>0. /\ WorkerTypeOK /\ ConnType /\ BufferInv /\ StreamTypeOK
      /\ LocalType /\ SinkType /\ RowsType /\ SourceType /\ ReplayType /\ CheckpointTypeOK
      /\ Len(log) \in Nat /\ pos \in Nat
  BY StreamTypeParts, TypeParts, LogRange DEF TypeInv, ConnType
<1>1. /\ pc = "poll" /\ conn /\ feedType = "websocket"
      /\ UNCHANGED <<log, out, dlq, initSync, ckptVars, stopping, replay, target,
                     feedType, phase, pos>>
  BY LastMessageCases
<1>2. PICK n \in pos..Len(log) :
        \/ buffer = {} /\ LastMessageEmpty(n) /\ Fault("final")
        \/ /\ buffer # {} /\ LastMessageBatch(n)
           /\ Fault("drained") \/ LastFault("final")
  BY LastMessageCases
<1>3. n \in Nat
  BY <1>0, <1>2
<1>4. faults' \in Nat
  BY <1>0, <1>2, FaultNat
<1>5. CASE buffer = {} /\ LastMessageEmpty(n)
  <2>1. ConnType'
    BY <1>0, <1>1, <1>3, <1>5 DEF LastMessageEmpty, ConnType
  <2>2. BufferInv'
    <3>1. ~conn' /\ buffer' = {}
      BY <1>5 DEF LastMessageEmpty
    <3> QED BY <3>1 DEF BufferInv
  <2>3. since' = n /\ pc' = "poll" /\ UNCHANGED batchVars /\ UNCHANGED sinkVars
    BY <1>1, <1>5 DEF LastMessageEmpty, batchVars, sinkVars
  <2> QED BY <1>1, <1>3, <1>4, <2>1, <2>2, <2>3, TypeBetween DEF PCs
<1>6. CASE buffer # {} /\ LastMessageBatch(n)
  <2>1. ConnType'
    BY <1>0, <1>1, <1>3, <1>6 DEF LastMessageBatch, ConnType
  <2>2. BufferInv'
    BY <1>0, <1>1, <1>6 DEF LastMessageBatch, BufferInv
  <2>3. LastOf(buffer) = pos
    <3>1. buffer \in SUBSET Nat
      BY <1>0, JobAssumption DEF ConnType, Seqs
    <3> QED BY <1>0, <1>6, <3>1, LastOfBuffer DEF BufferInv
  <2>4. RowsType'
    <3>1. rows' \in SUBSET Seqs /\ last' \in Nat /\ got' = TRUE /\ have' = {} /\ unsaved' = 0
      BY <1>0, <1>6, <2>3 DEF LastMessageBatch, ConnType
    <3>2. res' \in [Seqs -> RowStates]
      BY <1>6 DEF LastMessageBatch, RowStates
    <3> QED BY <3>1, <3>2 DEF RowsType
  <2>5. LocalType'
    <3>1. pc' \in {"fetch", "work"} /\ since' = since
      BY <1>6 DEF LastMessageBatch
    <3> QED BY <1>0, <1>1, <3>1 DEF LocalType, PCs
  <2>6. SinkType'
    <3>1. fate' = Mark(fate, Ignored(buffer), "ignored") /\ "ignored" \in Fates
      BY <1>6 DEF LastMessageBatch, Fates
    <3> QED BY <1>0, <1>1, <3>1, MarkEffect DEF SinkType
  <2>7. WorkerTypeOK'
    BY <1>0, <1>1, <1>4, <2>4, <2>5, <2>6, CkptUnchanged, SourceUnchanged, ReplayUnchanged,
       TypePartsNext
  <2> QED BY <2>1, <2>2, <2>7, StreamTypePartsNext DEF TypeInv
<1> QED BY <1>2, <1>5, <1>6

LEMMA StreamTypes ==
  ASSUME TypeInv, [StreamNext]_svars
  PROVE  TypeInv'
<1>0. /\ WorkerTypeOK /\ ConnType /\ BufferInv /\ LocalType /\ ReplayType
      /\ since \in Nat /\ CheckpointTypeOK /\ faults \in Nat
  BY StreamTypeParts, TypeParts DEF TypeInv, LocalType, CheckpointTypeOK
<1>1. CASE Start
  <2>1. WorkerTypeOK'
    BY <1>0, <1>1, WorkerTypes DEF Start
  <2>2. pc # "poll" /\ UNCHANGED <<feedType, streamVars>>
    BY <1>1 DEF Start, Restart, Unreachable, LoadCheckpoint, ReplayEntry, ReplayEnds
  <2> QED BY <2>1, <2>2, TypeKept
<1>2. CASE \/ (Mutate \/ StartAgain \/ Stop \/ Expire) /\ UNCHANGED <<feedType, streamVars>>
           \/ UNCHANGED svars
  <2>1. WorkerTypeOK'
    BY <1>0, <1>2, WorkerTypes DEF svars
  <2>2. pc # "poll" \/ pc' = "poll"
    BY <1>2 DEF Mutate, StartAgain, Stop, Expire, svars, vars
  <2>3. UNCHANGED <<feedType, streamVars>>
    BY <1>2 DEF svars
  <2> QED BY <2>1, <2>2, <2>3, TypeKept
<1>3. CASE Crash /\ ForgetStream /\ UNCHANGED feedType
  BY <1>0, <1>3, WorkerTypes, TypeForget
<1>4. CASE StreamBatch
  <2>0. BatchStep /\ pc # "poll"
    BY <1>4 DEF StreamBatch, BatchStep, EmptyBatch, FetchDocs, FetchDocsStopped, EndSequential,
                EndParallel, HaltParallel, RaiseFromBatch, AllDone, TakeDoc, SkipRow,
                Turn, SendRow, SettleRow, HaltRow
  <2>1. ReplayType'
    BY <1>0, <1>4, ForgetWorkerTypes, ReplayUnchanged DEF StreamBatch
  <2>2. WorkerTypeOK'
    BY <1>0, <2>0, <2>1, BatchTypes
  <2> QED BY <1>4, <2>0, <2>2, TypeForget, TypeKept DEF StreamBatch
<1>5. CASE CatchUp
  <2>1. ReplayType'
    BY <1>0, <1>5, ReplayUnchanged DEF CatchUp
  <2>2. \E m \in since..Len(log) : Request(CatchUpActiveOnly, m)
    BY <1>5 DEF CatchUp, Request
  <2>3. WorkerTypeOK'
    BY <1>0, <2>1, <2>2, RequestTypes
  <2> QED BY <1>5, <2>3, TypeKept DEF CatchUp
<1>6. CASE CatchUpAgain \/ Connect
  <2>2. CASE CatchUpAgain
    <3>1. ConnType'
      BY <1>0, <2>2, ConnUnchanged DEF CatchUpAgain
    <3>2. BufferInv'
      BY <1>0, <2>2 DEF CatchUpAgain, BufferInv, streamVars
    <3> QED BY <1>0, <2>2, <3>1, <3>2, TypeBetween DEF CatchUpAgain, PCs, worldVars
  <2>3. CASE Connect
    <3>1. /\ phase = "stream" /\ conn' = TRUE /\ pos' = asked /\ buffer = {}
          /\ UNCHANGED <<vars, feedType, phase, asked, buffer, final>>
      BY <1>0, <2>3 DEF Connect, BufferInv
    <3>2. ConnType' /\ BufferInv'
      BY <1>0, <3>1 DEF ConnType, BufferInv
    <3> QED BY <1>0, <3>1, <3>2, TypesStutter, StreamTypePartsNext DEF TypeInv
  <2> QED BY <1>6, <2>2, <2>3
<1>7. CASE OpenStream
  <2>0. pc = "after" /\ UNCHANGED <<log, sinkVars, feedType>>
    BY <1>7 DEF OpenStream
  <2>1. CASE /\ IF initSync THEN Save(since, TRUE) ELSE UNCHANGED <<ckptVars, worldVars>>
             /\ initSync' = FALSE
             /\ pc' = "poll" /\ phase' = "stream" /\ asked' = since
             /\ ForgetBatch
             /\ UNCHANGED <<since, replay, target, conn, pos, buffer, final>>
    <3>1. ConnType' /\ BufferInv'
      BY <1>0, <2>0, <2>1 DEF ConnType, BufferInv
    <3>2. WorkerTypeOK'
      <4>1. CASE initSync
        BY <1>0, <2>0, <2>1, <4>1, FlagTypes, ReplayUnchanged DEF FlagSaved
      <4>2. CASE ~initSync
        BY <1>0, <2>0, <2>1, <4>2, BetweenTypes DEF PCs, worldVars, LocalType
      <4> QED BY <4>1, <4>2
    <3> QED BY <3>1, <3>2, StreamTypePartsNext DEF TypeInv
  <2>2. CASE /\ initSync /\ SaveRaises(since, TRUE)
             /\ Die /\ ForgetWorker /\ ForgetStream
    <3>1. WorkerTypeOK'
      BY <1>0, <2>0, <2>2, FlagTypes, ForgetWorkerTypes DEF FlagRaises
    <3> QED BY <2>0, <2>2, <3>1, TypeForget
  <2> QED BY <1>7, <2>1, <2>2 DEF OpenStream
<1>8. CASE RequestRaises \/ LeaveFeed
  <2>1. /\ End("down") \/ End("ended")
        /\ ForgetWorker /\ ForgetStream
        /\ UNCHANGED <<log, sinkVars, sg, fb, stopping, feedType>>
    BY <1>8 DEF RequestRaises, LeaveFeed, Die, worldVars
  <2>2. faults' \in Nat
    BY <1>0, <1>8 DEF RequestRaises, LeaveFeed, worldVars, Fault, NoFault
  <2>3. WorkerTypeOK'
    BY <1>0, <2>1, <2>2, EndTypes
  <2> QED BY <2>1, <2>3, TypeForget
<1>9. CASE ReadRow
  <2>1. PICK s \in Seqs : pos < s /\ pos' = s /\ buffer' = buffer \cup {s}
    BY <1>9, ReadRowRange DEF TypeInv
  <2>2. s \in Nat /\ pos \in Nat /\ \A t \in buffer : t \in Nat
    BY <1>0, JobAssumption DEF Seqs, ConnType
  <2>3. ConnType' /\ UNCHANGED vars
    BY <1>0, <1>9, <2>1, <2>2 DEF ReadRow, ConnType
  <2>4. BufferInv'
    BY <1>0, <1>9, <2>1, <2>2 DEF BufferInv, ReadRow, Reading, vars
  <2> QED BY <1>0, <2>3, <2>4, TypesStutter, StreamTypePartsNext DEF TypeInv
<1>10. CASE Flush
  <2>1. LastOf(buffer) \in Nat
    <3>1. buffer \in SUBSET Nat
      BY <1>0, JobAssumption DEF ConnType, Seqs
    <3> QED BY <1>0, <1>10, <3>1, LastOfBuffer DEF BufferInv, Flush
  <2>2. ReplayType'
    BY <1>0, <1>10, ReplayUnchanged DEF Flush
  <2>3. buffer \in SUBSET Seqs
    BY <1>0 DEF ConnType
  <2>4. WorkerTypeOK'
    BY <1>0, <1>10, <2>1, <2>2, <2>3, ReceiveTypeOK DEF Flush
  <2>5. ConnType' /\ BufferInv'
    BY <1>0, <1>10 DEF Flush, ConnType, BufferInv
  <2> QED BY <2>4, <2>5, StreamTypePartsNext DEF TypeInv
<1>11. CASE ReadOn \/ FlushFailed \/ FinalDone
  <2>0. buffer = {} /\ buffer' = {}
    BY <1>0, <1>11 DEF ReadOn, FlushFailed, FinalDone, BufferInv
  <2>1. ConnType' /\ BufferInv'
    <3>1. CASE ReadOn
      BY <1>0, <2>0, <3>1 DEF ReadOn, ConnType, BufferInv
    <3>2. CASE FlushFailed
      BY <1>0, <2>0, <3>2 DEF FlushFailed, ConnType, BufferInv
    <3>3. CASE FinalDone
      BY <1>0, <2>0, <3>3 DEF FinalDone, ConnType, BufferInv
    <3> QED BY <1>11, <3>1, <3>2, <3>3
  <2>2. since' \in Nat /\ pc' = "poll" /\ (ForgetBatch \/ UNCHANGED batchVars)
    BY <1>0, <1>11 DEF ReadOn, FlushFailed, FinalDone, ConnType
  <2>3. faults' \in Nat /\ UNCHANGED <<log, sinkVars, initSync, ckptVars, stopping, replay, target>>
    BY <1>0, <1>11 DEF ReadOn, FlushFailed, FinalDone, worldVars
  <2> QED BY <2>1, <2>2, <2>3, TypeBetween DEF PCs
<1>12. CASE Closed \/ ReadError \/ FetchError
  <2>0. buffer' = {}
    BY <1>0, <1>12 DEF Closed, ReadError, FetchError, BufferInv
  <2>1. ConnType' /\ BufferInv'
    <3>1. CASE Closed
      BY <1>0, <2>0, <3>1 DEF Closed, ConnType, BufferInv
    <3>2. CASE ReadError
      BY <1>0, <2>0, <3>2 DEF ReadError, ConnType, BufferInv
    <3>3. CASE FetchError
      BY <1>0, <2>0, <3>3 DEF FetchError, ConnType, BufferInv
    <3> QED BY <1>12, <3>1, <3>2, <3>3
  <2>2. since' = since /\ pc' = "poll" /\ (ForgetBatch \/ UNCHANGED batchVars)
    BY <1>12 DEF Closed, ReadError, FetchError, Reading
  <2>3. faults' \in Nat /\ UNCHANGED <<log, sinkVars, initSync, ckptVars, stopping, replay, target>>
    BY <1>0, <1>12 DEF Closed, ReadError, FetchError, Fault
  <2> QED BY <1>0, <2>1, <2>2, <2>3, TypeBetween DEF PCs
<1>13. CASE LastMessage
  BY <1>13, LastMessageTypes
<1> QED
  BY <1>1, <1>2, <1>3, <1>4, <1>5, <1>6, <1>7, <1>8, <1>9, <1>10, <1>11, <1>12, <1>13
     DEF StreamNext, StreamStep, StreamEnvironment

LEMMA InitTypeInv == StreamInit => TypeInv
<1> SUFFICES ASSUME StreamInit PROVE TypeInv
  OBVIOUS
<1>1. WorkerTypeOK
  BY InitTypes DEF StreamInit
<1>2. ConnType
  BY DEF StreamInit, ConnType
<1> QED BY <1>1, <1>2, StreamTypeParts DEF TypeInv, BufferInv, StreamInit

\* Every state of a stream has the types of its variables, whatever the server
\* sends, drops or closes.
THEOREM StreamTypeCorrect == StreamSpec => []StreamTypeOK
<1>1. TypeInv /\ [StreamNext]_svars => TypeInv'
  BY StreamTypes
<1>2. TypeInv => StreamTypeOK
  BY DEF TypeInv
<1> QED BY <1>1, <1>2, InitTypeInv, PTL DEF StreamSpec

-----------------------------------------------------------------------------
(* What a stream adds to the invariant of the worker, step by step.  A step  *)
(* keeps what the worker has dealt with and what was covered.                *)

StreamPart(fwd) == BufferInv /\ ConnInv /\ ReadInv /\ FinalInv /\ ForwardInv(fwd)

LEMMA StreamInvParts ==
  ASSUME NEW fwd \in BOOLEAN
  PROVE  StreamInv(fwd) <=> StreamTypeOK /\ (Limbo \/ IInv(fwd)) /\ StreamPart(fwd)
BY DEF StreamInv, StreamPart

LEMMA StreamFacts ==
  ASSUME StreamTypeOK
  PROVE  /\ WorkerTypeOK /\ since \in Nat /\ asked \in Nat /\ pos \in Nat /\ final \in Nat
         /\ sg.seq \in Nat /\ fb.seq \in Nat /\ faults \in Nat
         /\ buffer \in SUBSET Seqs /\ buffer \in SUBSET Nat
         /\ phase \in {"catchup", "stream"} /\ conn \in BOOLEAN
BY StreamTypeParts, TypeParts, JobAssumption
   DEF ConnType, LocalType, CheckpointTypeOK, Stored, Seqs

LEMMA CoveredKept ==
  ASSUME WorkerTypeOK, Grows, AccountKept
  PROVE  \A n \in Nat : Covered(n) => Covered(n)'
<1> SUFFICES ASSUME NEW n \in Nat, Covered(n)  PROVE Covered(n)'
  OBVIOUS
<1>1. n <= Len(log)'
  BY DEF Covered, Grows
<1>2. ASSUME NEW s \in (DOMAIN log)', s <= n
      PROVE  Accounted(s)'
  <2>1. s \in DOMAIN log
    BY <1>2 DEF Covered, Grows
  <2> QED BY <1>2, <2>1 DEF Covered, AccountKept
<1> QED BY <1>1, <1>2 DEF Covered

\* An overwritten change stays overwritten.
LEMMA SupersededKept ==
  ASSUME Grows, NEW s \in DOMAIN log, ~Current(s)
  PROVE  ~Current(s)'
<1>1. PICK t \in (s + 1)..Len(log) : log[t].doc = log[s].doc
  BY DEF Current, Doc
<1>2. t \in (s + 1)..Len(log)' /\ log'[t] = log[t] /\ log'[s] = log[s]
  BY <1>1 DEF Grows
<1> QED BY <1>1, <1>2 DEF Current, Doc

\* What follows about the stream once the worker has ended.
LEMMA Forgotten ==
  ASSUME NEW fwd \in BOOLEAN, StreamTypeOK, Grows, AccountKept, ForgetStream
  PROVE  StreamPart(fwd)'
<1>1. Covered(0)'
  BY StreamFacts, CoveredZero, CoveredKept
<1>2. /\ phase' = "catchup" /\ ~conn' /\ asked' = 0 /\ pos' = 0
      /\ buffer' = {} /\ final' = 0
  BY DEF ForgetStream
<1>3. BufferInv'
  BY <1>2 DEF BufferInv
<1>4. ConnInv'
  BY <1>1, <1>2 DEF ConnInv
<1>5. ReadInv' /\ FinalInv' /\ ForwardInv(fwd)'
  BY <1>2 DEF ReadInv, FinalInv, ForwardInv
<1> QED BY <1>3, <1>4, <1>5 DEF StreamPart

\* A step of the worker while it catches up.
LEMMA CatchingUp ==
  ASSUME NEW fwd \in BOOLEAN, StreamTypeOK, StreamPart(fwd), phase = "catchup",
         UNCHANGED <<feedType, streamVars>>,
         ~stopping' => Covered(asked)',
         pc' \in {"down", "ended", "boot", "replay"} => asked = 0
  PROVE  StreamPart(fwd)'
<1>1. /\ ~conn /\ buffer = {} /\ final = 0
      /\ phase' = phase /\ conn' = conn /\ asked' = asked /\ buffer' = buffer /\ final' = final
  BY DEF StreamPart, BufferInv, ConnInv, streamVars
<1>2. BufferInv'
  BY <1>1 DEF BufferInv
<1>3. ConnInv'
  BY <1>1 DEF ConnInv
<1>4. ReadInv' /\ FinalInv' /\ ForwardInv(fwd)'
  BY <1>1 DEF ReadInv, FinalInv, ForwardInv
<1> QED BY <1>2, <1>3, <1>4 DEF StreamPart

\* A step that the worker and its stream do not notice.
LEMMA Unnoticed ==
  ASSUME NEW fwd \in BOOLEAN, StreamTypeOK, StreamPart(fwd), Grows, AccountKept,
         UNCHANGED <<feedType, streamVars, pc, since, last, res>>,
         stopping => stopping', faults' = faults \/ faults < MaxFaults
  PROVE  StreamPart(fwd)'
<1>0. /\ BufferInv /\ ConnInv /\ ReadInv /\ FinalInv /\ ForwardInv(fwd)
      /\ StreamTypeOK /\ asked \in Nat /\ pos \in Nat /\ final \in Nat
      /\ UNCHANGED <<feedType, phase, conn, asked, pos, buffer, final>>
  BY StreamFacts DEF StreamPart, streamVars
<1>1. BufferInv'
  BY <1>0 DEF BufferInv
<1>2. ConnInv'
  BY <1>0, StreamFacts, CoveredKept DEF ConnInv
<1>3. ReadInv'
  <2>1. SUFFICES ASSUME conn
                 PROVE  /\ pos <= Len(log)'
                        /\ pc = "poll" => \A s \in (DOMAIN log)' :
                                             s <= pos => Accounted(s)' \/ s \in buffer
                        /\ pc \in {"empty", "fetch", "work", "after"} => last = pos
                        /\ final # 0 => /\ pos <= final /\ final <= Len(log)'
                                        /\ \A t \in (pos + 1)..final : ~Current(t)'
    BY <1>0 DEF ReadInv
  <2>2. /\ pos <= Len(log)
        /\ pc = "poll" => \A s \in DOMAIN log : s <= pos => Accounted(s) \/ s \in buffer
        /\ pc \in {"empty", "fetch", "work", "after"} => last = pos
        /\ final # 0 => /\ pos <= final /\ final <= Len(log)
                        /\ \A t \in (pos + 1)..final : ~Current(t)
    BY <1>0, <2>1 DEF ReadInv
  <2>3. pos <= Len(log)' /\ (final <= Len(log) => final <= Len(log)')
    BY <1>0, <2>2 DEF Grows
  <2>4. ASSUME pc = "poll", NEW s \in (DOMAIN log)', s <= pos
        PROVE  Accounted(s)' \/ s \in buffer
    <3>1. s \in DOMAIN log
      BY <1>0, <2>2, <2>4 DEF Grows
    <3> QED BY <2>2, <2>4, <3>1 DEF AccountKept
  <2>5. ASSUME final # 0, NEW t \in (pos + 1)..final
        PROVE  ~Current(t)'
    <3>1. t \in DOMAIN log
      BY <1>0, <2>2, <2>5 DEF Grows
    <3> QED BY <2>2, <2>5, <3>1, SupersededKept
  <2> QED BY <2>2, <2>3, <2>4, <2>5
<1>4. FinalInv'
  <2>1. SUFFICES ASSUME final # 0  PROVE FinalInv'
    BY <1>0 DEF FinalInv
  <2>2. faults' = faults /\ faults = MaxFaults
    BY <1>0, <2>1, StreamFacts, FaultsAssumption DEF FinalInv
  <2> QED BY <1>0, <2>1, <2>2 DEF FinalInv
<1>5. ForwardInv(fwd)'
  BY <1>0 DEF ForwardInv
<1> QED BY <1>1, <1>2, <1>3, <1>4, <1>5 DEF StreamPart

-----------------------------------------------------------------------------
(* The batch of a stream. *)

\* A batch halts for a row whose output is down, which takes a failure, or for
\* one that a stop broke off.
LEMMA BatchMoves ==
  ASSUME WorkerTypeOK, BatchStep
  PROVE  /\ pc \in {"empty", "fetch", "work"} /\ pc' \in {"work", "after", "failed", "down"}
         /\ log' = log /\ stopping' = stopping
         /\ faults' = faults \/ faults < MaxFaults
         /\ pc' \in {"work", "after"} => last' = last
         /\ pc' \in {"work", "after"} => \A s \in Seqs :
              /\ res'[s] = "down" => res[s] = "down" \/ faults < MaxFaults
              /\ res'[s] = "shut" => res[s] = "shut" \/ stopping
         /\ pc' = "failed" => \E s \in Seqs : res[s] \in {"down", "shut"}
<1>0. /\ CheckpointTypeOK /\ RowsType /\ last \in Nat
      /\ res \in [Seqs -> RowStates] /\ rows \in SUBSET Seqs /\ ck.done \in BOOLEAN
      /\ Seqs \subseteq Nat
  BY TypeParts, JobAssumption DEF RowsType, CheckpointTypeOK, Seqs
<1>1. ASSUME NEW n \in Nat, Save(n, ck.done) \/ SaveRaises(n, ck.done)
      PROVE  stopping' = stopping /\ (faults' = faults \/ faults < MaxFaults)
  BY <1>1 DEF Save, SaveStored, SaveFellBack, PutFails, SaveRaises, Fault, NoFault
<1>2. CASE EmptyBatch
  BY <1>0, <1>1, <1>2 DEF EmptyBatch, Die, End, batchVars, worldVars
<1>3. CASE FetchDocs \/ FetchDocsStopped
  BY <1>3 DEF FetchDocs, FetchDocsStopped, Die, End, batchVars, worldVars, Fault, NoFault
<1>4. CASE EndSequential
  BY <1>0, <1>1, <1>4 DEF EndSequential, Die, End, batchVars, worldVars
<1>5. CASE EndParallel
  BY <1>0, <1>1, <1>5 DEF EndParallel, AllDone, Die, End, batchVars, worldVars
<1>6. CASE HaltParallel
  <2>1. \E s \in Raised \ InState({"err"}) : TRUE
    BY <1>6 DEF HaltParallel
  <2>2. \E s \in Seqs : res[s] \in {"down", "shut"}
    BY <1>0, <2>1 DEF Raised, InState
  <2> QED BY <1>6, <2>2 DEF HaltParallel, AllDone, worldVars
<1>7. CASE RaiseFromBatch
  BY <1>7 DEF RaiseFromBatch, AllDone, Die, End, worldVars
<1>8. ASSUME NEW s \in Seqs, TakeDoc(s)
      PROVE  /\ pc = "work" /\ UNCHANGED <<pc, log, stopping, last, faults>>
             /\ res' = [res EXCEPT ![s] = "held"]
  BY <1>8 DEF TakeDoc, Turn, RowMoves
<1>9. ASSUME NEW s \in Seqs, SkipRow(s)
      PROVE  /\ pc = "work" /\ UNCHANGED <<pc, log, stopping, last>>
             /\ faults' = faults \/ faults < MaxFaults
             /\ res' = [res EXCEPT ![s] = "ok"]
  BY <1>9 DEF SkipRow, Turn, RowMoves, Fault, NoFault
<1>10. ASSUME NEW s \in Seqs, SendRow(s)
       PROVE  /\ pc = "work" /\ UNCHANGED <<pc, log, stopping, last>>
              /\ faults' = faults \/ faults < MaxFaults
              /\ \E r \in RowStates : /\ res' = [res EXCEPT ![s] = r]
                                      /\ r = "down" => faults < MaxFaults
                                      /\ r = "shut" => stopping
  <2>1. PICK r \in RowStates, applied \in BOOLEAN : Send(Doc(s), r, applied) /\ RowMoves(s, r)
    BY <1>10 DEF SendRow
  <2>2. faults' = faults \/ faults < MaxFaults
    BY <2>1 DEF Send, Fault, NoFault
  <2>3. r = "down" => faults < MaxFaults
    BY <2>1 DEF Send, Fault, DataErrors, Undelivered
  <2>4. r = "shut" => stopping
    BY <2>1 DEF Send, DataErrors, Undelivered, Interrupted
  <2> QED BY <1>10, <2>1, <2>2, <2>3, <2>4 DEF SendRow, RowMoves
<1>11. ASSUME NEW s \in Seqs, SettleRow(s)
       PROVE  /\ pc = "work" /\ log' = log /\ stopping' = stopping
              /\ faults' = faults \/ faults < MaxFaults
              /\ \/ UNCHANGED <<pc, last>> /\ res' = [res EXCEPT ![s] = "settled"]
                 \/ pc' = "down"
  BY <1>0, <1>1, <1>11 DEF SettleRow, worldVars, Die, End
<1>12. ASSUME NEW s \in Seqs, HaltRow(s)
       PROVE  /\ pc = "work" /\ pc' = "failed"
              /\ UNCHANGED <<log, stopping, faults>> /\ res[s] \in {"down", "shut"}
  BY <1>12 DEF HaltRow, worldVars
<1>13. ASSUME NEW s \in Seqs, NEW r, res' = [res EXCEPT ![s] = r],
              r = "down" => faults < MaxFaults, r = "shut" => stopping
       PROVE  \A u \in Seqs : /\ res'[u] = "down" => res[u] = "down" \/ faults < MaxFaults
                              /\ res'[u] = "shut" => res[u] = "shut" \/ stopping
  BY <1>0, <1>13
<1>14. ASSUME NEW s \in Seqs, TakeDoc(s) \/ SkipRow(s) \/ SendRow(s) \/ SettleRow(s) \/ HaltRow(s)
       PROVE  /\ pc \in {"empty", "fetch", "work"} /\ pc' \in {"work", "after", "failed", "down"}
              /\ log' = log /\ stopping' = stopping
              /\ faults' = faults \/ faults < MaxFaults
              /\ pc' \in {"work", "after"} => last' = last
              /\ pc' \in {"work", "after"} => \A u \in Seqs :
                   /\ res'[u] = "down" => res[u] = "down" \/ faults < MaxFaults
                   /\ res'[u] = "shut" => res[u] = "shut" \/ stopping
              /\ pc' = "failed" => \E u \in Seqs : res[u] \in {"down", "shut"}
  <2>1. CASE TakeDoc(s)
    BY <1>8, <1>13, <2>1
  <2>2. CASE SkipRow(s)
    BY <1>9, <1>13, <2>2
  <2>3. CASE SendRow(s)
    BY <1>10, <1>13, <2>3
  <2>4. CASE SettleRow(s)
    BY <1>11, <1>13, <2>4
  <2>5. CASE HaltRow(s)
    BY <1>12, <2>5
  <2> QED BY <1>14, <2>1, <2>2, <2>3, <2>4, <2>5
<1> QED BY <1>2, <1>3, <1>4, <1>5, <1>6, <1>7, <1>14 DEF BatchStep

\* A batch that halted has no rows any more.
LEMMA HaltedRows ==
  ASSUME WorkerTypeOK, BatchStep, pc' = "failed"
  PROVE  \A s \in Seqs : res'[s] = "new"
<1>1. ForgetBatch
  BY DEF BatchStep, EmptyBatch, FetchDocs, FetchDocsStopped, EndSequential, EndParallel,
         HaltParallel, RaiseFromBatch, AllDone, TakeDoc, SkipRow, Turn, SendRow, RowMoves,
         SettleRow, HaltRow, Die, End
<1> QED BY <1>1 DEF ForgetBatch, Rows

LEMMA BatchInStream ==
  ASSUME NEW fwd \in BOOLEAN, StreamTypeOK, StreamPart(fwd), Grows, AccountKept, StreamBatch
  PROVE  StreamPart(fwd)'
<1>0. /\ BufferInv /\ ConnInv /\ ReadInv /\ FinalInv /\ WorkerTypeOK
      /\ asked \in Nat /\ pos \in Nat /\ final \in Nat /\ phase \in {"catchup", "stream"}
      /\ faults \in Nat /\ feedType' = feedType
  BY StreamFacts DEF StreamPart, StreamBatch
<1>1. /\ pc \in {"empty", "fetch", "work"} /\ pc' \in {"work", "after", "failed", "down"}
      /\ log' = log /\ stopping' = stopping
      /\ faults' = faults \/ faults < MaxFaults
      /\ pc' \in {"work", "after"} => last' = last
      /\ pc' \in {"work", "after"} => \A s \in Seqs :
           /\ res'[s] = "down" => res[s] = "down" \/ faults < MaxFaults
           /\ res'[s] = "shut" => res[s] = "shut" \/ stopping
      /\ pc' = "failed" => \E s \in Seqs : res[s] \in {"down", "shut"}
  BY <1>0, BatchMoves DEF StreamBatch
<1>2. CASE pc' = "down"
  BY <1>2, Forgotten DEF StreamBatch
<1>3. CASE pc' # "down" /\ phase = "catchup"
  <2>1. ~stopping' => Covered(asked)'
    <3>1. asked' = asked
      BY <1>3 DEF StreamBatch, streamVars
    <3> QED BY <1>0, <1>1, <3>1, CoveredKept DEF ConnInv
  <2> QED BY <1>0, <1>1, <1>3, <2>1, CatchingUp DEF StreamBatch
<1>4. CASE pc' # "down" /\ phase = "stream"
  <2>0. UNCHANGED <<phase, conn, asked, pos, buffer, final>>
    BY <1>4 DEF StreamBatch, streamVars
  <2>1. BufferInv'
    BY <1>0, <1>1, <2>0 DEF BufferInv
  <2>2. ConnInv'
    BY <1>0, <1>1, <1>4, <2>0, CoveredKept DEF ConnInv
  <2>3. ReadInv'
    <3>1. SUFFICES ASSUME conn  PROVE ReadInv'
      BY <2>0 DEF ReadInv
    <3>2. /\ last = pos /\ pos <= Len(log)
          /\ final # 0 => /\ pos <= final /\ final <= Len(log)
                          /\ \A t \in (pos + 1)..final : ~Current(t)
      BY <1>0, <1>1, <3>1 DEF ReadInv
    <3>3. \A t \in (pos + 1)..final : ~Current(t) => ~Current(t)'
      BY <1>1 DEF Current, Doc
    <3>4. pc' \in {"work", "after", "failed"}
      BY <1>1, <1>4
    <3> QED BY <1>1, <2>0, <3>2, <3>3, <3>4 DEF ReadInv
  <2>4. FinalInv'
    <3>1. SUFFICES ASSUME final # 0  PROVE FinalInv'
      BY <2>0 DEF FinalInv
    <3>2. /\ feedType = "websocket" /\ faults = MaxFaults
          /\ \A s \in Seqs : res[s] # "down" /\ (res[s] = "shut" => stopping)
      BY <1>0, <3>1 DEF FinalInv
    <3>3. faults' = faults /\ ~(faults < MaxFaults)
      BY <1>0, <1>1, <3>2, FaultsAssumption
    <3>4. pc' = "failed" => stopping
      BY <1>1, <3>2
    <3>5. \A s \in Seqs : res'[s] # "down" /\ (res'[s] = "shut" => stopping)
      <4>1. CASE pc' \in {"work", "after"}
        BY <1>1, <3>2, <3>3, <4>1
      <4>2. CASE pc' = "failed"
        BY <1>0, <1>1, <3>4, <4>2, HaltedRows DEF StreamBatch
      <4> QED BY <1>1, <1>4, <4>1, <4>2
    <3> QED BY <1>0, <1>1, <1>4, <2>0, <3>2, <3>3, <3>4, <3>5 DEF FinalInv
  <2>5. ForwardInv(fwd)'
    BY <1>1 DEF ForwardInv
  <2> QED BY <2>1, <2>2, <2>3, <2>4, <2>5 DEF StreamPart
<1> QED BY <1>0, <1>2, <1>3, <1>4

-----------------------------------------------------------------------------
(* The steps of a stream. *)

\* What a step must establish.
Streamed(fwd) ==
  /\ StreamPart(fwd)'
  /\ Limbo' \/ (CursorInv(fwd)' /\ BatchInv(fwd)' /\ OrderInv(fwd)')
  /\ fwd => sg'.seq >= sg.seq

LEMMA SafeStreamed ==
  ASSUME NEW fwd \in BOOLEAN, Safe(fwd), StreamPart(fwd)'  PROVE Streamed(fwd)
BY DEF Safe, Streamed

LEMMA SafeKeeps == ASSUME NEW fwd \in BOOLEAN, Safe(fwd)  PROVE AccountKept
BY DEF Safe

\* The cursor goes on, between batches, to a number that is covered.
LEMMA CursorForward ==
  ASSUME NEW fwd \in BOOLEAN, IInv(fwd), NEW n \in Nat, Covered(n), since' = n,
         fwd => since <= n, UNCHANGED <<log, sinkVars, ckptVars>>, (~InBatch)'
  PROVE  Safe(fwd)
<1>0. /\ WorkerTypeOK /\ CursorInv(fwd) /\ Grows /\ FateKept /\ QueueKept
      /\ since \in Nat /\ sg.seq \in Nat /\ fb.seq \in Nat
  BY IInvParts, SameLogGrows, SinkKept, SeqNat, TypeParts DEF CheckpointTypeOK, Stored
<1>1. \A k \in Nat : Covered(k) => Covered(k)'
  BY <1>0, Kept
<1>2. CheckpointCovered' /\ Covered(since)'
  BY <1>0, <1>1 DEF CursorInv, CheckpointCovered, ckptVars
<1>3. RevInv(fwd)'
  BY <1>0 DEF CursorInv, RevInv, ckptVars
<1> QED BY <1>0, <1>2, <1>3, OutsideNext, Kept, SeqNat DEF Safe, CursorInv, ckptVars

LEMMA OpenStreamSafe ==
  ASSUME NEW fwd \in BOOLEAN, StreamInv(fwd), WorkerTypeOK', OpenStream
  PROVE  Streamed(fwd)
<1>0. /\ StreamTypeOK /\ StreamPart(fwd) /\ WorkerTypeOK /\ IInv(fwd) /\ Grows
      /\ pc = "after" /\ phase = "catchup" /\ UNCHANGED <<log, sinkVars, feedType>>
  BY StreamInvParts, StreamFacts, SameLogGrows DEF OpenStream, Limbo
<1>1. CASE /\ IF initSync THEN Save(since, TRUE) ELSE UNCHANGED <<ckptVars, worldVars>>
           /\ initSync' = FALSE
           /\ pc' = "poll" /\ phase' = "stream" /\ asked' = since
           /\ ForgetBatch
           /\ UNCHANGED <<since, replay, target, conn, pos, buffer, final>>
  <2>1. Safe(fwd)
    <3>1. CASE initSync
      BY <1>0, <1>1, <3>1, FlagSafe DEF FlagSaved
    <3>2. CASE ~initSync
      BY <1>0, <1>1, <3>2, SinkKept, QuietStep DEF InBatch
    <3> QED BY <3>1, <3>2
  <2>2. Covered(asked)'
    BY <1>1, <2>1 DEF Safe, CursorInv, Covered, Accounted, InQueue, Current
  <2>3. ~conn' /\ buffer' = {} /\ final' = 0
    BY <1>0, <1>1 DEF StreamPart, BufferInv, ConnInv
  <2>4. BufferInv' /\ ConnInv' /\ ReadInv' /\ FinalInv'
    BY <1>1, <2>2, <2>3 DEF BufferInv, ConnInv, ReadInv, FinalInv
  <2>5. ForwardInv(fwd)'
    BY <1>0, <1>1, <2>3, StreamFacts DEF ForwardInv
  <2> QED BY <2>1, <2>4, <2>5, SafeStreamed DEF StreamPart
<1>2. CASE /\ initSync /\ SaveRaises(since, TRUE)
           /\ Die /\ ForgetWorker /\ ForgetStream
  <2>1. Safe(fwd)
    BY <1>0, <1>2, FlagSafe DEF FlagRaises
  <2> QED BY <1>0, <1>2, <2>1, Forgotten, SafeKeeps, SafeStreamed
<1> QED BY <1>1, <1>2 DEF OpenStream

LEMMA ConnectSafe ==
  ASSUME NEW fwd \in BOOLEAN, StreamInv(fwd), WorkerTypeOK', Connect
  PROVE  Streamed(fwd)
<1>0. /\ StreamTypeOK /\ StreamPart(fwd) /\ WorkerTypeOK /\ IInv(fwd)
      /\ pc = "poll" /\ phase = "stream" /\ ~conn /\ ~stopping
      /\ UNCHANGED <<vars, feedType, phase, asked, buffer, final>>
      /\ conn' = TRUE /\ pos' = asked
  BY StreamInvParts, StreamFacts DEF Connect, Limbo
<1>1. Safe(fwd)
  BY <1>0, WorkerSafe
<1>2. /\ buffer = {} /\ final = 0 /\ Covered(asked)
  BY <1>0 DEF StreamPart, BufferInv, ConnInv
<1>3. UNCHANGED <<log, pc, since, stopping>> /\ Covered(asked)'
  <2>1. UNCHANGED log
    BY <1>0 DEF vars
  <2> QED BY <1>0, <1>1, <1>2, <2>1, SafeKeeps, SameLogGrows, StreamFacts, CoveredKept
          DEF vars, worldVars
<1>4. BufferInv' /\ ConnInv' /\ FinalInv'
  BY <1>0, <1>2, <1>3 DEF BufferInv, ConnInv, FinalInv
<1>5. ReadInv'
  BY <1>0, <1>2, <1>3 DEF ReadInv, Covered
<1>6. ForwardInv(fwd)'
  BY <1>0, <1>2, <1>3 DEF StreamPart, ForwardInv
<1> QED BY <1>1, <1>4, <1>5, <1>6, SafeStreamed DEF StreamPart

LEMMA ReadRowSafe ==
  ASSUME NEW fwd \in BOOLEAN, StreamInv(fwd), WorkerTypeOK', ReadRow
  PROVE  Streamed(fwd)
<1>0. /\ StreamTypeOK /\ StreamPart(fwd) /\ WorkerTypeOK /\ IInv(fwd)
      /\ pc = "poll" /\ conn
      /\ UNCHANGED <<vars, feedType, phase, conn, asked, final>>
      /\ pos \in Nat /\ since \in Nat /\ buffer \in SUBSET Nat
  BY StreamInvParts, StreamFacts DEF ReadRow, Reading, Limbo
<1>1. Safe(fwd)
  BY <1>0, WorkerSafe
<1>2. PICK s \in Seqs : /\ pos < s /\ s <= Len(log) /\ pos' = s /\ buffer' = buffer \cup {s}
                        /\ \A t \in (pos + 1)..(s - 1) : ~Current(t)
  BY <1>0, ReadRowRange
<1>3. s \in Nat /\ DOMAIN log \subseteq Nat
  BY <1>0, LogRange, JobAssumption DEF Seqs
<1>4. UNCHANGED <<log, pc, since, stopping>> /\ Grows /\ AccountKept
  BY <1>0, <1>1, SafeKeeps, SameLogGrows DEF vars, worldVars
<1>5. /\ final = 0 /\ phase = "stream" /\ (~stopping => Covered(asked)')
      /\ \A t \in buffer : t <= pos
  BY <1>0, <1>4, StreamFacts, CoveredKept DEF StreamPart, BufferInv, ConnInv
<1>6. BufferInv' /\ ConnInv' /\ FinalInv'
  BY <1>0, <1>2, <1>3, <1>4, <1>5 DEF BufferInv, ConnInv, FinalInv
<1>7. ReadInv'
  <2>1. ASSUME NEW t \in DOMAIN log, t <= s
        PROVE  Accounted(t)' \/ t \in buffer'
    <3>1. CASE t <= pos
      BY <1>0, <1>2, <1>4, <3>1 DEF StreamPart, ReadInv, AccountKept
    <3>2. CASE t \in (pos + 1)..(s - 1)
      BY <1>2, <1>4, <3>2, <2>1 DEF AccountKept, Accounted
    <3>3. CASE t = s
      BY <1>2, <3>3
    <3> QED BY <1>0, <1>3, <2>1, <3>1, <3>2, <3>3
  <2> QED BY <1>0, <1>2, <1>4, <1>5, <2>1 DEF ReadInv
<1>8. ForwardInv(fwd)'
  <2>1. SUFFICES ASSUME fwd  PROVE since <= asked /\ since <= s /\ \A t \in buffer' : since < t
    BY <1>0, <1>2, <1>4 DEF ForwardInv
  <2>2. since <= asked /\ since <= pos /\ \A t \in buffer : since < t
    BY <1>0, <1>5, <2>1 DEF StreamPart, ForwardInv
  <2> QED BY <1>0, <1>2, <1>3, <2>2
<1> QED BY <1>1, <1>6, <1>7, <1>8, SafeStreamed DEF StreamPart

\* The buffer becomes a batch that ends where reading is.
LEMMA FlushSafe ==
  ASSUME NEW fwd \in BOOLEAN, StreamInv(fwd), WorkerTypeOK', Flush
  PROVE  Streamed(fwd)
<1>0. /\ StreamTypeOK /\ StreamPart(fwd) /\ WorkerTypeOK /\ IInv(fwd)
      /\ pc = "poll" /\ conn /\ buffer # {} /\ buffer' = {}
      /\ Receive(buffer, {}, LastOf(buffer))
      /\ UNCHANGED <<feedType, phase, conn, asked, pos, final>>
      /\ pos \in Nat /\ since \in Nat /\ buffer \in SUBSET Nat /\ buffer \in SUBSET Seqs
  BY StreamInvParts, StreamFacts DEF Flush, Reading, Limbo
<1>1. /\ phase = "stream" /\ final = 0 /\ pos <= Len(log)
      /\ pos \in buffer /\ \A s \in buffer : s <= pos
      /\ \A s \in DOMAIN log : s <= pos => Accounted(s) \/ s \in buffer
  BY <1>0, StreamFacts DEF StreamPart, BufferInv, ConnInv, ReadInv
<1>2. fwd => since <= asked /\ since <= pos /\ \A s \in buffer : since < s
  BY <1>0, <1>1 DEF StreamPart, ForwardInv
<1>3. LastOf(buffer) = pos
  BY <1>0, <1>1, LastOfBuffer
<1>4. Safe(fwd)
  <2>1. fwd => since <= pos /\ \A s \in buffer : since <= s
    BY <1>0, <1>2
  <2>2. Receive(buffer, {}, pos)
    BY <1>0, <1>3
  <2> QED BY <1>0, <1>1, <2>1, <2>2, ReceiveSafe
<1>5. /\ last' = pos /\ pc' \in {"fetch", "work"}
      /\ UNCHANGED <<log, since, stopping>>
  BY <1>0, <1>3 DEF Receive, worldVars
<1>6. ~stopping => Covered(asked)'
  BY <1>0, <1>4, <1>5, SafeKeeps, SameLogGrows, StreamFacts, CoveredKept
     DEF StreamPart, ConnInv
<1>7. BufferInv' /\ ConnInv' /\ FinalInv'
  BY <1>0, <1>1, <1>5, <1>6 DEF BufferInv, ConnInv, FinalInv
<1>8. ReadInv' /\ ForwardInv(fwd)'
  BY <1>0, <1>1, <1>2, <1>5 DEF ReadInv, ForwardInv
<1> QED BY <1>4, <1>7, <1>8, SafeStreamed DEF StreamPart

\* Without rows the closing message moves the cursor, with rows they become the
\* last batch: a failure then is the last one.
LEMMA LastMessageSafe ==
  ASSUME NEW fwd \in BOOLEAN, StreamInv(fwd), WorkerTypeOK', LastMessage, Undrained
  PROVE  Streamed(fwd)
<1>0. /\ StreamTypeOK /\ StreamPart(fwd) /\ WorkerTypeOK /\ IInv(fwd)
      /\ pc = "poll" /\ conn /\ feedType = "websocket"
      /\ UNCHANGED <<log, out, dlq, initSync, ckptVars, stopping, replay, target,
                     feedType, phase, pos>>
      /\ pos \in Nat /\ since \in Nat /\ asked \in Nat
      /\ buffer \in SUBSET Nat /\ buffer \in SUBSET Seqs
      /\ Len(log) \in Nat /\ DOMAIN log = 1..Len(log) /\ DOMAIN log \subseteq Seqs
  BY StreamInvParts, StreamFacts, LastMessageCases, LogRange DEF Limbo
<1>1. /\ phase = "stream" /\ final = 0 /\ pos <= Len(log)
      /\ buffer # {} => pos \in buffer /\ \A s \in buffer : s <= pos
      /\ \A s \in DOMAIN log : s <= pos => Accounted(s) \/ s \in buffer
      /\ ~stopping => Covered(asked)
  BY <1>0, StreamFacts DEF StreamPart, BufferInv, ConnInv, ReadInv
<1>2. fwd => since <= asked /\ since <= pos /\ \A s \in buffer : since < s
  BY <1>0, <1>1 DEF StreamPart, ForwardInv
<1>3. PICK n \in pos..Len(log) :
        /\ \A t \in (pos + 1)..n : ~Current(t)
        /\ \/ buffer = {} /\ LastMessageEmpty(n) /\ Fault("final")
           \/ /\ buffer # {} /\ LastMessageBatch(n)
              /\ Fault("drained") \/ LastFault("final")
  BY LastMessageCases
<1>4. n \in Nat /\ pos <= n /\ n <= Len(log)
  BY <1>0, <1>3
<1>5. CASE buffer = {} /\ LastMessageEmpty(n)
  <2>1. Covered(n)
    <3>1. ASSUME NEW s \in DOMAIN log, s <= n
          PROVE  Accounted(s)
      <4>1. s <= pos \/ s \in (pos + 1)..n
        BY <1>0, <1>4, <3>1
      <4> QED BY <1>1, <1>3, <1>5, <4>1 DEF Accounted
    <3> QED BY <1>4, <3>1 DEF Covered
  <2>2. /\ since' = n /\ asked' = n /\ ~conn' /\ buffer' = {} /\ final' = 0 /\ pc' = "poll"
        /\ UNCHANGED sinkVars
    BY <1>0, <1>1, <1>5 DEF LastMessageEmpty, sinkVars
  <2>3. Safe(fwd)
    BY <1>0, <1>2, <1>4, <2>1, <2>2, CursorForward DEF InBatch
  <2>4. Covered(asked)'
    BY <1>0, <1>4, <2>1, <2>2, <2>3, SafeKeeps, SameLogGrows, CoveredKept
  <2>5. BufferInv' /\ ConnInv' /\ ReadInv' /\ FinalInv'
    BY <2>2, <2>4 DEF BufferInv, ConnInv, ReadInv, FinalInv
  <2>6. ForwardInv(fwd)'
    BY <1>4, <2>2 DEF ForwardInv
  <2> QED BY <2>3, <2>5, <2>6, SafeStreamed DEF StreamPart
<1>6. CASE /\ buffer # {} /\ LastMessageBatch(n)
           /\ Fault("drained") \/ LastFault("final")
  <2>0. LastOf(buffer) = pos
    BY <1>0, <1>1, <1>6, LastOfBuffer
  <2>1. /\ final' = n /\ buffer' = {} /\ last' = pos /\ conn' = conn
        /\ UNCHANGED <<since, asked>>
        /\ rows' = buffer \ Ignored(buffer)
        /\ res' = [s \in Seqs |-> IF s \in rows' THEN "todo" ELSE "new"]
        /\ fate' = Mark(fate, Ignored(buffer), "ignored")
        /\ pc' \in {"fetch", "work"}
    BY <1>6, <2>0 DEF LastMessageBatch
  <2>2. /\ \A s \in Seqs : fate[s] \subseteq fate'[s]
        /\ \A s \in Seqs : s \in Ignored(buffer) => fate'[s] # {}
    BY <1>0, <2>1, MarkEffect, TypeParts DEF SinkType, Fates
  <2>3. FateKept
    BY <2>2 DEF FateKept
  <2>4. \A s \in DOMAIN log : s <= pos => Accounted(s) \/ s \in rows' \/ fate'[s] # {}
    BY <1>0, <1>1, <2>1, <2>2
  <2>5. /\ \A s \in rows' : s <= pos
        /\ fwd => since <= pos /\ \A s \in rows' : since <= s
    <3>1. rows' \subseteq buffer
      BY <2>1
    <3> QED BY <1>0, <1>1, <1>2, <1>6, <3>1
  <2>6. Safe(fwd)
    BY <1>0, <1>1, <2>1, <2>3, <2>4, <2>5, ArrivalSafe
  <2>7. ~stopping => Covered(asked)'
    <3>1. Grows /\ AccountKept
      BY <1>0, <2>6, SafeKeeps, SameLogGrows
    <3>2. asked' = asked
      BY <2>1
    <3> QED BY <1>0, <1>1, <3>1, <3>2, CoveredKept
  <2>8. BufferInv' /\ ConnInv'
    BY <1>0, <1>1, <2>1, <2>7 DEF BufferInv, ConnInv
  <2>9. ReadInv'
    BY <1>0, <1>1, <1>3, <1>4, <2>1 DEF ReadInv, Current, Doc
  <2>10. FinalInv'
    <3>1. faults' = MaxFaults
      BY <1>0, <1>6 DEF Undrained, Fault, LastFault, StreamTypeOK
    <3>2. \A s \in Seqs : res'[s] \in {"todo", "new"}
      BY <2>1
    <3> QED BY <1>0, <1>1, <2>1, <3>1, <3>2 DEF FinalInv
  <2>11. ForwardInv(fwd)'
    BY <1>0, <1>2, <2>1 DEF ForwardInv
  <2> QED BY <2>6, <2>8, <2>9, <2>10, <2>11, SafeStreamed DEF StreamPart
<1> QED BY <1>3, <1>5, <1>6

\* The last batch of a connection: done, its closing message is covered; halted,
\* the worker is stopping.
LEMMA FinalDoneSafe ==
  ASSUME NEW fwd \in BOOLEAN, StreamInv(fwd), WorkerTypeOK', FinalDone
  PROVE  Streamed(fwd)
<1>0. /\ StreamTypeOK /\ StreamPart(fwd) /\ WorkerTypeOK /\ IInv(fwd)
      /\ pc \in {"after", "failed"} /\ final # 0 /\ pc' = "poll"
      /\ since' = final /\ asked' = final /\ final' = 0 /\ ~conn'
      /\ UNCHANGED <<log, sinkVars, initSync, ckptVars, worldVars, feedType, phase, pos, buffer>>
      /\ pos \in Nat /\ since \in Nat /\ final \in Nat
      /\ DOMAIN log = 1..Len(log) /\ Len(log) \in Nat
  BY StreamInvParts, StreamFacts, LogRange DEF FinalDone, Limbo
<1>1. /\ conn /\ buffer = {}
      /\ pos <= final /\ final <= Len(log) /\ \A t \in (pos + 1)..final : ~Current(t)
      /\ pc = "after" => last = pos
  BY <1>0 DEF StreamPart, BufferInv, ConnInv, ReadInv
<1>2. BufferInv' /\ ReadInv' /\ FinalInv'
  BY <1>0, <1>1 DEF BufferInv, ReadInv, FinalInv
<1>3. ForwardInv(fwd)'
  BY <1>0 DEF ForwardInv
<1>4. CASE pc = "after"
  <2>1. since = pos /\ \A s \in DOMAIN log : s <= pos => Accounted(s)
    BY <1>0, <1>1, <1>4, IInvParts DEF BatchInv
  <2>2. Covered(final)
    <3>1. ASSUME NEW s \in DOMAIN log, s <= final
          PROVE  Accounted(s)
      <4>1. s <= pos \/ s \in (pos + 1)..final
        BY <1>0, <3>1
      <4> QED BY <1>1, <2>1, <4>1 DEF Accounted
    <3> QED BY <1>1, <3>1 DEF Covered
  <2>3. Safe(fwd)
    BY <1>0, <1>1, <2>1, <2>2, CursorForward DEF InBatch
  <2>4. Grows /\ AccountKept
    BY <1>0, <2>3, SafeKeeps, SameLogGrows
  <2>5. Covered(asked)'
    BY <1>0, <2>2, <2>4, CoveredKept
  <2>6. ConnInv'
    BY <1>0, <2>5 DEF ConnInv
  <2> QED BY <1>2, <1>3, <2>3, <2>6, SafeStreamed DEF StreamPart
<1>5. CASE pc = "failed"
  <2>1. stopping /\ feedType = "websocket" /\ phase = "stream"
    BY <1>0, <1>5 DEF StreamPart, FinalInv
  <2>2. stopping' /\ UNCHANGED <<sg, fb>>
    BY <1>0, <2>1 DEF worldVars, ckptVars
  <2>3. CheckpointCovered /\ (~sg.there => sg.seq = 0)
    BY <1>0, IInvParts DEF CursorInv, RevInv
  <2>4. CheckpointCovered'
    <3>1. \A n \in Nat : Covered(n) => Covered(n)'
      BY <1>0, Kept, SameLogGrows, SinkKept
    <3> QED BY <1>0, <2>2, <2>3, <3>1, StreamFacts DEF CheckpointCovered
  <2>5. Limbo'
    BY <1>0, <2>1, <2>2, <2>3, <2>4 DEF Limbo
  <2>6. ConnInv'
    BY <1>0, <2>1, <2>2 DEF ConnInv
  <2> QED BY <1>0, <1>2, <1>3, <2>2, <2>5, <2>6, StreamFacts, SeqNat DEF Streamed, StreamPart
<1> QED BY <1>0, <1>4, <1>5

\* Steps between two batches that leave the cursors where they are: reading goes
\* on after a batch, or the connection is closed.
LEMMA BetweenSafe ==
  ASSUME NEW fwd \in BOOLEAN, IInv(fwd), pc' = "poll",
         UNCHANGED <<log, sinkVars, since, ckptVars>>
  PROVE  Safe(fwd) /\ Grows /\ AccountKept
<1>1. WorkerTypeOK /\ Grows /\ FateKept /\ QueueKept
  BY IInvParts, SameLogGrows, SinkKept
<1>2. Safe(fwd)
  BY <1>1, QuietStep DEF InBatch
<1> QED BY <1>1, <1>2, SafeKeeps

LEMMA ReadOnSafe ==
  ASSUME NEW fwd \in BOOLEAN, fwd => feedType = "websocket",
         StreamInv(fwd), WorkerTypeOK', ReadOn
  PROVE  Streamed(fwd)
<1>0. /\ StreamTypeOK /\ StreamPart(fwd) /\ WorkerTypeOK /\ IInv(fwd)
      /\ pc = "after" /\ phase = "stream" /\ final = 0 /\ pc' = "poll"
      /\ asked' = IF feedType = "websocket" THEN since ELSE asked
      /\ UNCHANGED <<log, sinkVars, since, initSync, ckptVars, worldVars,
                     feedType, phase, conn, pos, buffer, final>>
      /\ since \in Nat /\ asked \in Nat
  BY StreamInvParts, StreamFacts DEF ReadOn, Limbo
<1>1. Safe(fwd) /\ Grows /\ AccountKept
  BY <1>0, BetweenSafe
<1>2. /\ buffer = {} /\ (conn => last = pos /\ pos <= Len(log))
      /\ since = last /\ Covered(since) /\ (~stopping => Covered(asked))
      /\ \A s \in DOMAIN log : s <= last => Accounted(s)
  BY <1>0, IInvParts DEF StreamPart, BufferInv, ConnInv, ReadInv, BatchInv, CursorInv
<1>3. ~stopping => Covered(asked)'
  BY <1>0, <1>1, <1>2, CoveredKept
<1>4. stopping' = stopping
  BY <1>0 DEF worldVars
<1>5. BufferInv' /\ ConnInv' /\ FinalInv'
  BY <1>0, <1>2, <1>3, <1>4 DEF BufferInv, ConnInv, FinalInv
<1>6. ReadInv'
  BY <1>0, <1>1, <1>2 DEF ReadInv, AccountKept
<1>7. ForwardInv(fwd)'
  BY <1>0, <1>2 DEF ForwardInv
<1> QED BY <1>1, <1>5, <1>6, <1>7, SafeStreamed DEF StreamPart

LEMMA DisconnectSafe ==
  ASSUME NEW fwd \in BOOLEAN, fwd => feedType = "websocket",
         StreamInv(fwd), WorkerTypeOK', FlushFailed \/ Closed \/ ReadError \/ FetchError
  PROVE  Streamed(fwd)
<1>0. /\ StreamTypeOK /\ StreamPart(fwd) /\ WorkerTypeOK /\ IInv(fwd)
      /\ since \in Nat /\ asked \in Nat
  BY StreamInvParts, StreamFacts
     DEF FlushFailed, Closed, ReadError, FetchError, Reading, Limbo
<1>1. /\ pc' = "poll" /\ ~conn' /\ stopping' = stopping
      /\ UNCHANGED <<log, sinkVars, since, ckptVars, feedType>>
  BY DEF FlushFailed, Closed, ReadError, FetchError, Reading, worldVars
<1>2. buffer' = {} /\ final' = 0
  BY <1>0 DEF FlushFailed, Closed, ReadError, FetchError, Reading, StreamPart, BufferInv, ConnInv
<1>3. Safe(fwd) /\ Grows /\ AccountKept
  BY <1>0, <1>1, BetweenSafe
<1>4. asked' = asked \/ asked' = since
  BY DEF FlushFailed, Closed, ReadError, FetchError
<1>5. ~stopping => Covered(asked)'
  BY <1>0, <1>3, <1>4, IInvParts, CoveredKept DEF StreamPart, ConnInv, CursorInv
<1>6. BufferInv' /\ ConnInv' /\ ReadInv' /\ FinalInv'
  BY <1>1, <1>2, <1>5 DEF BufferInv, ConnInv, ReadInv, FinalInv
<1>7. ForwardInv(fwd)'
  <2>1. SUFFICES ASSUME fwd  PROVE since <= asked'
    BY <1>1 DEF ForwardInv
  <2>2. asked' = since \/ (asked' = asked /\ phase = "stream" /\ pc \in {"poll", "fetch"})
    <3>1. Reading => phase = "stream"
      BY <1>0, StreamFacts DEF StreamPart, BufferInv, Reading
    <3> QED BY <2>1, <3>1 DEF FlushFailed, Closed, ReadError, FetchError, Reading
  <2> QED BY <1>0, <2>1, <2>2 DEF StreamPart, ForwardInv
<1> QED BY <1>3, <1>6, <1>7, SafeStreamed DEF StreamPart

\* Of a worker in limbo nothing is left but its end.
LEMMA LimboSafe ==
  ASSUME NEW fwd \in BOOLEAN, StreamInv(fwd), WorkerTypeOK', Limbo, [StreamNext]_svars
  PROVE  Streamed(fwd)
<1>0. /\ StreamTypeOK /\ StreamPart(fwd) /\ WorkerTypeOK
      /\ stopping /\ pc = "poll" /\ phase = "stream" /\ ~conn /\ feedType = "websocket"
      /\ CheckpointCovered /\ (~sg.there => sg.seq = 0)
      /\ sg.seq \in Nat /\ fb.seq \in Nat
  BY StreamInvParts, StreamFacts DEF Limbo
<1>1. \/ LeaveFeed
      \/ Crash /\ ForgetStream /\ UNCHANGED feedType
      \/ (Mutate \/ Expire) /\ UNCHANGED <<feedType, streamVars>>
      \/ UNCHANGED svars
  BY <1>0 DEF StreamNext, StreamStep, StreamEnvironment, Start, Restart, Unreachable, LoadCheckpoint, ReplayEntry,
              ReplayEnds, StreamBatch, BatchStep, EmptyBatch, FetchDocs, FetchDocsStopped,
              EndSequential, EndParallel, HaltParallel, RaiseFromBatch, AllDone, TakeDoc,
              SkipRow, Turn, SendRow, SettleRow, HaltRow, CatchUp, CatchUpAgain, OpenStream,
              RequestRaises, Connect, ReadRow, Reading, Flush, ReadOn, FlushFailed, FinalDone,
              StartAgain, Stop, LastMessage, Closed, ReadError, FetchError
<1>2. CASE LeaveFeed \/ (Crash /\ ForgetStream /\ UNCHANGED feedType)
  <2>1. /\ UNCHANGED <<log, sinkVars, sg, fb>> /\ ForgetStream
        /\ End("ended") \/ End("down")
    BY <1>2 DEF LeaveFeed, Crash, Die
  <2>2. /\ Grows /\ AccountKept
        /\ \A n \in Nat : Covered(n) => Covered(n)'
    BY <1>0, <2>1, SameLogGrows, SinkKept, Kept
  <2>3. CursorInv(fwd)' /\ BatchInv(fwd)' /\ OrderInv(fwd)'
    BY <1>0, <2>1, <2>2, CursorsAfterEnd
  <2>4. StreamPart(fwd)'
    BY <1>0, <2>1, <2>2, Forgotten
  <2> QED BY <1>0, <2>1, <2>3, <2>4, SeqNat DEF Streamed
<1>3. CASE \/ (Mutate \/ Expire) /\ UNCHANGED <<feedType, streamVars>>
           \/ UNCHANGED svars
  <2>1. /\ UNCHANGED <<feedType, streamVars, pc, since, last, res, ckptVars, stopping>>
        /\ faults' = faults \/ faults < MaxFaults
    BY <1>3 DEF Mutate, Expire, svars, vars, batchVars, worldVars, Fault
  <2>2. Grows /\ FateKept /\ QueueKept
    <3>1. CASE Mutate
      BY <1>0, <3>1, AppendGrows, SinkKept DEF Mutate
    <3>2. CASE Expire
      BY <1>0, <3>2, ExpireKept
    <3>3. CASE UNCHANGED svars
      BY <1>0, <3>3, SameLogGrows, SinkKept DEF svars, vars
    <3> QED BY <1>3, <3>1, <3>2, <3>3
  <2>3. AccountKept /\ \A n \in Nat : Covered(n) => Covered(n)'
    BY <1>0, <2>2, Kept
  <2>4. StreamPart(fwd)'
    BY <1>0, <2>1, <2>2, <2>3, Unnoticed
  <2>5. Limbo'
    BY <1>0, <2>1, <2>3 DEF Limbo, CheckpointCovered, ckptVars, streamVars
  <2> QED BY <1>0, <2>1, <2>4, <2>5, SeqNat DEF Streamed, ckptVars
<1> QED BY <1>1, <1>2, <1>3

\* A step that ends the worker and its stream without a save.
LEMMA LeaveSafe ==
  ASSUME NEW fwd \in BOOLEAN, StreamTypeOK, IInv(fwd), WorkerTypeOK', ForgetStream,
         RequestRaises \/ LeaveFeed \/ Crash
  PROVE  Streamed(fwd)
<1>1. /\ UNCHANGED <<log, sinkVars, sg, fb>>
      /\ End("ended") \/ End("down")
  BY DEF RequestRaises, LeaveFeed, Crash, Die
<1>2. WorkerTypeOK /\ Grows /\ FateKept /\ QueueKept
  BY <1>1, IInvParts, SameLogGrows, SinkKept
<1>3. Safe(fwd)
  BY <1>1, <1>2, EndStep
<1> QED BY <1>2, <1>3, Forgotten, SafeKeeps, SafeStreamed

\* The steps of the worker that a stream goes through without noticing, and those
\* of its start, which come before it.
LEMMA WorkerStreamed ==
  ASSUME NEW fwd \in BOOLEAN, StreamInv(fwd), IInv(fwd), WorkerTypeOK',
         UNCHANGED <<feedType, streamVars>>,
         \/ Restart \/ Unreachable \/ LoadCheckpoint \/ ReplayEntry \/ ReplayEnds
         \/ Mutate \/ StartAgain \/ Stop \/ Expire \/ UNCHANGED vars
  PROVE  Streamed(fwd)
<1>0. StreamTypeOK /\ StreamPart(fwd) /\ WorkerTypeOK
  BY StreamInvParts, StreamFacts
<1>1. Safe(fwd)
  BY WorkerSafe
<1>2. AccountKept
  BY <1>1, SafeKeeps
<1>3. CASE Restart \/ Unreachable \/ LoadCheckpoint \/ ReplayEntry \/ ReplayEnds \/ StartAgain
  <2>1. /\ pc \in {"down", "ended", "boot", "replay"} /\ log' = log
        /\ UNCHANGED asked
    BY <1>3 DEF Restart, Unreachable, End, LoadCheckpoint, ReplayEntry, ReplayEnds, StartAgain, streamVars
  <2>2. phase = "catchup" /\ asked = 0
    BY <1>0, <2>1 DEF StreamPart, ConnInv
  <2>3. Covered(asked)'
    BY <1>0, <1>2, <2>1, <2>2, CoveredZero, CoveredKept, SameLogGrows
  <2>4. StreamPart(fwd)'
    BY <1>0, <2>2, <2>3, CatchingUp
  <2> QED BY <1>1, <2>4, SafeStreamed
<1>4. CASE Mutate \/ Stop \/ Expire \/ UNCHANGED vars
  <2>1. /\ UNCHANGED <<pc, since, last, res>> /\ (stopping => stopping')
        /\ faults' = faults \/ faults < MaxFaults
    BY <1>4 DEF Mutate, Stop, Expire, vars, batchVars, worldVars, Fault
  <2>2. Grows
    <3>1. CASE Mutate
      BY <1>0, <3>1, AppendGrows DEF Mutate
    <3>2. CASE Stop \/ Expire \/ UNCHANGED vars
      BY <1>0, <3>2, SameLogGrows DEF Stop, Expire, vars
    <3> QED BY <1>4, <3>1, <3>2
  <2>3. StreamPart(fwd)'
    BY <1>0, <1>2, <2>1, <2>2, Unnoticed
  <2> QED BY <1>1, <2>3, SafeStreamed
<1> QED BY <1>3, <1>4

LEMMA BatchStreamed ==
  ASSUME NEW fwd \in BOOLEAN, StreamInv(fwd), WorkerTypeOK', StreamBatch
  PROVE  Streamed(fwd)
<1>0. StreamTypeOK /\ StreamPart(fwd) /\ WorkerTypeOK /\ BatchStep
  BY StreamInvParts, StreamFacts DEF StreamBatch
<1>1. pc \in {"empty", "fetch", "work"} /\ log' = log
  BY <1>0, BatchMoves
<1>2. IInv(fwd)
  BY <1>1, StreamInvParts DEF Limbo
<1>3. Safe(fwd)
  BY <1>0, <1>2, BatchSafe
<1> QED BY <1>0, <1>1, <1>3, SameLogGrows, SafeKeeps, BatchInStream, SafeStreamed

\* Requests while catching up.
LEMMA CatchUpSafe ==
  ASSUME NEW fwd \in BOOLEAN, StreamInv(fwd), WorkerTypeOK', CatchUp \/ CatchUpAgain
  PROVE  Streamed(fwd)
<1>0. /\ StreamTypeOK /\ StreamPart(fwd) /\ WorkerTypeOK /\ phase = "catchup" /\ IInv(fwd)
      /\ UNCHANGED <<log, stopping, feedType, streamVars>>
      /\ pc' \in {"poll", "empty", "fetch", "work"}
  BY StreamInvParts, StreamFacts DEF CatchUp, CatchUpAgain, Receive, worldVars, Limbo
<1>1. Safe(fwd)
  <2>1. CASE CatchUp
    <3>1. \E m \in since..Len(log) : Request(CatchUpActiveOnly, m)
      BY <2>1 DEF CatchUp, Request
    <3> QED BY <1>0, <3>1, RequestSafe
  <2>2. CASE CatchUpAgain
    BY <1>0, <2>2, BetweenSafe DEF CatchUpAgain
  <2> QED BY <2>1, <2>2
<1>2. ~stopping => Covered(asked)
  BY <1>0 DEF StreamPart, ConnInv
<1>3. asked' = asked
  BY <1>0 DEF streamVars
<1>4. ~stopping' => Covered(asked)'
  BY <1>0, <1>1, <1>2, <1>3, SafeKeeps, SameLogGrows, StreamFacts, CoveredKept
<1> QED BY <1>0, <1>1, <1>4, CatchingUp, SafeStreamed

\* Every step keeps the invariant and, of a WebSocket feed, never moves the
\* stored checkpoint back.
LEMMA StreamInvNext ==
  ASSUME NEW fwd \in BOOLEAN, fwd => feedType = "websocket", Undrained,
         StreamInv(fwd), [StreamNext]_svars
  PROVE  StreamInv(fwd)' /\ (fwd => sg'.seq >= sg.seq)
<1>0. StreamTypeOK /\ BufferInv /\ (Limbo \/ IInv(fwd))
  BY DEF StreamInv
<1>1. StreamTypeOK' /\ WorkerTypeOK'
  BY <1>0, StreamTypes DEF TypeInv, StreamTypeOK
<1>2. Streamed(fwd)
  <2>1. CASE Limbo
    BY <1>1, <2>1, LimboSafe
  <2>2. CASE IInv(fwd)
    <3>1. CASE \/ Start
               \/ (Mutate \/ StartAgain \/ Stop \/ Expire) /\ UNCHANGED <<feedType, streamVars>>
               \/ UNCHANGED svars
      BY <1>1, <2>2, <3>1, WorkerStreamed DEF Start, svars
    <3>2. CASE \/ RequestRaises \/ LeaveFeed
               \/ Crash /\ ForgetStream /\ UNCHANGED feedType
      <4>1. ForgetStream
        BY <3>2 DEF RequestRaises, LeaveFeed
      <4> QED BY <1>0, <1>1, <2>2, <3>2, <4>1, LeaveSafe
    <3>3. CASE StreamBatch
      BY <1>1, <3>3, BatchStreamed
    <3>4. CASE CatchUp \/ CatchUpAgain
      BY <1>1, <3>4, CatchUpSafe
    <3>5. CASE OpenStream \/ Connect
      BY <1>1, <3>5, OpenStreamSafe, ConnectSafe
    <3>6. CASE ReadRow \/ Flush \/ LastMessage
      BY <1>1, <3>6, ReadRowSafe, FlushSafe, LastMessageSafe
    <3>7. CASE ReadOn \/ FinalDone
      BY <1>1, <3>7, ReadOnSafe, FinalDoneSafe
    <3>8. CASE FlushFailed \/ Closed \/ ReadError \/ FetchError
      BY <1>1, <3>8, DisconnectSafe
    <3> QED BY <3>1, <3>2, <3>3, <3>4, <3>5, <3>6, <3>7, <3>8
               DEF StreamNext, StreamStep, StreamEnvironment
  <2> QED BY <1>0, <2>1, <2>2
<1>3. Limbo' \/ IInv(fwd)'
  BY <1>1, <1>2 DEF Streamed, IInv, CursorInv
<1> QED BY <1>1, <1>2, <1>3 DEF Streamed, StreamPart, StreamInv

-----------------------------------------------------------------------------
(* What is promised of a stream. *)

\* The invariant of every feed, and what a WebSocket feed adds to it.
FullInv == StreamInv(FALSE) /\ (feedType = "websocket" => StreamInv(TRUE))

LEMMA FeedTypeSet == ASSUME [StreamNext]_svars  PROVE feedType' = feedType
BY DEF StreamNext, StreamStep, StreamEnvironment, Start, StreamBatch, CatchUp, CatchUpAgain, OpenStream,
       RequestRaises, LeaveFeed, Connect, ReadRow, Flush, ReadOn, FlushFailed, FinalDone,
       LastMessage, Closed, ReadError, FetchError, svars

LEMMA InitFullInv == StreamInit => FullInv
<1> SUFFICES ASSUME StreamInit, NEW fwd \in BOOLEAN PROVE StreamInv(fwd)
  BY DEF FullInv
<1>1. StreamTypeOK /\ BufferInv
  BY InitTypeInv DEF TypeInv
<1>2. IInv(fwd)
  BY InitSafe DEF StreamInit
<1>3. ConnInv
  BY <1>1, StreamFacts, CoveredZero DEF ConnInv, StreamInit
<1>4. ReadInv /\ FinalInv /\ ForwardInv(fwd)
  BY DEF ReadInv, FinalInv, ForwardInv, StreamInit
<1> QED BY <1>1, <1>2, <1>3, <1>4 DEF StreamInv

LEMMA FullInvNext ==
  ASSUME Undrained, FullInv, [StreamNext]_svars
  PROVE  FullInv' /\ (feedType = "websocket" => sg'.seq >= sg.seq)
<1>1. StreamInv(FALSE)'
  BY StreamInvNext DEF FullInv
<1>2. CASE feedType = "websocket"
  <2>1. StreamInv(TRUE)' /\ sg'.seq >= sg.seq
    BY <1>2, StreamInvNext DEF FullInv
  <2> QED BY <1>1, <1>2, <2>1, FeedTypeSet DEF FullInv
<1>3. CASE feedType # "websocket"
  BY <1>1, <1>3, FeedTypeSet DEF FullInv
<1> QED BY <1>2, <1>3

LEMMA FullInvAlways == Undrained => (StreamSpec => []FullInv)
<1>1. Undrained /\ FullInv /\ [StreamNext]_svars => FullInv'
  BY FullInvNext
<1>2. ASSUME Undrained  PROVE StreamSpec => []FullInv
  <2>1. FullInv /\ [StreamNext]_svars => FullInv'
    BY <1>1, <1>2
  <2> QED BY <2>1, InitFullInv, PTL DEF StreamSpec
<1> QED BY <1>2

\* No checkpoint of a stream passes a change that nobody looked at, however
\* the server, the network and the operator break off its connections.
THEOREM StreamCheckpointSafe == Undrained => (StreamSpec => []CheckpointCovered)
<1>1. FullInv => CheckpointCovered
  BY IInvParts DEF FullInv, StreamInv, Limbo, CursorInv
<1> QED BY <1>1, FullInvAlways, PTL

\* No change falls between two connections of a stream.
THEOREM StreamNoGap == Undrained => (StreamSpec => []NoGap)
<1>1. FullInv => NoGap
  BY DEF FullInv, StreamInv, ConnInv, ReadInv, NoGap
<1> QED BY <1>1, FullInvAlways, PTL

\* A WebSocket feed never moves the stored checkpoint back.
THEOREM WebSocketNeverBack == Undrained => (StreamSpec => WebSocketMonotone)
<1>1. ASSUME Undrained  PROVE StreamSpec => WebSocketMonotone
  <2>1. FullInv /\ [StreamNext]_svars => [feedType = "websocket" => sg'.seq >= sg.seq]_svars
    BY <1>1, FullInvNext
  <2>2. StreamSpec => []FullInv
    BY <1>1, FullInvAlways
  <2> QED BY <2>1, <2>2, PTL DEF StreamSpec, WebSocketMonotone
<1> QED BY <1>1
=============================================================================
