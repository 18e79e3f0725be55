------------------------------ MODULE WorkerProofs ------------------------------
(***************************************************************************)
(* Lemmas about Worker, for every job, log length and number of failures,  *)
(* that the proofs about its two feed drivers share: the types its steps   *)
(* keep, and what they do to the invariant IInv.                           *)
(***************************************************************************)
EXTENDS Worker, TLAPS

-----------------------------------------------------------------------------
(* The checkpoint. *)

\* What a save that returns leaves behind.
LEMMA SaveEffect ==
  ASSUME CheckpointTypeOK, NEW n \in Nat, NEW done \in BOOLEAN, Save(n, done)
  PROVE  /\ CheckpointTypeOK'
         /\ sg' = sg \/ (ck.revOk /\ sg'.there /\ sg'.seq = n)
         /\ fb' = fb \/ fb'.seq = n
         /\ ck'.revOk => ck.revOk
         /\ stopping' = stopping
<1> USE DEF Stored, Body
<1>1. Body(n, done) \in Stored
  OBVIOUS
<1>2. faults' \in Nat
  BY DEF CheckpointTypeOK, Save, SaveStored, SaveFellBack, PutFails, Fault, NoFault
<1>3. stopping' = stopping
  BY DEF Save
<1>4. CASE SaveStored(n, done)
  <2>1. sg' = Body(n, done) /\ fb' = fb /\ ck.revOk
    BY <1>4 DEF SaveStored
  <2>2. ck' = [seq |-> n, done |-> done, revOk |-> TRUE]
    BY <1>4 DEF SaveStored
  <2> QED BY <1>1, <1>2, <1>3, <2>1, <2>2 DEF CheckpointTypeOK
<1>5. CASE SaveFellBack(n, done)
  <2>1. fb' = Body(n, done)
    BY <1>5 DEF SaveFellBack
  <2>2. CASE UNCHANGED sg /\ ck' = [ck EXCEPT !.seq = n, !.done = done]
    BY <1>1, <1>2, <1>3, <2>1, <2>2 DEF CheckpointTypeOK
  <2>3. CASE /\ ck.revOk /\ sg' = Body(n, done)
             /\ ck' = [seq |-> n, done |-> done, revOk |-> FALSE]
    BY <1>1, <1>2, <1>3, <2>1, <2>3 DEF CheckpointTypeOK
  <2> QED BY <1>5, <2>2, <2>3 DEF SaveFellBack, PutFails
<1> QED BY <1>4, <1>5 DEF Save

\* What a save that raises leaves behind.
LEMMA RaiseEffect ==
  ASSUME CheckpointTypeOK, NEW n \in Nat, NEW done \in BOOLEAN, SaveRaises(n, done)
  PROVE  /\ sg' \in Stored /\ faults' \in Nat
         /\ sg' = sg \/ (ck.revOk /\ sg'.there /\ sg'.seq = n)
         /\ fb' = fb /\ stopping' = stopping
<1>1. Body(n, done) \in Stored
  BY DEF Body, Stored
<1>2. faults' \in Nat
  BY DEF CheckpointTypeOK, SaveRaises, Fault, NoFault
<1>3. sg' = sg \/ (ck.revOk /\ sg' = Body(n, done))
  BY DEF SaveRaises
<1>4. fb' = fb /\ stopping' = stopping
  BY DEF SaveRaises
<1>5. sg \in Stored
  BY DEF CheckpointTypeOK
<1>6. Body(n, done).there /\ Body(n, done).seq = n
  BY DEF Body
<1>7. sg' \in Stored
  BY <1>1, <1>3, <1>5
<1>8. sg' = sg \/ (ck.revOk /\ sg'.there /\ sg'.seq = n)
  BY <1>3, <1>6
<1> QED BY <1>2, <1>4, <1>7, <1>8

\* A load takes the cursor from one of the stored copies, or from zero.
LEMMA LoadEffect ==
  ASSUME CheckpointTypeOK, Load
  PROVE  /\ CheckpointTypeOK'
         /\ ck'.seq \in {sg.seq, fb.seq, 0}
         /\ ck'.revOk => (sg.there => ck'.seq = sg.seq)
         /\ UNCHANGED <<sg, fb, stopping>>
<1> USE DEF Stored, CheckpointTypeOK
<1>1. UNCHANGED <<sg, fb, stopping>>
  BY DEF Load
<1>2. faults' \in Nat
  BY DEF Load, LoadStored, LoadMissing, LoadFallback, Fault, NoFault
<1>3. CASE LoadStored
  BY <1>1, <1>2, <1>3 DEF LoadStored
<1>4. CASE LoadMissing
  BY <1>1, <1>2, <1>4 DEF LoadMissing, NewCheckpoint
<1>5. CASE LoadFallback
  BY <1>1, <1>2, <1>5 DEF LoadFallback
<1> QED BY <1>3, <1>4, <1>5 DEF Load

-----------------------------------------------------------------------------
(* The history and the queue. *)

\* Mark adds to the fates of the mutations of S and takes nothing away.
LEMMA MarkEffect ==
  ASSUME NEW f \in [Seqs -> SUBSET Fates], NEW S, NEW why \in Fates
  PROVE  /\ Mark(f, S, why) \in [Seqs -> SUBSET Fates]
         /\ \A s \in Seqs : f[s] \subseteq Mark(f, S, why)[s]
         /\ \A s \in Seqs : s \in S => Mark(f, S, why)[s] # {}
BY DEF Mark

\* The entries the batch makes of its rows are entries of the queue.
LEMMA EntryTypes ==
  ASSUME NEW s \in Seqs
  PROVE  FailedEntry(s) \in DlqEntries /\ InflightEntry(s) \in DlqEntries
<1>1. Method(s) \in {"PUT", "DELETE"}
  BY DEF Method
<1>2. Live(s) \in BOOLEAN
  BY DEF Live
<1>3. HasBody(s) \in BOOLEAN
  BY DEF HasBody, Live
<1> QED BY <1>1, <1>2, <1>3 DEF FailedEntry, InflightEntry, DlqEntries

\* Writing the entries E to the queue loses no fate and no entry, and leaves
\* every mutation of E with a fate or in the queue with all a replay needs.
LEMMA QueuedEffect ==
  ASSUME NEW f \in [Seqs -> SUBSET Fates], NEW E \in SUBSET DlqEntries,
         dlq \in SUBSET DlqEntries, Enqueue(E)
  PROVE  /\ Queued(f, E) \in [Seqs -> SUBSET Fates]
         /\ dlq' \in SUBSET DlqEntries
         /\ dlq \subseteq dlq'
         /\ \A s \in Seqs : f[s] \subseteq Queued(f, E)[s]
         /\ \A e \in E : \/ Queued(f, E)[e.seq] # {}
                         \/ e \in dlq' /\ FaithfulEntry(e)
<1>1. \A e \in E : e.seq \in Seqs
  BY DEF DlqEntries
<1>2. dlq' \in SUBSET DlqEntries /\ dlq \subseteq dlq'
  BY DEF Enqueue
<1>3. CASE ~Job.dlq
  <2> DEFINE S == {e.seq : e \in E}
  <2>1. Queued(f, E) = Mark(f, S, "dropped")
    BY <1>3 DEF Queued
  <2>2. "dropped" \in Fates
    BY DEF Fates
  <2>3. \A e \in E : e.seq \in S
    OBVIOUS
  <2> HIDE DEF S
  <2> QED BY <1>1, <1>2, <2>1, <2>2, <2>3, MarkEffect
<1>4. CASE Job.dlq
  <2> DEFINE S == {e.seq : e \in {x \in E : ~FaithfulEntry(x)}}
  <2>1. Queued(f, E) = Mark(f, S, "stub")
    BY <1>4 DEF Queued
  <2>2. "stub" \in Fates
    BY DEF Fates
  <2>3. \A e \in E : ~FaithfulEntry(e) => e.seq \in S
    OBVIOUS
  <2>4. E \subseteq dlq'
    BY <1>4 DEF Enqueue
  <2> HIDE DEF S
  <2> QED BY <1>1, <1>2, <2>1, <2>2, <2>3, <2>4, MarkEffect
<1> QED BY <1>3, <1>4

\* Written is a value the output can hold.
LEMMA WrittenType ==
  ASSUME TypeOK, NEW s \in Seqs, NEW full, NEW method, NEW d \in Docs, d = Doc(s)
  PROVE  Written(s, full, method) \in OutValues
<1>1. s \in 0..MaxLog
  BY JobAssumption DEF Seqs
<1>2. out[Doc(s)] \in OutValues
  BY DEF TypeOK
<1> QED BY <1>1, <1>2 DEF Written, OutValues

\* A row gets the body of a mutation of its own document.
LEMMA BodiesType ==
  ASSUME TypeOK, NEW s \in Seqs, NEW t \in Bodies(s)
  PROVE  t \in Seqs /\ Doc(t) = Doc(s)
BY DEF Bodies, TypeOK

\* What the output holds after a request with the body of mutation t.
LEMMA OutType ==
  ASSUME TypeOK, NEW s \in Seqs, NEW t \in Seqs, Doc(t) = Doc(s), NEW full, NEW method,
         out' = [out EXCEPT ![Doc(s)] = Written(t, full, method)]
  PROVE  out' \in [Docs -> OutValues]
<1>1. ASSUME NEW d \in Docs
      PROVE  out'[d] \in OutValues
  <2>1. CASE d = Doc(s)
    BY <2>1, WrittenType DEF TypeOK
  <2>2. CASE d # Doc(s)
    BY <2>2 DEF TypeOK
  <2> QED BY <2>1, <2>2
<1> QED BY <1>1 DEF TypeOK

-----------------------------------------------------------------------------
(* Types. *)

PCs == {"down", "ended", "boot", "replay", "poll", "empty", "fetch", "work", "after", "failed"}

\* The parts of WorkerTypeOK that steps change together.
SourceType == log \in Seq([doc : Docs, kind : Kinds]) /\ Len(log) <= MaxLog
SinkType == /\ out \in [Docs -> OutValues]
            /\ dlq \in SUBSET DlqEntries
            /\ fate \in [Seqs -> SUBSET Fates]
LocalType == pc \in PCs /\ since \in Nat /\ initSync \in BOOLEAN
RowsType == /\ last \in Nat /\ unsaved \in Nat /\ got \in BOOLEAN
            /\ rows \in SUBSET Seqs /\ have \in SUBSET Seqs
            /\ res \in [Seqs -> RowStates]
ReplayType == replay \in SUBSET DlqEntries /\ target \in Nat

LEMMA TypeParts ==
  WorkerTypeOK <=> /\ CheckpointTypeOK /\ SourceType /\ SinkType
                   /\ LocalType /\ RowsType /\ ReplayType
BY DEF WorkerTypeOK, TypeOK, SourceType, SinkType, LocalType, RowsType, ReplayType, PCs

LEMMA TypePartsNext ==
  ASSUME CheckpointTypeOK', SourceType', SinkType', LocalType', RowsType', ReplayType'
  PROVE  WorkerTypeOK'
BY DEF WorkerTypeOK, TypeOK, SourceType, SinkType, LocalType, RowsType, ReplayType, PCs

LEMMA ForgetBatchType == ForgetBatch => RowsType'
<1>1. Rows \in [Seqs -> RowStates]
  BY DEF Rows, RowStates
<1> SUFFICES ASSUME ForgetBatch PROVE RowsType'
  OBVIOUS
<1>2. res' = Rows /\ rows' = {} /\ have' = {} /\ last' = 0 /\ unsaved' = 0 /\ got' = FALSE
  BY DEF ForgetBatch
<1> QED BY <1>1, <1>2 DEF RowsType

LEMMA EndType ==
  ASSUME NEW how \in {"down", "ended"}, End(how)
  PROVE  LocalType' /\ RowsType' /\ ck' = NewCheckpoint
<1>1. pc' = how /\ since' = 0 /\ initSync' = FALSE /\ ck' = NewCheckpoint
  BY DEF End
<1>2. RowsType'
  BY ForgetBatchType DEF End
<1> QED BY <1>1, <1>2 DEF LocalType, PCs

LEMMA DieType == Die => LocalType' /\ RowsType' /\ ck' = NewCheckpoint
BY EndType DEF Die

LEMMA NewCheckpointType == NewCheckpoint \in [seq : Nat, done : BOOLEAN, revOk : BOOLEAN]
BY DEF NewCheckpoint

LEMMA NoTargetType == NoTarget \in Nat
BY JobAssumption DEF NoTarget

LEMMA FaultType == ASSUME faults \in Nat, NEW k, Fault(k)  PROVE faults' \in Nat
BY DEF Fault

LEMMA InitTypes == WorkerInit => WorkerTypeOK
<1> SUFFICES ASSUME WorkerInit PROVE WorkerTypeOK
  OBVIOUS
<1> USE DEF WorkerInit, BatchInit
<1>1. CheckpointTypeOK
  BY DEF CheckpointInit, CheckpointTypeOK, Stored, NotStored, NewCheckpoint
<1>2. SourceType
  BY JobAssumption DEF SourceType
<1>3. SinkType
  <2>1. [seq |-> 0, as |-> "absent"] \in OutValues
    BY JobAssumption DEF OutValues
  <2> QED BY <2>1 DEF SinkType
<1>4. LocalType
  BY DEF LocalType, PCs
<1>5. RowsType
  BY DEF RowsType, Rows, RowStates
<1>6. ReplayType
  BY NoTargetType DEF ReplayType
<1> QED BY <1>1, <1>2, <1>3, <1>4, <1>5, <1>6, TypeParts

\* Receive keeps the types if its rows are rows of the log.
LEMMA ReceiveTypes ==
  ASSUME WorkerTypeOK, NEW R \in SUBSET Seqs, NEW H, NEW n \in Nat, Receive(R, H, n)
  PROVE  /\ RowsType' /\ LocalType'
         /\ fate' \in [Seqs -> SUBSET Fates]
         /\ \A s \in Seqs : fate[s] \subseteq fate'[s]
         /\ \A s \in Seqs : s \in Ignored(R) \cup ForceSkipped(R) \cup H => fate'[s] # {}
<1> DEFINE F == Mark(fate, Ignored(R), "ignored")
           U == H \cup (ForceSkipped(R) \ Ignored(R))
<1>1. fate \in [Seqs -> SUBSET Fates]
  BY TypeParts DEF SinkType
<1>2. "ignored" \in Fates /\ "unsynced" \in Fates
  BY DEF Fates
<1>3. /\ F \in [Seqs -> SUBSET Fates]
      /\ \A s \in Seqs : fate[s] \subseteq F[s]
      /\ \A s \in Seqs : s \in Ignored(R) => F[s] # {}
  BY <1>1, <1>2, MarkEffect
<1>4. fate' = Mark(F, U, "unsynced")
  BY DEF Receive
<1>5. \A s \in Seqs : s \in Ignored(R) \cup ForceSkipped(R) \cup H => s \in Ignored(R) \/ s \in U
  OBVIOUS
<1> HIDE DEF F, U
<1>6. /\ Mark(F, U, "unsynced") \in [Seqs -> SUBSET Fates]
      /\ \A s \in Seqs : F[s] \subseteq Mark(F, U, "unsynced")[s]
      /\ \A s \in Seqs : s \in U => Mark(F, U, "unsynced")[s] # {}
  BY <1>2, <1>3, MarkEffect
<1>7. RowsType'
  <2>1. rows' \in SUBSET Seqs /\ last' = n /\ got' \in BOOLEAN /\ have' = {} /\ unsaved' = 0
    BY DEF Receive
  <2>2. res' = [s \in Seqs |-> IF s \in rows' THEN "todo" ELSE "new"]
    BY DEF Receive
  <2>3. res' \in [Seqs -> RowStates]
    BY <2>2 DEF RowStates
  <2> QED BY <2>1, <2>3 DEF RowsType
<1>8. LocalType'
  <2>1. since' = since /\ initSync' = initSync
    BY DEF Receive
  <2>2. pc' \in {"empty", "fetch", "work"}
    BY DEF Receive
  <2> QED BY <2>1, <2>2, TypeParts DEF LocalType, PCs
<1> QED BY <1>3, <1>4, <1>5, <1>6, <1>7, <1>8

\* Feed and LastSeq stay within the log.
LEMMA FeedRange ==
  ASSUME SourceType, NEW n \in Nat, NEW a
  PROVE  Feed(n, a) \in SUBSET Seqs /\ Feed(n, a) \subseteq 1..Len(log) /\ Len(log) \in Nat
<1>1. Len(log) \in Nat /\ Len(log) <= MaxLog
  BY DEF SourceType
<1> QED BY <1>1, JobAssumption DEF Feed, Seqs

LEMMA ForgetWorkerTypes == ForgetWorker => ReplayType'
BY NoTargetType DEF ForgetWorker, ReplayType

\* A save, or a save that raises and ends the worker, keeps the types.
LEMMA SaveTypes ==
  ASSUME CheckpointTypeOK, NEW n \in Nat, NEW done \in BOOLEAN, Save(n, done)
  PROVE  CheckpointTypeOK'
BY SaveEffect

LEMMA RaiseTypes ==
  ASSUME CheckpointTypeOK, NEW n \in Nat, NEW done \in BOOLEAN, SaveRaises(n, done), Die
  PROVE  CheckpointTypeOK' /\ LocalType' /\ RowsType'
<1>1. sg' \in Stored /\ faults' \in Nat /\ fb' = fb /\ stopping' = stopping
  BY RaiseEffect
<1>2. ck' = NewCheckpoint /\ LocalType' /\ RowsType'
  BY DieType
<1> QED BY <1>1, <1>2, NewCheckpointType DEF CheckpointTypeOK

LEMMA CkptUnchanged ==
  ASSUME CheckpointTypeOK, UNCHANGED <<ckptVars, stopping>>, faults' \in Nat
  PROVE  CheckpointTypeOK'
BY DEF CheckpointTypeOK, ckptVars

LEMMA SourceUnchanged == SourceType /\ UNCHANGED log => SourceType'
BY DEF SourceType
LEMMA SinkUnchanged == SinkType /\ UNCHANGED sinkVars => SinkType'
BY DEF SinkType, sinkVars
LEMMA LocalUnchanged == LocalType /\ UNCHANGED <<pc, since, initSync>> => LocalType'
BY DEF LocalType
LEMMA RowsUnchanged == RowsType /\ UNCHANGED batchVars => RowsType'
BY DEF RowsType, batchVars
LEMMA ReplayUnchanged == ReplayType /\ UNCHANGED <<replay, target>> => ReplayType'
BY DEF ReplayType

\* What one row's send leaves in the output and the history.
LEMMA SendTypes ==
  ASSUME WorkerTypeOK, NEW s \in Seqs, NEW t \in Seqs, Doc(t) = Doc(s),
         NEW full, NEW right, NEW method, NEW applied,
         IF applied
         THEN /\ out' = [out EXCEPT ![Doc(s)] = Written(t, full, method)]
              /\ fate' = Mark(fate, {s}, Fate(s, right, method))
         ELSE UNCHANGED <<out, fate>>
  PROVE  /\ out' \in [Docs -> OutValues]
         /\ fate' \in [Seqs -> SUBSET Fates]
         /\ \A u \in Seqs : fate[u] \subseteq fate'[u]
         /\ applied => fate'[s] # {}
<1>1. TypeOK /\ SinkType
  BY TypeParts DEF WorkerTypeOK
<1>2. CASE applied
  <2>1. out' \in [Docs -> OutValues]
    BY <1>1, <1>2, OutType
  <2>2. Fate(s, right, method) \in Fates
    BY DEF Fate, Fates
  <2>3. fate' = Mark(fate, {s}, Fate(s, right, method))
    BY <1>2
  <2> QED BY <1>1, <2>1, <2>2, <2>3, MarkEffect DEF SinkType
<1>3. CASE ~applied
  BY <1>1, <1>3 DEF SinkType
<1> QED BY <1>2, <1>3

LEMMA SendFaults ==
  ASSUME CheckpointTypeOK, NEW d, NEW r, NEW applied, Send(d, r, applied)
  PROVE  /\ faults' \in Nat
         /\ r \in {"ok", "bad", "skip", "down", "shut", "err"}
         /\ r = "ok" => applied
BY DEF Send, Fault, NoFault, CheckpointTypeOK, DataErrors, Undelivered

LEMMA RowMovesTypes ==
  ASSUME RowsType, NEW s, NEW state \in RowStates, RowMoves(s, state)
  PROVE  RowsType'
BY DEF RowMoves, RowsType

\* The entries of rows left over by a shutdown.
LEMMA LeftoverTypes ==
  ASSUME NEW r, NEW S \in SUBSET Seqs
  PROVE  Leftover(r, S) \in SUBSET DlqEntries
BY EntryTypes DEF Leftover

\* Writing the results of the rows D.
LEMMA GatheredEffect ==
  ASSUME SinkType, RowsType, NEW D \in SUBSET InState({"bad", "skip"}), Gathered(D)
  PROVE  /\ dlq' \in SUBSET DlqEntries /\ dlq \subseteq dlq'
         /\ fate' \in [Seqs -> SUBSET Fates]
         /\ \A s \in Seqs : fate[s] \subseteq fate'[s]
         /\ \A s \in D : \/ fate'[s] # {}
                         \/ \E e \in dlq' : e.seq = s /\ FaithfulEntry(e)
<1> DEFINE S == {s \in D : res[s] = "skip"}
           E == {FailedEntry(s) : s \in {t \in D : res[t] = "bad"}}
           F == Mark(fate, S, "dropped")
<1>1. D \in SUBSET Seqs /\ \A s \in D : res[s] \in {"bad", "skip"}
  BY DEF InState, RowsType
<1>2. E \in SUBSET DlqEntries
  BY <1>1, EntryTypes
<1>3. Enqueue(E) /\ fate' = Queued(F, E)
  BY DEF Gathered
<1>4. \A s \in D : res[s] = "bad" => \E e \in E : e.seq = s
  <2> SUFFICES ASSUME NEW s \in D, res[s] = "bad" PROVE \E e \in E : e.seq = s
    OBVIOUS
  <2>1. FailedEntry(s) \in E
    OBVIOUS
  <2>2. FailedEntry(s).seq = s
    BY DEF FailedEntry
  <2> QED BY <2>1, <2>2
<1>5. \A s \in D : res[s] = "skip" => s \in S
  OBVIOUS
<1>6. "dropped" \in Fates
  BY DEF Fates
<1> HIDE DEF S, E
<1>7. /\ F \in [Seqs -> SUBSET Fates]
      /\ \A s \in Seqs : fate[s] \subseteq F[s]
      /\ \A s \in Seqs : s \in S => F[s] # {}
  BY <1>6, MarkEffect DEF SinkType
<1> HIDE DEF F
<1>8. /\ Queued(F, E) \in [Seqs -> SUBSET Fates]
      /\ dlq' \in SUBSET DlqEntries /\ dlq \subseteq dlq'
      /\ \A s \in Seqs : F[s] \subseteq Queued(F, E)[s]
      /\ \A e \in E : Queued(F, E)[e.seq] # {} \/ (e \in dlq' /\ FaithfulEntry(e))
  BY <1>2, <1>3, <1>7, QueuedEffect DEF SinkType
<1>9. ASSUME NEW s \in D
      PROVE  fate'[s] # {} \/ \E e \in dlq' : e.seq = s /\ FaithfulEntry(e)
  <2>1. CASE res[s] = "bad"
    <3>1. PICK e \in E : e.seq = s
      BY <1>4, <2>1
    <3> QED BY <1>3, <1>8, <3>1
  <2>2. CASE res[s] = "skip"
    BY <1>1, <1>3, <1>5, <1>7, <1>8, <2>2
  <2> QED BY <1>1, <2>1, <2>2
<1> QED BY <1>3, <1>7, <1>8, <1>9

\* What the end of a parallel batch by row s writes, D being the rows whose
\* results were looked at.
HaltQueues(s, D) ==
  LET E == Leftover(res[s], rows)
      B == {FailedEntry(t) : t \in {u \in D : res[u] = "bad"}}
  IN /\ Enqueue(B \cup E)
     /\ fate' = Queued(Mark(fate, {t \in D : res[t] = "skip"}, "dropped"), B \cup E)

LEMMA HaltQueuesEffect ==
  ASSUME SinkType, RowsType, NEW s, NEW D \in SUBSET rows, HaltQueues(s, D)
  PROVE  /\ dlq' \in SUBSET DlqEntries /\ dlq \subseteq dlq'
         /\ fate' \in [Seqs -> SUBSET Fates]
         /\ \A t \in Seqs : fate[t] \subseteq fate'[t]
<1> DEFINE E == Leftover(res[s], rows)
           B == {FailedEntry(t) : t \in {u \in D : res[u] = "bad"}}
           S == {t \in D : res[t] = "skip"}
           F == Mark(fate, S, "dropped")
<1>1. B \cup E \in SUBSET DlqEntries
  BY EntryTypes, LeftoverTypes DEF RowsType
<1>2. Enqueue(B \cup E) /\ fate' = Queued(F, B \cup E)
  BY DEF HaltQueues
<1>3. "dropped" \in Fates
  BY DEF Fates
<1> HIDE DEF S, E, B
<1>4. F \in [Seqs -> SUBSET Fates] /\ \A t \in Seqs : fate[t] \subseteq F[t]
  BY <1>3, MarkEffect DEF SinkType
<1> HIDE DEF F
<1> QED BY <1>1, <1>2, <1>4, QueuedEffect DEF SinkType

\* A batch that is given up, and a batch that moves the cursor to its end.
LEMMA AbandonTypes ==
  ASSUME WorkerTypeOK, SinkType', pc' = "failed", ForgetBatch, ReplayType',
         UNCHANGED <<log, since, initSync, ckptVars, worldVars>>
  PROVE  WorkerTypeOK'
<1>1. CheckpointTypeOK' /\ SourceType'
  BY TypeParts, CkptUnchanged, SourceUnchanged DEF worldVars, CheckpointTypeOK
<1>2. LocalType'
  BY TypeParts DEF LocalType, PCs
<1> QED BY <1>1, <1>2, ForgetBatchType, TypePartsNext

LEMMA AdvanceTypes ==
  ASSUME WorkerTypeOK, SourceType', SinkType', ReplayType', Save(last, ck.done),
         since' = last, pc' = "after", UNCHANGED <<initSync, batchVars>>
  PROVE  WorkerTypeOK'
<1>1. CheckpointTypeOK'
  BY TypeParts, SaveTypes DEF RowsType, CheckpointTypeOK
<1>2. LocalType'
  BY TypeParts DEF LocalType, RowsType, PCs
<1> QED BY <1>1, <1>2, TypeParts, RowsUnchanged, TypePartsNext

\* The steps of the batch, whatever the driver does with its own variables.
LEMMA BatchTypes ==
  ASSUME WorkerTypeOK, BatchStep, ReplayType'
  PROVE  WorkerTypeOK'
<1> USE TypePartsNext
<1>0. /\ CheckpointTypeOK /\ SourceType /\ SinkType
      /\ LocalType /\ RowsType /\ ReplayType'
  BY TypeParts
<1>1. CASE EmptyBatch
  <2>1. SourceType' /\ SinkType'
    BY <1>0, <1>1, SourceUnchanged, SinkUnchanged DEF EmptyBatch
  <2>2. CASE /\ since' = last /\ pc' = "after"
             /\ UNCHANGED <<ckptVars, worldVars, initSync, batchVars>>
    <3>1. CheckpointTypeOK'
      BY <1>0, <2>2, CkptUnchanged DEF worldVars, CheckpointTypeOK
    <3>2. LocalType'
      BY <1>0, <2>2 DEF LocalType, RowsType, PCs
    <3> QED BY <1>0, <2>1, <2>2, <3>1, <3>2, RowsUnchanged
  <2>3. CASE /\ Save(last, ck.done) /\ since' = last /\ pc' = "after"
             /\ UNCHANGED <<initSync, batchVars>>
    <3>1. CheckpointTypeOK'
      BY <1>0, <2>3, SaveTypes DEF RowsType, CheckpointTypeOK
    <3>2. LocalType'
      BY <1>0, <2>3 DEF LocalType, RowsType, PCs
    <3> QED BY <1>0, <2>1, <2>3, <3>1, <3>2, RowsUnchanged
  <2>4. CASE SaveRaises(last, ck.done) /\ Die
    BY <1>0, <2>1, <2>4, RaiseTypes DEF RowsType, CheckpointTypeOK
  <2> QED BY <1>1, <2>2, <2>3, <2>4 DEF EmptyBatch
<1>2. CASE FetchDocs
  <2>1. CheckpointTypeOK'
    BY <1>0, <1>2, CkptUnchanged DEF FetchDocs, Fault, NoFault, CheckpointTypeOK
  <2>2. SourceType' /\ SinkType'
    BY <1>0, <1>2, SourceUnchanged, SinkUnchanged DEF FetchDocs
  <2>3. LocalType'
    BY <1>0, <1>2 DEF FetchDocs, LocalType, PCs
  <2>4. have' \in SUBSET rows
    BY <1>2 DEF FetchDocs
  <2>5. RowsType'
    BY <1>0, <1>2, <2>4 DEF FetchDocs, RowsType
  <2> QED BY <1>0, <2>1, <2>2, <2>3, <2>5
<1>3. CASE FetchDocsStopped
  <2>1. SourceType' /\ SinkType'
    BY <1>0, <1>3, SourceUnchanged, SinkUnchanged DEF FetchDocsStopped
  <2>2. CASE Die
    <3>1. LocalType' /\ RowsType' /\ ck' = NewCheckpoint
      BY <2>2, DieType
    <3>2. CheckpointTypeOK'
      BY <1>0, <1>3, <3>1, NewCheckpointType DEF FetchDocsStopped, CheckpointTypeOK, worldVars
    <3> QED BY <1>0, <2>1, <3>1, <3>2
  <2>3. CASE pc' = "work" /\ UNCHANGED <<since, initSync, batchVars, ck>>
    <3>1. CheckpointTypeOK'
      BY <1>0, <1>3, <2>3 DEF FetchDocsStopped, CheckpointTypeOK, worldVars
    <3>2. LocalType'
      BY <1>0, <2>3 DEF LocalType, PCs
    <3> QED BY <1>0, <2>1, <2>3, <3>1, <3>2, RowsUnchanged
  <2> QED BY <1>3, <2>2, <2>3 DEF FetchDocsStopped
<1>4. ASSUME NEW s \in Seqs, TakeDoc(s) PROVE WorkerTypeOK'
  <2>1. CheckpointTypeOK' /\ SourceType' /\ SinkType' /\ LocalType'
    BY <1>0, <1>4, CkptUnchanged, SourceUnchanged, SinkUnchanged, LocalUnchanged
       DEF TakeDoc, RowMoves, CheckpointTypeOK
  <2>2. RowsType'
    BY <1>0, <1>4, RowMovesTypes DEF TakeDoc, RowStates
  <2> QED BY <1>0, <2>1, <2>2
<1>5. ASSUME NEW s \in Seqs, SkipRow(s) PROVE WorkerTypeOK'
  <2>1. faults' \in Nat
    BY <1>0, <1>5 DEF SkipRow, Fault, NoFault, CheckpointTypeOK
  <2>2. CheckpointTypeOK' /\ SourceType' /\ LocalType'
    BY <1>0, <1>5, <2>1, CkptUnchanged, SourceUnchanged, LocalUnchanged DEF SkipRow, RowMoves
  <2>3. RowsType'
    BY <1>0, <1>5, RowMovesTypes DEF SkipRow, RowStates
  <2>4. "unfetched" \in Fates
    BY DEF Fates
  <2>5. SinkType'
    BY <1>0, <1>5, <2>4, MarkEffect DEF SkipRow, SinkType
  <2> QED BY <1>0, <2>2, <2>3, <2>5
<1>6. ASSUME NEW s \in Seqs, SendRow(s) PROVE WorkerTypeOK'
  <2>1. PICK r \in RowStates, applied \in BOOLEAN, t \in Bodies(s) :
          /\ Send(Doc(s), r, applied)
          /\ IF applied
             THEN /\ out' = [out EXCEPT ![Doc(s)] = Written(t, HasBody(s), Method(s))]
                  /\ fate' = Mark(fate, {s}, Fate(s, HasBody(s) /\ t >= s, Method(s)))
             ELSE UNCHANGED <<out, fate>>
          /\ RowMoves(s, r)
    BY <1>6 DEF SendRow
  <2>2. CheckpointTypeOK' /\ SourceType' /\ LocalType'
    BY <1>0, <2>1, SendFaults, CkptUnchanged, SourceUnchanged, LocalUnchanged DEF RowMoves
  <2>3. RowsType'
    BY <1>0, <2>1, RowMovesTypes
  <2>4. t \in Seqs /\ Doc(t) = Doc(s)
    BY <1>0, BodiesType DEF WorkerTypeOK
  <2> DEFINE right == HasBody(s) /\ t >= s
  <2>5. IF applied
        THEN /\ out' = [out EXCEPT ![Doc(s)] = Written(t, HasBody(s), Method(s))]
             /\ fate' = Mark(fate, {s}, Fate(s, right, Method(s)))
        ELSE UNCHANGED <<out, fate>>
    BY <2>1
  <2> HIDE DEF right
  <2>6. SinkType'
    BY <1>0, <1>6, <2>4, <2>5, SendTypes DEF SendRow, SinkType
  <2> QED BY <1>0, <2>2, <2>3, <2>6
<1>7. ASSUME NEW s \in Seqs, SettleRow(s) PROVE WorkerTypeOK'
  <2>0. s \in Nat
    BY JobAssumption DEF Seqs
  <2>1. SourceType'
    BY <1>0, <1>7, SourceUnchanged DEF SettleRow
  <2>2. SinkType'
    <3>1. CASE res[s] = "ok"
      BY <1>0, <1>7, <3>1 DEF SettleRow, SinkType
    <3>2. CASE res[s] = "skip"
      <4>1. fate' = Mark(fate, {s}, "dropped") /\ UNCHANGED <<out, dlq>>
        BY <1>7, <3>2 DEF SettleRow
      <4>2. "dropped" \in Fates
        BY DEF Fates
      <4> QED BY <1>0, <4>1, <4>2, MarkEffect DEF SinkType
    <3>3. CASE res[s] = "bad"
      <4>1. fate' = Queued(fate, {FailedEntry(s)}) /\ Enqueue({FailedEntry(s)}) /\ UNCHANGED out
        BY <1>7, <3>3 DEF SettleRow
      <4>2. {FailedEntry(s)} \in SUBSET DlqEntries
        BY EntryTypes
      <4> QED BY <1>0, <4>1, <4>2, QueuedEffect DEF SinkType
    <3> QED BY <1>7, <3>1, <3>2, <3>3 DEF SettleRow
  <2>3. CASE /\ IF SavesCursor(s)
                THEN Save(s, ck.done) /\ unsaved' = 0
                ELSE unsaved' = unsaved + 1 /\ UNCHANGED <<ckptVars, worldVars>>
             /\ since' = IF MovesCursor(s) THEN s ELSE since
             /\ res' = [res EXCEPT ![s] = "settled"]
             /\ UNCHANGED <<pc, initSync, rows, last, got, have>>
    <3>1. CheckpointTypeOK'
      <4>1. CASE SavesCursor(s)
        BY <1>0, <2>0, <2>3, <4>1, SaveTypes DEF CheckpointTypeOK
      <4>2. CASE ~SavesCursor(s)
        BY <1>0, <2>3, <4>2, CkptUnchanged DEF worldVars, CheckpointTypeOK
      <4> QED BY <4>1, <4>2
    <3>2. LocalType'
      BY <1>0, <2>0, <2>3 DEF LocalType
    <3>3. unsaved' \in Nat
      BY <1>0, <2>3 DEF RowsType
    <3>4. res' \in [Seqs -> RowStates]
      BY <1>0, <2>3 DEF RowsType, RowStates
    <3>5. RowsType'
      BY <1>0, <2>3, <3>3, <3>4 DEF RowsType
    <3> QED BY <1>0, <2>1, <2>2, <3>1, <3>2, <3>5
  <2>4. CASE SaveRaises(s, ck.done) /\ Die
    BY <1>0, <2>0, <2>1, <2>2, <2>4, RaiseTypes DEF CheckpointTypeOK
  <2> QED BY <1>7, <2>3, <2>4 DEF SettleRow
<1>8. ASSUME NEW s \in Seqs, HaltRow(s) PROVE WorkerTypeOK'
  <2> DEFINE E == Leftover(res[s], SubBatch(s) \cap Unsettled)
  <2>1. SubBatch(s) \cap Unsettled \in SUBSET Seqs
    BY <1>0 DEF Unsettled, RowsType
  <2>2. E \in SUBSET DlqEntries
    BY <2>1, LeftoverTypes
  <2>3. Enqueue(E) /\ fate' = Queued(fate, E) /\ out' = out
    BY <1>8 DEF HaltRow
  <2> HIDE DEF E
  <2>4. SinkType'
    BY <1>0, <2>2, <2>3, QueuedEffect DEF SinkType
  <2> QED BY <1>0, <1>8, <2>4, AbandonTypes DEF HaltRow
<1>9. CASE EndSequential
  <2>1. SourceType' /\ SinkType'
    BY <1>0, <1>9, SourceUnchanged, SinkUnchanged DEF EndSequential
  <2>2. CASE /\ last = since /\ pc' = "after"
             /\ UNCHANGED <<since, initSync, batchVars, ckptVars, worldVars>>
    <3>1. CheckpointTypeOK'
      BY <1>0, <2>2, CkptUnchanged DEF worldVars, CheckpointTypeOK
    <3>2. LocalType'
      BY <1>0, <2>2 DEF LocalType, PCs
    <3> QED BY <1>0, <2>1, <2>2, <3>1, <3>2, RowsUnchanged
  <2>3. CASE /\ Save(last, ck.done) /\ since' = last /\ pc' = "after"
             /\ UNCHANGED <<initSync, batchVars>>
    BY <1>0, <2>1, <2>3, AdvanceTypes
  <2>4. CASE SaveRaises(last, ck.done) /\ Die
    BY <1>0, <2>1, <2>4, RaiseTypes DEF RowsType, CheckpointTypeOK
  <2> QED BY <1>9, <2>2, <2>3, <2>4 DEF EndSequential
<1>10. CASE EndParallel
  <2>1. SinkType'
    BY <1>0, <1>10, GatheredEffect DEF EndParallel, SinkType
  <2>2. SourceType'
    BY <1>0, <1>10, SourceUnchanged DEF EndParallel
  <2>3. CASE /\ Save(last, ck.done) /\ since' = last /\ pc' = "after"
             /\ UNCHANGED <<initSync, batchVars>>
    BY <1>0, <2>1, <2>2, <2>3, AdvanceTypes
  <2>4. CASE SaveRaises(last, ck.done) /\ Die
    BY <1>0, <2>1, <2>2, <2>4, RaiseTypes DEF RowsType, CheckpointTypeOK
  <2> QED BY <1>10, <2>3, <2>4 DEF EndParallel
<1>11. CASE HaltParallel
  <2>1. PICK s \in Raised \ InState({"err"}), D \in SUBSET InState({"bad", "skip"}) :
          HaltQueues(s, D)
    BY <1>11 DEF HaltParallel, HaltQueues
  <2>2. SinkType'
    <3>1. D \in SUBSET rows /\ out' = out
      BY <1>11 DEF HaltParallel, InState
    <3> QED BY <1>0, <2>1, <3>1, HaltQueuesEffect DEF SinkType
  <2> QED BY <1>0, <1>11, <2>2, AbandonTypes DEF HaltParallel
<1>12. CASE RaiseFromBatch
  <2>1. SinkType'
    <3>1. CASE UNCHANGED <<dlq, fate>>
      BY <1>0, <1>12, <3>1 DEF RaiseFromBatch, SinkType
    <3>2. CASE \E D \in SUBSET InState({"bad", "skip"}) : Gathered(D)
      BY <1>0, <1>12, <3>2, GatheredEffect DEF RaiseFromBatch, SinkType
    <3> QED BY <1>12, <3>1, <3>2 DEF RaiseFromBatch
  <2>2. LocalType' /\ RowsType' /\ ck' = NewCheckpoint
    BY <1>12, DieType DEF RaiseFromBatch
  <2>3. CheckpointTypeOK'
    BY <1>0, <1>12, <2>2, NewCheckpointType DEF RaiseFromBatch, CheckpointTypeOK, worldVars
  <2>4. SourceType'
    BY <1>0, <1>12, SourceUnchanged DEF RaiseFromBatch
  <2> QED BY <1>0, <2>1, <2>2, <2>3, <2>4
<1> QED
  BY <1>1, <1>2, <1>3, <1>4, <1>5, <1>6, <1>7, <1>8, <1>9, <1>10, <1>11, <1>12
     DEF BatchStep

\* One entry of the replay and what came of it.
Replayed(e, r, applied) ==
  /\ IF e \in dlq THEN Send(Doc(e.seq), r, applied)
                  ELSE r = "bad" /\ ~applied /\ NoFault
  /\ replay' = replay \ {e}
  /\ dlq' = IF r = "ok" THEN dlq \ {e} ELSE dlq
  /\ IF applied
     THEN /\ out' = [out EXCEPT ![Doc(e.seq)] = Written(e.seq, e.full, e.method)]
          /\ fate' = Mark(fate, {e.seq}, Fate(e.seq, e.full, e.method))
     ELSE UNCHANGED <<out, fate>>

\* The steps of the worker and its environment that every feed mode has.
LEMMA StartTypes ==
  ASSUME WorkerTypeOK, Restart \/ StartAgain
  PROVE  WorkerTypeOK'
<1> USE TypePartsNext
<1>0. /\ CheckpointTypeOK /\ SourceType /\ SinkType
      /\ LocalType /\ RowsType /\ ReplayType
  BY TypeParts
<1>1. /\ CheckpointTypeOK' /\ SourceType' /\ SinkType' /\ RowsType' /\ ReplayType'
  BY <1>0, SourceUnchanged, SinkUnchanged, RowsUnchanged, ReplayUnchanged
     DEF Restart, StartAgain, CheckpointTypeOK, ckptVars, worldVars
<1>2. LocalType'
  BY <1>0 DEF Restart, StartAgain, LocalType, PCs
<1> QED BY <1>1, <1>2

LEMMA LoadCheckpointTypes ==
  ASSUME WorkerTypeOK, LoadCheckpoint
  PROVE  WorkerTypeOK'
<1> USE TypePartsNext
<1>0. /\ CheckpointTypeOK /\ SourceType /\ SinkType
      /\ LocalType /\ RowsType /\ ReplayType
  BY TypeParts
<1>1. CheckpointTypeOK'
  BY <1>0, LoadEffect DEF LoadCheckpoint
<1>2. LocalType'
  BY <1>1 DEF LoadCheckpoint, LocalType, PCs, CheckpointTypeOK
<1>3. ReplayType'
  BY <1>0 DEF LoadCheckpoint, ReplayType, SinkType
<1> QED BY <1>0, <1>1, <1>2, <1>3, SourceUnchanged, SinkUnchanged, RowsUnchanged
        DEF LoadCheckpoint

LEMMA ReplayEntryTypes ==
  ASSUME WorkerTypeOK, ReplayEntry
  PROVE  WorkerTypeOK'
<1> USE TypePartsNext
<1>0. /\ CheckpointTypeOK /\ SourceType /\ SinkType
      /\ LocalType /\ RowsType /\ ReplayType
  BY TypeParts
<1>1. PICK e \in replay, r \in RowStates, applied \in BOOLEAN : Replayed(e, r, applied)
  BY DEF ReplayEntry, Replayed
<1>2. e.seq \in Seqs
  BY <1>0 DEF ReplayType, DlqEntries
<1>3. SinkType'
  BY <1>0, <1>1, <1>2, SendTypes DEF Replayed, SinkType
<1>4. faults' \in Nat
  BY <1>0, <1>1, SendFaults DEF Replayed, NoFault, CheckpointTypeOK
<1>5. CheckpointTypeOK'
  BY <1>0, <1>4, CkptUnchanged DEF ReplayEntry
<1>6. ReplayType'
  BY <1>0, <1>1 DEF ReplayEntry, Replayed, ReplayType
<1> QED BY <1>0, <1>3, <1>5, <1>6, SourceUnchanged, LocalUnchanged, RowsUnchanged
        DEF ReplayEntry

LEMMA ReplayEndsTypes ==
  ASSUME WorkerTypeOK, ReplayEnds
  PROVE  WorkerTypeOK'
<1> USE TypePartsNext
<1>0. /\ CheckpointTypeOK /\ SourceType /\ SinkType
      /\ LocalType /\ RowsType /\ ReplayType
  BY TypeParts
<1>1. faults' \in Nat
  BY <1>0 DEF ReplayEnds, Fault, NoFault, CheckpointTypeOK
<1>2. target' \in Nat
  BY <1>0, NoTargetType DEF ReplayEnds, SourceType
<1>3. CheckpointTypeOK' /\ SourceType' /\ SinkType' /\ RowsType'
  BY <1>0, <1>1, CkptUnchanged, SourceUnchanged, SinkUnchanged, RowsUnchanged
     DEF ReplayEnds
<1>4. LocalType' /\ ReplayType'
  BY <1>0, <1>2 DEF ReplayEnds, LocalType, ReplayType, PCs
<1> QED BY <1>3, <1>4

LEMMA MutateTypes ==
  ASSUME WorkerTypeOK, Mutate
  PROVE  WorkerTypeOK'
<1> USE TypePartsNext
<1>0. /\ CheckpointTypeOK /\ SourceType /\ SinkType
      /\ LocalType /\ RowsType /\ ReplayType
  BY TypeParts
<1>1. PICK d \in Docs, k \in Job.kinds : log' = Append(log, [doc |-> d, kind |-> k])
  BY DEF Mutate
<1>2. k \in Kinds
  BY JobAssumption DEF JobSettings
<1>3. SourceType'
  BY <1>0, <1>1, <1>2, JobAssumption DEF Mutate, SourceType
<1> QED BY <1>0, <1>3, SinkUnchanged, LocalUnchanged, RowsUnchanged,
           ReplayUnchanged, CkptUnchanged DEF Mutate, worldVars, CheckpointTypeOK

LEMMA StopTypes ==
  ASSUME WorkerTypeOK, Stop
  PROVE  WorkerTypeOK'
<1> USE TypePartsNext
<1>0. /\ CheckpointTypeOK /\ SourceType /\ SinkType
      /\ LocalType /\ RowsType /\ ReplayType
  BY TypeParts
<1>1. CheckpointTypeOK'
  BY <1>0 DEF Stop, Fault, CheckpointTypeOK, ckptVars
<1> QED BY <1>0, <1>1, SourceUnchanged, SinkUnchanged, LocalUnchanged,
           RowsUnchanged, ReplayUnchanged DEF Stop

LEMMA CrashTypes ==
  ASSUME WorkerTypeOK, Crash
  PROVE  WorkerTypeOK'
<1> USE TypePartsNext
<1>0. /\ CheckpointTypeOK /\ SourceType /\ SinkType
      /\ LocalType /\ RowsType /\ ReplayType
  BY TypeParts
<1>1. LocalType' /\ RowsType' /\ ReplayType' /\ ck' = NewCheckpoint
  BY DieType, ForgetWorkerTypes DEF Crash
<1>2. CheckpointTypeOK' /\ SourceType' /\ SinkType'
  BY <1>0, <1>1, NewCheckpointType, SourceUnchanged, SinkUnchanged
     DEF Crash, Fault, CheckpointTypeOK
<1> QED BY <1>1, <1>2

LEMMA ExpireTypes ==
  ASSUME WorkerTypeOK, Expire
  PROVE  WorkerTypeOK'
<1> USE TypePartsNext
<1>0. /\ CheckpointTypeOK /\ SourceType /\ SinkType
      /\ LocalType /\ RowsType /\ ReplayType
  BY TypeParts
<1>1. PICK e \in dlq : dlq' = dlq \ {e} /\ fate' = Mark(fate, {e.seq}, "expired")
  BY DEF Expire
<1>2. "expired" \in Fates
  BY DEF Fates
<1>3. SinkType'
  BY <1>0, <1>1, <1>2, MarkEffect DEF Expire, SinkType
<1>4. CheckpointTypeOK'
  BY <1>0, CkptUnchanged DEF Expire, Fault, CheckpointTypeOK
<1> QED BY <1>0, <1>3, <1>4, SourceUnchanged, LocalUnchanged, RowsUnchanged,
           ReplayUnchanged DEF Expire

LEMMA TypesStutter == WorkerTypeOK /\ UNCHANGED vars => WorkerTypeOK'
BY CkptUnchanged, SourceUnchanged, SinkUnchanged, LocalUnchanged, RowsUnchanged,
   ReplayUnchanged, TypeParts, TypePartsNext DEF vars, worldVars, CheckpointTypeOK

-----------------------------------------------------------------------------
(* What a checkpoint covers. *)

\* The part of IInv about the cursors, and the part about the batch.
CursorInv(fwd) == Covered(since) /\ CheckpointCovered /\ RevInv(fwd)
InBatch == pc \in {"empty", "fetch", "work", "after"}

\* A step that grows the log, adds fates, and takes an entry off the queue only
\* for a fate.
Grows == /\ Len(log) \in Nat /\ Len(log)' \in Nat /\ Len(log) <= Len(log)'
         /\ DOMAIN log = 1..Len(log) /\ (DOMAIN log)' = 1..Len(log)'
         /\ \A s \in 1..Len(log) : log'[s] = log[s]
FateKept == \A s \in Seqs : fate[s] # {} => fate'[s] # {}
QueueKept == \A e \in dlq : e \in dlq' \/ fate'[e.seq] # {}
AccountKept == \A s \in DOMAIN log : Accounted(s) => Accounted(s)'

LEMMA LogRange ==
  ASSUME WorkerTypeOK
  PROVE  Len(log) \in Nat /\ DOMAIN log = 1..Len(log) /\ DOMAIN log \subseteq Seqs
BY JobAssumption, TypeParts DEF SourceType, Seqs

LEMMA SameLogGrows == ASSUME WorkerTypeOK, UNCHANGED log  PROVE Grows
BY LogRange DEF Grows

LEMMA AppendGrows == ASSUME WorkerTypeOK, NEW m, log' = Append(log, m)  PROVE Grows
BY TypeParts DEF Grows, SourceType

\* Such a step keeps every mutation accounted for and every number covered.
LEMMA Kept ==
  ASSUME WorkerTypeOK, Grows, FateKept, QueueKept
  PROVE  /\ AccountKept
         /\ \A s \in DOMAIN log : Accounted(s) => Accounted(s)'
         /\ \A n \in Nat : Covered(n) => Covered(n)'
<1>1. ASSUME NEW s \in DOMAIN log, Accounted(s)
      PROVE  Accounted(s)'
  <2>0. s \in Seqs /\ s \in 1..Len(log)
    BY LogRange
  <2>1. CASE ~Current(s)
    <3>1. PICK t \in (s + 1)..Len(log) : log[t].doc = log[s].doc
      BY <2>1 DEF Current, Doc
    <3>2. t \in (s + 1)..Len(log)' /\ log'[t] = log[t] /\ log'[s] = log[s]
      BY <2>0, <3>1 DEF Grows
    <3>3. ~Current(s)'
      BY <3>1, <3>2 DEF Current, Doc
    <3> QED BY <3>3 DEF Accounted
  <2>2. CASE fate[s] # {}
    BY <2>0, <2>2 DEF Accounted, FateKept
  <2>3. CASE InQueue(s)
    <3>1. PICK e \in dlq : e.seq = s /\ FaithfulEntry(e)
      BY <2>3 DEF InQueue
    <3>2. CASE fate'[s] # {}
      BY <3>2 DEF Accounted
    <3>3. CASE e \in dlq'
      <4>1. log'[s] = log[s]
        BY <2>0 DEF Grows
      <4>2. FaithfulEntry(e)'
        BY <3>1, <4>1 DEF FaithfulEntry, Faithful, Method, Live
      <4> QED BY <3>1, <3>3, <4>2 DEF Accounted, InQueue
    <3> QED BY <3>1, <3>2, <3>3 DEF QueueKept
  <2> QED BY <1>1, <2>1, <2>2, <2>3 DEF Accounted
<1>2. ASSUME NEW n \in Nat, Covered(n)
      PROVE  Covered(n)'
  <2>1. n <= Len(log)'
    BY <1>2 DEF Covered, Grows
  <2>2. ASSUME NEW s \in (DOMAIN log)', s <= n
        PROVE  Accounted(s)'
    <3>1. s \in DOMAIN log
      BY <1>2, <2>2 DEF Covered, Grows
    <3> QED BY <1>1, <1>2, <2>2, <3>1 DEF Covered
  <2> QED BY <2>1, <2>2 DEF Covered
<1> QED BY <1>1, <1>2 DEF AccountKept

\* Nothing is at or below 0.
LEMMA CoveredZero == ASSUME WorkerTypeOK  PROVE Covered(0)
BY LogRange DEF Covered

LEMMA Outside ==
  ASSUME NEW fwd \in BOOLEAN, ~InBatch  PROVE BatchInv(fwd) /\ OrderInv(fwd)
BY DEF InBatch, BatchInv, OrderInv

LEMMA OutsideNext ==
  ASSUME NEW fwd \in BOOLEAN, (~InBatch)'  PROVE BatchInv(fwd)' /\ OrderInv(fwd)'
BY DEF InBatch, BatchInv, OrderInv

-----------------------------------------------------------------------------
(* The cursors. *)

\* All numbers a restart can see stay covered while they do not change.
LEMMA CursorsKept ==
  ASSUME NEW fwd \in BOOLEAN, WorkerTypeOK, CursorInv(fwd), UNCHANGED <<since, ckptVars>>,
         \A n \in Nat : Covered(n) => Covered(n)'
  PROVE  CursorInv(fwd)'
<1>1. since \in Nat /\ sg.seq \in Nat /\ fb.seq \in Nat
  BY TypeParts DEF LocalType, CheckpointTypeOK, Stored
<1>2. Covered(since)' /\ CheckpointCovered'
  BY <1>1 DEF CursorInv, CheckpointCovered, ckptVars
<1>3. RevInv(fwd)'
  BY DEF CursorInv, RevInv, ckptVars
<1> QED BY <1>2, <1>3 DEF CursorInv

\* A worker that ends leaves only the stored copies.
LEMMA CursorsAfterEnd ==
  ASSUME NEW fwd \in BOOLEAN, WorkerTypeOK, WorkerTypeOK', CheckpointCovered,
         ~sg.there => sg.seq = 0, UNCHANGED <<sg, fb>>,
         NEW how \in {"down", "ended"}, End(how),
         \A n \in Nat : Covered(n) => Covered(n)'
  PROVE  CursorInv(fwd)' /\ BatchInv(fwd)' /\ OrderInv(fwd)'
<1>1. since' = 0 /\ pc' = how /\ ck' = NewCheckpoint
  BY DEF End
<1>2. sg.seq \in Nat /\ fb.seq \in Nat
  BY TypeParts DEF CheckpointTypeOK, Stored
<1>3. Covered(since)' /\ CheckpointCovered'
  BY <1>1, <1>2, CoveredZero DEF CheckpointCovered
<1>4. RevInv(fwd)'
  BY <1>1 DEF RevInv, NewCheckpoint
<1>5. (~InBatch)'
  BY <1>1 DEF InBatch
<1> QED BY <1>3, <1>4, <1>5, OutsideNext DEF CursorInv

\* A save of a covered number that is not behind the cursor.
LEMMA CursorsSaved ==
  ASSUME NEW fwd \in BOOLEAN, WorkerTypeOK, CursorInv(fwd), NEW n \in Nat, NEW done \in BOOLEAN, Save(n, done),
         fwd => since <= n, since' = n, Covered(n)',
         \A k \in Nat : Covered(k) => Covered(k)'
  PROVE  CursorInv(fwd)' /\ (fwd => sg'.seq >= sg.seq)
<1>0. /\ CheckpointTypeOK /\ since \in Nat /\ sg.seq \in Nat /\ fb.seq \in Nat
  BY TypeParts DEF LocalType, CheckpointTypeOK, Stored
<1>1. /\ sg' = sg \/ (ck.revOk /\ sg'.there /\ sg'.seq = n)
      /\ fb' = fb \/ fb'.seq = n
      /\ ck'.revOk => ck.revOk
  BY <1>0, SaveEffect
<1>2. fwd /\ ck.revOk => sg.seq <= since
  BY DEF CursorInv, RevInv
<1>3. Covered(since)' /\ CheckpointCovered'
  BY <1>0, <1>1 DEF CursorInv, CheckpointCovered
<1>4. RevInv(fwd)'
  BY <1>0, <1>1, <1>2 DEF CursorInv, RevInv
<1>5. fwd => sg'.seq >= sg.seq
  BY <1>0, <1>1, <1>2
<1> QED BY <1>3, <1>4, <1>5 DEF CursorInv

\* A save of such a number that raises, and the worker's end.
LEMMA CursorsRaised ==
  ASSUME NEW fwd \in BOOLEAN, WorkerTypeOK, WorkerTypeOK', CursorInv(fwd), NEW n \in Nat, NEW done \in BOOLEAN,
         SaveRaises(n, done), Die, fwd => since <= n, Covered(n)',
         \A k \in Nat : Covered(k) => Covered(k)'
  PROVE  CursorInv(fwd)' /\ BatchInv(fwd)' /\ OrderInv(fwd)' /\ (fwd => sg'.seq >= sg.seq)
<1>0. /\ CheckpointTypeOK /\ since \in Nat /\ sg.seq \in Nat /\ fb.seq \in Nat
  BY TypeParts DEF LocalType, CheckpointTypeOK, Stored
<1>1. /\ sg' = sg \/ (ck.revOk /\ sg'.there /\ sg'.seq = n)
      /\ fb' = fb
  BY <1>0, RaiseEffect
<1>2. since' = 0 /\ pc' = "down" /\ ck' = NewCheckpoint
  BY DEF Die, End
<1>3. Covered(0)'
  BY <1>0, CoveredZero
<1>4. Covered(since)' /\ CheckpointCovered'
  BY <1>0, <1>1, <1>2, <1>3 DEF CursorInv, CheckpointCovered
<1>5. RevInv(fwd)'
  BY <1>1, <1>2 DEF CursorInv, RevInv, NewCheckpoint
<1>6. (~InBatch)'
  BY <1>2 DEF InBatch
<1>7. fwd => sg'.seq >= sg.seq
  BY <1>0, <1>1 DEF CursorInv, RevInv
<1> QED BY <1>4, <1>5, <1>6, <1>7, OutsideNext DEF CursorInv

-----------------------------------------------------------------------------
(* The steps. *)

\* What a step must establish.
Safe(fwd) ==
  /\ CursorInv(fwd)' /\ BatchInv(fwd)' /\ OrderInv(fwd)'
  /\ fwd => sg'.seq >= sg.seq
  /\ AccountKept

LEMMA SeqNat == ASSUME WorkerTypeOK
                PROVE  since \in Nat /\ last \in Nat /\ sg.seq \in Nat /\ sg.seq >= sg.seq
BY TypeParts DEF LocalType, RowsType, CheckpointTypeOK, Stored

LEMMA IInvParts ==
  ASSUME NEW fwd \in BOOLEAN
  PROVE  IInv(fwd) <=> WorkerTypeOK /\ CursorInv(fwd) /\ BatchInv(fwd) /\ OrderInv(fwd)
BY DEF IInv, CursorInv

\* A step outside a batch that leaves the cursors alone.
LEMMA QuietStep ==
  ASSUME NEW fwd \in BOOLEAN, IInv(fwd), Grows, FateKept, QueueKept, UNCHANGED <<since, ckptVars>>, (~InBatch)'
  PROVE  Safe(fwd)
<1>1. CursorInv(fwd)'
  BY Kept, CursorsKept, IInvParts
<1>2. sg'.seq >= sg.seq
  BY SeqNat, IInvParts DEF ckptVars
<1> QED BY <1>1, <1>2, OutsideNext, Kept, IInvParts DEF Safe

\* A step that only adds to the log and the history, in a batch or not.
LEMMA BatchKept ==
  ASSUME NEW fwd \in BOOLEAN, IInv(fwd), Grows, FateKept, QueueKept, UNCHANGED <<pc, since, rows, last, res, ckptVars>>
  PROVE  Safe(fwd)
<1>0. WorkerTypeOK /\ CursorInv(fwd) /\ BatchInv(fwd) /\ OrderInv(fwd)
  BY IInvParts
<1>1. CursorInv(fwd)'
  BY <1>0, Kept, CursorsKept
<1>2. sg'.seq >= sg.seq
  BY <1>0, SeqNat DEF ckptVars
<1>3. OrderInv(fwd)'
  BY <1>0 DEF OrderInv
<1>4. BatchInv(fwd)'
  <2>1. SUFFICES ASSUME InBatch PROVE BatchInv(fwd)'
    BY DEF InBatch, BatchInv
  <2>2. last <= Len(log)'
    BY <1>0, <2>1, SeqNat DEF BatchInv, InBatch, Grows
  <2>3. ASSUME NEW s \in (DOMAIN log)', s <= last
        PROVE  \/ Accounted(s)'
               \/ pc # "after" /\ s \in rows /\ res[s] \notin {"ok", "settled"}
    <3>1. s \in DOMAIN log
      BY <1>0, <2>1, <2>3, SeqNat DEF BatchInv, InBatch, Grows
    <3> QED BY <1>0, <2>1, <2>3, <3>1, Kept DEF BatchInv, InBatch
  <2> QED BY <1>0, <2>1, <2>2, <2>3 DEF BatchInv, InBatch
<1> QED BY <1>0, <1>1, <1>2, <1>3, <1>4, Kept DEF Safe

\* The end of the worker without a save.
LEMMA EndStep ==
  ASSUME NEW fwd \in BOOLEAN, IInv(fwd), WorkerTypeOK', Grows, FateKept, QueueKept, UNCHANGED <<sg, fb>>,
         NEW how \in {"down", "ended"}, End(how)
  PROVE  Safe(fwd)
<1>1. CheckpointCovered /\ (~sg.there => sg.seq = 0)
  BY IInvParts DEF CursorInv, RevInv
<1>2. CursorInv(fwd)' /\ BatchInv(fwd)' /\ OrderInv(fwd)'
  BY <1>1, Kept, CursorsAfterEnd, IInvParts
<1> QED BY <1>2, SeqNat, IInvParts, Kept DEF Safe

LEMMA DieStep ==
  ASSUME NEW fwd \in BOOLEAN, IInv(fwd), WorkerTypeOK', Grows, FateKept, QueueKept, UNCHANGED <<sg, fb>>, Die
  PROVE  Safe(fwd)
<1>1. End("down")
  BY DEF Die
<1> QED BY <1>1, EndStep

LEMMA SinkKept == UNCHANGED sinkVars => FateKept /\ QueueKept
BY DEF sinkVars, FateKept, QueueKept

\* A number up to which a batch has nothing left to do is covered.
LEMMA BatchCovers ==
  ASSUME NEW fwd \in BOOLEAN, IInv(fwd), InBatch, WorkerTypeOK', Grows, FateKept, QueueKept,
         NEW n \in Nat, n <= last,
         \A s \in rows : s \in DOMAIN log /\ s <= n => Accounted(s)'
  PROVE  Covered(n)'
<1>1. last <= Len(log) /\ last \in Nat
  BY SeqNat, IInvParts DEF BatchInv, InBatch
<1>2. n <= Len(log)'
  BY <1>1 DEF Grows
<1>3. ASSUME NEW s \in (DOMAIN log)', s <= n
      PROVE  Accounted(s)'
  <2>1. s \in DOMAIN log /\ s <= last
    BY <1>1, <1>3 DEF Grows
  <2>2. CASE Accounted(s)
    BY <2>1, <2>2, Kept, IInvParts
  <2>3. CASE s \in rows
    BY <1>3, <2>1, <2>3
  <2> QED BY <2>1, <2>2, <2>3, IInvParts DEF BatchInv, InBatch
<1> QED BY <1>2, <1>3 DEF Covered

\* The cursor goes on to the end of a batch with nothing left to do.
LEMMA AfterBatch ==
  ASSUME NEW fwd \in BOOLEAN, IInv(fwd), WorkerTypeOK', InBatch, UNCHANGED <<log, rows, last, res>>, pc' = "after",
         NEW n \in Nat, n = last, since' = n, Covered(n)'
  PROVE  BatchInv(fwd)' /\ OrderInv(fwd)'
<1>1. OrderInv(fwd)'
  BY DEF OrderInv
<1>2. last <= Len(log) /\ last \in Nat
  BY SeqNat, IInvParts DEF BatchInv, InBatch
<1>3. \A s \in rows : s <= last /\ res[s] # "new"
  BY IInvParts DEF BatchInv, InBatch
<1>4. \A s \in (DOMAIN log)' : s <= last => Accounted(s)'
  BY DEF Covered
<1>5. BatchInv(fwd)'
  BY <1>2, <1>3, <1>4 DEF BatchInv
<1> QED BY <1>1, <1>5

\* The cursor goes on to the end of a batch with nothing left to do, and is saved.
LEMMA AdvanceSafe ==
  ASSUME NEW fwd \in BOOLEAN, IInv(fwd), WorkerTypeOK', InBatch, UNCHANGED log, FateKept, QueueKept,
         \A s \in rows : s \in DOMAIN log => Accounted(s)',
         \/ /\ Save(last, ck.done)
            /\ since' = last /\ pc' = "after"
            /\ UNCHANGED <<initSync, batchVars>>
         \/ SaveRaises(last, ck.done) /\ Die
  PROVE  Safe(fwd)
<1>0. /\ WorkerTypeOK /\ CursorInv(fwd) /\ BatchInv(fwd) /\ Grows
      /\ (fwd => since <= last) /\ last \in Nat
      /\ ck.done \in BOOLEAN
  BY IInvParts, SameLogGrows, SeqNat, TypeParts DEF BatchInv, InBatch, CheckpointTypeOK
<1>1. PICK n \in Nat : n = last
  BY <1>0
<1>2. Covered(n)'
  BY <1>0, <1>1, BatchCovers
<1>3. PICK done \in BOOLEAN : done = ck.done
  BY <1>0
<1>4. CASE /\ Save(last, ck.done) /\ since' = last /\ pc' = "after"
           /\ UNCHANGED <<initSync, batchVars>>
  <2>1. BatchInv(fwd)' /\ OrderInv(fwd)'
    BY <1>1, <1>2, <1>4, AfterBatch DEF batchVars
  <2>2. Save(n, done)
    BY <1>1, <1>3, <1>4
  <2>3. CursorInv(fwd)' /\ (fwd => sg'.seq >= sg.seq)
    BY <1>0, <1>1, <1>2, <1>4, <2>2, Kept, CursorsSaved
  <2> QED BY <1>0, <2>1, <2>3, Kept DEF Safe
<1>5. CASE SaveRaises(last, ck.done) /\ Die
  <2>1. SaveRaises(n, done)
    BY <1>1, <1>3, <1>5
  <2> QED BY <1>0, <1>1, <1>2, <1>5, <2>1, Kept, CursorsRaised DEF Safe
<1> QED BY <1>4, <1>5

LEMMA EmptyBatchSafe ==
  ASSUME NEW fwd \in BOOLEAN, IInv(fwd), WorkerTypeOK', EmptyBatch
  PROVE  Safe(fwd)
<1>0. /\ WorkerTypeOK /\ CursorInv(fwd) /\ BatchInv(fwd) /\ InBatch /\ rows = {}
      /\ Grows /\ FateKept /\ QueueKept /\ UNCHANGED log
      /\ (fwd => since <= last) /\ last \in Nat
  BY IInvParts, SameLogGrows, SinkKept, SeqNat DEF EmptyBatch, BatchInv, InBatch
<1>1. CASE /\ since' = last /\ pc' = "after" /\ UNCHANGED <<ckptVars, initSync, batchVars>>
  <2>1. PICK n \in Nat : n = last
    BY <1>0
  <2>2. Covered(n)'
    BY <1>0, <2>1, BatchCovers
  <2>3. BatchInv(fwd)' /\ OrderInv(fwd)'
    BY <1>0, <1>1, <2>1, <2>2, AfterBatch DEF batchVars
  <2>4. sg.seq \in Nat /\ fb.seq \in Nat /\ since \in Nat
    BY <1>0, TypeParts DEF CheckpointTypeOK, Stored, LocalType
  <2>5. CheckpointCovered'
    BY <1>0, <1>1, <2>4, Kept DEF CursorInv, CheckpointCovered, ckptVars
  <2>6. RevInv(fwd)'
    BY <1>0, <1>1, <2>4 DEF CursorInv, RevInv, ckptVars
  <2>7. Covered(since)'
    BY <1>1, <2>1, <2>2
  <2>8. sg'.seq >= sg.seq
    BY <1>1, <2>4 DEF ckptVars
  <2> QED BY <1>0, <2>3, <2>5, <2>6, <2>7, <2>8, Kept DEF Safe, CursorInv
<1>2. CASE \/ /\ Save(last, ck.done)
              /\ since' = last /\ pc' = "after"
              /\ UNCHANGED <<initSync, batchVars>>
           \/ SaveRaises(last, ck.done) /\ Die
  BY <1>0, <1>2, AdvanceSafe
<1> QED BY <1>1, <1>2 DEF EmptyBatch

LEMMA FetchSafe ==
  ASSUME NEW fwd \in BOOLEAN, IInv(fwd), WorkerTypeOK', FetchDocs \/ FetchDocsStopped
  PROVE  Safe(fwd)
<1>0. /\ WorkerTypeOK /\ CursorInv(fwd) /\ BatchInv(fwd) /\ OrderInv(fwd) /\ InBatch /\ pc = "fetch"
      /\ Grows /\ FateKept /\ QueueKept
  BY IInvParts, SameLogGrows, SinkKept DEF FetchDocs, FetchDocsStopped, InBatch
<1>1. CASE Die
  BY <1>0, <1>1, DieStep DEF FetchDocs, FetchDocsStopped, ckptVars
<1>2. CASE pc' = "work" /\ UNCHANGED <<log, fate, dlq, since, rows, last, res, ckptVars>>
  <2>1. CursorInv(fwd)'
    BY <1>0, <1>2, Kept, CursorsKept
  <2>2. OrderInv(fwd)'
    BY <1>0, <1>2 DEF OrderInv
  <2>3. /\ (fwd => since <= last) /\ last <= Len(log)
        /\ \A s \in rows : s <= last /\ res[s] = "todo"
        /\ \A s \in DOMAIN log : s <= last => Accounted(s) \/ s \in rows
    BY <1>0 DEF BatchInv
  <2>4. \A s \in (DOMAIN log)' : s <= last => Accounted(s)' \/ s \in rows
    BY <1>0, <1>2, <2>3, Kept
  <2>5. BatchInv(fwd)'
    BY <1>2, <2>3, <2>4 DEF BatchInv
  <2> QED BY <1>0, <1>2, <2>1, <2>2, <2>5, SeqNat, Kept DEF Safe, ckptVars
<1> QED BY <1>1, <1>2 DEF FetchDocs, FetchDocsStopped, batchVars, ckptVars, sinkVars

\* A row of the batch moves on: it is accounted for by the time it is "ok".
LEMMA RowSafe ==
  ASSUME NEW fwd \in BOOLEAN, IInv(fwd), WorkerTypeOK', NEW s \in rows, NEW state \in RowStates,
         pc = "work", RowMoves(s, state), FateKept, QueueKept,
         state \notin {"new", "todo", "settled"}, state = "ok" => Accounted(s)',
         res[s] # "settled",
         Job.sequential => \A t \in rows : t < s => res[t] = "settled"
  PROVE  Safe(fwd)
<1>0. /\ WorkerTypeOK /\ CursorInv(fwd) /\ BatchInv(fwd) /\ OrderInv(fwd) /\ Grows
      /\ UNCHANGED <<log, pc, since, rows, last, ckptVars>>
  BY IInvParts, SameLogGrows DEF RowMoves
<1>1. CursorInv(fwd)'
  BY <1>0, Kept, CursorsKept
<1>2. /\ res'[s] = state
      /\ \A t \in rows : t # s => res'[t] = res[t]
  BY <1>0, TypeParts DEF RowMoves, RowsType
<1>3. OrderInv(fwd)'
  <2>1. SUFFICES ASSUME Job.sequential
                 PROVE  /\ \A t, u \in rows : t < u /\ res'[u] # "todo" => res'[t] = "settled"
                        /\ fwd => \A t \in rows : res'[t] # "settled" => since <= t
    BY <1>0 DEF OrderInv
  <2>2. \A t, u \in rows : t < u /\ res[u] # "todo" => res[t] = "settled"
    BY <1>0, <2>1 DEF OrderInv
  <2>3. fwd => \A t \in rows : res[t] # "settled" => since <= t
    BY <1>0, <2>1 DEF OrderInv
  <2>4. ASSUME NEW t \in rows, NEW u \in rows, t < u, res'[u] # "todo"
        PROVE  res'[t] = "settled"
    <3>0. t \in Nat /\ u \in Nat
      BY <1>0, TypeParts, JobAssumption DEF RowsType, Seqs
    <3>1. t # u
      BY <2>4, <3>0
    <3>2. CASE u = s
      BY <1>2, <2>1, <2>4, <3>1, <3>2
    <3>3. CASE u # s
      BY <1>2, <2>2, <2>4, <3>3
    <3> QED BY <3>2, <3>3
  <2> QED BY <1>2, <2>3, <2>4
<1>4. /\ (fwd => since <= last) /\ last <= Len(log)
      /\ \A t \in rows : t <= last /\ res[t] # "new"
      /\ \A t \in DOMAIN log : t <= last =>
            Accounted(t) \/ (t \in rows /\ res[t] \notin {"ok", "settled"})
  BY <1>0 DEF BatchInv
<1>5. \A t \in DOMAIN log : t <= last =>
            Accounted(t)' \/ (t \in rows /\ res'[t] \notin {"ok", "settled"})
  BY <1>0, <1>2, <1>4, Kept
<1>6. BatchInv(fwd)'
  BY <1>0, <1>2, <1>4, <1>5 DEF BatchInv
<1> QED BY <1>0, <1>1, <1>3, <1>6, SeqNat, Kept DEF Safe, ckptVars

LEMMA TurnOrder ==
  ASSUME WorkerTypeOK, NEW s, Turn(s), Job.sequential
  PROVE  \A t \in rows : t < s => res[t] = "settled"
<1>1. \A t \in rows : t \in Nat /\ s \in Nat
  BY TypeParts, JobAssumption DEF RowsType, Seqs, Turn
<1> QED BY <1>1 DEF Turn, Unsettled

LEMMA TakeDocSafe ==
  ASSUME NEW fwd \in BOOLEAN, IInv(fwd), WorkerTypeOK', NEW s \in Seqs, TakeDoc(s)
  PROVE  Safe(fwd)
<1>1. FateKept /\ QueueKept /\ s \in rows /\ pc = "work" /\ res[s] = "todo"
  BY SinkKept DEF TakeDoc, Turn
<1>2. Job.sequential => \A t \in rows : t < s => res[t] = "settled"
  BY TurnOrder, IInvParts DEF TakeDoc
<1> QED BY <1>1, <1>2, RowSafe DEF TakeDoc, RowStates

LEMMA SkipRowSafe ==
  ASSUME NEW fwd \in BOOLEAN, IInv(fwd), WorkerTypeOK', NEW s \in Seqs, SkipRow(s)
  PROVE  Safe(fwd)
<1>1. s \in rows /\ pc = "work" /\ res[s] = "todo" /\ dlq' = dlq /\ log' = log
  BY DEF SkipRow, Turn, RowMoves
<1>2. Job.sequential => \A t \in rows : t < s => res[t] = "settled"
  BY TurnOrder, IInvParts DEF SkipRow
<1>3. fate \in [Seqs -> SUBSET Fates] /\ "unfetched" \in Fates
  BY TypeParts, IInvParts DEF SinkType, Fates
<1>4. CASE Current(s)
  <2>1. fate' = Mark(fate, {s}, "unfetched")
    BY <1>4 DEF SkipRow
  <2>2. FateKept /\ QueueKept /\ fate'[s] # {}
    BY <1>1, <1>3, <2>1, MarkEffect DEF FateKept, QueueKept
  <2>3. Accounted(s)'
    BY <2>2 DEF Accounted
  <2> QED BY <1>1, <1>2, <2>2, <2>3, RowSafe DEF SkipRow, RowStates
<1>5. CASE ~Current(s)
  <2>1. FateKept /\ QueueKept
    BY <1>1, <1>5 DEF SkipRow, FateKept, QueueKept
  <2>2. Accounted(s)'
    BY <1>1, <1>5 DEF Accounted, Current, Doc
  <2> QED BY <1>1, <1>2, <2>1, <2>2, RowSafe DEF SkipRow, RowStates
<1> QED BY <1>4, <1>5

LEMMA SendRowSafe ==
  ASSUME NEW fwd \in BOOLEAN, IInv(fwd), WorkerTypeOK', NEW s \in Seqs, SendRow(s)
  PROVE  Safe(fwd)
<1>1. s \in rows /\ pc = "work" /\ res[s] = "held" /\ dlq' = dlq
  BY DEF SendRow
<1>2. PICK r \in RowStates, applied \in BOOLEAN, t \in Bodies(s) :
        /\ Send(Doc(s), r, applied)
        /\ IF applied
           THEN /\ out' = [out EXCEPT ![Doc(s)] = Written(t, HasBody(s), Method(s))]
                /\ fate' = Mark(fate, {s}, Fate(s, HasBody(s) /\ t >= s, Method(s)))
           ELSE UNCHANGED <<out, fate>>
        /\ RowMoves(s, r)
  BY DEF SendRow
<1>3. Job.sequential => \A u \in rows : u < s => res[u] = "settled"
  BY <1>1, IInvParts DEF OrderInv
<1>7. t \in Seqs /\ Doc(t) = Doc(s)
  BY IInvParts, BodiesType DEF WorkerTypeOK
<1>4. FateKept /\ QueueKept /\ (applied => fate'[s] # {})
  <2> DEFINE right == HasBody(s) /\ t >= s
  <2>1. IF applied
        THEN /\ out' = [out EXCEPT ![Doc(s)] = Written(t, HasBody(s), Method(s))]
             /\ fate' = Mark(fate, {s}, Fate(s, right, Method(s)))
        ELSE UNCHANGED <<out, fate>>
    BY <1>2
  <2> HIDE DEF right
  <2> QED BY <1>1, <1>7, <2>1, SendTypes, IInvParts DEF FateKept, QueueKept
<1>5. r \in {"ok", "bad", "skip", "down", "shut", "err"} /\ (r = "ok" => applied)
  BY <1>2, SendFaults, IInvParts, TypeParts
<1>6. r = "ok" => Accounted(s)'
  BY <1>4, <1>5 DEF Accounted
<1> QED BY <1>1, <1>2, <1>3, <1>4, <1>5, <1>6, RowSafe

\* Settling row s leaves the history and the queue with all they had.
LEMMA SettleKept ==
  ASSUME NEW fwd \in BOOLEAN, IInv(fwd), WorkerTypeOK', NEW s \in Seqs, SettleRow(s)
  PROVE  FateKept /\ QueueKept /\ (s \in DOMAIN log => Accounted(s)')
<1>0. /\ WorkerTypeOK /\ BatchInv(fwd) /\ SinkType /\ dlq \in SUBSET DlqEntries
      /\ fate \in [Seqs -> SUBSET Fates] /\ "dropped" \in Fates
      /\ s \in rows /\ pc = "work" /\ res[s] \in {"ok", "bad", "skip"} /\ log' = log
  BY IInvParts, TypeParts DEF SinkType, SettleRow, Fates
<1>1. CASE res[s] = "ok"
  <2>1. UNCHANGED <<dlq, fate, log>>
    BY <1>0, <1>1 DEF SettleRow
  <2>2. FateKept /\ QueueKept /\ Grows
    BY <1>0, <2>1, SameLogGrows DEF FateKept, QueueKept
  <2>3. s \in DOMAIN log => Accounted(s)
    BY <1>0, <1>1 DEF BatchInv
  <2> QED BY <1>0, <2>2, <2>3, Kept
<1>2. CASE res[s] = "skip"
  <2>1. fate' = Mark(fate, {s}, "dropped") /\ dlq' = dlq
    BY <1>2 DEF SettleRow
  <2>2. FateKept /\ QueueKept /\ fate'[s] # {}
    BY <1>0, <2>1, MarkEffect DEF FateKept, QueueKept
  <2> QED BY <2>2 DEF Accounted
<1>3. CASE res[s] = "bad"
  <2>1. fate' = Queued(fate, {FailedEntry(s)}) /\ Enqueue({FailedEntry(s)})
    BY <1>3 DEF SettleRow
  <2>2. {FailedEntry(s)} \in SUBSET DlqEntries /\ FailedEntry(s).seq = s
    BY EntryTypes DEF FailedEntry
  <2> DEFINE e == FailedEntry(s)
  <2>3. /\ dlq \subseteq dlq'
        /\ \A t \in Seqs : fate[t] \subseteq fate'[t]
        /\ fate'[s] # {} \/ (e \in dlq' /\ FaithfulEntry(e))
    BY <1>0, <2>1, <2>2, QueuedEffect
  <2>4. FateKept /\ QueueKept
    BY <2>3 DEF FateKept, QueueKept
  <2>5. PICK x \in DlqEntries : x = e
    BY <2>2
  <2>6. FaithfulEntry(x) => FaithfulEntry(x)'
    BY <1>0 DEF FaithfulEntry, Faithful, Method, Live
  <2>7. fate'[s] # {} \/ (x \in dlq' /\ x.seq = s /\ FaithfulEntry(x)')
    BY <2>2, <2>3, <2>5, <2>6
  <2>8. Accounted(s)'
    BY <2>7 DEF Accounted, InQueue
  <2> QED BY <2>4, <2>8
<1> QED BY <1>0, <1>1, <1>2, <1>3

LEMMA SettleRowSafe ==
  ASSUME NEW fwd \in BOOLEAN, IInv(fwd), WorkerTypeOK', NEW s \in Seqs, SettleRow(s)
  PROVE  Safe(fwd)
<1>0. /\ WorkerTypeOK /\ CursorInv(fwd) /\ BatchInv(fwd) /\ OrderInv(fwd) /\ InBatch /\ Grows
      /\ FateKept /\ QueueKept /\ log' = log /\ (s \in DOMAIN log => Accounted(s)')
      /\ s \in rows /\ pc = "work" /\ Job.sequential /\ res[s] \in {"ok", "bad", "skip"}
      /\ s \in Nat /\ since \in Nat /\ last \in Nat /\ ck.done \in BOOLEAN
  <2>1. WorkerTypeOK /\ CursorInv(fwd) /\ BatchInv(fwd) /\ OrderInv(fwd)
    BY IInvParts
  <2>2. /\ s \in rows /\ pc = "work" /\ Job.sequential /\ res[s] \in {"ok", "bad", "skip"}
        /\ log' = log
    BY DEF SettleRow
  <2>3. s \in Nat /\ since \in Nat /\ last \in Nat
    BY <2>1, SeqNat, JobAssumption DEF Seqs
  <2>4. ck.done \in BOOLEAN
    BY <2>1, TypeParts DEF CheckpointTypeOK
  <2> QED BY <2>1, <2>2, <2>3, <2>4, SameLogGrows, SettleKept DEF InBatch
<1>1. /\ \A t \in rows : t \in Nat
      /\ \A t \in rows : t < s => res[t] = "settled"
      /\ \A t \in rows : t > s => res[t] = "todo"
      /\ fwd => since <= s
  <2>1. \A t \in rows : t \in Nat
    BY <1>0, TypeParts, JobAssumption DEF RowsType, Seqs
  <2>2. \A t, u \in rows : t < u /\ res[u] # "todo" => res[t] = "settled"
    BY <1>0 DEF OrderInv
  <2>3. fwd => \A t \in rows : res[t] # "settled" => since <= t
    BY <1>0 DEF OrderInv
  <2> QED BY <1>0, <2>1, <2>2, <2>3
<1>2. /\ (fwd => since <= last) /\ last <= Len(log)
      /\ \A t \in rows : t <= last /\ res[t] # "new"
      /\ \A t \in DOMAIN log : t <= last =>
            Accounted(t) \/ (t \in rows /\ res[t] \notin {"ok", "settled"})
  BY <1>0 DEF BatchInv
<1>3. Covered(s)'
  <2>1. \A t \in rows : t \in DOMAIN log /\ t <= s => Accounted(t)'
    <3>1. ASSUME NEW t \in rows, t \in DOMAIN log, t < s
          PROVE  Accounted(t)'
      BY <1>0, <1>1, <1>2, <3>1, Kept
    <3>2. \A t \in rows : t <= s => t < s \/ t = s
      BY <1>0, <1>1
    <3>3. s \in DOMAIN log => Accounted(s)'
      BY <1>0
    <3> QED BY <3>1, <3>2, <3>3
  <2>2. s \in Nat /\ s <= last
    BY <1>0, <1>2
  <2>3. InBatch /\ Grows /\ FateKept /\ QueueKept
    BY <1>0
  <2> QED BY <2>1, <2>2, <2>3, BatchCovers
<1>4. CASE /\ IF SavesCursor(s)
              THEN Save(s, ck.done) /\ unsaved' = 0
              ELSE unsaved' = unsaved + 1 /\ UNCHANGED <<ckptVars, worldVars>>
           /\ since' = IF MovesCursor(s) THEN s ELSE since
           /\ res' = [res EXCEPT ![s] = "settled"]
           /\ UNCHANGED <<pc, initSync, rows, last, got, have>>
  <2>1. /\ res'[s] = "settled"
        /\ \A t \in rows : t # s => res'[t] = res[t]
    BY <1>0, <1>4, TypeParts DEF RowsType
  <2>2. since' \in {s, since} /\ (fwd => since' <= s)
    BY <1>0, <1>1, <1>4
  <2>3. OrderInv(fwd)'
    <3>1. fwd => \A t \in rows : res'[t] # "settled" => since' <= t
      BY <1>0, <1>1, <2>1, <2>2
    <3>2. \A t, u \in rows : t < u /\ res'[u] # "todo" => res'[t] = "settled"
      BY <1>0, <1>1, <2>1
    <3> QED BY <1>4, <3>1, <3>2 DEF OrderInv
  <2>4. BatchInv(fwd)'
    <3>1. \A t \in DOMAIN log : t <= last =>
            Accounted(t)' \/ (t \in rows /\ res'[t] \notin {"ok", "settled"})
      BY <1>0, <1>2, <2>1, Kept
    <3>2. \A t \in rows : t <= last /\ res'[t] # "new"
      BY <1>2, <2>1
    <3>3. fwd => since' <= last
      BY <1>0, <1>2, <2>2
    <3> QED BY <1>0, <1>2, <1>4, <3>1, <3>2, <3>3 DEF BatchInv
  <2>5. CursorInv(fwd)' /\ (fwd => sg'.seq >= sg.seq)
    <3>1. CASE SavesCursor(s)
      <4>1. since' = s
        BY <1>4, <3>1 DEF SavesCursor, MovesCursor
      <4>2. PICK done \in BOOLEAN : done = ck.done
        BY <1>0
      <4>3. Save(s, done)
        BY <1>4, <3>1, <4>2
      <4> QED BY <1>0, <1>1, <1>3, <4>1, <4>3, Kept, CursorsSaved
    <3>2. CASE ~SavesCursor(s)
      <4>1. UNCHANGED ckptVars
        BY <1>4, <3>2
      <4>2. sg.seq \in Nat /\ fb.seq \in Nat
        BY <1>0, TypeParts DEF CheckpointTypeOK, Stored
      <4>3. CheckpointCovered'
        BY <1>0, <4>1, <4>2, Kept DEF CursorInv, CheckpointCovered, ckptVars
      <4>4. Covered(since)'
        BY <1>0, <1>3, <2>2, Kept DEF CursorInv
      <4>5. RevInv(fwd)'
        BY <1>0, <1>1, <1>4, <4>1, <4>2 DEF CursorInv, RevInv, ckptVars
      <4> QED BY <4>1, <4>2, <4>3, <4>4, <4>5 DEF CursorInv, ckptVars
    <3> QED BY <3>1, <3>2
  <2> QED BY <1>0, <2>3, <2>4, <2>5, Kept DEF Safe
<1>5. CASE SaveRaises(s, ck.done) /\ Die
  <2>1. PICK done \in BOOLEAN : done = ck.done
    BY <1>0
  <2>2. SaveRaises(s, done)
    BY <1>5, <2>1
  <2> QED BY <1>0, <1>1, <1>3, <1>5, <2>2, Kept, CursorsRaised DEF Safe
<1> QED BY <1>4, <1>5 DEF SettleRow

LEMMA HaltRowSafe ==
  ASSUME NEW fwd \in BOOLEAN, IInv(fwd), NEW s \in Seqs, HaltRow(s)
  PROVE  Safe(fwd)
<1> DEFINE E == Leftover(res[s], SubBatch(s) \cap Unsettled)
<1>0. WorkerTypeOK /\ SinkType /\ RowsType
  BY IInvParts, TypeParts
<1>1. E \in SUBSET DlqEntries
  BY <1>0, LeftoverTypes DEF Unsettled, RowsType
<1>2. Enqueue(E) /\ fate' = Queued(fate, E)
  BY DEF HaltRow
<1> HIDE DEF E
<1>3. FateKept /\ QueueKept
  BY <1>0, <1>1, <1>2, QueuedEffect DEF SinkType, FateKept, QueueKept
<1> QED BY <1>0, <1>3, SameLogGrows, QuietStep DEF HaltRow, InBatch

LEMMA EndSequentialSafe ==
  ASSUME NEW fwd \in BOOLEAN, IInv(fwd), WorkerTypeOK', EndSequential
  PROVE  Safe(fwd)
<1>0. /\ WorkerTypeOK /\ BatchInv(fwd) /\ OrderInv(fwd) /\ CursorInv(fwd) /\ InBatch /\ pc = "work"
      /\ Grows /\ FateKept /\ QueueKept /\ UNCHANGED log
      /\ \A s \in rows : res[s] = "settled"
  BY IInvParts, SameLogGrows, SinkKept DEF EndSequential, InBatch, Unsettled
<1>1. \A s \in DOMAIN log : s <= last => Accounted(s)'
  BY <1>0, Kept DEF BatchInv
<1>2. CASE last = since /\ pc' = "after" /\ UNCHANGED <<since, batchVars, ckptVars>>
  <2>1. CursorInv(fwd)'
    BY <1>0, <1>2, Kept, CursorsKept
  <2>2. OrderInv(fwd)'
    BY <1>2 DEF OrderInv
  <2>3. BatchInv(fwd)'
    BY <1>0, <1>1, <1>2 DEF BatchInv, batchVars
  <2> QED BY <1>0, <1>2, <2>1, <2>2, <2>3, SeqNat, Kept DEF Safe, ckptVars
<1>3. CASE \/ /\ Save(last, ck.done)
              /\ since' = last /\ pc' = "after"
              /\ UNCHANGED <<initSync, batchVars>>
           \/ SaveRaises(last, ck.done) /\ Die
  <2>1. \A s \in rows : s \in DOMAIN log => Accounted(s)'
    BY <1>0, <1>1 DEF BatchInv
  <2> QED BY <1>0, <1>3, <2>1, AdvanceSafe
<1> QED BY <1>2, <1>3 DEF EndSequential

LEMMA EndParallelSafe ==
  ASSUME NEW fwd \in BOOLEAN, IInv(fwd), WorkerTypeOK', EndParallel
  PROVE  Safe(fwd)
<1> DEFINE D == InState({"bad", "skip"})
<1>0. /\ WorkerTypeOK /\ BatchInv(fwd) /\ SinkType /\ RowsType /\ InBatch /\ pc = "work"
      /\ Grows /\ UNCHANGED log /\ Gathered(D) /\ D \in SUBSET D
  BY IInvParts, TypeParts, SameLogGrows DEF EndParallel, AllDone, InBatch
<1>1. /\ dlq \subseteq dlq'
      /\ \A s \in Seqs : fate[s] \subseteq fate'[s]
      /\ \A s \in D : fate'[s] # {} \/ \E e \in dlq' : e.seq = s /\ FaithfulEntry(e)
  BY <1>0, GatheredEffect
<1>2. FateKept /\ QueueKept
  BY <1>1 DEF FateKept, QueueKept
<1>3. \A e \in dlq' : FaithfulEntry(e) => FaithfulEntry(e)'
  BY <1>0 DEF FaithfulEntry, Faithful, Method, Live
<1>4. \A s \in D : Accounted(s)'
  BY <1>1, <1>3 DEF Accounted, InQueue
<1>5. \A s \in rows : s \in D \/ res[s] \in {"ok", "settled"}
  BY <1>0 DEF EndParallel, AllDone, Raised, InState, BatchInv, RowsType, RowStates
<1>6. \A s \in rows : s \in DOMAIN log => Accounted(s)'
  <2>1. ASSUME NEW s \in rows, s \in DOMAIN log, res[s] \in {"ok", "settled"}
        PROVE  Accounted(s)'
    BY <1>0, <1>2, <2>1, Kept DEF BatchInv
  <2> QED BY <1>4, <1>5, <2>1
<1> QED BY <1>0, <1>2, <1>6, AdvanceSafe DEF EndParallel

LEMMA HaltParallelSafe ==
  ASSUME NEW fwd \in BOOLEAN, IInv(fwd), HaltParallel
  PROVE  Safe(fwd)
<1>0. WorkerTypeOK /\ SinkType /\ RowsType
  BY IInvParts, TypeParts
<1>1. PICK s \in Raised \ InState({"err"}), D \in SUBSET InState({"bad", "skip"}) :
        HaltQueues(s, D)
  BY DEF HaltParallel, HaltQueues
<1>2. D \in SUBSET rows
  BY DEF InState
<1>3. FateKept /\ QueueKept
  BY <1>0, <1>1, <1>2, HaltQueuesEffect DEF FateKept, QueueKept
<1> QED BY <1>0, <1>3, SameLogGrows, QuietStep DEF HaltParallel, InBatch

LEMMA RaiseFromBatchSafe ==
  ASSUME NEW fwd \in BOOLEAN, IInv(fwd), WorkerTypeOK', RaiseFromBatch
  PROVE  Safe(fwd)
<1>0. WorkerTypeOK /\ SinkType /\ RowsType
  BY IInvParts, TypeParts
<1>1. CASE UNCHANGED <<dlq, fate>>
  BY <1>0, <1>1, SameLogGrows, DieStep DEF RaiseFromBatch, FateKept, QueueKept
<1>2. CASE \E D \in SUBSET InState({"bad", "skip"}) : Gathered(D)
  <2>1. FateKept /\ QueueKept
    BY <1>0, <1>2, GatheredEffect DEF FateKept, QueueKept
  <2> QED BY <1>0, <2>1, SameLogGrows, DieStep DEF RaiseFromBatch
<1> QED BY <1>1, <1>2 DEF RaiseFromBatch

-----------------------------------------------------------------------------

LEMMA LoadCheckpointSafe ==
  ASSUME NEW fwd \in BOOLEAN, IInv(fwd), WorkerTypeOK', LoadCheckpoint
  PROVE  Safe(fwd)
<1>0. /\ WorkerTypeOK /\ CursorInv(fwd) /\ Grows /\ FateKept /\ QueueKept
      /\ CheckpointTypeOK /\ sg.seq \in Nat /\ fb.seq \in Nat
  BY IInvParts, SameLogGrows, SinkKept, TypeParts DEF LoadCheckpoint, CheckpointTypeOK, Stored
<1>1. /\ CheckpointTypeOK'
      /\ ck'.seq \in {sg.seq, fb.seq, 0}
      /\ ck'.revOk => (sg.there => ck'.seq = sg.seq)
      /\ UNCHANGED <<sg, fb, stopping>>
  BY <1>0, LoadEffect DEF LoadCheckpoint
<1>2. since' = ck'.seq /\ pc' = "replay"
  BY DEF LoadCheckpoint
<1>3. \A n \in {sg.seq, fb.seq, 0} : Covered(n)'
  <2>1. \A n \in {sg.seq, fb.seq, 0} : n \in Nat /\ Covered(n)
    BY <1>0, CoveredZero DEF CursorInv, CheckpointCovered
  <2> QED BY <1>0, <2>1, Kept
<1>4. Covered(since)' /\ CheckpointCovered'
  BY <1>1, <1>2, <1>3 DEF CheckpointCovered
<1>5. RevInv(fwd)'
  BY <1>0, <1>1, <1>2 DEF RevInv, CursorInv, CheckpointTypeOK
<1>6. BatchInv(fwd)' /\ OrderInv(fwd)'
  BY <1>2, OutsideNext DEF InBatch
<1> QED BY <1>0, <1>1, <1>4, <1>5, <1>6, Kept DEF Safe, CursorInv

LEMMA ReplayEntrySafe ==
  ASSUME NEW fwd \in BOOLEAN, IInv(fwd), ReplayEntry
  PROVE  Safe(fwd)
<1>0. WorkerTypeOK
  BY IInvParts
<1>1. PICK e \in replay, r \in RowStates, applied \in BOOLEAN : Replayed(e, r, applied)
  BY DEF ReplayEntry, Replayed
<1>2. e.seq \in Seqs
  BY <1>0, TypeParts DEF ReplayType, DlqEntries
<1>3. FateKept /\ (applied => fate'[e.seq] # {})
  BY <1>0, <1>1, <1>2, SendTypes DEF Replayed, FateKept
<1>4. QueueKept
  <2>1. CASE r = "ok" /\ e \in dlq
    <3>1. applied
      BY <1>0, <1>1, <2>1, SendFaults, TypeParts DEF Replayed
    <3>2. dlq' = dlq \ {e}
      BY <1>1, <2>1 DEF Replayed
    <3> QED BY <1>3, <3>1, <3>2 DEF QueueKept
  <2>2. CASE ~(r = "ok" /\ e \in dlq)
    BY <1>1, <2>2 DEF Replayed, QueueKept
  <2> QED BY <2>1, <2>2
<1> QED BY <1>0, <1>3, <1>4, SameLogGrows, QuietStep DEF ReplayEntry, InBatch

LEMMA ReceiveTypeOK ==
  ASSUME WorkerTypeOK, NEW R \in SUBSET Seqs, NEW H, NEW n \in Nat, Receive(R, H, n),
         ReplayType'
  PROVE  WorkerTypeOK'
<1>0. CheckpointTypeOK /\ SourceType /\ SinkType
  BY TypeParts
<1>1. RowsType' /\ LocalType' /\ fate' \in [Seqs -> SUBSET Fates]
  BY ReceiveTypes
<1>2. CheckpointTypeOK' /\ SourceType' /\ SinkType'
  BY <1>0, <1>1, SourceUnchanged, CkptUnchanged
     DEF Receive, SinkType, CheckpointTypeOK, worldVars, ckptVars
<1> QED BY <1>1, <1>2, TypePartsNext

\* A batch begins: what is still to be looked at up to its end n is one of its rows.
LEMMA ArrivalSafe ==
  ASSUME NEW fwd \in BOOLEAN, IInv(fwd), WorkerTypeOK', NEW n \in Nat, n <= Len(log),
         last' = n, pc' \in {"empty", "fetch", "work"}, pc' = "empty" => rows' = {},
         res' = [s \in Seqs |-> IF s \in rows' THEN "todo" ELSE "new"],
         UNCHANGED <<log, dlq, since, ckptVars>>, FateKept,
         \A s \in rows' : s <= n, fwd => since <= n /\ \A s \in rows' : since <= s,
         \A s \in DOMAIN log : s <= n => Accounted(s) \/ s \in rows' \/ fate'[s] # {}
  PROVE  Safe(fwd)
<1>0. /\ WorkerTypeOK /\ CursorInv(fwd) /\ Len(log) \in Nat
      /\ rows' \in SUBSET Seqs /\ Grows /\ QueueKept
  BY IInvParts, LogRange, SameLogGrows DEF WorkerTypeOK, TypeOK, QueueKept
<1>1. CursorInv(fwd)'
  BY <1>0, Kept, CursorsKept
<1>2. \A s \in rows' : res'[s] = "todo"
  BY <1>0
<1>3. \A s \in (DOMAIN log)' : s <= n => Accounted(s)' \/ s \in rows'
  BY <1>0, Kept DEF Accounted
<1>4. BatchInv(fwd)'
  BY <1>2, <1>3 DEF BatchInv
<1>5. OrderInv(fwd)'
  BY <1>2 DEF OrderInv
<1> QED BY <1>0, <1>1, <1>4, <1>5, SeqNat, Kept DEF Safe, ckptVars

\* A response whose rows R, with the rows H it did not ask for, are all that was
\* still to be looked at up to n.
LEMMA ReceiveSafe ==
  ASSUME NEW fwd \in BOOLEAN, IInv(fwd), WorkerTypeOK',
         NEW R \in SUBSET Seqs, NEW H \in SUBSET Seqs, NEW n \in Nat, Receive(R, H, n),
         n <= Len(log), fwd => since <= n /\ \A s \in R : since <= s,
         \A s \in R : s <= n,
         \A s \in DOMAIN log : s <= n => Accounted(s) \/ s \in R \/ s \in H
  PROVE  Safe(fwd)
<1> DEFINE X == Ignored(R) \cup ForceSkipped(R)
<1>0. WorkerTypeOK /\ DOMAIN log \subseteq Seqs
  BY IInvParts, LogRange
<1>1. /\ rows' = R \ X /\ last' = n
      /\ res' = [s \in Seqs |-> IF s \in rows' THEN "todo" ELSE "new"]
      /\ pc' \in {"empty", "fetch", "work"} /\ (pc' = "empty" => R = {})
      /\ UNCHANGED <<log, dlq, since, ckptVars>>
  BY DEF Receive
<1>2. /\ \A s \in Seqs : fate[s] \subseteq fate'[s]
      /\ \A s \in Seqs : s \in X \cup H => fate'[s] # {}
  BY <1>0, ReceiveTypes
<1> HIDE DEF X
<1>3. FateKept
  BY <1>2 DEF FateKept
<1>4. \A s \in DOMAIN log : s <= n => Accounted(s) \/ s \in rows' \/ fate'[s] # {}
  BY <1>0, <1>1, <1>2
<1>5. (pc' = "empty" => rows' = {}) /\ rows' \subseteq R
  BY <1>1
<1> QED BY <1>1, <1>3, <1>4, <1>5, ArrivalSafe

\* An entry that ages out of the queue leaves a fate behind.
LEMMA ExpireKept ==
  ASSUME WorkerTypeOK, Expire
  PROVE  Grows /\ FateKept /\ QueueKept
<1>1. PICK e \in dlq : dlq' = dlq \ {e} /\ fate' = Mark(fate, {e.seq}, "expired")
  BY DEF Expire
<1>2. /\ fate \in [Seqs -> SUBSET Fates] /\ e.seq \in Seqs /\ "expired" \in Fates
  BY TypeParts DEF SinkType, DlqEntries, Fates
<1>3. FateKept /\ fate'[e.seq] # {}
  BY <1>1, <1>2, MarkEffect DEF FateKept
<1>4. QueueKept
  BY <1>1, <1>3 DEF QueueKept
<1>5. Grows
  BY SameLogGrows DEF Expire
<1> QED BY <1>3, <1>4, <1>5

LEMMA ExpireSafe ==
  ASSUME NEW fwd \in BOOLEAN, IInv(fwd), Expire
  PROVE  Safe(fwd)
<1>1. Grows /\ FateKept /\ QueueKept
  BY ExpireKept, IInvParts
<1> QED BY <1>1, BatchKept DEF Expire, batchVars

LEMMA BatchSafe ==
  ASSUME NEW fwd \in BOOLEAN, IInv(fwd), WorkerTypeOK', BatchStep
  PROVE  Safe(fwd)
BY EmptyBatchSafe, FetchSafe, TakeDocSafe, SkipRowSafe, SendRowSafe, SettleRowSafe,
   HaltRowSafe, EndSequentialSafe, EndParallelSafe, HaltParallelSafe, RaiseFromBatchSafe
   DEF BatchStep

\* The response to a request on _changes, with or without active_only, whose
\* last_seq is m.
Request(a, m) ==
  Receive({s \in Feed(since, a) : s <= m},
          {s \in Feed(since, FALSE) : s <= m /\ a /\ ~Live(s)}, m)

\* What it brings: R are its rows, H the deletions it did not ask for.
LEMMA FeedReceives ==
  ASSUME WorkerTypeOK, NEW a, NEW m \in since..Len(log), Request(a, m)
  PROVE  \E n \in Nat, R \in SUBSET Seqs, H \in SUBSET Seqs :
           /\ Receive(R, H, n) /\ since <= n /\ n <= Len(log)
           /\ \A s \in R : since <= s /\ s <= n
           /\ \A s \in DOMAIN log : s <= n => s <= since \/ ~Current(s) \/ s \in R \/ s \in H
<1>0. SourceType /\ Len(log) \in Nat /\ since \in Nat /\ DOMAIN log = 1..Len(log)
  BY TypeParts, SeqNat, LogRange
<1> DEFINE R == {s \in Feed(since, a) : s <= m}
           H == {s \in Feed(since, FALSE) : s <= m /\ a /\ ~Live(s)}
<1>2. m \in Nat /\ since <= m /\ m <= Len(log)
  BY <1>0
<1>3. R \in SUBSET Seqs /\ H \in SUBSET Seqs
  BY <1>0, FeedRange
<1>4. \A s \in R : since <= s /\ s <= m
  BY <1>0 DEF Feed
<1>5. \A s \in (since + 1)..m : Current(s) => s \in R \/ s \in H
  BY <1>0, <1>2 DEF Feed
<1>6. Receive(R, H, m)
  BY DEF Request
<1> HIDE DEF R, H
<1>7. \A s \in DOMAIN log : s <= m => s <= since \/ ~Current(s) \/ s \in R \/ s \in H
  BY <1>0, <1>2, <1>5
<1> QED BY <1>2, <1>3, <1>4, <1>6, <1>7

LEMMA RequestTypes ==
  ASSUME WorkerTypeOK, NEW a, NEW m \in since..Len(log), Request(a, m),
         ReplayType'
  PROVE  WorkerTypeOK'
BY FeedReceives, ReceiveTypeOK

LEMMA RequestSafe ==
  ASSUME NEW fwd \in BOOLEAN, IInv(fwd), WorkerTypeOK', NEW a, NEW m \in since..Len(log), Request(a, m)
  PROVE  Safe(fwd)
<1>0. WorkerTypeOK /\ CursorInv(fwd)
  BY IInvParts
<1>1. PICK n \in Nat, R \in SUBSET Seqs, H \in SUBSET Seqs :
        /\ Receive(R, H, n) /\ since <= n /\ n <= Len(log)
        /\ \A s \in R : since <= s /\ s <= n
        /\ \A s \in DOMAIN log : s <= n => s <= since \/ ~Current(s) \/ s \in R \/ s \in H
  BY <1>0, FeedReceives
<1>2. \A s \in DOMAIN log : s <= n => Accounted(s) \/ s \in R \/ s \in H
  BY <1>0, <1>1 DEF CursorInv, Covered, Accounted
<1> QED BY <1>1, <1>2, ReceiveSafe

\* The initial sync is over: its flag is saved with the cursor, or the save
\* raises and ends the worker.
FlagSaved == Save(since, TRUE) /\ initSync' = FALSE /\ pc' = "poll" /\ ForgetBatch
FlagRaises == SaveRaises(since, TRUE) /\ Die

LEMMA FlagTypes ==
  ASSUME WorkerTypeOK, UNCHANGED <<log, sinkVars>>, ReplayType',
         (FlagSaved /\ since' = since) \/ FlagRaises
  PROVE  WorkerTypeOK'
<1>0. CheckpointTypeOK /\ SourceType /\ SinkType /\ LocalType
  BY TypeParts
<1>1. SourceType' /\ SinkType'
  BY <1>0, SourceUnchanged, SinkUnchanged
<1>2. CASE FlagSaved /\ since' = since
  <2>1. CheckpointTypeOK'
    BY <1>0, <1>2, SaveTypes DEF LocalType, FlagSaved
  <2>2. LocalType'
    BY <1>0, <1>2 DEF LocalType, PCs, FlagSaved
  <2> QED BY <1>1, <1>2, <2>1, <2>2, ForgetBatchType, TypePartsNext DEF FlagSaved
<1>3. CASE FlagRaises
  <2>1. CheckpointTypeOK' /\ LocalType' /\ RowsType'
    BY <1>0, <1>3, RaiseTypes DEF LocalType, FlagRaises
  <2> QED BY <1>1, <2>1, TypePartsNext
<1> QED BY <1>2, <1>3

LEMMA FlagSafe ==
  ASSUME NEW fwd \in BOOLEAN, IInv(fwd), WorkerTypeOK', UNCHANGED <<log, sinkVars>>,
         (FlagSaved /\ since' = since) \/ FlagRaises
  PROVE  Safe(fwd)
<1>0. /\ WorkerTypeOK /\ CursorInv(fwd) /\ Grows /\ FateKept /\ QueueKept
      /\ since \in Nat /\ Covered(since)
  BY IInvParts, SameLogGrows, SinkKept, SeqNat DEF CursorInv
<1>1. PICK n \in Nat : n = since
  BY <1>0
<1>2. Covered(n)' /\ since <= n
  BY <1>0, <1>1, Kept
<1>3. CASE FlagSaved /\ since' = since
  <2>1. Save(n, TRUE) /\ since' = n
    BY <1>1, <1>3 DEF FlagSaved
  <2>2. BatchInv(fwd)' /\ OrderInv(fwd)'
    BY <1>3, OutsideNext DEF InBatch, FlagSaved
  <2> QED BY <1>0, <1>2, <2>1, <2>2, Kept, CursorsSaved DEF Safe
<1>4. CASE FlagRaises
  <2>1. SaveRaises(n, TRUE) /\ Die
    BY <1>1, <1>4 DEF FlagRaises
  <2> QED BY <1>0, <1>2, <2>1, Kept, CursorsRaised DEF Safe
<1> QED BY <1>3, <1>4

\* Steps of a driver between batches, and its ends.
LEMMA BetweenTypes ==
  ASSUME WorkerTypeOK, pc' \in PCs, since' \in Nat, faults' \in Nat,
         ForgetBatch \/ UNCHANGED batchVars,
         UNCHANGED <<log, sinkVars, initSync, ckptVars, stopping, replay, target>>
  PROVE  WorkerTypeOK'
<1>1. RowsType'
  BY TypeParts, ForgetBatchType, RowsUnchanged
<1>2. LocalType'
  BY TypeParts DEF LocalType
<1> QED BY <1>1, <1>2, TypeParts, TypePartsNext, SourceUnchanged, SinkUnchanged,
           ReplayUnchanged, CkptUnchanged

LEMMA EndTypes ==
  ASSUME WorkerTypeOK, NEW how \in {"down", "ended"}, End(how), ForgetWorker,
         UNCHANGED <<log, sinkVars, sg, fb, stopping>>, faults' \in Nat
  PROVE  WorkerTypeOK'
<1>1. LocalType' /\ RowsType' /\ ReplayType' /\ ck' = NewCheckpoint
  BY EndType, ForgetWorkerTypes
<1>2. CheckpointTypeOK'
  BY <1>1, TypeParts, NewCheckpointType DEF CheckpointTypeOK
<1> QED BY <1>1, <1>2, TypeParts, TypePartsNext, SourceUnchanged, SinkUnchanged

\* The steps every feed mode has, but those of a batch.
LEMMA WorkerSafe ==
  ASSUME NEW fwd \in BOOLEAN, IInv(fwd), WorkerTypeOK',
         \/ Restart \/ StartAgain \/ Unreachable \/ LoadCheckpoint \/ ReplayEntry \/ ReplayEnds
         \/ Mutate \/ Stop \/ Crash \/ Expire \/ UNCHANGED vars
  PROVE  Safe(fwd)
<1>0. WorkerTypeOK
  BY IInvParts
<1>1. CASE Restart \/ StartAgain \/ ReplayEnds
  <2>1. /\ UNCHANGED <<log, sinkVars, since, ckptVars>> /\ pc' \in {"boot", "poll"}
    BY <1>1 DEF Restart, StartAgain, ReplayEnds
  <2> QED BY <1>0, <2>1, SinkKept, SameLogGrows, QuietStep DEF InBatch
<1>2. CASE LoadCheckpoint
  BY <1>2, LoadCheckpointSafe
<1>3. CASE ReplayEntry
  BY <1>3, ReplayEntrySafe
<1>4. CASE Crash \/ Unreachable
  <2>1. /\ UNCHANGED <<log, sinkVars, sg, fb>>
        /\ End("ended") \/ End("down")
    BY <1>4 DEF Crash, Unreachable, Die
  <2> QED BY <1>0, <2>1, SinkKept, SameLogGrows, EndStep
<1>5. CASE Mutate
  <2>1. PICK m : log' = Append(log, m)
    BY <1>5 DEF Mutate
  <2> QED BY <1>0, <1>5, <2>1, SinkKept, AppendGrows, BatchKept DEF Mutate, batchVars
<1>6. CASE Stop \/ UNCHANGED vars
  BY <1>0, <1>6, SinkKept, SameLogGrows, BatchKept DEF Stop, batchVars, vars
<1>7. CASE Expire
  BY <1>7, ExpireSafe
<1> QED BY <1>1, <1>2, <1>3, <1>4, <1>5, <1>6, <1>7

LEMMA UnreachableTypes ==
  ASSUME WorkerTypeOK, Unreachable
  PROVE  WorkerTypeOK'
<1>1. /\ UNCHANGED <<log, sinkVars, sg, fb, stopping>> /\ ForgetWorker
      /\ End("ended") \/ End("down")
  BY DEF Unreachable, Die
<1>2. faults' \in Nat
  BY TypeParts DEF Unreachable, Fault, NoFault, CheckpointTypeOK
<1> QED BY <1>1, <1>2, EndTypes

LEMMA WorkerTypes ==
  ASSUME WorkerTypeOK,
         \/ Restart \/ StartAgain \/ Unreachable \/ LoadCheckpoint \/ ReplayEntry \/ ReplayEnds
         \/ Mutate \/ Stop \/ Crash \/ Expire \/ UNCHANGED vars
  PROVE  WorkerTypeOK'
BY StartTypes, UnreachableTypes, LoadCheckpointTypes, ReplayEntryTypes, ReplayEndsTypes, MutateTypes,
   StopTypes, CrashTypes, ExpireTypes, TypesStutter

LEMMA InitSafe == ASSUME NEW fwd \in BOOLEAN, WorkerInit  PROVE IInv(fwd)
<1>1. WorkerTypeOK
  BY InitTypes
<1>2. since = 0 /\ sg.seq = 0 /\ fb.seq = 0 /\ pc = "down"
  BY DEF WorkerInit, BatchInit, CheckpointInit, NotStored
<1>3. CursorInv(fwd)
  BY <1>1, <1>2, CoveredZero DEF CursorInv, CheckpointCovered, RevInv
<1>4. BatchInv(fwd) /\ OrderInv(fwd)
  BY <1>2, Outside DEF InBatch
<1> QED BY <1>1, <1>3, <1>4, IInvParts
=============================================================================
