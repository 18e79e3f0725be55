------------------------- MODULE CloudOutputProofs -------------------------
(***************************************************************************)
(* The object-store output, with or without a buffer: what the checkpoint  *)
(* covers is stored, queued, on its way, or known to have failed, for any  *)
(* number of documents, lines, retries and faults.                         *)
(***************************************************************************)
EXTENDS CloudOutput, FiniteSetTheorems, TLAPS

Flushing == {"flush", "flushpause"}
Keys == UploadKeys \cup {NoKey}
Uploads == [key : Keys, lines : SUBSET Lines]

FlowType ==
  /\ buffered \in BOOLEAN
  /\ rev \in [Docs -> 0..MaxRev] /\ batch \subseteq Docs
  /\ pc \in [Tasks -> States] /\ held \in [Tasks -> SUBSET Lines]
  /\ key \in [Tasks -> Keys]
  /\ buffer \subseteq Lines /\ loose \subseteq Uploads /\ upload \subseteq Uploads
  /\ second \in Nat
  /\ object \in [Docs -> [0..MaxRev -> 0..MaxRev]]
  /\ ckpt \in [Docs -> 0..MaxRev] /\ dlq \in [Docs -> 0..MaxRev]

FlowInv ==
  \* The checkpoint is one revision behind for the documents of the batch.
  /\ \A d \in Docs : /\ pc[d] # "idle" => d \in batch
                     /\ d \in batch => rev[d] > 0
                     /\ ckpt[d] = IF d \in batch THEN rev[d] - 1 ELSE rev[d]
  \* close() runs alone, and only who flushes has lines in hand.
  /\ pc[Closer] # "idle" => \A d \in Docs : pc[d] = "idle"
  /\ \A t \in Tasks : held[t] # {} => pc[t] \in Flushing
  /\ ~buffered => buffer = {} /\ \A t \in Tasks : pc[t] \notin Flushing

FInv == FlowType /\ FlowInv

-----------------------------------------------------------------------------
(* The flow of documents and lines. *)

LEMMA FInvInit == Init => FInv
BY CloudAssumption
DEF Init, FInv, FlowType, FlowInv, Keys, States, Flushing, Tasks

LEMMA BatchFlow ==
  ASSUME FInv, Poll \/ SendAll \/ BatchEnds
  PROVE  FInv'
<1> USE CloudAssumption DEF FInv, FlowType, FlowInv, Tasks
<1>1. CASE Poll
  BY <1>1 DEF Poll, task, lines, store, saved
<1>2. CASE SendAll
  BY <1>2 DEF SendAll, feed, lines, store, saved, States, Flushing
<1>3. CASE BatchEnds
  <2>1. batch \subseteq Docs /\ \E d \in Docs : pc[d] # "idle"
    BY <1>3 DEF BatchEnds, Ended
  <2>2. \A t \in Tasks : pc[t] \notin Flushing
    BY <1>3, <2>1 DEF BatchEnds, Ended, Flushing
  <2>3. pc' \in [Tasks -> States] /\ \A t \in Tasks : pc'[t] = "idle"
    BY <1>3 DEF BatchEnds, States
  <2>4. \A d \in Docs : /\ d \in batch' => d \in batch
                        /\ ckpt'[d] = IF d \in batch' THEN rev[d] - 1 ELSE rev[d]
    BY <1>3, <2>1 DEF BatchEnds
  <2>5. ckpt' \in [Docs -> 0..MaxRev] /\ dlq' \in [Docs -> 0..MaxRev] /\ batch' \subseteq Docs
    <3>1. CASE \E d \in batch : pc[d] = "down"
      BY <1>3, <3>1 DEF BatchEnds
    <3>2. CASE ~ \E d \in batch : pc[d] = "down"
      <4>1. /\ ckpt' = [d \in Docs |-> IF d \in batch THEN rev[d] ELSE ckpt[d]]
            /\ dlq' = [d \in Docs |-> IF d \in batch /\ Queued(d)
                                      THEN rev[d] ELSE dlq[d]]
            /\ batch' = {}
        BY <1>3, <3>2 DEF BatchEnds
      <4>2. \A d \in Docs : {rev[d], ckpt[d], dlq[d]} \subseteq 0..MaxRev
        OBVIOUS
      <4> QED BY <4>1, <4>2
    <3> QED BY <3>1, <3>2
  <2>6. UNCHANGED <<buffered, rev, held, key, lines, second, store>>
    BY <1>3 DEF BatchEnds
  <2> QED BY <2>2, <2>3, <2>4, <2>5, <2>6 DEF lines, store, Flushing
<1> QED BY <1>1, <1>2, <1>3

LEMMA ObjectFlow ==
  ASSUME FInv, NEW d \in Docs, SendObject(d)
  PROVE  FInv'
<1> USE CloudAssumption DEF FInv, FlowType, FlowInv, Tasks
<1>1. \A again \in {"pause"} : Failed(d, again) \in States \ (Flushing \cup {"idle"})
  BY DEF Failed, States, Flushing
<1>2. KeyOf(d) \in 0..MaxRev /\ Stored(d) \in [Docs -> [0..MaxRev -> 0..MaxRev]]
  BY DEF KeyOf, Stored
<1>3. object' \in [Docs -> [0..MaxRev -> 0..MaxRev]]
  BY <1>2 DEF SendObject
<1>4. \E s \in States \ (Flushing \cup {"idle"}) : pc' = [pc EXCEPT ![d] = s]
  BY <1>1 DEF SendObject, States, Flushing
<1>5. pc[d] = "try" /\ UNCHANGED <<buffered, feed, held, key, lines, second, upload, saved>>
  BY DEF SendObject
<1>6. PICK s \in States \ (Flushing \cup {"idle"}) : pc' = [pc EXCEPT ![d] = s]
  BY <1>4
<1>7. pc' \in [Tasks -> States]
  BY <1>6
<1>8. held[d] = {}
  BY <1>5 DEF Flushing
<1> QED BY <1>3, <1>5, <1>6, <1>7, <1>8 DEF feed, lines, saved, Flushing

\* A task that takes lines has them in hand; the buffer is empty.
LEMMA TakeFlow ==
  ASSUME FInv, buffered, NEW t \in Tasks, NEW L \in SUBSET Lines, Take(t, L)
  PROVE  /\ pc' = [pc EXCEPT ![t] = "flush"] /\ held' = [held EXCEPT ![t] = L]
         /\ key' \in [Tasks -> Keys] /\ second' \in Nat /\ buffer' = {}
<1>1. second' \in Nat
  BY DEF Take, Name, FInv, FlowType
<1>2. key' \in [Tasks -> Keys]
  BY DEF Take, FInv, FlowType, Keys
<1> QED BY <1>1, <1>2 DEF Take

\* The line a send adds is one.
LEMMA AddedLine ==
  ASSUME FInv, NEW d \in Docs, AddLine(d)
  PROVE  buffer \cup {<<d, rev[d]>>} \in SUBSET Lines /\ buffered
<1>1. buffered /\ pc[d] = "try"
  BY DEF AddLine
<1>3. rev[d] > 0
  BY <1>1 DEF FInv, FlowType, FlowInv
<1>2. <<d, rev[d]>> \in Lines
  BY <1>3, CloudAssumption DEF FInv, FlowType, Lines, Revs
<1> QED BY <1>1, <1>2 DEF FInv, FlowType

LEMMA LineFlow ==
  ASSUME FInv, NEW d \in Docs, AddLine(d)
  PROVE  FInv'
<1> DEFINE added == buffer \cup {<<d, rev[d]>>}
<1>1. added \in SUBSET Lines /\ buffered
  BY AddedLine
<1>2. CASE Take(d, added)
  <2>1. d \in Tasks
    BY DEF Tasks
  <2>2. /\ pc' = [pc EXCEPT ![d] = "flush"] /\ held' = [held EXCEPT ![d] = added]
        /\ key' \in [Tasks -> Keys] /\ second' \in Nat /\ buffer' = {}
    BY <1>1, <1>2, <2>1, TakeFlow
  <2> QED BY <1>1, <2>1, <2>2, CloudAssumption
          DEF AddLine, FInv, FlowType, FlowInv, feed, store, saved, States, Flushing, Tasks
<1>3. CASE /\ buffer' = added /\ pc' = [pc EXCEPT ![d] = "ok"]
           /\ UNCHANGED <<held, key, second>>
  BY <1>1, <1>3, CloudAssumption
  DEF AddLine, FInv, FlowType, FlowInv, feed, store, saved, States, Flushing, Tasks
<1> QED BY <1>2, <1>3 DEF AddLine

LEMMA FlushFlow ==
  ASSUME FInv, NEW t \in Tasks, Flush(t) \/ Wake(t)
  PROVE  FInv'
<1> USE CloudAssumption DEF FInv, FlowType, FlowInv, Tasks, States, Flushing
<1>1. \A L \in SUBSET Lines, k \in Keys : Put(k, L) => upload' \subseteq Uploads
  BY DEF Put, Uploads
<1>2. Release(t) => held' \in [Tasks -> SUBSET Lines] /\ key' \in [Tasks -> Keys]
  BY DEF Release, Keys
<1>3. CASE FlushOk(t)
  BY <1>1, <1>2, <1>3 DEF FlushOk, Release, Flushed, feed, lines, saved
<1>4. CASE FlushRefused(t)
  BY <1>2, <1>4 DEF FlushRefused, Release, Flushed, feed, lines, store
<1>5. CASE FlushFails(t)
  <2>1. upload' \subseteq Uploads
    BY <1>1, <1>5 DEF FlushFails
  <2> QED BY <1>2, <1>5, <2>1 DEF FlushFails, Release, Flushed, feed, lines
<1>6. CASE Wake(t)
  BY <1>6 DEF Wake, feed, lines, store, saved
<1> QED BY <1>3, <1>4, <1>5, <1>6 DEF Flush

LEMMA OtherFlow ==
  ASSUME FInv, TimerFires \/ LooseUpload \/ Close \/ Start \/ Crash
  PROVE  FInv'
<1> USE CloudAssumption DEF FInv, FlowType, FlowInv, Tasks
<1>1. CASE TimerFires
  <2>1. PICK k \in UploadKeys :
          /\ Name(buffer, k)
          /\ loose' = loose \cup {[key |-> k, lines |-> buffer]} \/ UNCHANGED loose
    BY <1>1 DEF TimerFires
  <2>2. loose' \subseteq Uploads /\ second' \in Nat
    BY <2>1 DEF Uploads, Keys, Name
  <2> QED BY <1>1, <2>2 DEF TimerFires, feed, task, store
<1>2. CASE LooseUpload
  <2>1. loose' \subseteq Uploads /\ upload' \subseteq Uploads
    BY <1>2 DEF LooseUpload, Put, Uploads
  <2> QED BY <1>2, <2>1 DEF LooseUpload, feed, task
<1>3. CASE Close
  <2>1. CASE buffer = {}
    BY <1>3, <2>1 DEF Close, lines, store, saved, States, Flushing
  <2>2. CASE buffer # {}
    <3>1. buffered /\ Take(Closer, buffer) /\ Closer \in Tasks
      BY <1>3, <2>2 DEF Close
    <3>2. /\ pc' = [pc EXCEPT ![Closer] = "flush"] /\ held' = [held EXCEPT ![Closer] = buffer]
          /\ key' \in [Tasks -> Keys] /\ second' \in Nat /\ buffer' = {}
      BY <3>1, TakeFlow
    <3> QED BY <1>3, <2>2, <3>1, <3>2 DEF Close, store, saved, States, Flushing
  <2> QED BY <2>1, <2>2
<1>4. CASE Start
  BY <1>4 DEF Start, lines, store, saved, States, Flushing
<1>5. CASE Crash
  BY <1>5 DEF Crash, store, States, Keys, Flushing
<1> QED BY <1>1, <1>2, <1>3, <1>4, <1>5

LEMMA FInvStep ==
  ASSUME FInv, [Next]_cloudvars
  PROVE  FInv'
<1>1. CASE UNCHANGED cloudvars
  BY <1>1 DEF cloudvars, feed, task, lines, store, saved, FInv, FlowType, FlowInv
<1> QED BY <1>1, BatchFlow, ObjectFlow, LineFlow, FlushFlow, OtherFlow DEF Next, Send

-----------------------------------------------------------------------------
(* An object per document. *)

\* A send that ended well left its revision.
ObjectInv ==
  ~buffered => \A d \in Docs : pc[d] = "ok" => Reflects(d, rev[d])

\* What an upload does to the object of its document.
LEMMA StoredReflects ==
  ASSUME FInv, NEW d \in Docs, object' = Stored(d), rev' = rev, gone' = gone, rev[d] > 0
  PROVE  Reflects(d, rev[d])'
<1>1. rev[d] \in 0..MaxRev /\ KeyOf(d) \in 0..MaxRev
  BY CloudAssumption DEF FInv, FlowType, KeyOf
<1>2. object'[d][KeyOf(d)] = IF IsDelete(d) THEN 0 ELSE rev[d]
  BY <1>1 DEF Stored, FInv, FlowType
<1> QED BY <1>1, <1>2 DEF Reflects, IsDelete, KeyOf

LEMMA StoredElsewhere ==
  ASSUME FInv, NEW d \in Docs, NEW e \in Docs, e # d, object' = Stored(d)
  PROVE  object'[e] = object[e]
BY DEF Stored, FInv, FlowType

LEMMA ReflectsKept ==
  ASSUME NEW d \in Docs, NEW r, object'[d] = object[d], r \in gone'[d] <=> r \in gone[d]
  PROVE  Reflects(d, r)' <=> Reflects(d, r)
BY DEF Reflects

LEMMA Revisions ==
  ASSUME FInv, NEW d \in Docs
  PROVE  /\ rev[d] \in Nat /\ ckpt[d] \in Nat /\ dlq[d] \in Nat
         /\ rev[d] \in ckpt[d]..rev[d]
<1>1. MaxRev \in Nat
  BY CloudAssumption
<1>2. rev[d] \in 0..MaxRev /\ ckpt[d] \in 0..MaxRev /\ dlq[d] \in 0..MaxRev
  BY DEF FInv, FlowType
<1>3. ckpt[d] = rev[d] - 1 \/ ckpt[d] = rev[d]
  BY DEF FInv, FlowInv
<1> QED BY <1>1, <1>2, <1>3

LEMMA ObjectStep ==
  ASSUME FInv, ObjectInv, CheckpointInStore, ~SkipErrors, [Next]_cloudvars
  PROVE  ObjectInv' /\ CheckpointInStore'
<1> USE CloudAssumption DEF FInv, FlowType, FlowInv, ObjectInv, CheckpointInStore
<1>1. CASE Poll
  <2>1. \A d \in Docs : \A r \in 0..rev[d] : r \in gone'[d] <=> r \in gone[d]
    BY <1>1 DEF Poll
  <2>2. \A d \in Docs : rev'[d] >= rev[d] /\ pc'[d] = "idle"
    BY <1>1 DEF Poll, task
  <2>3. UNCHANGED <<buffered, object, ckpt, dlq>>
    BY <1>1 DEF Poll, store, saved
  <2>4. \A d \in Docs : \A r \in ckpt[d]..rev[d] : Reflects(d, r) => Reflects(d, r)'
    BY <2>1, <2>3 DEF Reflects
  <2>5. \A d \in Docs : ckpt[d] \in Nat /\ rev[d] \in Nat /\ rev'[d] \in Nat
    BY <1>1 DEF Poll
  <2>6. ASSUME ~buffered, NEW d \in Docs, ~(dlq[d] >= ckpt[d])
        PROVE  \E r \in ckpt[d]..rev'[d] : Reflects(d, r)'
    <3>1. PICK r \in ckpt[d]..rev[d] : Reflects(d, r)
      BY <2>6
    <3>2. r \in ckpt[d]..rev'[d]
      BY <2>2, <2>5
    <3> QED BY <2>4, <3>1, <3>2
  <2> QED BY <2>2, <2>3, <2>6 DEF Tasks
<1>2. CASE SendAll
  BY <1>2 DEF SendAll, feed, store, saved, Ignored, Reflects, Tasks
<1>3. CASE BatchEnds
  <2>1. UNCHANGED <<buffered, object, rev, gone>> /\ \A d \in Docs : pc'[d] = "idle"
    BY <1>3 DEF BatchEnds, store, Tasks
  <2>2. \A d \in Docs : \A r \in ckpt[d]..rev[d] : Reflects(d, r)' <=> Reflects(d, r)
    BY <2>1, ReflectsKept
  <2>3. CASE \E d \in batch : pc[d] = "down"
    <3>1. UNCHANGED <<ckpt, dlq>>
      BY <1>3, <2>3 DEF BatchEnds
    <3> QED BY <2>1, <2>2, <3>1
  <2>4. CASE ~ \E d \in batch : pc[d] = "down"
    <3>1. /\ ckpt' = [d \in Docs |-> IF d \in batch THEN rev[d] ELSE ckpt[d]]
          /\ dlq' = [d \in Docs |-> IF d \in batch /\ Queued(d) THEN rev[d] ELSE dlq[d]]
      BY <1>3, <2>4 DEF BatchEnds
    <3>2. \A d \in batch : pc[d] = "ok" \/ Queued(d)
      BY <1>3, <2>4 DEF BatchEnds, Ended, Queued
    <3>3. SUFFICES ASSUME ~buffered, NEW d \in Docs
                   PROVE  dlq'[d] >= ckpt'[d] \/ \E r \in ckpt'[d]..rev[d] : Reflects(d, r)'
      BY <2>1
    <3>4. CASE d \notin batch
      BY <2>2, <3>1, <3>3, <3>4
    <3>5. CASE d \in batch /\ Queued(d)
      BY <3>1, <3>5, Revisions
    <3>6. CASE d \in batch /\ pc[d] = "ok"
      <4>1. Reflects(d, rev[d])'
        BY <2>1, <2>2, <3>3, <3>6, Revisions
      <4>2. ckpt'[d] = rev[d] /\ rev[d] \in rev[d]..rev[d]
        BY <3>1, <3>6, Revisions
      <4> QED BY <2>1, <4>1, <4>2
    <3> QED BY <3>2, <3>4, <3>5, <3>6
  <2> QED BY <2>3, <2>4
<1>4. ASSUME NEW d \in Docs, SendObject(d)
      PROVE  ObjectInv' /\ CheckpointInStore'
  <2>1. /\ rev[d] > 0 /\ pc'[d] # "idle"
        /\ UNCHANGED <<buffered, rev, gone, ckpt, dlq>>
        /\ \A e \in Docs : e # d => pc'[e] = pc[e]
    BY <1>4 DEF SendObject, feed, saved, Failed, Tasks
  <2>2. CASE object' = Stored(d)
    <3>1. Reflects(d, rev[d])'
      BY <2>1, <2>2, StoredReflects
    <3>2. \A e \in Docs : e # d =>
            \A r \in ckpt[e]..rev[e] : Reflects(e, r)' <=> Reflects(e, r)
      BY <2>1, <2>2, StoredElsewhere, ReflectsKept
    <3>3. \A e \in Docs : rev[e] \in ckpt[e]..rev[e]
      BY Revisions
    <3>4. ObjectInv'
      BY <2>1, <3>1, <3>2, <3>3
    <3>5. CheckpointInStore'
      <4>1. SUFFICES ASSUME ~buffered, NEW e \in Docs, ~(dlq[e] >= ckpt[e])
                     PROVE  \E r \in ckpt[e]..rev[e] : Reflects(e, r)'
        BY <2>1
      <4>2. CASE e = d
        BY <2>1, <3>1, <3>3, <4>2
      <4>3. CASE e # d
        BY <3>2, <4>1, <4>3
      <4> QED BY <4>2, <4>3
    <3> QED BY <3>4, <3>5
  <2>3. CASE UNCHANGED object /\ pc'[d] # "ok"
    <3>1. \A e \in Docs : \A r \in ckpt[e]..rev[e] : Reflects(e, r)' <=> Reflects(e, r)
      BY <2>1, <2>3, ReflectsKept
    <3>2. \A e \in Docs : rev[e] \in ckpt[e]..rev[e]
      BY Revisions
    <3> QED BY <2>1, <2>3, <3>1, <3>2
  <2> QED BY <1>4, <2>2, <2>3 DEF SendObject, Failed, Tasks
<1>5. ASSUME UNCHANGED <<buffered, rev, gone, object, ckpt, dlq>>,
             \A d \in Docs : pc'[d] = "ok" => pc[d] = "ok" \/ buffered
      PROVE  ObjectInv' /\ CheckpointInStore'
  BY <1>5 DEF Reflects
<1>6. ASSUME NEW d \in Docs, AddLine(d)
      PROVE  ObjectInv' /\ CheckpointInStore'
  BY <1>5, <1>6 DEF AddLine, feed, store, saved
<1>7. ASSUME NEW t \in Tasks, Flush(t) \/ Wake(t)
      PROVE  ObjectInv' /\ CheckpointInStore'
  BY <1>5, <1>7 DEF Flush, FlushOk, FlushFails, FlushRefused, Flushed, Wake, feed, store, saved,
                    Flushing, Tasks
<1>8. CASE TimerFires \/ LooseUpload \/ UNCHANGED cloudvars
  BY <1>5, <1>8 DEF TimerFires, LooseUpload, cloudvars, feed, task, store, saved
<1>9. CASE Close \/ Start \/ Crash
  BY <1>5, <1>9, CloudAssumption DEF Close, Take, Start, Crash, store, saved, Tasks
<1> QED BY <1>1, <1>2, <1>3, <1>4, <1>6, <1>7, <1>8, <1>9 DEF Next, Send

\* Without a buffer, what the checkpoint covers is in the store, or something
\* newer is, or it is in the dead letter queue: for deletions too, whatever they
\* leave, and for objects of each revision, if objects that were refused are not
\* dropped.
THEOREM CheckpointAlwaysInStore ==
  ASSUME ~SkipErrors
  PROVE  Spec => []CheckpointInStore
<1>1. Init => ObjectInv /\ CheckpointInStore
  BY CloudAssumption DEF Init, ObjectInv, CheckpointInStore, Reflects, Tasks
<1>2. FInv /\ ObjectInv /\ CheckpointInStore /\ [Next]_cloudvars
        => (FInv /\ ObjectInv /\ CheckpointInStore)'
  BY FInvStep, ObjectStep
<1> QED BY <1>1, <1>2, FInvInit, PTL DEF Spec

-----------------------------------------------------------------------------
(* Deleted documents, when a document has one object. *)

\* A deletion that was sent left no object, and is not uploaded as a line.
GoneInv ==
  /\ \A d \in Docs : \A k \in 1..MaxRev : object[d][k] = 0
  /\ \A d \in Docs : IsDelete(d) /\ pc[d] = "ok" => object[d][0] = 0
  /\ \A d \in Docs : IsDelete(d) => pc[d] \notin Flushing
  /\ \A d \in Docs : IsDelete(d) /\ ckpt[d] = rev[d] /\ dlq[d] = 0 => object[d][0] = 0

\* A step of sends, the feed and the checkpoint unchanged.
LEMMA GoneKept ==
  ASSUME GoneInv, UNCHANGED <<rev, gone, object, ckpt, dlq>>,
         \A d \in Docs : IsDelete(d) =>
           /\ pc'[d] = "ok" => pc[d] = "ok"
           /\ pc'[d] \in Flushing => pc[d] \in Flushing
  PROVE  GoneInv'
BY DEF GoneInv, IsDelete

LEMMA GoneStep ==
  ASSUME FInv, GoneInv, ~KeyByRev, ~SkipErrors, [Next]_cloudvars
  PROVE  GoneInv'
<1> USE DEF Flushing
<1>1. CASE Poll
  <2>1. UNCHANGED <<pc, object, ckpt, dlq>> /\ batch = {}
    BY <1>1 DEF Poll, task, store, saved
  <2>2. \A d \in Docs : pc[d] = "idle" /\ ckpt[d] = rev[d] /\ rev[d] \in Nat
    BY <2>1, CloudAssumption DEF FInv, FlowType, FlowInv
  <2>3. PICK D \in SUBSET {d \in Docs : rev[d] < MaxRev} \ {{}} : \E X \in SUBSET D :
          /\ rev' = [d \in Docs |-> IF d \in D THEN rev[d] + 1 ELSE rev[d]]
          /\ gone' = [d \in Docs |-> IF d \in X THEN gone[d] \cup {rev[d] + 1} ELSE gone[d]]
    BY <1>1 DEF Poll
  <2>4. \A d \in Docs : ckpt'[d] = rev'[d] /\ IsDelete(d)' => IsDelete(d) /\ rev'[d] = rev[d]
    BY <2>1, <2>2, <2>3 DEF IsDelete
  <2> QED BY <2>1, <2>2, <2>4 DEF GoneInv
<1>2. CASE SendAll
  <2>1. UNCHANGED <<rev, gone, object, ckpt, dlq>>
    BY <1>2 DEF SendAll, feed, store, saved
  <2>2. \A d \in Docs : IsDelete(d) => pc'[d] \in {"idle", "try"}
    BY <1>2 DEF SendAll, IsDelete, Ignored, Tasks
  <2> QED BY <2>1, <2>2, GoneKept
<1>3. CASE BatchEnds
  <2>1. UNCHANGED <<rev, gone, object>> /\ \A d \in Docs : pc'[d] = "idle"
    BY <1>3 DEF BatchEnds, store, Tasks
  <2>2. CASE \E d \in batch : pc[d] = "down"
    BY <1>3, <2>1, <2>2 DEF BatchEnds, GoneInv, IsDelete
  <2>3. CASE ~ \E d \in batch : pc[d] = "down"
    <3>1. /\ ckpt' = [d \in Docs |-> IF d \in batch THEN rev[d] ELSE ckpt[d]]
          /\ dlq' = [d \in Docs |-> IF d \in batch /\ Queued(d) THEN rev[d] ELSE dlq[d]]
          /\ \A d \in batch : pc[d] = "ok" \/ Queued(d)
      BY <1>3, <2>3 DEF BatchEnds, Ended, Queued
    <3>2. SUFFICES ASSUME NEW d \in Docs, IsDelete(d), ckpt'[d] = rev[d], dlq'[d] = 0
                   PROVE  object[d][0] = 0
      BY <2>1 DEF GoneInv, IsDelete
    <3>3. CASE d \in batch
      BY <3>1, <3>2, <3>3 DEF GoneInv, FInv, FlowInv
    <3>4. CASE d \notin batch
      BY <3>1, <3>2, <3>4 DEF GoneInv
    <3> QED BY <3>3, <3>4
  <2> QED BY <2>2, <2>3
<1>4. ASSUME NEW d \in Docs, SendObject(d)
      PROVE  GoneInv'
  <2>1. /\ UNCHANGED <<rev, gone, ckpt, dlq>> /\ ckpt[d] # rev[d]
        /\ \A e \in Docs : e # d => pc'[e] = pc[e]
        /\ pc'[d] \notin Flushing
    <3>1. d \in batch /\ rev[d] \in Nat
      BY <1>4, CloudAssumption DEF SendObject, FInv, FlowType, FlowInv
    <3>2. ckpt[d] # rev[d]
      BY <3>1 DEF FInv, FlowInv
    <3>3. pc'[d] \notin Flushing /\ \A e \in Docs : e # d => pc'[e] = pc[e]
      BY <1>4 DEF SendObject, Failed, FInv, FlowType, Tasks
    <3> QED BY <1>4, <3>2, <3>3 DEF SendObject, feed, saved
  <2>2. CASE object' = Stored(d)
    <3>1. \A e \in Docs : e # d => object'[e] = object[e]
      BY <2>2, StoredElsewhere
    <3>2. 0 \in 0..MaxRev /\ 0 \notin 1..MaxRev /\ \A k \in 1..MaxRev : k \in 0..MaxRev
      BY CloudAssumption
    <3>3. object'[d][0] = (IF IsDelete(d) THEN 0 ELSE rev[d])
      BY <2>2, <3>2 DEF Stored, KeyOf, FInv, FlowType
    <3>4. \A k \in 1..MaxRev : object'[d][k] = object[d][k]
      BY <2>2, <3>2 DEF Stored, KeyOf, FInv, FlowType
    <3>5. \A e \in Docs : IsDelete(e)' <=> IsDelete(e)
      BY <2>1 DEF IsDelete
    <3> QED BY <2>1, <3>1, <3>3, <3>4, <3>5 DEF GoneInv
  <2>3. CASE UNCHANGED object /\ pc'[d] # "ok"
    BY <2>1, <2>3, GoneKept
  <2> QED BY <1>4, <2>2, <2>3 DEF SendObject, Failed, FInv, FlowType, Tasks
<1>5. ASSUME NEW d \in Docs, AddLine(d)
      PROVE  GoneInv'
  <2>1. /\ UNCHANGED <<rev, gone, object, ckpt, dlq>> /\ ~IsDelete(d)
        /\ \A e \in Docs : e # d => pc'[e] = pc[e]
    BY <1>5 DEF AddLine, Take, feed, store, saved, FInv, FlowType, Tasks
  <2> QED BY <2>1, GoneKept
<1>6. ASSUME NEW t \in Tasks, Flush(t)
      PROVE  GoneInv'
  <2>1. /\ UNCHANGED <<rev, gone, object, ckpt, dlq>> /\ pc[t] \in Flushing
        /\ \A e \in Docs : e # t => pc'[e] = pc[e]
    BY <1>6 DEF Flush, FlushOk, FlushFails, FlushRefused, Flushed, feed, store, saved,
                FInv, FlowType, Tasks
  <2>2. t \in Docs => ~IsDelete(t)
    BY <2>1 DEF GoneInv
  <2> QED BY <2>1, <2>2, GoneKept
<1>7. ASSUME NEW t \in Tasks, Wake(t)
      PROVE  GoneInv'
  <2>1. UNCHANGED <<rev, gone, object, ckpt, dlq>>
    BY <1>7 DEF Wake, feed, store, saved
  <2>2. \A e \in Docs : /\ pc'[e] = "ok" => pc[e] = "ok"
                        /\ pc'[e] \in Flushing => pc[e] \in Flushing
    BY <1>7 DEF Wake, FInv, FlowType, Tasks
  <2> QED BY <2>1, <2>2, GoneKept
<1>8. CASE TimerFires \/ LooseUpload \/ UNCHANGED cloudvars
  BY <1>8, GoneKept DEF TimerFires, LooseUpload, cloudvars, feed, task, store, saved
<1>9. CASE Close \/ Start \/ Crash
  <2>1. UNCHANGED <<rev, gone, object, ckpt, dlq>>
    BY <1>9 DEF Close, Start, Crash, store, saved
  <2>2. \A e \in Docs : pc'[e] = pc[e] \/ pc'[e] = "idle"
    BY <1>9, CloudAssumption DEF Close, Take, Start, Crash, FInv, FlowType, Tasks
  <2> QED BY <2>1, <2>2, GoneKept
<1> QED BY <1>1, <1>2, <1>3, <1>4, <1>5, <1>6, <1>7, <1>8, <1>9 DEF Next, Send

\* A deletion the checkpoint covers left no object of its document, unless it
\* was queued: sent with a buffer or without, sent again, or its answer lost, if
\* deletions that were refused are not dropped.
THEOREM DeletedStaysGone ==
  ASSUME ~KeyByRev, ~SkipErrors
  PROVE  Spec => []DeletedGone
<1>1. Init => GoneInv
  BY CloudAssumption DEF Init, GoneInv, IsDelete, Flushing, Tasks
<1>2. FInv /\ GoneInv /\ [Next]_cloudvars => (FInv /\ GoneInv)'
  BY FInvStep, GoneStep
<1>3. GoneInv => DeletedGone
  <2>1. \A k \in 0..MaxRev : k = 0 \/ k \in 1..MaxRev
    BY CloudAssumption
  <2> QED BY <2>1 DEF GoneInv, DeletedGone, IsDelete
<1> QED BY <1>1, <1>2, <1>3, FInvInit, PTL DEF Spec

-----------------------------------------------------------------------------
(* Names of uploads. *)

\* Lines L are, or will be, in the store under the name k.
Owns(k, L) ==
  \/ \E t \in Tasks : pc[t] \in Flushing /\ key[t] = k /\ held[t] = L
  \/ [key |-> k, lines |-> L] \in loose \cup upload

\* A name is that of one upload: to put it again replaces nothing else.
NameInv ==
  \A k \in Keys, L \in SUBSET Lines :
    Owns(k, L) => k.second <= second /\ \A M \in SUBSET Lines : Owns(k, M) => L = M

LEMMA KeySeconds == \A k \in Keys : k.second \in Nat
BY CloudAssumption DEF Keys, UploadKeys, NoKey

\* A step that names no new upload.
LEMMA NamesKept ==
  ASSUME FInv, NameInv, second' = second,
         \A k \in Keys, L \in SUBSET Lines : Owns(k, L)' => Owns(k, L)
  PROVE  NameInv'
BY DEF NameInv

\* A step that names one, in a second of its own.
LEMMA NewName ==
  ASSUME FInv, NameInv, second' = second + 1,
         NEW k0 \in Keys, k0.second = second + 1, NEW L0,
         \A k \in Keys, L \in SUBSET Lines :
           Owns(k, L)' => Owns(k, L) \/ (k = k0 /\ L = L0)
  PROVE  NameInv'
<1>1. second \in Nat /\ \A k \in Keys : k.second \in Nat
  BY KeySeconds DEF FInv, FlowType
<1>2. \A L \in SUBSET Lines : ~Owns(k0, L)
  BY <1>1 DEF NameInv
<1>3. SUFFICES ASSUME NEW k \in Keys, NEW L \in SUBSET Lines, Owns(k, L)'
               PROVE  k.second <= second' /\ \A M \in SUBSET Lines : Owns(k, M)' => L = M
  BY DEF NameInv
<1>4. CASE k = k0
  BY <1>1, <1>2, <1>3, <1>4
<1>5. CASE k # k0
  BY <1>1, <1>3, <1>5 DEF NameInv
<1> QED BY <1>4, <1>5

\* Who takes lines names them.
LEMMA TakeNames ==
  ASSUME FInv, NameInv, UniqueSecond, NEW t \in Tasks, NEW L0 \in SUBSET Lines, Take(t, L0),
         UNCHANGED <<loose, upload>>
  PROVE  NameInv'
<1>1. PICK k0 \in UploadKeys : Name(L0, k0) /\ key' = [key EXCEPT ![t] = k0]
  BY DEF Take
<1>2. second' = second + 1 /\ k0.second = second + 1 /\ k0 \in Keys
  BY <1>1 DEF Name, Keys
<1>3. \A k \in Keys, L \in SUBSET Lines : Owns(k, L)' => Owns(k, L) \/ (k = k0 /\ L = L0)
  BY <1>1 DEF Take, Owns, FInv, FlowType
<1> QED BY <1>2, <1>3, NewName

LEMMA NameStep ==
  ASSUME FInv, NameInv, UniqueSecond, [Next]_cloudvars
  PROVE  NameInv'
<1> USE DEF FInv, FlowType, Owns
<1>1. CASE Poll \/ SendAll \/ UNCHANGED cloudvars
  <2>1. UNCHANGED <<key, held, loose, upload, second>>
    BY <1>1 DEF Poll, SendAll, cloudvars, task, lines, store
  <2>2. \A t \in Tasks : pc'[t] \in Flushing => pc[t] \in Flushing
    BY <1>1 DEF Poll, SendAll, cloudvars, task, Flushing
  <2> QED BY <2>1, <2>2, NamesKept
<1>2. CASE BatchEnds
  BY <1>2, NamesKept DEF BatchEnds, lines, store, Flushing
<1>3. ASSUME NEW d \in Docs, SendObject(d)
      PROVE  NameInv'
  BY <1>3, NamesKept DEF SendObject, lines, Failed, Flushing, Tasks
<1>4. ASSUME NEW d \in Docs, AddLine(d)
      PROVE  NameInv'
  <2> DEFINE added == buffer \cup {<<d, rev[d]>>}
  <2>1. added \in SUBSET Lines /\ d \in Tasks /\ UNCHANGED <<loose, upload>>
    BY <1>4, AddedLine DEF AddLine, Tasks, store
  <2>2. CASE Take(d, added)
    BY <2>1, <2>2, TakeNames
  <2>3. CASE pc' = [pc EXCEPT ![d] = "ok"] /\ UNCHANGED <<held, key, second>>
    BY <2>1, <2>3, NamesKept DEF Flushing
  <2> QED BY <1>4, <2>2, <2>3 DEF AddLine
<1>5. ASSUME NEW t \in Tasks, Flush(t)
      PROVE  NameInv'
  <2>1. /\ pc[t] \in Flushing /\ UNCHANGED <<loose, second>>
        /\ \A u \in Tasks : u # t => pc'[u] = pc[u] /\ key'[u] = key[u] /\ held'[u] = held[u]
    BY <1>5 DEF Flush, FlushOk, FlushFails, FlushRefused, Release, Flushed, lines, Flushing
  <2>2. pc'[t] \in Flushing => key'[t] = key[t] /\ held'[t] = held[t]
    BY <1>5 DEF Flush, FlushOk, FlushFails, FlushRefused, Flushed, Flushing
  <2>3. upload' \subseteq upload \cup {[key |-> key[t], lines |-> held[t]]}
    BY <1>5 DEF Flush, FlushOk, FlushFails, FlushRefused, Put, store
  <2> QED BY <2>1, <2>2, <2>3, NamesKept
<1>6. ASSUME NEW t \in Tasks, Wake(t)
      PROVE  NameInv'
  BY <1>6, NamesKept DEF Wake, lines, store, Flushing
<1>7. CASE TimerFires
  <2>1. PICK k0 \in UploadKeys :
          /\ Name(buffer, k0)
          /\ loose' \subseteq loose \cup {[key |-> k0, lines |-> buffer]}
    BY <1>7 DEF TimerFires
  <2>2. second' = second + 1 /\ k0.second = second + 1 /\ k0 \in Keys
    BY <2>1 DEF Name, Keys
  <2>3. UNCHANGED <<pc, key, held, upload>>
    BY <1>7 DEF TimerFires, task, store
  <2>4. ASSUME NEW k \in Keys, NEW L \in SUBSET Lines, Owns(k, L)'
        PROVE  Owns(k, L) \/ (k = k0 /\ L = buffer)
    <3>1. CASE [key |-> k, lines |-> L] \in loose'
      BY <2>1, <3>1
    <3>2. CASE [key |-> k, lines |-> L] \notin loose'
      BY <2>3, <2>4, <3>2
    <3> QED BY <3>1, <3>2
  <2> HIDE DEF Owns
  <2> QED BY <2>2, <2>4, NewName
<1>8. CASE LooseUpload
  <2>1. UNCHANGED <<pc, key, held, second>> /\ loose' \cup upload' \subseteq loose \cup upload
    BY <1>8 DEF LooseUpload, Put, task, Uploads
  <2> QED BY <2>1, NamesKept
<1>9. CASE Close
  <2>1. CASE buffer = {}
    BY <1>9, <2>1, NamesKept DEF Close, lines, store, Flushing
  <2>2. CASE buffer # {}
    BY <1>9, <2>2, TakeNames DEF Close, store, Tasks
  <2> QED BY <2>1, <2>2
<1>10. CASE Start \/ Crash
  BY <1>10, NamesKept DEF Start, Crash, lines, store, Flushing
<1> QED BY <1>1, <1>2, <1>3, <1>4, <1>5, <1>6, <1>7, <1>8, <1>9, <1>10 DEF Next, Send

-----------------------------------------------------------------------------
(* Types, attempts, and where a line waits. *)

Named == [key : UploadKeys, lines : SUBSET Lines]

RestType ==
  /\ buffered \in Buffered /\ running \in BOOLEAN /\ timer \in BOOLEAN
  /\ gone \in [Docs -> SUBSET Revs]
  /\ attempt \in [Tasks -> 0..MaxRetries] /\ key \in [Tasks -> UploadKeys]
  /\ loose \subseteq Named /\ upload \subseteq Named
  /\ second \in 0..MaxSecond
  /\ reported \subseteq Lines /\ lost \subseteq Lines /\ faults \in 0..MaxFaults

\* A task has made no attempt before it begins, and none too many while it tries.
AttemptInv ==
  \A t \in Tasks :
    /\ pc[t] = "idle" => attempt[t] = 0
    /\ pc[t] \in Flushing \cup {"try", "pause"} => attempt[t] < MaxRetries

\* A line waits in one place.  A batch that is sent again may add a line that
\* another task already uploads; it has no other lines to add.
PlaceInv ==
  /\ pc[Closer] # "idle" => ~running
  /\ \A t \in Tasks : pc[t] \in Flushing => held[t] # {}
  /\ \A t, u \in Tasks : t # u => held[t] \cap held[u] \subseteq BatchLines
  /\ \A t \in Tasks : held[t] \cap buffer \subseteq BatchLines
  /\ timer => buffer # {}

LEMMA NoKeyNamed == NoKey \in UploadKeys
<1>1. IsFiniteSet(Lines)
  <2>1. 1 \in Int /\ MaxRev \in Int
    BY CloudAssumption
  <2>2. IsFiniteSet(Revs)
    BY <2>1, FS_Interval DEF Revs
  <2> QED BY <2>2, CloudAssumption, FS_Product DEF Lines
<1>2. Cardinality(Lines) \in Nat
  BY <1>1, FS_CardinalityType
<1> QED BY <1>2, CloudAssumption DEF NoKey, UploadKeys

LEMMA FaultBound ==
  ASSUME faults \in 0..MaxFaults, NEW kind, Fault(kind) \/ LastFault(kind) \/ NoFault
  PROVE  faults' \in 0..MaxFaults
BY CloudAssumption DEF Fault, LastFault, NoFault

LEMMA TakeTypes ==
  ASSUME FInv, RestType, NEW t \in Tasks, NEW L \in SUBSET Lines, Take(t, L)
  PROVE  key' \in [Tasks -> UploadKeys] /\ second' \in 0..MaxSecond /\ timer' = FALSE
<1>1. PICK k \in UploadKeys : Name(L, k) /\ key' = [key EXCEPT ![t] = k]
  BY DEF Take
<1>2. second' \in 0..MaxSecond
  BY <1>1, CloudAssumption DEF Name, RestType
<1> QED BY <1>1, <1>2 DEF Take, RestType

LEMMA RestStep ==
  ASSUME FInv, RestType, AttemptInv, [Next]_cloudvars
  PROVE  RestType'
<1> USE CloudAssumption DEF RestType
<1>1. CASE Poll
  <2>1. \A d \in Docs : rev[d] < MaxRev => rev[d] + 1 \in Revs
    BY DEF FInv, FlowType, Revs
  <2>2. PICK D \in SUBSET {d \in Docs : rev[d] < MaxRev} \ {{}} : \E X \in SUBSET D :
          gone' = [d \in Docs |-> IF d \in X THEN gone[d] \cup {rev[d] + 1} ELSE gone[d]]
    BY <1>1 DEF Poll
  <2>3. gone' \in [Docs -> SUBSET Revs]
    BY <2>1, <2>2
  <2> QED BY <1>1, <2>3 DEF Poll, task, lines, store, saved
<1>2. CASE SendAll \/ UNCHANGED cloudvars
  BY <1>2 DEF SendAll, cloudvars, feed, task, lines, store, saved
<1>3. CASE BatchEnds
  BY <1>3 DEF BatchEnds, lines, store
<1>4. ASSUME NEW d \in Docs, SendObject(d)
      PROVE  RestType'
  <2>1. attempt' \in [Tasks -> 0..MaxRetries]
    BY <1>4 DEF SendObject, AttemptInv, Tasks
  <2>2. faults' \in 0..MaxFaults
    BY <1>4, FaultBound DEF SendObject
  <2> QED BY <1>4, <2>1, <2>2 DEF SendObject, feed, lines, saved
<1>5. ASSUME NEW d \in Docs, AddLine(d)
      PROVE  RestType'
  <2>1. /\ UNCHANGED <<buffered, feed, attempt, loose, store, saved, faults>> /\ d \in Tasks
        /\ buffer \cup {<<d, rev[d]>>} \in SUBSET Lines
    BY <1>5, AddedLine DEF AddLine, Tasks
  <2>2. key' \in [Tasks -> UploadKeys] /\ second' \in 0..MaxSecond /\ timer' \in BOOLEAN
    BY <1>5, <2>1, TakeTypes DEF AddLine
  <2> QED BY <2>1, <2>2 DEF feed, store, saved
<1>6. \A k \in UploadKeys, L \in SUBSET Lines : Put(k, L) => upload' \subseteq Named
  BY DEF Put, Named
<1>7. ASSUME NEW t \in Tasks, Flush(t)
      PROVE  RestType'
  <2>1. key[t] \in UploadKeys /\ held[t] \in SUBSET Lines
    BY DEF FInv, FlowType
  <2>2. key' \in [Tasks -> UploadKeys]
    BY <1>7, NoKeyNamed DEF Flush, FlushOk, FlushFails, FlushRefused, Release
  <2>3. attempt' \in [Tasks -> 0..MaxRetries]
    BY <1>7 DEF Flush, FlushOk, FlushFails, FlushRefused, AttemptInv, Flushing
  <2>4. upload' \subseteq Named
    BY <1>6, <1>7, <2>1 DEF Flush, FlushOk, FlushFails, FlushRefused, store
  <2>5. faults' \in 0..MaxFaults
    BY <1>7, FaultBound DEF Flush, FlushOk, FlushFails, FlushRefused
  <2>6. reported' \subseteq Lines
    BY <1>7, <2>1 DEF Flush, FlushOk, FlushFails, FlushRefused, saved
  <2>7. UNCHANGED <<buffered, feed, lines, second, lost>>
    BY <1>7 DEF Flush, FlushOk, FlushFails, FlushRefused, saved
  <2> QED BY <2>2, <2>3, <2>4, <2>5, <2>6, <2>7 DEF feed, lines
<1>8. ASSUME NEW t \in Tasks, Wake(t)
      PROVE  RestType'
  BY <1>8 DEF Wake, feed, lines, store, saved
<1>9. CASE TimerFires
  <2>1. PICK k \in UploadKeys :
          /\ Name(buffer, k)
          /\ loose' \subseteq loose \cup {[key |-> k, lines |-> buffer]}
          /\ lost' \subseteq lost \cup buffer
          /\ NoFault \/ LastFault("cancelled")
    BY <1>9 DEF TimerFires
  <2>2. buffer \subseteq Lines
    BY DEF FInv, FlowType
  <2>3. loose' \subseteq Named /\ lost' \subseteq Lines /\ second' \in 0..MaxSecond
    BY <2>1, <2>2 DEF Named, Name
  <2>4. faults' \in 0..MaxFaults
    BY <2>1, FaultBound
  <2> QED BY <1>9, <2>3, <2>4 DEF TimerFires, feed, task, store
<1>10. CASE LooseUpload
  <2>1. PICK u \in loose :
          /\ loose' = loose \ {u}
          /\ \/ NoFault /\ Put(u.key, u.lines) /\ lost' = lost
             \/ Fault("abandoned") /\ lost' = lost \cup u.lines /\ upload' = upload
    BY <1>10 DEF LooseUpload
  <2>2. u.key \in UploadKeys /\ u.lines \in SUBSET Lines
    BY DEF Named
  <2>3. upload' \subseteq Named /\ lost' \subseteq Lines /\ loose' \subseteq Named
    BY <1>6, <2>1, <2>2
  <2>4. faults' \in 0..MaxFaults
    BY <2>1, FaultBound
  <2> QED BY <1>10, <2>3, <2>4 DEF LooseUpload, feed, task
<1>11. CASE Close
  <2>1. Closer \in Tasks /\ buffer \in SUBSET Lines
    BY DEF Tasks, FInv, FlowType
  <2>4. UNCHANGED <<buffered, gone, attempt, upload, reported, lost, faults>> /\ running' = FALSE
    BY <1>11 DEF Close, store, saved
  <2>2. CASE buffer = {}
    <3>1. UNCHANGED <<key, loose, timer, second>>
      BY <1>11, <2>2 DEF Close, lines
    <3> QED BY <2>4, <3>1
  <2>3. CASE buffer # {}
    <3>1. Take(Closer, buffer) /\ loose' = loose
      BY <1>11, <2>3 DEF Close
    <3>2. key' \in [Tasks -> UploadKeys] /\ second' \in 0..MaxSecond /\ timer' = FALSE
      BY <2>1, <3>1, TakeTypes
    <3> QED BY <2>4, <3>1, <3>2
  <2> QED BY <2>2, <2>3
<1>12. CASE Start
  <2>3. 0 \in 0..MaxRetries /\ attempt' = [attempt EXCEPT ![Closer] = 0]
    BY <1>12 DEF Start
  <2>1. attempt' \in [Tasks -> 0..MaxRetries]
    BY <2>3
  <2>2. /\ UNCHANGED <<buffered, gone, key, timer, loose, upload, second, reported, lost, faults>>
        /\ running' = TRUE
    BY <1>12 DEF Start, lines, store, saved
  <2> QED BY <2>1, <2>2
<1>13. CASE Crash
  <2>1. Waiting \subseteq Lines
    BY DEF Waiting, FInv, FlowType, Named
  <2>3. attempt' \in [Tasks -> 0..MaxRetries] /\ key' \in [Tasks -> UploadKeys]
    BY <1>13, NoKeyNamed DEF Crash
  <2>4. /\ UNCHANGED <<buffered, gone, upload, second, reported>> /\ lost' = lost \cup Waiting
        /\ running' = TRUE /\ timer' = FALSE /\ loose' = {}
    BY <1>13 DEF Crash, store
  <2>2. faults' \in 0..MaxFaults
    BY <1>13, FaultBound DEF Crash
  <2> QED BY <2>1, <2>2, <2>3, <2>4
<1> QED BY <1>1, <1>2, <1>3, <1>4, <1>5, <1>7, <1>8, <1>9, <1>10, <1>11, <1>12, <1>13
        DEF Next, Send

LEMMA AttemptStep ==
  ASSUME FInv, RestType, AttemptInv, [Next]_cloudvars
  PROVE  AttemptInv'
<1> USE CloudAssumption DEF AttemptInv, FInv, FlowType, RestType, Flushing
<1>1. CASE Poll \/ SendAll \/ TimerFires \/ LooseUpload \/ UNCHANGED cloudvars
  BY <1>1 DEF Poll, SendAll, TimerFires, LooseUpload, cloudvars, task
<1>2. CASE BatchEnds \/ Crash
  BY <1>2 DEF BatchEnds, Crash
<1>3. ASSUME NEW d \in Docs, SendObject(d)
      PROVE  AttemptInv'
  <2>1. \A t \in Tasks : t # d => pc'[t] = pc[t] /\ attempt'[t] = attempt[t]
    BY <1>3 DEF SendObject
  <2>2. d \in Tasks /\ attempt'[d] = attempt[d] + 1
    BY <1>3 DEF SendObject, Tasks
  <2>3. \/ pc'[d] \in {"ok", "failed", "refused", "down"}
        \/ pc'[d] = "pause" /\ attempt[d] + 1 < MaxRetries
    BY <1>3, <2>2 DEF SendObject, Failed
  <2> QED BY <2>1, <2>2, <2>3
<1>4. ASSUME NEW t \in Tasks, UNCHANGED attempt,
             \/ pc' = [pc EXCEPT ![t] = "flush"] /\ (pc[t] = "try" \/ attempt[t] = 0)
             \/ pc' = [pc EXCEPT ![t] = "ok"]
      PROVE  AttemptInv'
  BY <1>4
<1>5. ASSUME NEW d \in Docs, AddLine(d)
      PROVE  AttemptInv'
  BY <1>4, <1>5 DEF AddLine, Take, Tasks
<1>6. ASSUME NEW t \in Tasks, FlushOk(t) \/ FlushRefused(t)
      PROVE  AttemptInv'
  BY <1>4, <1>6 DEF FlushOk, FlushRefused, Flushed
<1>7. ASSUME NEW t \in Tasks, FlushFails(t)
      PROVE  AttemptInv'
  BY <1>7 DEF FlushFails, Flushed
<1>8. ASSUME NEW t \in Tasks, Wake(t)
      PROVE  AttemptInv'
  BY <1>8 DEF Wake
<1>9. CASE Close
  BY <1>4, <1>9 DEF Close, Take, Tasks
<1>10. CASE Start
  BY <1>10 DEF Start, Tasks
<1> QED BY <1>1, <1>2, <1>3, <1>5, <1>6, <1>7, <1>8, <1>9, <1>10 DEF Next, Send, Flush

\* Lines taken in hand, or a line added: only a line of the batch is new.
LEMMA TakePlace ==
  ASSUME FInv, PlaceInv, NEW t \in Tasks, NEW L, Take(t, L), L # {},
         L \subseteq buffer \cup BatchLines, held[t] = {}, UNCHANGED <<rev, batch>>,
         IF t = Closer THEN ~running' ELSE UNCHANGED running
  PROVE  PlaceInv'
<1> USE DEF PlaceInv, FInv, FlowType
<1>1. /\ pc' = [pc EXCEPT ![t] = "flush"] /\ held' = [held EXCEPT ![t] = L]
      /\ buffer' = {} /\ timer' = FALSE
  BY DEF Take
<1>2. BatchLines' = BatchLines
  BY DEF BatchLines
<1>3. \A u \in Tasks : u # t => held'[u] = held[u] /\ held[u] \cap L \subseteq BatchLines
  BY <1>1
<1>4. held'[t] = L
  BY <1>1
<1>5. \A u, v \in Tasks : u # v => held'[u] \cap held'[v] \subseteq BatchLines
  BY <1>3, <1>4
<1>6. \A u \in Tasks : pc'[u] \in Flushing => held'[u] # {}
  BY <1>1, <1>3, <1>4
<1>7. pc'[Closer] # "idle" => ~running'
  BY <1>1 DEF Tasks
<1> QED BY <1>1, <1>2, <1>5, <1>6, <1>7

LEMMA PlaceStep ==
  ASSUME FInv, PlaceInv, [Next]_cloudvars
  PROVE  PlaceInv'
<1> USE CloudAssumption DEF PlaceInv, FInv, FlowType, FlowInv
\* A step after which no more lines wait, in hand or in the buffer.
<1>1. ASSUME UNCHANGED BatchLines, buffer' = buffer, timer' = timer,
             \A t \in Tasks : \/ held'[t] = {} /\ pc'[t] \notin Flushing
                              \/ /\ held'[t] = held[t]
                                 /\ pc'[t] \in Flushing => pc[t] \in Flushing,
             pc'[Closer] # "idle" => ~running'
      PROVE  PlaceInv'
  <2>1. \A t \in Tasks : held'[t] \subseteq held[t]
    BY <1>1
  <2>2. \A t \in Tasks : pc'[t] \in Flushing => held'[t] # {}
    BY <1>1
  <2>3. \A t, u \in Tasks : t # u => held'[t] \cap held'[u] \subseteq BatchLines
    BY <2>1
  <2>4. \A t \in Tasks : held'[t] \cap buffer \subseteq BatchLines
    BY <2>1
  <2> QED BY <1>1, <2>2, <2>3, <2>4
<1>2. UNCHANGED <<rev, batch>> => UNCHANGED BatchLines
  BY DEF BatchLines
<1>3. Closer \in Tasks
  BY DEF Tasks
<1>4. CASE Poll
  <2>1. UNCHANGED <<pc, held, buffer, timer, running>> /\ BatchLines = {}
    BY <1>4 DEF Poll, task, lines, BatchLines
  <2>2. \A t, u \in Tasks : t # u => held[t] \cap held[u] = {}
    BY <2>1
  <2>3. \A t \in Tasks : held[t] \cap buffer = {}
    BY <2>1
  <2> QED BY <2>1, <2>2, <2>3
<1>5. CASE SendAll \/ UNCHANGED cloudvars
  <2>1. UNCHANGED <<rev, batch, running, held, buffer, timer>>
    BY <1>5 DEF SendAll, cloudvars, feed, task, lines
  <2>2. \A t \in Tasks : pc'[t] \in Flushing => pc[t] \in Flushing
    <3>1. CASE SendAll
      BY <3>1 DEF SendAll, Flushing
    <3>2. CASE UNCHANGED cloudvars
      BY <3>2 DEF cloudvars, task
    <3> QED BY <1>5, <3>1, <3>2
  <2>3. pc'[Closer] # "idle" => pc[Closer] # "idle"
    BY <1>3, <1>5 DEF SendAll, cloudvars, task
  <2> QED BY <1>1, <1>2, <2>1, <2>2, <2>3
<1>6. CASE BatchEnds
  <2>1. \E d \in Docs : pc[d] # "idle"
    BY <1>6 DEF BatchEnds, Ended
  <2>2. \A t \in Tasks : pc[t] \notin Flushing
    BY <1>6, <2>1 DEF BatchEnds, Ended, Flushing, Tasks
  <2>3. \A t \in Tasks : held[t] = {} /\ held'[t] = {} /\ pc'[t] = "idle"
    BY <1>6, <2>2 DEF BatchEnds
  <2>4. UNCHANGED <<buffer, timer>>
    BY <1>6 DEF BatchEnds, lines
  <2> QED BY <1>3, <2>3, <2>4 DEF Flushing
<1>7. ASSUME NEW d \in Docs, SendObject(d)
      PROVE  PlaceInv'
  <2>1. /\ UNCHANGED <<rev, batch, running, held, buffer, timer>>
        /\ pc'[Closer] = pc[Closer]
        /\ \A t \in Tasks : t # d => pc'[t] = pc[t]
    BY <1>3, <1>7 DEF SendObject, feed, lines, Tasks
  <2>2. pc'[d] \notin Flushing
    BY <1>7 DEF SendObject, Failed, Flushing, Tasks
  <2> QED BY <1>1, <1>2, <2>1, <2>2
<1>8. ASSUME NEW d \in Docs, AddLine(d)
      PROVE  PlaceInv'
  <2> DEFINE added == buffer \cup {<<d, rev[d]>>}
  <2>1. /\ UNCHANGED <<rev, batch, running>> /\ d \in Tasks /\ d # Closer
        /\ d \in batch /\ held[d] = {}
    BY <1>8 DEF AddLine, feed, Tasks, Flushing
  <2>2. <<d, rev[d]>> \in BatchLines /\ BatchLines' = BatchLines
    BY <2>1 DEF BatchLines
  <2>3. CASE Take(d, added)
    BY <2>1, <2>2, <2>3, TakePlace
  <2>4. CASE /\ buffer' = added /\ pc' = [pc EXCEPT ![d] = "ok"]
             /\ UNCHANGED held
    BY <1>3, <2>1, <2>2, <2>4 DEF Flushing
  <2> QED BY <1>8, <2>3, <2>4 DEF AddLine
<1>9. ASSUME NEW t \in Tasks, Flush(t) \/ Wake(t)
      PROVE  PlaceInv'
  <2>1. /\ UNCHANGED <<rev, batch, running, buffer, timer>> /\ pc[t] # "idle"
        /\ \A u \in Tasks : u # t => pc'[u] = pc[u] /\ held'[u] = held[u]
    BY <1>9 DEF Flush, FlushOk, FlushFails, FlushRefused, Wake, Flushed, Release, feed, lines
  <2>2. \/ held'[t] = {} /\ pc'[t] \notin Flushing
        \/ held'[t] = held[t] /\ (pc'[t] \in Flushing => pc[t] \in Flushing)
    BY <1>9 DEF Flush, FlushOk, FlushFails, FlushRefused, Wake, Flushed, Release, Flushing
  <2>3. pc'[Closer] # "idle" => ~running'
    BY <1>3, <2>1
  <2>4. \A u \in Tasks : \/ held'[u] = {} /\ pc'[u] \notin Flushing
                         \/ held'[u] = held[u]
                            /\ (pc'[u] \in Flushing => pc[u] \in Flushing)
    BY <2>1, <2>2
  <2>5. UNCHANGED BatchLines
    BY <1>2, <2>1
  <2> HIDE DEF PlaceInv, FInv, FlowType, FlowInv
  <2> QED BY <1>1, <2>1, <2>3, <2>4, <2>5
<1>10. CASE TimerFires
  <2>1. UNCHANGED <<rev, batch, running, pc, held>> /\ buffer' = {} /\ timer' = FALSE
    BY <1>10 DEF TimerFires, feed, task
  <2> QED BY <1>2, <2>1
<1>11. CASE LooseUpload
  BY <1>1, <1>2, <1>11 DEF LooseUpload, feed, task
<1>12. CASE Close
  <2>1. UNCHANGED <<rev, batch>> /\ running' = FALSE /\ \A t \in Tasks : held[t] = {}
    BY <1>12 DEF Close, Flushing
  <2>2. CASE buffer = {}
    <3>1. /\ UNCHANGED <<held, buffer, timer>>
          /\ \A t \in Tasks : pc'[t] \in Flushing => pc[t] \in Flushing
      BY <1>12, <2>2 DEF Close, lines, Flushing
    <3> QED BY <1>1, <1>2, <2>1, <3>1
  <2>3. CASE buffer # {}
    <3>1. Take(Closer, buffer)
      BY <1>12, <2>3 DEF Close
    <3> QED BY <1>3, <2>1, <2>3, <3>1, TakePlace
  <2> QED BY <2>2, <2>3
<1>13. CASE Start
  <2>1. /\ UNCHANGED <<rev, batch, held, buffer, timer>> /\ pc'[Closer] = "idle"
        /\ \A t \in Tasks : pc'[t] \in Flushing => pc[t] \in Flushing
    BY <1>3, <1>13 DEF Start, lines, Flushing
  <2> QED BY <1>1, <1>2, <2>1
<1>14. CASE Crash
  <2>1. \A t \in Tasks : held'[t] = {} /\ pc'[t] = "idle"
    BY <1>14 DEF Crash
  <2> QED BY <1>3, <1>14, <2>1 DEF Crash, Flushing
<1> QED BY <1>4, <1>5, <1>6, <1>7, <1>8, <1>9, <1>10, <1>11, <1>12, <1>13, <1>14
        DEF Next, Send

\* Types, and where a line waits: no lines are in two hands but those of a batch
\* that is sent again, no attempt is one too many, for any number of documents.
THEOREM CloudTypeCorrect == Spec => []CloudTypeOK
<1>1. Init => RestType /\ AttemptInv /\ PlaceInv
  <2> SUFFICES ASSUME Init
               PROVE  RestType /\ AttemptInv /\ PlaceInv
    OBVIOUS
  <2>1. RestType
    <3>1. attempt \in [Tasks -> 0..MaxRetries] /\ second \in 0..MaxSecond
      BY CloudAssumption DEF Init
    <3>2. faults \in 0..MaxFaults
      BY CloudAssumption DEF Init
    <3> QED BY <3>1, <3>2, NoKeyNamed DEF Init, RestType
  <2>2. AttemptInv
    BY CloudAssumption DEF Init, AttemptInv, Flushing
  <2>3. PlaceInv
    BY DEF Init, PlaceInv, Tasks, Flushing
  <2> QED BY <2>1, <2>2, <2>3
<1>2. FInv /\ RestType /\ AttemptInv /\ PlaceInv /\ [Next]_cloudvars
        => (FInv /\ RestType /\ AttemptInv /\ PlaceInv)'
  BY FInvStep, RestStep, AttemptStep, PlaceStep
<1>3. FInv /\ RestType /\ PlaceInv => CloudTypeOK
  BY DEF FInv, FlowType, FlowInv, RestType, PlaceInv, CloudTypeOK, Named, Flushing
<1> QED BY <1>1, <1>2, <1>3, FInvInit, PTL DEF Spec

-----------------------------------------------------------------------------
(* Lines of a buffered upload. *)

Waits(l) ==
  l \in buffer \/ (\E t \in Tasks : l \in held[t]) \/ (\E u \in loose : l \in u.lines)
Somewhere(l) == InUpload(l) \/ Waits(l) \/ l \in reported \cup lost

LEMMA WaitingLines == \A l : l \in Waiting <=> Waits(l)
<1>1. \A l : l \in UNION {held[t] : t \in Tasks} <=> \E t \in Tasks : l \in held[t]
  BY Zenon
<1>2. \A l : l \in UNION {u.lines : u \in loose} <=> \E u \in loose : l \in u.lines
  BY Zenon
<1>3. \A l : l \in Waiting <=> \/ l \in buffer
                               \/ l \in UNION {held[t] : t \in Tasks}
                               \/ l \in UNION {u.lines : u \in loose}
  BY Zenon DEF Waiting
<1> QED BY <1>1, <1>2, <1>3, Zenon DEF Waits

\* An upload under the name of lines in hand replaces only themselves.
LEMMA PutKeeps ==
  ASSUME FInv, NameInv, NEW k \in Keys, NEW L \in SUBSET Lines, Owns(k, L), Put(k, L),
         NEW l, InUpload(l) \/ l \in L
  PROVE  InUpload(l)'
<1>1. CASE l \in L
  <2>1. [key |-> k, lines |-> L] \in upload' /\ l \in [key |-> k, lines |-> L].lines
    BY <1>1 DEF Put
  <2> QED BY <2>1 DEF InUpload
<1>2. CASE InUpload(l) /\ l \notin L
  <2>1. PICK u \in upload : l \in u.lines
    BY <1>2 DEF InUpload
  <2>2. u.key \in Keys /\ u.lines \in SUBSET Lines /\ u = [key |-> u.key, lines |-> u.lines]
    BY DEF FInv, FlowType, Uploads
  <2>3. Owns(u.key, u.lines)
    BY <2>2 DEF Owns
  <2>4. u.key # k
    BY <1>2, <2>1, <2>2, <2>3 DEF NameInv
  <2> QED BY <2>1, <2>4 DEF Put, InUpload
<1> QED BY <1>1, <1>2

LEMMA FlushStays ==
  ASSUME FInv, NameInv, NEW t \in Tasks, Flush(t), NEW l \in Lines, Somewhere(l)
  PROVE  Somewhere(l)'
<1>1. /\ key[t] \in Keys /\ held[t] \in SUBSET Lines
      /\ pc[t] \in Flushing /\ Owns(key[t], held[t])
  BY DEF FInv, FlowType, Owns, Flush, FlushOk, FlushFails, FlushRefused, Flushing
<1>2. CASE Put(key[t], held[t]) /\ (InUpload(l) \/ l \in held[t])
  BY <1>1, <1>2, PutKeeps DEF Somewhere
<1>3. CASE InUpload(l) /\ ~Put(key[t], held[t])
  BY <1>3 DEF Flush, FlushOk, FlushFails, FlushRefused, store, InUpload, Somewhere
<1>4. CASE l \in held[t] /\ ~Put(key[t], held[t])
  BY <1>4 DEF Flush, FlushOk, FlushFails, FlushRefused, Somewhere, Waits
<1>5. CASE Waits(l) /\ l \notin held[t]
  <2>1. UNCHANGED <<buffer, loose>> /\ \A u \in Tasks : u # t => held'[u] = held[u]
    BY DEF Flush, FlushOk, FlushFails, FlushRefused, Release, lines, FInv, FlowType
  <2> QED BY <1>5, <2>1 DEF Waits, Somewhere
<1>6. CASE l \in reported \cup lost
  BY <1>6 DEF Flush, FlushOk, FlushFails, FlushRefused, saved, Somewhere
<1> QED BY <1>2, <1>3, <1>4, <1>5, <1>6 DEF Somewhere

\* A line that is somewhere stays somewhere.
LEMMA SomewhereStays ==
  ASSUME FInv, NameInv, [Next]_cloudvars, NEW l \in Lines, Somewhere(l)
  PROVE  Somewhere(l)'
<1>1. CASE UNCHANGED <<held, lines, upload, reported, lost>>
  BY <1>1 DEF Somewhere, Waits, InUpload, lines
<1>2. CASE Poll \/ SendAll \/ BatchEnds \/ Start \/ UNCHANGED cloudvars
  BY <1>1, <1>2 DEF Poll, SendAll, BatchEnds, Start, cloudvars, task, lines, store, saved
<1>3. ASSUME NEW d \in Docs, SendObject(d)
      PROVE  Somewhere(l)'
  BY <1>1, <1>3 DEF SendObject, saved
<1>4. ASSUME NEW t \in Tasks, NEW L, Take(t, L), buffer \subseteq L,
             UNCHANGED <<loose, upload, reported, lost>>, pc[t] \notin Flushing
      PROVE  Somewhere(l)'
  <2>1. held[t] = {} /\ held' = [held EXCEPT ![t] = L]
    BY <1>4 DEF Take, FInv, FlowInv
  <2>2. Waits(l) => Waits(l)'
    BY <1>4, <2>1 DEF Waits, FInv, FlowType
  <2> QED BY <1>4, <2>2 DEF Somewhere, InUpload
<1>5. ASSUME NEW d \in Docs, AddLine(d)
      PROVE  Somewhere(l)'
  <2>1. /\ d \in Tasks /\ pc[d] \notin Flushing /\ UNCHANGED <<loose, upload, reported, lost>>
    BY <1>5 DEF AddLine, Tasks, Flushing, store, saved
  <2>2. CASE Take(d, buffer \cup {<<d, rev[d]>>})
    BY <1>4, <2>1, <2>2
  <2>3. CASE buffer' = buffer \cup {<<d, rev[d]>>} /\ UNCHANGED held
    BY <2>1, <2>3 DEF Somewhere, Waits, InUpload
  <2> QED BY <1>5, <2>2, <2>3 DEF AddLine
<1>6. ASSUME NEW t \in Tasks, Wake(t)
      PROVE  Somewhere(l)'
  BY <1>1, <1>6 DEF Wake, store, saved
<1>7. CASE TimerFires
  <2>1. UNCHANGED <<held, upload, reported>> /\ loose \subseteq loose' /\ lost \subseteq lost'
    BY <1>7 DEF TimerFires, task, store
  <2>2. l \in buffer => (\E u \in loose' : l \in u.lines) \/ l \in lost'
    <3>1. PICK k \in UploadKeys :
            [key |-> k, lines |-> buffer] \in loose' \/ lost' = lost \cup buffer
      BY <1>7 DEF TimerFires
    <3>2. [key |-> k, lines |-> buffer].lines = buffer
      OBVIOUS
    <3> QED BY <3>1, <3>2
  <2> QED BY <2>1, <2>2 DEF Somewhere, Waits, InUpload
<1>8. CASE LooseUpload
  <2>1. PICK u \in loose :
          /\ loose' = loose \ {u}
          /\ \/ Put(u.key, u.lines) /\ UNCHANGED lost
             \/ lost' = lost \cup u.lines /\ UNCHANGED upload
    BY <1>8 DEF LooseUpload
  <2>2. /\ u.key \in Keys /\ u.lines \in SUBSET Lines /\ u = [key |-> u.key, lines |-> u.lines]
        /\ UNCHANGED <<held, buffer, reported>>
    BY <1>8 DEF LooseUpload, task, FInv, FlowType, Uploads
  <2>3. CASE Put(u.key, u.lines) /\ UNCHANGED lost
    <3>1. InUpload(l) \/ l \in u.lines => InUpload(l)'
      BY <2>2, <2>3, PutKeeps DEF Owns
    <3> QED BY <2>1, <2>2, <2>3, <3>1 DEF Somewhere, Waits
  <2>4. CASE lost' = lost \cup u.lines /\ UNCHANGED upload
    BY <2>1, <2>2, <2>4 DEF Somewhere, Waits, InUpload
  <2> QED BY <2>1, <2>3, <2>4
<1>9. CASE Close
  <2>1. Closer \in Tasks /\ pc[Closer] \notin Flushing /\ UNCHANGED <<upload, reported, lost>>
    BY <1>9 DEF Close, Tasks, Flushing, store, saved
  <2> QED BY <1>1, <1>4, <1>9, <2>1 DEF Close, lines
<1>10. CASE Crash
  BY <1>10, WaitingLines DEF Crash, Somewhere, store, InUpload
<1> QED BY <1>2, <1>3, <1>5, <1>6, <1>7, <1>8, <1>9, <1>10, FlushStays DEF Next, Send

\* A send that has acknowledged a line, or is about to, left it somewhere; one
\* that failed was a deletion, which has no line.
LineInv ==
  buffered =>
    /\ \A d \in Docs :
         /\ pc[d] \in Flushing \cup {"ok"} /\ Line(d, rev[d]) => Somewhere(<<d, rev[d]>>)
         /\ pc[d] \in {"pause", "failed", "refused", "down"} => IsDelete(d)
    /\ \A l \in Acknowledged : Somewhere(l)

LEMMA RevisionLine ==
  ASSUME FInv, NEW d \in Docs, rev[d] > 0
  PROVE  <<d, rev[d]>> \in Lines
BY CloudAssumption DEF FInv, FlowType, Lines, Revs

\* A step that acknowledges nothing.
LEMMA LinesKept ==
  ASSUME FInv, NameInv, LineInv, [Next]_cloudvars, UNCHANGED <<buffered, rev, gone, ckpt>>,
         buffered =>
           \A d \in Docs :
             /\ pc'[d] \in Flushing \cup {"ok"} =>
                  \/ pc[d] \in Flushing \cup {"ok"} \/ ~Line(d, rev[d])
                  \/ Somewhere(<<d, rev[d]>>)'
             /\ pc'[d] \in {"pause", "failed", "refused", "down"} =>
                  pc[d] \in {"pause", "failed", "refused", "down"} \/ IsDelete(d)
  PROVE  LineInv'
<1>1. SUFFICES ASSUME buffered
               PROVE  LineInv'
  BY DEF LineInv
<1>2. Acknowledged' = Acknowledged /\ Acknowledged \subseteq Lines
  BY DEF Acknowledged, Line
<1>3. \A l \in Acknowledged' : Somewhere(l)'
  BY <1>1, <1>2, SomewhereStays DEF LineInv
<1>4. ASSUME NEW d \in Docs, pc'[d] \in Flushing \cup {"ok"}, Line(d, rev[d])
      PROVE  Somewhere(<<d, rev[d]>>)'
  <2>1. CASE pc[d] \in Flushing \cup {"ok"}
    <3>1. <<d, rev[d]>> \in Lines
      BY <2>1, RevisionLine DEF FInv, FlowInv, Flushing
    <3> QED BY <1>1, <1>4, <2>1, <3>1, SomewhereStays DEF LineInv
  <2> QED BY <1>1, <1>4, <2>1
<1>5. \A d \in Docs : (Line(d, rev[d])' <=> Line(d, rev[d])) /\ (IsDelete(d)' <=> IsDelete(d))
  BY DEF Line, IsDelete
<1> QED BY <1>1, <1>3, <1>4, <1>5 DEF LineInv

LEMMA PollLines ==
  ASSUME FInv, NameInv, LineInv, Poll
  PROVE  LineInv'
<1>1. SUFFICES ASSUME buffered
               PROVE  LineInv'
  BY DEF Poll, LineInv
<1>2. [Next]_cloudvars
  BY DEF Next
<1>3. \A d \in Docs : pc'[d] = "idle"
  BY DEF Poll, task, FInv, FlowInv
<1>4. ckpt' = ckpt /\ \A d \in Docs : \A r \in 0..ckpt[d] : r \in gone'[d] <=> r \in gone[d]
  <2>1. \A d \in Docs : ckpt[d] = rev[d] /\ rev[d] \in Nat
    BY CloudAssumption DEF Poll, FInv, FlowType, FlowInv
  <2> QED BY <2>1 DEF Poll, saved
<1>5. \A l \in Acknowledged' : l \in Acknowledged
  <2>1. \A l \in Lines : l[1] \in Docs /\ l[2] \in Nat
    BY CloudAssumption DEF Lines, Revs
  <2> QED BY <1>4, <2>1, Revisions DEF Acknowledged, Line
<1>6. \A l \in Acknowledged' : Somewhere(l)'
  BY <1>1, <1>2, <1>5, SomewhereStays DEF LineInv, Acknowledged
<1> QED BY <1>3, <1>6 DEF LineInv, Flushing

LEMMA BatchEndLines ==
  ASSUME FInv, NameInv, LineInv, BatchEnds
  PROVE  LineInv'
<1>1. SUFFICES ASSUME buffered
               PROVE  LineInv'
  BY DEF BatchEnds, LineInv
<1>2. [Next]_cloudvars
  BY DEF Next
<1>3. (\A d \in Docs : pc'[d] = "idle") /\ UNCHANGED <<rev, gone>>
  BY DEF BatchEnds, Tasks
<1>4. ASSUME NEW l \in Acknowledged', l \notin Acknowledged
      PROVE  Somewhere(l)
  <2>1. l \in Lines /\ l = <<l[1], l[2]>> /\ l[1] \in Docs /\ l[2] \in Nat /\ Line(l[1], l[2])
    BY <1>3, <1>4, CloudAssumption DEF Acknowledged, Lines, Revs, Line
  <2>2. l[2] <= ckpt'[l[1]] /\ ~(l[2] <= ckpt[l[1]])
    BY <1>4, <2>1 DEF Acknowledged
  <2>3. /\ l[1] \in batch /\ ckpt'[l[1]] = rev[l[1]]
        /\ \A d \in batch : pc[d] \in {"ok", "failed", "refused"}
    BY <2>1, <2>2 DEF BatchEnds, Ended
  <2>4. l[2] = rev[l[1]]
    BY <2>1, <2>2, <2>3, Revisions DEF FInv, FlowInv
  <2>5. pc[l[1]] = "ok"
    BY <1>1, <2>1, <2>3, <2>4 DEF LineInv, IsDelete, Line
  <2> QED BY <1>1, <2>1, <2>4, <2>5 DEF LineInv
<1>5. \A l \in Acknowledged' : l \in Lines /\ Somewhere(l)
  BY <1>1, <1>4 DEF LineInv, Acknowledged
<1>6. \A l \in Acknowledged' : Somewhere(l)'
  BY <1>2, <1>5, SomewhereStays
<1> QED BY <1>3, <1>6 DEF LineInv, Flushing

LEMMA LineStep ==
  ASSUME FInv, NameInv, LineInv, [Next]_cloudvars
  PROVE  LineInv'
<1> USE DEF FInv, FlowType
<1>1. CASE SendAll
  <2>1. UNCHANGED <<buffered, rev, gone, ckpt>>
    BY <1>1 DEF SendAll, feed, saved
  <2>2. \A d \in Docs : pc'[d] \in {"idle", "try"} \/ (pc'[d] = "ok" /\ Ignored(d))
    BY <1>1 DEF SendAll, Tasks
  <2>3. \A d \in Docs : Ignored(d) => ~Line(d, rev[d])
    BY DEF Ignored, Line
  <2> QED BY <2>1, <2>2, <2>3, LinesKept DEF Flushing
<1>2. ASSUME NEW d \in Docs, SendObject(d)
      PROVE  LineInv'
  <2>1. UNCHANGED <<buffered, rev, gone, ckpt>> /\ (buffered => IsDelete(d))
    BY <1>2 DEF SendObject, feed, saved
  <2>2. IsDelete(d) => ~Line(d, rev[d])
    BY DEF IsDelete, Line
  <2>3. \A e \in Docs : e # d => pc'[e] = pc[e]
    BY <1>2 DEF SendObject, Tasks
  <2> QED BY <2>1, <2>2, <2>3, LinesKept
<1>3. ASSUME NEW d \in Docs, AddLine(d)
      PROVE  LineInv'
  <2>1. UNCHANGED <<buffered, rev, gone, ckpt>> /\ d \in Tasks
    BY <1>3 DEF AddLine, feed, saved, Tasks
  <2>2. Somewhere(<<d, rev[d]>>)' /\ pc'[d] \in {"flush", "ok"}
    <3>1. CASE Take(d, buffer \cup {<<d, rev[d]>>})
      BY <2>1, <3>1 DEF Take, Somewhere, Waits
    <3>2. CASE buffer' = buffer \cup {<<d, rev[d]>>} /\ pc' = [pc EXCEPT ![d] = "ok"]
      BY <2>1, <3>2 DEF Somewhere, Waits
    <3> QED BY <1>3, <3>1, <3>2 DEF AddLine
  <2>3. \A e \in Docs : e # d => pc'[e] = pc[e]
    BY <1>3 DEF AddLine, Take, Tasks
  <2> QED BY <2>1, <2>2, <2>3, LinesKept
<1>4. ASSUME UNCHANGED <<buffered, rev, gone, ckpt>>,
             \A d \in Docs : \/ pc'[d] \in {"idle", "try"} \/ pc'[d] = pc[d]
                             \/ pc[d] \in Flushing /\ pc'[d] \in Flushing \cup {"ok"}
      PROVE  LineInv'
  BY <1>4, LinesKept DEF Flushing
<1>5. ASSUME NEW t \in Tasks, Flush(t) \/ Wake(t)
      PROVE  LineInv'
  <2>1. UNCHANGED <<buffered, rev, gone, ckpt>>
    BY <1>5 DEF Flush, FlushOk, FlushFails, FlushRefused, Wake, feed, saved
  <2>2. \A u \in Tasks : u # t => pc'[u] = pc[u]
    BY <1>5 DEF Flush, FlushOk, FlushFails, FlushRefused, Flushed, Wake
  <2>3. \/ pc'[t] = "try"
        \/ pc[t] \in Flushing /\ pc'[t] \in Flushing \cup {"ok"}
    BY <1>5 DEF Flush, FlushOk, FlushFails, FlushRefused, Flushed, Wake, Flushing
  <2> QED BY <1>4, <2>1, <2>2, <2>3 DEF Tasks
<1>6. CASE TimerFires \/ LooseUpload \/ UNCHANGED cloudvars
  BY <1>4, <1>6 DEF TimerFires, LooseUpload, cloudvars, feed, task, saved
<1>7. CASE Close \/ Start \/ Crash
  <2>1. UNCHANGED <<buffered, rev, gone, ckpt>>
    BY <1>7 DEF Close, Start, Crash, saved
  <2>2. \A d \in Docs : pc'[d] = pc[d] \/ pc'[d] = "idle"
    BY <1>7, CloudAssumption DEF Close, Take, Start, Crash, Tasks
  <2> QED BY <1>4, <2>1, <2>2
<1> QED BY <1>1, <1>2, <1>3, <1>5, <1>6, <1>7, PollLines, BatchEndLines DEF Next, Send

LEMMA LinesInit == Init => NameInv /\ LineInv
<1>1. Init => NameInv
  BY DEF Init, NameInv, Owns, Flushing
<1>2. Init => Acknowledged = {}
  BY CloudAssumption DEF Init, Acknowledged, Lines, Revs
<1>3. Init => \A d \in Docs : pc[d] = "idle"
  BY DEF Init, Tasks
<1> QED BY <1>1, <1>2, <1>3 DEF LineInv, Flushing

LEMMA LinesStep ==
  ASSUME UniqueSecond
  PROVE  FInv /\ NameInv /\ LineInv /\ [Next]_cloudvars => (FInv /\ NameInv /\ LineInv)'
BY FInvStep, NameStep, LineStep

\* With a buffer, a line the checkpoint covers is in the store, waits for its
\* upload, or was reported, but for what a crash or the timer's own upload lost:
\* whoever flushes, however often, and whatever is uploaded twice.
THEOREM LinesSafe ==
  ASSUME UniqueSecond
  PROVE  Spec => []OnlyCrashOrTimerLoses
<1>1. LineInv => OnlyCrashOrTimerLoses
  BY WaitingLines DEF LineInv, OnlyCrashOrTimerLoses, Somewhere
<1> QED BY <1>1, LinesInit, LinesStep, FInvInit, PTL DEF Spec

\* Only a crash and the timer lose lines.
LEMMA NothingLostStep ==
  ASSUME Faults \cap {"crash", "cancelled", "abandoned"} = {}, lost = {}, [Next]_cloudvars
  PROVE  lost' = {}
<1>1. ~Crash
  BY DEF Crash, LastFault
<1>2. TimerFires \/ LooseUpload => lost' = lost
  BY DEF TimerFires, LooseUpload, LastFault, Fault
<1> QED BY <1>1, <1>2 DEF Next, Poll, SendAll, BatchEnds, Send, SendObject, AddLine, Flush, FlushOk,
                          FlushFails, FlushRefused, Wake, Close, Start, saved, cloudvars

\* Where the process does not crash and every upload the timer leaves to a thread
\* succeeds, a line the checkpoint covers is in the store, waits for its upload or
\* was reported: failed, retried and repeated uploads of sends and of close() lose
\* none.
THEOREM NoLineLost ==
  ASSUME UniqueSecond, Faults \cap {"crash", "cancelled", "abandoned"} = {}
  PROVE  Spec => []NoneLost
<1>1. Init => lost = {}
  BY DEF Init
<1>2. lost = {} /\ [Next]_cloudvars => (lost = {})'
  BY NothingLostStep
<1>3. OnlyCrashOrTimerLoses /\ lost = {} => NoneLost
  BY DEF OnlyCrashOrTimerLoses, NoneLost
<1> QED BY <1>1, <1>2, <1>3, LinesSafe, PTL DEF Spec
=============================================================================
