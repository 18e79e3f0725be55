-------------------------- MODULE DeadLetterProofs --------------------------
(***************************************************************************)
(* The dead letter queue keeps the latest failure of every document, for   *)
(* any number of pipelines, documents, requests and crashes, if no two     *)
(* failures of a document fall into one second and all pipelines deliver   *)
(* to one output.                                                          *)
(***************************************************************************)
EXTENDS DeadLetter, TLAPS

Holding(j) == pc[j] \in {"send", "sent", "failed", "count"}
Copy == [id : Ids, entry : Entry]
Requests ==
  {Idle} \cup [op : {"retry", "delete"}, id : Ids, entry : Entry]
         \cup [op : {"clear"}, ids : SUBSET Ids]

QueueType ==
  /\ now \in 1..MaxClock
  /\ rev \in [Docs -> 0..MaxRev] /\ owed \in [Docs -> 0..MaxRev]
  /\ queue \in [Ids -> Entry \cup {NoEntry}]
  /\ pc \in [Jobs -> WorkerStates]
  /\ pending \in [Jobs -> SUBSET [id : Ids, attempts : Nat]]
  /\ cur \in [Jobs -> Copy \cup {NoCur}]
  /\ \A j \in Jobs : Holding(j) => cur[j] \in Copy
  /\ api \in Requests

\* Revision r is what the entry id, or a copy of it that somebody has read and
\* may write back, says.
IsCopy(id, r) ==
  \/ queue[id] # NoEntry /\ queue[id].rev = r
  \/ \E j \in Jobs : Holding(j) /\ cur[j].id = id /\ cur[j].entry.rev = r
  \/ api.op \in {"retry", "delete"} /\ api.id = id /\ api.entry.rev = r

\* All copies of an entry say the same, and none has an id that a failure may
\* still get: to write back what was read long ago does no harm.
CopyInv ==
  \A id \in Ids, r \in 1..MaxRev :
    IsCopy(id, r) => TimeOf(id) < now /\ \A s \in 1..MaxRev : IsCopy(id, s) => r = s

KInv == QueueType /\ CopyInv /\ QueueKeepsFailure

-----------------------------------------------------------------------------
(* Types. *)

LEMMA InitType == Init => QueueType
BY DeadLetterAssumption
DEF Init, QueueType, WorkerStates, Holding, Requests, NoCur, Copy

LEMMA DropType ==
  ASSUME QueueType, NEW S, Drop(S)
  PROVE  queue' \in [Ids -> Entry \cup {NoEntry}] /\ owed' \in [Docs -> 0..MaxRev]
<1>1. MaxRev \in Nat
  BY DeadLetterAssumption
<1> QED BY <1>1 DEF Drop, Without, QueueType

LEMMA BatchType ==
  ASSUME QueueType, NEW j \in Jobs, NEW d \in Docs, Write(j, d) \/ Deliver(j, d)
  PROVE  QueueType'
<1> USE DEF QueueType, Holding, workerVars
<1>1. MaxRev \in Nat /\ MaxClock \in Nat
  BY DeadLetterAssumption
<1>2. CASE Write(j, d)
  <2>1. <<d, now>> \in Ids
    BY DEF Ids
  <2>2. [rev |-> rev[d] + 1, retried |-> FALSE, attempts |-> 0] \in Entry
    BY <1>1, <1>2 DEF Write, Entry
  <2>3. queue' \in [Ids -> Entry \cup {NoEntry}]
    BY <1>2, <2>1, <2>2 DEF Write
  <2>4. now' \in 1..MaxClock /\ rev' \in [Docs -> 0..MaxRev] /\ owed' \in [Docs -> 0..MaxRev]
    BY <1>1, <1>2 DEF Write
  <2> QED BY <1>2, <2>3, <2>4 DEF Write
<1>3. CASE Deliver(j, d)
  BY <1>1, <1>3 DEF Deliver
<1> QED BY <1>2, <1>3

LEMMA ReplayType ==
  ASSUME QueueType, NEW j \in Jobs, SelectExpired(j) \/ Replay(j) \/ Down(j)
  PROVE  QueueType'
<1> USE DEF QueueType, Holding, Goto, WorkerStates
<1>1. MaxRev \in Nat
  BY DeadLetterAssumption
<1>2. CASE SelectExpired(j) \/ ReplayEnds(j)
  BY <1>2 DEF SelectExpired, ReplayEnds
<1>3. CASE PurgeExpired(j)
  BY <1>3, DropType DEF PurgeExpired
<1>4. CASE ListPending(j)
  <2>1. pending'[j] \subseteq [id : Ids, attempts : Nat]
    BY <1>4 DEF ListPending, Present, Entry
  <2> QED BY <1>4, <2>1 DEF ListPending
<1>5. CASE ReplayEntry(j)
  <2>1. PICK e \in pending[j] :
          /\ pending' = [pending EXCEPT ![j] = @ \ {e}]
          /\ IF Exhausted(e) \/ queue[e.id] = NoEntry
             THEN UNCHANGED <<cur, pc>>
             ELSE /\ cur' = [cur EXCEPT ![j] = [id |-> e.id, entry |-> queue[e.id]]]
                  /\ Goto(j, "send")
    BY <1>5 DEF ReplayEntry
  <2>2. e.id \in Ids
    BY <2>1
  <2>3. queue[e.id] # NoEntry => [id |-> e.id, entry |-> queue[e.id]] \in Copy
    BY <2>2 DEF Copy
  <2> QED BY <1>5, <2>1, <2>3 DEF ReplayEntry
<1>6. CASE Send(j)
  BY <1>6 DEF Send
<1>7. CASE PurgeSent(j)
  <2>1. cur[j].id \in Ids /\ DocOf(cur[j].id) \in Docs
    BY <1>7 DEF PurgeSent, Copy, Ids, DocOf
  <2>2. owed' = owed \/ owed' = Settled(owed, DocOf(cur[j].id), cur[j].entry.rev)
    BY <1>7 DEF PurgeSent
  <2>3. owed' \in [Docs -> 0..MaxRev]
    BY <1>1, <2>1, <2>2 DEF Settled
  <2> QED BY <1>7, <2>1, <2>3 DEF PurgeSent, Without
<1>8. CASE ReadAttempts(j)
  <2>1. cur[j] \in Copy
    BY <1>8 DEF ReadAttempts
  <2>2. queue[cur[j].id] # NoEntry => [cur[j] EXCEPT !.entry = queue[cur[j].id]] \in Copy
    BY <2>1 DEF Copy
  <2> QED BY <1>8, <2>1, <2>2 DEF ReadAttempts
<1>9. CASE SaveAttempts(j)
  <2>1. cur[j].id \in Ids /\ cur[j].entry \in Entry
    BY <1>9 DEF SaveAttempts, Copy
  <2>2. [cur[j].entry EXCEPT !.attempts = @ + 1] \in Entry
    BY <2>1 DEF Entry
  <2> QED BY <1>9, <2>1, <2>2 DEF SaveAttempts
<1>10. CASE Down(j)
  BY <1>10 DEF Down
<1> QED BY <1>2, <1>3, <1>4, <1>5, <1>6, <1>7, <1>8, <1>9, <1>10 DEF Replay

\* A request that has read an entry has its id and a copy.
LEMMA RequestType ==
  ASSUME QueueType, api.op \in {"retry", "delete"}
  PROVE  api.id \in Ids /\ api.entry \in Entry
BY DEF QueueType, Requests, Idle

LEMMA OtherType ==
  ASSUME QueueType,
         ApiRead \/ ApiRetry \/ ApiDelete \/ ApiClear \/ Expire \/ Tick
  PROVE  QueueType'
<1> USE DEF QueueType, Holding, workerVars
<1>1. MaxRev \in Nat /\ MaxClock \in Nat
  BY DeadLetterAssumption
<1>2. Idle \in Requests
  BY DEF Requests
<1>3. CASE ApiRead
  <2>1. api' \in Requests
    BY <1>3 DEF ApiRead, Requests, Present
  <2> QED BY <1>3, <2>1 DEF ApiRead
<1>4. CASE ApiRetry
  <2>1. [api.entry EXCEPT !.retried = TRUE] \in Entry
    BY <1>4, RequestType DEF ApiRetry, Entry
  <2> QED BY <1>2, <1>4, <2>1 DEF ApiRetry
<1>5. CASE ApiDelete
  <2>1. DocOf(api.id) \in Docs
    BY <1>5, RequestType DEF ApiDelete, Ids, DocOf
  <2> QED BY <1>1, <1>2, <1>5, <2>1 DEF ApiDelete, Without, Settled
<1>6. CASE ApiClear
  BY <1>2, <1>6, DropType DEF ApiClear
<1>7. CASE Expire
  BY <1>7, DropType DEF Expire
<1>8. CASE Tick
  BY <1>1, <1>8 DEF Tick
<1> QED BY <1>3, <1>4, <1>5, <1>6, <1>7, <1>8

LEMMA QueueTypeStep ==
  ASSUME QueueType, [Next]_dvars
  PROVE  QueueType'
<1>1. CASE UNCHANGED dvars
  BY <1>1 DEF dvars, workerVars, QueueType, Holding
<1> QED BY <1>1, BatchType, ReplayType, OtherType DEF Next

\* The variables that no failure is looked up in.
RestType ==
  /\ out \in [Sinks -> [Docs -> 0..MaxRev]]
  /\ expiring \in [Jobs -> SUBSET Ids]
  /\ api.op \in {"idle"} \cup ApiOps
  /\ downs \in 0..MaxDown

LEMMA InitRest == Init => RestType
BY DeadLetterAssumption DEF Init, RestType, Idle

\* An output takes a revision from the feed, or one of an entry.
LEMMA OutStep ==
  ASSUME QueueType, RestType, NEW j \in Jobs, NEW d \in Docs, NEW r \in 0..MaxRev,
         out' = [out EXCEPT ![Sink[j]][d] = r]
  PROVE  out' \in [Sinks -> [Docs -> 0..MaxRev]]
BY DeadLetterAssumption DEF RestType

LEMMA RestStep ==
  ASSUME QueueType, RestType, [Next]_dvars
  PROVE  RestType'
<1>0. /\ out \in [Sinks -> [Docs -> 0..MaxRev]] /\ expiring \in [Jobs -> SUBSET Ids]
      /\ MaxRev \in Nat /\ MaxDown \in Nat
  BY DeadLetterAssumption DEF RestType
<1>1. out' \in [Sinks -> [Docs -> 0..MaxRev]]
  <2>1. CASE out' = out
    BY <1>0, <2>1
  <2>2. ASSUME NEW j \in Jobs, NEW d \in Docs, Deliver(j, d)
        PROVE  out' \in [Sinks -> [Docs -> 0..MaxRev]]
    <3>1. rev[d] + 1 \in 0..MaxRev
      BY <1>0, <2>2 DEF Deliver, QueueType
    <3> QED BY <2>2, <3>1, OutStep DEF Deliver
  <2>3. ASSUME NEW j \in Jobs, Send(j), out' # out
        PROVE  out' \in [Sinks -> [Docs -> 0..MaxRev]]
    <3>1. cur[j] \in Copy
      BY <2>3 DEF Send, QueueType, Holding
    <3>2. DocOf(cur[j].id) \in Docs /\ cur[j].entry.rev \in 0..MaxRev
      BY <1>0, <3>1 DEF Copy, Ids, DocOf, Entry
    <3> QED BY <2>3, <3>2, OutStep DEF Send
  <2>4. \/ out' = out
        \/ \E j \in Jobs, d \in Docs : Deliver(j, d)
        \/ \E j \in Jobs : Send(j)
    BY DEF Next, Write, SelectExpired, Replay, PurgeExpired, ListPending, ReplayEntry,
           PurgeSent, ReadAttempts, SaveAttempts, ReplayEnds, Down, ApiRead, ApiRetry,
           ApiDelete, ApiClear, Expire, Tick, dvars
  <2> QED BY <2>1, <2>2, <2>3, <2>4
<1>2. expiring' \in [Jobs -> SUBSET Ids]
  <2>1. \/ expiring' = expiring
        \/ \E j \in Jobs, S \in SUBSET Ids : expiring' = [expiring EXCEPT ![j] = S]
    <3>1. {id \in Present : Expired(id)} \in SUBSET Ids /\ {} \in SUBSET Ids
      BY DEF Present
    <3> QED BY <3>1 DEF Next, Write, Deliver, SelectExpired, Replay, PurgeExpired, ListPending,
                        ReplayEntry, Send, PurgeSent, ReadAttempts, SaveAttempts, ReplayEnds,
                        Down, ApiRead, ApiRetry, ApiDelete, ApiClear, Expire, Tick, dvars,
                        workerVars
  <2> QED BY <1>0, <2>1
<1>3. api'.op \in {"idle"} \cup ApiOps
  <2>1. \/ api' = api \/ api' = Idle \/ ApiRead
    BY DEF Next, Write, Deliver, SelectExpired, Replay, PurgeExpired, ListPending,
           ReplayEntry, Send, PurgeSent, ReadAttempts, SaveAttempts, ReplayEnds, Down,
           ApiRetry, ApiDelete, ApiClear, Expire, Tick, dvars
  <2> QED BY <2>1 DEF RestType, Idle, ApiRead
<1>4. downs' \in 0..MaxDown
  <2>1. downs' = downs \/ (downs < MaxDown /\ downs' = downs + 1)
    BY DEF Next, Write, Deliver, SelectExpired, Replay, PurgeExpired, ListPending,
           ReplayEntry, Send, PurgeSent, ReadAttempts, SaveAttempts, ReplayEnds, Down, ApiRead,
           ApiRetry, ApiDelete, ApiClear, Expire, Tick, dvars
  <2> QED BY <1>0, <2>1 DEF RestType
<1> QED BY <1>1, <1>2, <1>3, <1>4 DEF RestType

\* Every variable of the queue, its pipelines and its requests keeps its type,
\* and a pipeline in the middle of an entry has one.
THEOREM DlqTypeCorrect == Spec => []DlqTypeOK
<1>1. Init => QueueType /\ RestType
  BY InitType, InitRest
<1>2. (QueueType /\ RestType) /\ [Next]_dvars => (QueueType /\ RestType)'
  BY QueueTypeStep, RestStep
<1>3. QueueType /\ RestType => DlqTypeOK
  BY DEF QueueType, RestType, DlqTypeOK, Holding, Copy
<1> QED BY <1>1, <1>2, <1>3, PTL DEF Spec

-----------------------------------------------------------------------------
(* Copies. *)

\* A step that makes no copy of a revision of which there was none keeps them
\* in agreement.
LEMMA CopiesAgree ==
  ASSUME QueueType, CopyInv, now' \in Nat, now' >= now,
         \A id \in Ids, r \in 1..MaxRev : IsCopy(id, r)' => IsCopy(id, r)
  PROVE  CopyInv'
<1>1. \A id \in Ids : TimeOf(id) \in Nat
  BY DEF Ids, TimeOf
<1> QED BY <1>1 DEF CopyInv, QueueType

\* A new entry has an id of which there is no copy yet.
LEMMA CopiesOfFailure ==
  ASSUME QueueType, CopyInv, OwnSecond, NEW j \in Jobs, NEW d \in Docs, Write(j, d)
  PROVE  CopyInv'
<1>1. /\ <<d, now>> \in Ids /\ TimeOf(<<d, now>>) = now
      /\ \A id \in Ids : TimeOf(id) \in Nat
  BY DeadLetterAssumption DEF QueueType, Ids, TimeOf
<1>2. now' = now + 1 /\ now \in Nat
  BY DeadLetterAssumption DEF Write, QueueType
<1>3. \A id \in Ids, r \in 1..MaxRev :
        IsCopy(id, r)' => IsCopy(id, r) \/ (id = <<d, now>> /\ r = rev[d] + 1)
  BY DEF Write, IsCopy, Holding, workerVars, QueueType
<1>4. \A r \in 1..MaxRev : ~IsCopy(<<d, now>>, r)
  BY <1>1, <1>2 DEF CopyInv
<1>5. SUFFICES ASSUME NEW id \in Ids, NEW r \in 1..MaxRev, IsCopy(id, r)'
               PROVE  TimeOf(id) < now' /\ \A s \in 1..MaxRev : IsCopy(id, s)' => r = s
  BY DEF CopyInv
<1>6. CASE id = <<d, now>>
  BY <1>1, <1>2, <1>3, <1>4, <1>5, <1>6
<1>7. CASE id # <<d, now>>
  BY <1>1, <1>2, <1>3, <1>5, <1>7 DEF CopyInv
<1> QED BY <1>6, <1>7

LEMMA CopiesOfReplay ==
  ASSUME QueueType, NEW j \in Jobs, SelectExpired(j) \/ Replay(j) \/ Down(j),
         NEW id \in Ids, NEW r \in 1..MaxRev, IsCopy(id, r)'
  PROVE  IsCopy(id, r)
<1> USE DEF QueueType, Holding, Goto, WorkerStates, IsCopy
<1>1. CASE SelectExpired(j) \/ ReplayEnds(j) \/ ListPending(j)
  BY <1>1 DEF SelectExpired, ReplayEnds, ListPending
<1>2. CASE PurgeExpired(j)
  BY <1>2 DEF PurgeExpired, Drop, Without
<1>3. CASE ReplayEntry(j)
  <2>1. PICK e \in pending[j] :
          IF Exhausted(e) \/ queue[e.id] = NoEntry
          THEN UNCHANGED <<cur, pc>>
          ELSE /\ cur' = [cur EXCEPT ![j] = [id |-> e.id, entry |-> queue[e.id]]]
               /\ Goto(j, "send")
    BY <1>3 DEF ReplayEntry
  <2> QED BY <1>3, <2>1 DEF ReplayEntry
<1>4. CASE Send(j)
  BY <1>4 DEF Send
<1>5. CASE PurgeSent(j)
  BY <1>5 DEF PurgeSent, Without
<1>6. CASE ReadAttempts(j)
  <2>1. cur[j] \in Copy
    BY <1>6 DEF ReadAttempts
  <2>2. /\ [cur[j] EXCEPT !.entry = queue[cur[j].id]].id = cur[j].id
        /\ [cur[j] EXCEPT !.entry = queue[cur[j].id]].entry = queue[cur[j].id]
    BY <2>1 DEF Copy
  <2> QED BY <1>6, <2>1, <2>2 DEF ReadAttempts, Copy
<1>7. CASE SaveAttempts(j)
  <2>1. cur[j].id \in Ids /\ cur[j].entry \in Entry
    BY <1>7 DEF SaveAttempts, Copy
  <2>2. [cur[j].entry EXCEPT !.attempts = @ + 1].rev = cur[j].entry.rev
    BY <2>1 DEF Entry
  <2> QED BY <1>7, <2>1, <2>2 DEF SaveAttempts
<1>8. CASE Down(j)
  BY <1>8 DEF Down
<1> QED BY <1>1, <1>2, <1>3, <1>4, <1>5, <1>6, <1>7, <1>8 DEF Replay

LEMMA CopiesOfOthers ==
  ASSUME QueueType,
         \/ ApiRead \/ ApiRetry \/ ApiDelete \/ ApiClear \/ Expire \/ Tick
         \/ \E j \in Jobs, d \in Docs : Deliver(j, d)
         \/ UNCHANGED dvars,
         NEW id \in Ids, NEW r \in 1..MaxRev, IsCopy(id, r)'
  PROVE  IsCopy(id, r)
<1> USE DEF QueueType, Holding, IsCopy, workerVars
<1>1. CASE ApiRead
  BY <1>1 DEF ApiRead, Present
<1>2. CASE ApiRetry
  <2>1. [api.entry EXCEPT !.retried = TRUE].rev = api.entry.rev
    BY <1>2, RequestType DEF ApiRetry, Entry
  <2> QED BY <1>2, <2>1 DEF ApiRetry, Idle
<1>3. CASE ApiDelete
  BY <1>3 DEF ApiDelete, Without, Idle
<1>4. CASE ApiClear
  BY <1>4 DEF ApiClear, Drop, Without, Idle
<1>5. CASE Expire
  BY <1>5 DEF Expire, Drop, Without
<1>6. CASE Tick \/ UNCHANGED dvars
  BY <1>6 DEF Tick, dvars
<1>7. CASE \E j \in Jobs, d \in Docs : Deliver(j, d)
  BY <1>7 DEF Deliver
<1> QED BY <1>1, <1>2, <1>3, <1>4, <1>5, <1>6, <1>7

\* The clock goes on.
LEMMA TimePasses ==
  ASSUME QueueType, [Next]_dvars
  PROVE  now' \in Nat /\ now' >= now
<1>1. now \in Nat /\ MaxClock \in Nat
  BY DeadLetterAssumption DEF QueueType
<1>2. now' = now \/ now' = now + 1
  BY DEF Next, Write, Deliver, SelectExpired, Replay, PurgeExpired, ListPending,
         ReplayEntry, Send, PurgeSent, ReadAttempts, SaveAttempts, ReplayEnds, Down, ApiRead,
         ApiRetry, ApiDelete, ApiClear, Expire, Tick, dvars
<1> QED BY <1>1, <1>2

LEMMA CopyStep ==
  ASSUME QueueType, CopyInv, OwnSecond, [Next]_dvars
  PROVE  CopyInv'
<1>1. CASE \E j \in Jobs, d \in Docs : Write(j, d)
  BY <1>1, CopiesOfFailure
<1>2. CASE \E j \in Jobs : SelectExpired(j) \/ Replay(j) \/ Down(j)
  BY <1>2, CopiesOfReplay, CopiesAgree, TimePasses
<1>3. CASE \/ ApiRead \/ ApiRetry \/ ApiDelete \/ ApiClear \/ Expire \/ Tick
           \/ \E j \in Jobs, d \in Docs : Deliver(j, d)
           \/ UNCHANGED dvars
  BY <1>3, CopiesOfOthers, CopiesAgree, TimePasses
<1> QED BY <1>1, <1>2, <1>3 DEF Next

-----------------------------------------------------------------------------
(* What is owed has its entry. *)

Kept(d, id) == DocOf(id) = d /\ queue[id] # NoEntry /\ queue[id].rev >= owed[d]

\* Whoever drops entries settles what they were kept for.
LEMMA DropKeeps ==
  ASSUME QueueType, QueueKeepsFailure, NEW S, Drop(S)
  PROVE  QueueKeepsFailure'
<1>1. SUFFICES ASSUME NEW d \in Docs, owed'[d] > 0
               PROVE  \E id \in Ids : Kept(d, id)'
  BY DEF QueueKeepsFailure, Present, Kept
<1>2. owed'[d] = owed[d]
        /\ ~ \E id \in S \cap Present : DocOf(id) = d /\ queue[id].rev >= owed[d]
  BY <1>1 DEF Drop, QueueType
<1>3. PICK id \in Present : DocOf(id) = d /\ queue[id].rev >= owed[d]
  BY <1>1, <1>2 DEF QueueKeepsFailure
<1>4. id \in Ids /\ id \notin S
  BY <1>2, <1>3 DEF Present
<1>5. queue'[id] = queue[id]
  BY <1>4 DEF Drop, Without
<1> QED BY <1>2, <1>3, <1>4, <1>5 DEF Kept, Present

\* Likewise who purges the entry of which he has a copy: if another revision is
\* owed, its entry is another.
LEMMA PurgeKeeps ==
  ASSUME QueueType, CopyInv, QueueKeepsFailure, NEW id \in Ids, NEW r \in 1..MaxRev,
         IsCopy(id, r), queue' = Without({id}), owed' = Settled(owed, DocOf(id), r)
  PROVE  QueueKeepsFailure'
<1>1. DocOf(id) \in Docs
  BY DEF Ids, DocOf
<1>2. SUFFICES ASSUME NEW d \in Docs, owed'[d] > 0
               PROVE  \E i \in Ids : Kept(d, i)'
  BY DEF QueueKeepsFailure, Present, Kept
<1>3. owed'[d] = owed[d] /\ (d = DocOf(id) => ~(r >= owed[d]))
  BY <1>1, <1>2 DEF Settled, QueueType
<1>4. PICK i \in Present : DocOf(i) = d /\ queue[i].rev >= owed[d]
  BY <1>2, <1>3 DEF QueueKeepsFailure
<1>5. i \in Ids /\ queue[i] \in Entry
  BY <1>4 DEF Present, QueueType
<1>6. i # id
  <2>1. SUFFICES ASSUME i = id
                 PROVE  FALSE
    OBVIOUS
  <2>2. queue[i].rev = r
    BY <1>4, <1>5, <2>1 DEF CopyInv, IsCopy, Present, Entry
  <2> QED BY <1>3, <1>4, <2>1, <2>2
<1>7. queue'[i] = queue[i]
  BY <1>5, <1>6 DEF Without
<1> QED BY <1>3, <1>4, <1>5, <1>7 DEF Kept, Present

\* To write a copy back changes no revision.
LEMMA RewriteKeeps ==
  ASSUME QueueType, CopyInv, QueueKeepsFailure, NEW id \in Ids, NEW e \in Entry,
         IsCopy(id, e.rev), queue' = [queue EXCEPT ![id] = e], UNCHANGED owed
  PROVE  QueueKeepsFailure'
<1>1. e # NoEntry /\ e.rev \in 1..MaxRev
  BY NoEntryAssumption DEF Entry
<1>2. SUFFICES ASSUME NEW d \in Docs, owed[d] > 0
               PROVE  \E i \in Ids : Kept(d, i)'
  BY DEF QueueKeepsFailure, Present, Kept
<1>3. PICK i \in Present : DocOf(i) = d /\ queue[i].rev >= owed[d]
  BY <1>2 DEF QueueKeepsFailure
<1>4. i \in Ids /\ queue[i] \in Entry
  BY <1>3 DEF Present, QueueType
<1>5. i = id => queue[i].rev = e.rev
  BY <1>1, <1>3, <1>4 DEF CopyInv, IsCopy, Present, Entry
<1>6. queue'[i] # NoEntry /\ queue'[i].rev = queue[i].rev
  BY <1>1, <1>3, <1>4, <1>5 DEF QueueType, Present
<1> QED BY <1>3, <1>4, <1>6 DEF Kept

LEMMA BatchKeeps ==
  ASSUME QueueType, QueueKeepsFailure, NEW j \in Jobs, NEW d \in Docs,
         Write(j, d) \/ Deliver(j, d)
  PROVE  QueueKeepsFailure'
<1>1. SUFFICES ASSUME NEW e \in Docs, owed'[e] > 0
               PROVE  \E id \in Ids : Kept(e, id)'
  BY DEF QueueKeepsFailure, Present, Kept
<1>2. CASE Write(j, d) /\ e = d
  <2>1. <<d, now>> \in Ids /\ DocOf(<<d, now>>) = d
    BY DEF QueueType, Ids, DocOf
  <2>2. [rev |-> rev[d] + 1, retried |-> FALSE, attempts |-> 0] \in Entry
    BY <1>2, DeadLetterAssumption DEF Write, Entry, QueueType
  <2>3. queue'[<<d, now>>] = [rev |-> rev[d] + 1, retried |-> FALSE, attempts |-> 0]
    BY <1>2, <2>1 DEF Write, QueueType
  <2>4. owed'[d] = rev[d] + 1 /\ rev[d] \in Nat
    BY <1>2 DEF Write, QueueType
  <2> QED BY <1>2, <2>1, <2>2, <2>3, <2>4, NoEntryAssumption DEF Kept
<1>3. CASE e # d
  <2>1. owed'[e] = owed[e]
    BY <1>3 DEF Write, Deliver, QueueType
  <2>2. PICK id \in Present : DocOf(id) = e /\ queue[id].rev >= owed[e]
    BY <1>1, <2>1 DEF QueueKeepsFailure
  <2>3. queue'[id] = queue[id]
    BY <1>3, <2>2 DEF Write, Deliver, QueueType, DocOf, Present
  <2> QED BY <2>1, <2>2, <2>3 DEF Kept, Present
<1>4. CASE Deliver(j, d) /\ e = d
  BY <1>1, <1>4 DEF Deliver, QueueType
<1> QED BY <1>2, <1>3, <1>4

LEMMA ReplayKeeps ==
  ASSUME KInv, OneSink, NEW j \in Jobs, SelectExpired(j) \/ Replay(j) \/ Down(j)
  PROVE  QueueKeepsFailure'
<1> USE DEF KInv
<1>1. CASE UNCHANGED <<queue, owed>>
  BY <1>1 DEF QueueKeepsFailure, Present
<1>2. CASE PurgeExpired(j)
  BY <1>1, <1>2, DropKeeps DEF PurgeExpired
<1>3. Holding(j) => /\ cur[j].id \in Ids /\ cur[j].entry \in Entry
                    /\ cur[j].entry.rev \in 1..MaxRev
                    /\ IsCopy(cur[j].id, cur[j].entry.rev)
  BY DEF QueueType, Copy, Entry, IsCopy
<1>4. CASE PurgeSent(j)
  <2>1. DocOf(cur[j].id) \in Docs
    BY <1>3, <1>4 DEF PurgeSent, Holding, Ids, DocOf
  <2>2. Sink[j] = Sink[Owner[DocOf(cur[j].id)]]
    BY <2>1, DeadLetterAssumption DEF OneSink
  <2> QED BY <1>3, <1>4, <2>2, PurgeKeeps DEF PurgeSent, Holding
<1>5. CASE SaveAttempts(j)
  <2>1. Holding(j)
    BY <1>5 DEF SaveAttempts, Holding
  <2> DEFINE e == [cur[j].entry EXCEPT !.attempts = @ + 1]
  <2>2. e \in Entry /\ e.rev = cur[j].entry.rev
    BY <1>3, <2>1 DEF Entry
  <2>3. queue' = [queue EXCEPT ![cur[j].id] = e] /\ UNCHANGED owed
    BY <1>5 DEF SaveAttempts
  <2> HIDE DEF e
  <2> QED BY <1>3, <2>1, <2>2, <2>3, RewriteKeeps
<1>6. CASE \/ SelectExpired(j) \/ ListPending(j) \/ ReplayEntry(j) \/ Send(j)
           \/ ReadAttempts(j) \/ ReplayEnds(j) \/ Down(j)
  BY <1>1, <1>6 DEF SelectExpired, ListPending, ReplayEntry, Send, ReadAttempts, ReplayEnds,
                    Down
<1> QED BY <1>2, <1>4, <1>5, <1>6 DEF Replay

LEMMA OthersKeep ==
  ASSUME KInv,
         ApiRead \/ ApiRetry \/ ApiDelete \/ ApiClear \/ Expire \/ Tick \/ UNCHANGED dvars
  PROVE  QueueKeepsFailure'
<1> USE DEF KInv
<1>1. CASE UNCHANGED <<queue, owed>>
  BY <1>1 DEF QueueKeepsFailure, Present
<1>2. api.op \in {"retry", "delete"} => /\ api.id \in Ids /\ api.entry \in Entry
                                        /\ api.entry.rev \in 1..MaxRev
                                        /\ IsCopy(api.id, api.entry.rev)
  BY RequestType DEF Entry, IsCopy
<1>3. CASE ApiRetry
  <2> DEFINE e == [api.entry EXCEPT !.retried = TRUE]
  <2>1. e \in Entry /\ e.rev = api.entry.rev
    BY <1>2, <1>3 DEF Entry, ApiRetry
  <2>2. queue' = [queue EXCEPT ![api.id] = e] /\ UNCHANGED owed
    BY <1>3 DEF ApiRetry
  <2> HIDE DEF e
  <2> QED BY <1>2, <1>3, <2>1, <2>2, RewriteKeeps DEF ApiRetry
<1>4. CASE ApiDelete
  BY <1>2, <1>4, PurgeKeeps DEF ApiDelete
<1>5. CASE ApiClear
  BY <1>1, <1>5, DropKeeps DEF ApiClear
<1>6. CASE Expire
  BY <1>6, DropKeeps DEF Expire
<1>7. CASE ApiRead \/ Tick \/ UNCHANGED dvars
  BY <1>1, <1>7 DEF ApiRead, Tick, dvars
<1> QED BY <1>3, <1>4, <1>5, <1>6, <1>7

\* The latest failure of a document keeps its entry until it is made good at the
\* output it happened at, whatever pipelines and requests read and write back in
\* between, where all pipelines deliver to one output: with two, a replay by one
\* takes the entries of the other away.
THEOREM FailureKept ==
  ASSUME OwnSecond, OneSink
  PROVE  Spec => []QueueKeepsFailure
<1>1. Init => KInv
  <2>1. Init => CopyInv
    BY DEF Init, CopyInv, IsCopy, Holding, Idle
  <2>2. Init => QueueKeepsFailure
    BY DEF Init, QueueKeepsFailure
  <2> QED BY <2>1, <2>2, InitType DEF KInv
<1>2. ASSUME KInv, [Next]_dvars
      PROVE  KInv'
  <2>1. QueueType' /\ CopyInv'
    BY <1>2, QueueTypeStep, CopyStep DEF KInv
  <2>2. QueueKeepsFailure'
    BY <1>2, BatchKeeps, ReplayKeeps, OthersKeep DEF KInv, Next
  <2> QED BY <2>1, <2>2 DEF KInv
<1>3. KInv /\ [Next]_dvars => KInv'
  BY <1>2
<1>4. KInv => QueueKeepsFailure
  BY DEF KInv
<1> QED BY <1>1, <1>3, <1>4, PTL DEF Spec
=============================================================================
