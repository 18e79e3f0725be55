----------------------------- MODULE DeadLetter -----------------------------
(***************************************************************************)
(* The dead letter queue in Couchbase Lite: one collection for all jobs,   *)
(* filled by their batches, replayed by each pipeline when it starts, and  *)
(* edited through the API by the web server, which is another process.     *)
(*                                                                         *)
(* One call of the store on one document is atomic; what reads and then    *)
(* writes is not, and a write takes effect whatever happened since the     *)
(* read (last write wins).                                                 *)
(***************************************************************************)
EXTENDS Naturals, FiniteSets

CONSTANTS
  Jobs,         \* the pipelines
  Docs,         \* document ids
  Owner,        \* [Docs -> Jobs]: the job whose feed has the document
  Sinks,        \* the outputs
  Sink,         \* [Jobs -> Sinks]: the output of each job; several may share one
  NoEntry,      \* model value: no entry under this id
  ApiOps,       \* subset of {"retry", "delete", "clear"}
  Retention,    \* dlq.retention_seconds; 0: kept for ever
  MaxAttempts,  \* dlq.max_replay_attempts; 0: unlimited
  OwnSecond,    \* each failure falls into a second of its own
  MaxClock,     \* bound: the last second
  MaxRev,       \* bound: revisions of one document
  MaxDown       \* bound: stops and crashes of the pipelines

ASSUME DeadLetterAssumption ==
  /\ Owner \in [Docs -> Jobs] /\ Sink \in [Jobs -> Sinks]
  /\ ApiOps \subseteq {"retry", "delete", "clear"}
  /\ {Retention, MaxAttempts, MaxRev, MaxDown} \subseteq Nat /\ MaxClock \in Nat \ {0}
  /\ OwnSecond \in BOOLEAN

\* "dlq:{doc_id}:{int(time.time())}"
Ids == Docs \X (1..MaxClock)
DocOf(id) == id[1]
TimeOf(id) == id[2]

Entry == [rev : 1..MaxRev, retried : BOOLEAN, attempts : Nat]

ASSUME NoEntryAssumption == NoEntry \notin Entry

VARIABLES
  now,      \* the clock, in seconds
  rev,      \* [Docs -> Nat]: latest revision on the feed
  queue,    \* [Ids -> Entry or NoEntry]
  owed,     \* [Docs -> Nat]: the revision whose failure at the output of its
            \* job is still to be made good
  out,      \* [Sinks -> [Docs -> Nat]]: revision at the output
  pc,       \* [Jobs -> where the pipeline is]
  expiring, \* [Jobs -> ids purge_expired has selected]
  pending,  \* [Jobs -> what list_pending returned and is not yet replayed]
  cur,      \* [Jobs -> the entry in hand]
  api,      \* the request the web server works on
  downs     \* stops and crashes so far

workerVars == <<pc, expiring, pending, cur>>
dvars == <<now, rev, queue, owed, out, workerVars, api, downs>>

NoCur == [id |-> NoEntry]
Idle == [op |-> "idle"]
WorkerStates == {"down", "purge", "list", "replay", "send", "sent", "failed", "count", "feed"}

Present == {id \in Ids : queue[id] # NoEntry}

DlqTypeOK ==
  /\ now \in 1..MaxClock
  /\ rev \in [Docs -> 0..MaxRev] /\ owed \in [Docs -> 0..MaxRev]
  /\ queue \in [Ids -> Entry \cup {NoEntry}]
  /\ out \in [Sinks -> [Docs -> 0..MaxRev]]
  /\ pc \in [Jobs -> WorkerStates]
  /\ expiring \in [Jobs -> SUBSET Ids]
  /\ pending \in [Jobs -> SUBSET [id : Ids, attempts : Nat]]
  /\ \A j \in Jobs : pc[j] \in {"send", "sent", "failed", "count"} =>
       cur[j].id \in Ids /\ cur[j].entry \in Entry
  /\ api.op \in {"idle"} \cup ApiOps
  /\ downs \in 0..MaxDown

Init ==
  /\ now = 1 /\ downs = 0
  /\ rev = [d \in Docs |-> 0] /\ owed = [d \in Docs |-> 0]
  /\ queue = [id \in Ids |-> NoEntry]
  /\ out = [s \in Sinks |-> [d \in Docs |-> 0]]
  /\ pc = [j \in Jobs |-> "down"]
  /\ expiring = [j \in Jobs |-> {}] /\ pending = [j \in Jobs |-> {}]
  /\ cur = [j \in Jobs |-> NoCur]
  /\ api = Idle

-----------------------------------------------------------------------------
\* The failure of revision r of d, and of those before it, is made good: it was
\* delivered where it failed, or somebody decided that it need not be.
Settled(o, d, r) == IF r >= o[d] THEN [o EXCEPT ![d] = 0] ELSE o

Without(S) == [id \in Ids |-> IF id \in S THEN NoEntry ELSE queue[id]]

\* The entries in S are dropped on purpose.
Drop(S) ==
  /\ queue' = Without(S)
  /\ owed' = [d \in Docs |->
                IF \E id \in S \cap Present : DocOf(id) = d /\ queue[id].rev >= owed[d]
                THEN 0 ELSE owed[d]]

Goto(j, p) == pc' = [pc EXCEPT ![j] = p]

-----------------------------------------------------------------------------
(* The batches of a running pipeline. *)

\* dlq.write -> add_dlq_entry, after send() gave up on the change, or for a
\* change in flight at a shutdown.  An entry under the same id is replaced.
Write(j, d) ==
  /\ pc[j] = "feed" /\ Owner[d] = j /\ rev[d] < MaxRev
  /\ IF OwnSecond THEN now < MaxClock /\ now' = now + 1 ELSE now' = now
  /\ rev' = [rev EXCEPT ![d] = @ + 1]
  /\ queue' = [queue EXCEPT ![<<d, now>>] =
                 [rev |-> rev[d] + 1, retried |-> FALSE, attempts |-> 0]]
  /\ owed' = [owed EXCEPT ![d] = rev[d] + 1]
  /\ UNCHANGED <<out, workerVars, api, downs>>

\* A change that is delivered; entries of earlier ones stay where they are.
Deliver(j, d) ==
  /\ pc[j] = "feed" /\ Owner[d] = j /\ rev[d] < MaxRev
  /\ rev' = [rev EXCEPT ![d] = @ + 1]
  /\ out' = [out EXCEPT ![Sink[j]][d] = rev[d] + 1]
  /\ owed' = [owed EXCEPT ![d] = 0]
  /\ UNCHANGED <<now, queue, workerVars, api, downs>>

-----------------------------------------------------------------------------
(* _replay_dead_letter_queue, at the start of a pipeline. *)

Expired(id) == Retention > 0 /\ TimeOf(id) + Retention < now

\* purge_expired_dlq selects the entries that are too old ...
SelectExpired(j) ==
  /\ pc[j] = "down"
  /\ expiring' = [expiring EXCEPT ![j] = {id \in Present : Expired(id)}]
  /\ Goto(j, "purge")
  /\ UNCHANGED <<now, rev, queue, owed, out, pending, cur, api, downs>>

\* ... and purges them in a transaction.  An entry that has meanwhile gone
\* makes the purge raise; nothing catches it, and the pipeline ends.
PurgeExpired(j) ==
  /\ pc[j] = "purge"
  /\ IF expiring[j] \subseteq Present
     THEN Drop(expiring[j]) /\ Goto(j, "list")
     ELSE UNCHANGED <<queue, owed>> /\ Goto(j, "down")
  /\ expiring' = [expiring EXCEPT ![j] = {}]
  /\ UNCHANGED <<now, rev, out, pending, cur, api, downs>>

\* list_pending: every job's entries, with their counts.
ListPending(j) ==
  /\ pc[j] = "list"
  /\ pending' = [pending EXCEPT ![j] =
       {[id |-> id, attempts |-> queue[id].attempts] :
          id \in {i \in Present : ~queue[i].retried}}]
  /\ Goto(j, "replay")
  /\ UNCHANGED <<now, rev, queue, owed, out, expiring, cur, api, downs>>

\* Newest first (ties by id, which makes no difference here).
IsNext(j, e) ==
  e \in pending[j] /\ \A f \in pending[j] : TimeOf(f.id) <= TimeOf(e.id)

Exhausted(e) == MaxAttempts > 0 /\ e.attempts >= MaxAttempts

\* Slip: the entry stays on the list.
ReplayEntryAgain(j) ==
  /\ pc[j] = "replay"
  /\ \E e \in pending[j] :
       /\ IsNext(j, e)
       /\ IF Exhausted(e) \/ queue[e.id] = NoEntry
          THEN UNCHANGED <<cur, pc>>
          ELSE /\ cur' = [cur EXCEPT ![j] = [id |-> e.id, entry |-> queue[e.id]]]
               /\ Goto(j, "send")
  /\ UNCHANGED <<now, rev, queue, owed, out, expiring, pending, api, downs>>

\* One entry of the list: skipped when its count has reached the limit or it is
\* no longer there, else loaded and sent.
ReplayEntry(j) ==
  /\ pc[j] = "replay"
  /\ \E e \in pending[j] :
       /\ IsNext(j, e)
       /\ pending' = [pending EXCEPT ![j] = @ \ {e}]
       /\ IF Exhausted(e) \/ queue[e.id] = NoEntry
          THEN UNCHANGED <<cur, pc>>
          ELSE /\ cur' = [cur EXCEPT ![j] = [id |-> e.id, entry |-> queue[e.id]]]
               /\ Goto(j, "send")
  /\ UNCHANGED <<now, rev, queue, owed, out, expiring, api, downs>>

\* output.send, to the output of the pipeline that replays: the answer is ok, or
\* it is not, or it raises.
Send(j) ==
  /\ pc[j] = "send"
  /\ \/ /\ out' = [out EXCEPT ![Sink[j]][DocOf(cur[j].id)] = cur[j].entry.rev]
        /\ Goto(j, "sent")
     \/ Goto(j, "failed") /\ UNCHANGED out
  /\ UNCHANGED <<now, rev, queue, owed, expiring, pending, cur, api, downs>>

\* dlq.purge, if the entry is still there, whichever job's failure it is: nothing
\* in it says so.  The failure is made good only at the output it happened at.
PurgeSent(j) ==
  /\ pc[j] = "sent"
  /\ queue' = Without({cur[j].id})
  /\ owed' = IF Sink[j] = Sink[Owner[DocOf(cur[j].id)]]
             THEN Settled(owed, DocOf(cur[j].id), cur[j].entry.rev) ELSE owed
  /\ cur' = [cur EXCEPT ![j] = NoCur]
  /\ Goto(j, "replay")
  /\ UNCHANGED <<now, rev, out, expiring, pending, api, downs>>

\* Slip: the entry is not looked at before its count is raised.
ReadAttemptsUnseen(j) ==
  /\ pc[j] = "failed"
  /\ Goto(j, "count") /\ cur' = [cur EXCEPT ![j].entry = queue[cur[j].id]]
  /\ UNCHANGED <<now, rev, queue, owed, out, expiring, pending, api, downs>>

\* increment_replay_attempts reads the entry ...
ReadAttempts(j) ==
  /\ pc[j] = "failed"
  /\ IF queue[cur[j].id] = NoEntry
     THEN Goto(j, "replay") /\ cur' = [cur EXCEPT ![j] = NoCur]
     ELSE Goto(j, "count") /\ cur' = [cur EXCEPT ![j].entry = queue[cur[j].id]]
  /\ UNCHANGED <<now, rev, queue, owed, out, expiring, pending, api, downs>>

\* Slip: an entry that has used up its attempts is purged.
SaveAttemptsOrPurge(j) ==
  /\ pc[j] = "count"
  /\ queue' = IF cur[j].entry.attempts + 1 >= MaxAttempts THEN Without({cur[j].id})
              ELSE [queue EXCEPT ![cur[j].id] = [cur[j].entry EXCEPT !.attempts = @ + 1]]
  /\ cur' = [cur EXCEPT ![j] = NoCur]
  /\ Goto(j, "replay")
  /\ UNCHANGED <<now, rev, owed, out, expiring, pending, api, downs>>

\* ... and saves it with one attempt more, over what is there now.
SaveAttempts(j) ==
  /\ pc[j] = "count"
  /\ queue' = [queue EXCEPT ![cur[j].id] = [cur[j].entry EXCEPT !.attempts = @ + 1]]
  /\ cur' = [cur EXCEPT ![j] = NoCur]
  /\ Goto(j, "replay")
  /\ UNCHANGED <<now, rev, owed, out, expiring, pending, api, downs>>

\* The list is done: the feed is polled, whatever failed.
ReplayEnds(j) ==
  /\ pc[j] = "replay" /\ pending[j] = {}
  /\ Goto(j, "feed")
  /\ UNCHANGED <<now, rev, queue, owed, out, expiring, pending, cur, api, downs>>

Replay(j) ==
  \/ PurgeExpired(j) \/ ListPending(j) \/ ReplayEntry(j) \/ Send(j) \/ PurgeSent(j)
  \/ ReadAttempts(j) \/ SaveAttempts(j) \/ ReplayEnds(j)

\* A crash at any point; a shutdown breaks off the list.
Down(j) ==
  /\ pc[j] # "down" /\ downs < MaxDown
  /\ downs' = downs + 1
  /\ Goto(j, "down")
  /\ expiring' = [expiring EXCEPT ![j] = {}] /\ pending' = [pending EXCEPT ![j] = {}]
  /\ cur' = [cur EXCEPT ![j] = NoCur]
  /\ UNCHANGED <<now, rev, queue, owed, out, api>>

-----------------------------------------------------------------------------
(* The web server's requests. *)

\* mark_dlq_retried and delete_dlq_entry read the entry, clear_dlq the ids.
ApiRead ==
  /\ api = Idle
  /\ \/ \E op \in {"retry", "delete"} \cap ApiOps : \E id \in Present :
          api' = [op |-> op, id |-> id, entry |-> queue[id]]
     \/ "clear" \in ApiOps /\ api' = [op |-> "clear", ids |-> Present]
  /\ UNCHANGED <<now, rev, queue, owed, out, workerVars, downs>>

ApiRetry ==
  /\ api.op = "retry"
  /\ queue' = [queue EXCEPT ![api.id] = [api.entry EXCEPT !.retried = TRUE]]
  /\ api' = Idle
  /\ UNCHANGED <<now, rev, owed, out, workerVars, downs>>

\* Purging what is no longer there is an error of the request, no more.
ApiDelete ==
  /\ api.op = "delete"
  /\ queue' = Without({api.id})
  /\ owed' = Settled(owed, DocOf(api.id), api.entry.rev)
  /\ api' = Idle
  /\ UNCHANGED <<now, rev, out, workerVars, downs>>

\* One transaction: one entry that has gone rolls it back.
ApiClear ==
  /\ api.op = "clear"
  /\ IF api.ids \subseteq Present THEN Drop(api.ids) ELSE UNCHANGED <<queue, owed>>
  /\ api' = Idle
  /\ UNCHANGED <<now, rev, out, workerVars, downs>>

-----------------------------------------------------------------------------
\* The document expiration set with the entry.
Expire ==
  /\ Retention > 0
  /\ \E id \in Present : TimeOf(id) + Retention <= now /\ Drop({id})
  /\ UNCHANGED <<now, rev, out, workerVars, api, downs>>

Tick ==
  /\ now < MaxClock /\ now' = now + 1
  /\ UNCHANGED <<rev, queue, owed, out, workerVars, api, downs>>

Next ==
  \/ \E j \in Jobs :
       \/ SelectExpired(j) \/ Replay(j) \/ Down(j)
       \/ \E d \in Docs : Write(j, d) \/ Deliver(j, d)
  \/ ApiRead \/ ApiRetry \/ ApiDelete \/ ApiClear
  \/ Expire \/ Tick

\* A pipeline that has started goes on with its replay.
Spec == Init /\ [][Next]_dvars /\ \A j \in Jobs : WF_dvars(Replay(j))

-----------------------------------------------------------------------------
(* Properties. *)

\* All pipelines deliver to one output.
OneSink == \A i, j \in Jobs : Sink[i] = Sink[j]

\* The latest failure of a document has its entry until the change, or a newer
\* one, is at the output it failed at, or somebody drops it: through crashes at
\* any point, a replay by several pipelines and requests in between.
QueueKeepsFailure ==
  \A d \in Docs : owed[d] > 0 =>
    \E id \in Present : DocOf(id) = d /\ queue[id].rev >= owed[d]

\* A pipeline's replay comes to an end: its start is not held up by entries that
\* cannot be delivered, or that others add meanwhile.
ReplayTerminates ==
  \A j \in Jobs : pc[j] \in {"list", "replay"} ~> pc[j] \in {"feed", "down"}

\* "Each time a DLQ entry fails replay, its replay_attempts counter is
\* incremented" (DLQ.md): no count is lost.
CountsKept ==
  [][\A id \in Present : queue'[id] # NoEntry /\ queue'[id].rev = queue[id].rev
       => queue'[id].attempts >= queue[id].attempts]_dvars

\* "Permanently delete an entry" (DLQ.md): only a new failure makes an entry.
StaysDeleted ==
  [][\A id \in Ids \ Present : queue'[id] # NoEntry => queue'[id].rev = rev'[DocOf(id)]
                                                      /\ rev' # rev]_dvars

\* "Replay does NOT block startup" (DLQ.md): a start is not undone by the queue.
ReplayLetsStart ==
  [][\A j \in Jobs : pc[j] = "purge" /\ downs' = downs => pc'[j] # "down"]_dvars
=============================================================================
