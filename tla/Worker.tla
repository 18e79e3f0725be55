------------------------------- MODULE Worker -------------------------------
(***************************************************************************)
(* What every feed mode of poll_changes (main.py) shares: the start of the *)
(* worker (checkpoint, dead letter queue), its end (stop, crash, restart   *)
(* by the manager's monitor) and the source it reads.                      *)
(***************************************************************************)
EXTENDS ChangesBatch

VARIABLES
  replay,    \* pending: entries the replay has not reached
  target     \* target_seq of an optimized initial sync

NoTargetSentinel == 0 - 1  \* slip: no target is -1

\* fetch_db_update_seq failed, or was not asked: a number no last_seq reaches.
NoTarget == MaxLog + 1

vars == <<log, sinkVars, pc, since, initSync, batchVars, ckptVars, worldVars,
          replay, target>>

WorkerTypeOK ==
  /\ TypeOK
  /\ replay \subseteq DlqEntries
  /\ target \in Nat

WorkerInit ==
  /\ BatchInit
  /\ replay = {}
  /\ target = NoTarget

ForgetWorker == replay' = {} /\ target' = NoTarget

-----------------------------------------------------------------------------
(* The source: external. *)

LatestOf(d) == {s \in 1..Len(log) : Doc(s) = d /\ Current(s)}
IsLive(d) == \E s \in LatestOf(d) : Live(s)

\* A document is written, deleted, or leaves the worker's channels.
Mutate ==
  /\ Len(log) < MaxLog
  /\ \E d \in Docs, k \in Job.kinds :
       /\ k # "live" => IsLive(d)
       /\ log' = Append(log, [doc |-> d, kind |-> k])
  /\ UNCHANGED <<sinkVars, pc, since, initSync, batchVars, ckptVars, worldVars,
                 replay, target>>

\* What _changes has after sequence n, with or without active_only.
Feed(n, activeOnly) ==
  {s \in (n + 1)..Len(log) : Current(s) /\ (activeOnly => Live(s))}

\* m may be the last_seq of a response to a request with limit l (0 for none);
\* its rows are those of the feed up to m.  A feed that is exhausted reports
\* its own end, or the last row it sent.
LastSeq(n, activeOnly, l, m) ==
  LET all == Feed(n, activeOnly)
      sent == {s \in all : s <= m}
  IN IF l = 0 \/ Cardinality(all) <= l
     THEN sent = all /\ m \in {Len(log), n} \cup all
     ELSE Cardinality(sent) = l /\ m \in sent

-----------------------------------------------------------------------------
(* Life cycle. *)

\* Pipeline.run, started by the manager, or restarted by its monitor because it
\* raised; a process that died is started again by whoever runs it.
Restart ==
  /\ pc = "down" /\ ~stopping
  /\ pc' = "boot"
  /\ UNCHANGED <<log, sinkVars, since, initSync, batchVars, ckptVars, worldVars,
                 replay, target>>

\* A job that was stopped, or that left its loop, is started again by an
\* operator (start_job, go_online), if at all.
StartAgain ==
  /\ pc = "ended" \/ (pc = "down" /\ stopping)
  /\ pc' = "boot"
  /\ stopping' = FALSE
  /\ UNCHANGED <<log, sinkVars, since, initSync, batchVars, ckptVars, faults,
                 replay, target>>

\* stop_event: a shutdown or a restart was asked for.
Stop ==
  /\ pc \notin {"down", "ended"} /\ ~stopping
  /\ Fault("stop")
  /\ stopping' = TRUE
  /\ UNCHANGED <<log, sinkVars, pc, since, initSync, batchVars, ckptVars,
                 replay, target>>

\* The process dies, or an exception this model does not tell apart ends the
\* coroutine: 401 on a GET, a failed write of the dead letter file.
Crash ==
  /\ pc \notin {"down", "ended"}
  /\ Fault("crash")
  /\ Die /\ ForgetWorker
  /\ UNCHANGED <<log, sinkVars, sg, fb, stopping>>

\* retention_seconds: an entry ages out of the dead letter queue.
Expire ==
  /\ Fault("expire")
  /\ \E e \in dlq :
       /\ dlq' = dlq \ {e}
       /\ fate' = Mark(fate, {e.seq}, "expired")
  /\ UNCHANGED <<log, out, pc, since, initSync, batchVars, ckptVars, stopping,
                 replay, target>>

-----------------------------------------------------------------------------
(* Start. *)

\* Before anything else an HTTP output is asked whether it is there.  If not, and
\* it must not be missing, poll_changes returns; once stop_event is set, the
\* request raises ShutdownRequested, which test_reachable does not catch.
Unreachable ==
  /\ pc = "boot" /\ Job.output = "http"
  /\ \/ Job.halt /\ Fault("unreachable") /\ End("ended")
     \/ stopping /\ NoFault /\ Die
  /\ ForgetWorker
  /\ UNCHANGED <<log, sinkVars, sg, fb, stopping>>

\* checkpoint.load, then the replay if there is a queue; initial_sync.
LoadCheckpoint ==
  /\ pc = "boot"
  /\ Load
  /\ since' = ck'.seq
  /\ initSync' = ~ck'.done
  /\ replay' = IF Job.dlq /\ ~stopping THEN dlq ELSE {}
  /\ pc' = "replay"
  /\ UNCHANGED <<log, sinkVars, batchVars, target>>

\* _replay_dead_letter_queue.  list_dlq returns the newest entry first.  An
\* entry the output takes is purged; on any failure it is kept.  The file
\* queue cannot load an entry (get_entry_doc), so it replays none.
ReplayEntry ==
  /\ pc = "replay" /\ ~stopping /\ UseCbl
  /\ \E e \in replay, r \in RowStates, applied \in BOOLEAN :
       /\ \A x \in replay : x.seq <= e.seq
       /\ replay' = replay \ {e}
       /\ IF e \in dlq THEN Send(Doc(e.seq), r, applied)
                       ELSE r = "bad" /\ ~applied /\ NoFault
       /\ dlq' = IF r = "ok" THEN dlq \ {e} ELSE dlq
       /\ IF applied
          THEN /\ out' = [out EXCEPT ![Doc(e.seq)] = Written(e.seq, e.full, e.method)]
               /\ fate' = Mark(fate, {e.seq}, Fate(e.seq, e.full, e.method))
          ELSE UNCHANGED <<out, fate>>
  /\ UNCHANGED <<log, pc, since, initSync, batchVars, ckptVars, stopping, target>>

\* The replay is over, or stop_event broke it off.  An optimized initial sync
\* asks the database for its update_seq first.
ReplayEnds ==
  /\ pc = "replay"
  /\ replay = {} \/ stopping \/ ~UseCbl
  /\ replay' = {}
  /\ pc' = "poll"
  /\ IF initSync /\ Job.optimize /\ ~stopping
     THEN \/ target' = Len(log) /\ NoFault
          \/ target' = NoTarget /\ Fault("target")
     ELSE target' = NoTarget /\ NoFault
  /\ UNCHANGED <<log, sinkVars, since, initSync, batchVars, ckptVars, stopping>>

-----------------------------------------------------------------------------
(* Properties of the worker under every feed mode. *)

\* The sequence numbers a restart may resume from.
Durable == {sg.seq, fb.seq}

InQueue(s) == \E e \in dlq : e.seq = s /\ FaithfulEntry(e)

\* The worker has dealt with mutation s, well or badly.
Accounted(s) == ~Current(s) \/ fate[s] # {} \/ InQueue(s)

\* Mutation s was dealt with the way the settings of the job ask for.
Honoured(s) ==
  \/ ~Current(s) \/ InQueue(s)
  \/ fate[s] \cap {"delivered", "ignored", "dropped", "expired"} # {}
  \/ "unsynced" \in fate[s] /\ out[Doc(s)].as = "absent"

\* No change at or below n is still to be looked at.
Covered(n) ==
  n <= Len(log) /\ \A s \in DOMAIN log : s <= n => Accounted(s)

\* No checkpoint, on Sync Gateway or in the fallback, passes a change that
\* nobody looked at: whatever the order of crashes, stops and failed saves, a
\* restart cannot jump over one.
CheckpointCovered ==
  Covered(sg.seq) /\ Covered(fb.seq)

\* "The checkpoint records the highest sequence number that has been fully
\* processed and delivered" (DESIGN.md): the changes it passes were delivered,
\* queued, or excluded by the settings.
CheckpointDelivered ==
  \A n \in Durable : \A s \in DOMAIN log : s <= n => Honoured(s)

\* The checkpoint on Sync Gateway never moves back, whichever of the three
\* copies a restart resumed from.
CheckpointMonotone == [][sg'.seq >= sg.seq]_vars

\* A revision never replaces a newer one in the output, through retries,
\* restarts and redeliveries.
NoStaleOverwrite == [][\A d \in Docs : out'[d].seq >= out[d].seq]_vars

\* An entry of the dead letter queue has what a replay needs: the body, and
\* the method the change calls for.
QueueKeepsChange == \A e \in dlq : FaithfulEntry(e)

\* A deletion the checkpoint has passed is gone from the output too, unless
\* the job ignores it.
DeletesReachOutput ==
  \A d \in Docs : \A s \in LatestOf(d) :
    s <= sg.seq /\ ~Live(s) /\ fate[s] \cap {"ignored", "dropped", "expired"} = {}
      => out[d].as = "absent" \/ InQueue(s)

\* A change the output took is not sent to it again.
NoDuplicates == \A s \in rows : res[s] \in {"todo", "held"} => "delivered" \notin fate[s]

\* A checkpoint save that fails does not end the worker (with saves the only
\* failures of the run).
WorkerSurvives == [][pc # "down" => pc' # "down"]_vars

\* A restart resumes from the furthest checkpoint saved.
ResumesFurthest == [][pc = "boot" /\ pc' # "boot" /\ pc' # "down"
                        => \A n \in Durable : since' >= n]_vars

\* Every change is dealt with at some point.
EveryChangeHandled ==
  \A s \in Seqs : (s \in DOMAIN log) ~> (s \in DOMAIN log /\ Accounted(s))

\* The output ends up with the latest revision of every document, not an older
\* body of it, and with none of a deleted document, but for deletions the
\* requests of the initial sync do not list (active_only).
Holds(d) ==
  \A s \in LatestOf(d) :
    \/ out[d] = [seq |-> s, as |-> IF Live(s) THEN "body" ELSE "absent"]
    \/ "unsynced" \in fate[s]
OutputConverges == <>[](\A d \in Docs : Holds(d))

\* The initial sync comes to an end, and the stored checkpoint says so.
InitialSyncCompletes == <>(sg.done)

\* The checkpoint on Sync Gateway catches up with the source.
CheckpointCatchesUp == <>[](sg.seq = Len(log))

-----------------------------------------------------------------------------
(* The inductive invariant behind CheckpointCovered and CheckpointMonotone.  *)
(* forward: the feed never moves the cursor back, as only a continuous one   *)
(* does when it reconnects from the "since" of its request.                  *)

\* The _rev in memory is good only while the cursor has not fallen behind the
\* stored checkpoint, so a save that is accepted never moves it back.
RevInv(forward) ==
  /\ forward /\ ck.revOk => sg.seq <= since
  /\ ~sg.there => sg.seq = 0

\* Up to last_seq, a change is accounted for or is a row still being worked on.
BatchInv(forward) ==
  pc \in {"empty", "fetch", "work", "after"} =>
    /\ forward => since <= last
    /\ last <= Len(log)
    /\ \A s \in rows : s <= last /\ res[s] # "new"
    /\ \A s \in DOMAIN log :
         s <= last => \/ Accounted(s)
                      \/ pc # "after" /\ s \in rows /\ res[s] \notin {"ok", "settled"}
    /\ pc = "empty" => rows = {}
    /\ pc = "fetch" => \A s \in rows : res[s] = "todo"
    /\ pc = "after" => since = last

\* Sequential mode starts a row when all before it are settled, and the cursor
\* is not past a row that is not.
OrderInv(forward) ==
  Job.sequential /\ pc \in {"fetch", "work"} =>
    /\ \A s, t \in rows : s < t /\ res[t] # "todo" => res[s] = "settled"
    /\ forward => \A s \in rows : res[s] # "settled" => since <= s

IInv(forward) ==
  /\ WorkerTypeOK
  /\ Covered(since) /\ CheckpointCovered
  /\ RevInv(forward) /\ BatchInv(forward) /\ OrderInv(forward)

-----------------------------------------------------------------------------
(* The inductive invariant behind CheckpointDelivered and QueueKeepsChange.  *)

\* The settings under which nothing is lost: bodies come with the feed and the
\* initial sync, which drops them, is over and stays so; a queue is written in
\* parallel mode, for an HTTP output (FailedEntry).
NothingLost ==
  /\ Job.established /\ "load" \notin Faults
  /\ Job.includeDocs
  /\ Job.dlq => ~Job.sequential /\ Job.output = "http"

\* The initial sync is never begun again, but by a start that was asked to stop
\* before it read the checkpoint: it leaves the loop before it polls.
SyncedInv ==
  /\ sg.there /\ sg.done
  /\ initSync => stopping /\ pc \in {"replay", "poll"}
  /\ ck.done \/ initSync \/ pc \in {"down", "ended", "boot"}

\* What becomes of a change under these settings.
GoodFates == {"delivered", "ignored", "dropped", "expired"}

DeliveryInv ==
  /\ SyncedInv
  /\ \A s \in Seqs : fate[s] \subseteq GoodFates
  /\ \A e \in dlq : e.seq <= Len(log) /\ FaithfulEntry(e)
=============================================================================
