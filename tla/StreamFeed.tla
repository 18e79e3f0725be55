----------------------------- MODULE StreamFeed -----------------------------
(***************************************************************************)
(* poll_changes with feed_type continuous or websocket: catch up with      *)
(* one-shot requests, then read rows from an open connection, drain what   *)
(* has arrived into a buffer and process the buffer as a batch.            *)
(*                                                                         *)
(* The server sends the changes after the "since" of the connection in     *)
(* order; it may leave out one that a newer change of its document has     *)
(* overwritten, and has already sent others by the time they are.  So a    *)
(* batch, unlike one that was polled, may hold a document twice.           *)
(***************************************************************************)
EXTENDS Worker

CONSTANTS
  FeedTypes,   \* the feed types this instance has
  BatchMax     \* processing.get_batch_number: rows drained before a flush

ASSUME StreamAssumption ==
  /\ FeedTypes \subseteq {"continuous", "websocket"}
  /\ BatchMax \in Nat \ {0}

VARIABLES
  feedType,  \* changes_feed.feed_type; set once
  phase,     \* "catchup" or "stream"
  conn,      \* a connection is open
  asked,     \* "since" of the request that opens, or reopens, the connection
  pos,       \* the last change the server has sent on it
  buffer,    \* rows read and not yet flushed
  final      \* last_seq of a closing message whose batch is processed, or 0

streamVars == <<phase, conn, asked, pos, buffer, final>>
svars == <<vars, feedType, streamVars>>

StreamTypeOK ==
  /\ WorkerTypeOK
  /\ feedType \in FeedTypes
  /\ phase \in {"catchup", "stream"}
  /\ conn \in BOOLEAN
  /\ asked \in Nat /\ pos \in Nat /\ final \in Nat
  /\ buffer \subseteq Seqs

ForgetStream ==
  /\ phase' = "catchup" /\ conn' = FALSE
  /\ asked' = 0 /\ pos' = 0 /\ buffer' = {} /\ final' = 0

StreamInit ==
  /\ WorkerInit
  /\ feedType \in FeedTypes
  /\ phase = "catchup" /\ conn = FALSE
  /\ asked = 0 /\ pos = 0 /\ buffer = {} /\ final = 0

-----------------------------------------------------------------------------
(* _catch_up_normal *)

\* No limit while the initial sync is one request.
CatchUpLimit == IF initSync /\ ~Job.optimize THEN 0 ELSE Job.limit
CatchUpActiveOnly == initSync /\ ~Job.couchdb

CatchUp ==
  /\ pc = "poll" /\ phase = "catchup" /\ ~stopping
  /\ \E m \in since..Len(log) :
       /\ LastSeq(since, CatchUpActiveOnly, CatchUpLimit, m)
       /\ Receive({s \in Feed(since, CatchUpActiveOnly) : s <= m},
                  {s \in Feed(since, FALSE) : s <= m /\ CatchUpActiveOnly /\ ~Live(s)}, m)
  /\ UNCHANGED <<replay, target, feedType, streamVars>>

CatchUpReached == initSync /\ got /\ last >= target
CaughtUp == ~got \/ CatchUpReached

CatchUpAgain ==
  /\ phase = "catchup"
  /\ \/ pc = "failed"
     \/ pc = "after" /\ ~CaughtUp
  /\ pc' = "poll" /\ ForgetBatch
  /\ UNCHANGED <<log, sinkVars, since, initSync, ckptVars, worldVars, replay, target,
                 feedType, streamVars>>

\* No rows, or the target of the initial sync reached: the initial sync is
\* over, its flag is saved, and the stream is asked from the cursor.  With
\* stop_event set, poll_changes returns instead (LeaveFeed).
OpenStream ==
  /\ pc = "after" /\ phase = "catchup" /\ CaughtUp
  /\ \/ /\ IF initSync THEN Save(since, TRUE) ELSE UNCHANGED <<ckptVars, worldVars>>
        /\ initSync' = FALSE
        /\ pc' = "poll" /\ phase' = "stream" /\ asked' = since
        /\ ForgetBatch
        /\ UNCHANGED <<since, replay, target, conn, pos, buffer, final>>
     \/ /\ initSync /\ SaveRaises(since, TRUE)
        /\ Die /\ ForgetWorker /\ ForgetStream
  /\ UNCHANGED <<log, sinkVars, feedType>>

\* A 4xx on _changes, or a stop inside a request, is raised.
RequestRaises ==
  /\ pc = "poll" /\ ~conn
  /\ (stopping /\ NoFault) \/ Fault("feed")
  /\ phase = "stream" => feedType = "continuous"
  /\ Die /\ ForgetWorker /\ ForgetStream
  /\ UNCHANGED <<log, sinkVars, sg, fb, stopping, feedType>>

\* The loops see stop_event and poll_changes returns.  A stream that is
\* blocked in a read sees it at its next row or heartbeat.
LeaveFeed ==
  /\ pc = "poll" /\ stopping /\ buffer = {}
  /\ End("ended") /\ ForgetWorker /\ ForgetStream
  /\ UNCHANGED <<log, sinkVars, sg, fb, worldVars, feedType>>

-----------------------------------------------------------------------------
(* _consume_continuous_stream and _consume_websocket_stream *)

Connect ==
  /\ pc = "poll" /\ phase = "stream" /\ ~conn /\ ~stopping
  /\ conn' = TRUE /\ pos' = asked
  /\ UNCHANGED <<vars, feedType, phase, asked, buffer, final>>

Reading == pc = "poll" /\ conn

\* One more row: the first blocks, the others are drained while they come.
ReadRow ==
  /\ Reading /\ Cardinality(buffer) < BatchMax
  /\ \E s \in (pos + 1)..Len(log) :
       /\ \A t \in (pos + 1)..(s - 1) : ~Current(t)
       /\ pos' = s /\ buffer' = buffer \cup {s}
  /\ UNCHANGED <<vars, feedType, phase, conn, asked, final>>

\* Bound: nothing else goes wrong after this.
LastFault(kind) == kind \in Faults /\ faults < MaxFaults /\ faults' = MaxFaults

LastOf(S) == CHOOSE s \in S : \A t \in S : t <= s

\* _flush_buffer: nothing more is waiting, or the buffer is full.
Flush ==
  /\ Reading /\ buffer # {}
  /\ Receive(buffer, {}, LastOf(buffer))
  /\ buffer' = {}
  /\ UNCHANGED <<replay, target, feedType, phase, conn, asked, pos, final>>

\* The closing message of a WebSocket feed, only "last_seq": every change up to
\* it was sent.  Drained together with rows, it flushes them first.
LastMessage ==
  /\ Reading /\ feedType = "websocket"
  /\ IF buffer = {} THEN Fault("final") ELSE Fault("drained") \/ LastFault("final")
  /\ \E n \in pos..Len(log) :
       /\ \A t \in (pos + 1)..n : ~Current(t)
       /\ IF buffer = {}
          THEN /\ since' = n /\ asked' = n /\ conn' = FALSE
               /\ UNCHANGED <<final, rows, last, got, res, have, unsaved, fate, pc, buffer>>
          ELSE /\ final' = n /\ buffer' = {}
               /\ rows' = buffer \ Ignored(buffer) /\ got' = TRUE
               /\ last' = LastOf(buffer)
               /\ res' = [s \in Seqs |-> IF s \in rows' THEN "todo" ELSE "new"]
               /\ have' = {} /\ unsaved' = 0
               /\ fate' = Mark(fate, Ignored(buffer), "ignored")
               /\ pc' = IF ~Job.sequential /\ \E s \in rows' : NeedsFetch(s)
                        THEN "fetch" ELSE "work"
               /\ UNCHANGED <<since, asked, conn>>
  /\ UNCHANGED <<log, out, dlq, initSync, ckptVars, stopping, replay, target,
                 feedType, phase, pos>>

\* The batch of a flush is over and reading goes on.
ReadOn ==
  /\ pc = "after" /\ phase = "stream" /\ final = 0
  /\ pc' = "poll" /\ ForgetBatch
  /\ asked' = IF feedType = "websocket" THEN since ELSE asked
  /\ UNCHANGED <<log, sinkVars, since, initSync, ckptVars, worldVars, replay, target,
                 feedType, phase, conn, pos, buffer, final>>

\* Slip: a failed flush does not close the connection.
ReadOnRegardless ==
  /\ pc = "failed" /\ phase = "stream" /\ final = 0
  /\ pc' = "poll"
  /\ UNCHANGED <<log, sinkVars, since, initSync, batchVars, ckptVars, worldVars,
                 replay, target, feedType, streamVars>>

\* output_failed closes the connection: a continuous feed catches up again, a
\* WebSocket reconnects from the cursor.
FlushFailed ==
  /\ pc = "failed" /\ phase = "stream" /\ final = 0
  /\ pc' = "poll" /\ conn' = FALSE /\ asked' = since
  /\ phase' = IF feedType = "websocket" THEN "stream" ELSE "catchup"
  /\ UNCHANGED <<log, sinkVars, since, initSync, batchVars, ckptVars, worldVars,
                 replay, target, feedType, pos, buffer, final>>

\* The flush before a closing message: its result is not looked at.
FinalDone ==
  /\ pc \in {"after", "failed"} /\ final # 0
  /\ pc' = "poll" /\ ForgetBatch
  /\ since' = final /\ asked' = final /\ final' = 0
  /\ conn' = FALSE
  /\ UNCHANGED <<log, sinkVars, initSync, ckptVars, worldVars, replay, target,
                 feedType, phase, pos, buffer>>

\* The server closes the connection: EOF, CLOSED or ERROR.  A continuous feed
\* catches up again, a WebSocket reconnects.
Closed ==
  /\ Reading /\ buffer = {}
  /\ Fault("eof")
  /\ conn' = FALSE
  /\ asked' = IF feedType = "websocket" THEN asked ELSE since
  /\ phase' = IF feedType = "websocket" THEN "stream" ELSE "catchup"
  /\ UNCHANGED <<log, sinkVars, pc, since, initSync, batchVars, ckptVars, stopping,
                 replay, target, feedType, pos, buffer, final>>

\* Slip: the rows drained so far survive the error, and count as read.
ReadErrorKeepsPosition ==
  /\ Reading /\ Fault("read")
  /\ conn' = FALSE /\ asked' = pos /\ buffer' = {}
  /\ UNCHANGED <<log, sinkVars, pc, since, initSync, batchVars, ckptVars, stopping,
                 replay, target, feedType, phase, pos, final>>

\* A read raises, or a WebSocket is idle for too long: what was drained is
\* gone with the buffer, and the connection is opened again with the "since"
\* of the request, which a continuous feed has not brought up to date.
ReadError ==
  /\ Reading /\ Fault("read")
  /\ conn' = FALSE /\ buffer' = {}
  /\ UNCHANGED <<log, sinkVars, pc, since, initSync, batchVars, ckptVars, stopping,
                 replay, target, feedType, phase, asked, pos, final>>

\* The same handler takes a ConnectionError of _bulk_get for a read error.
FetchError ==
  /\ pc = "fetch" /\ phase = "stream" /\ ~stopping /\ Fault("fetch")
  /\ pc' = "poll" /\ ForgetBatch
  /\ conn' = FALSE /\ final' = 0
  /\ UNCHANGED <<log, sinkVars, since, initSync, ckptVars, stopping, replay, target,
                 feedType, phase, asked, pos, buffer>>

-----------------------------------------------------------------------------
StreamBatch ==
  /\ BatchStep
  /\ IF pc' = "down" THEN ForgetWorker /\ ForgetStream
     ELSE UNCHANGED <<replay, target, streamVars>>
  /\ UNCHANGED feedType

Start ==
  /\ Restart \/ Unreachable \/ LoadCheckpoint \/ ReplayEntry \/ ReplayEnds
  /\ UNCHANGED <<feedType, streamVars>>

StreamStep ==
  \/ Start \/ StreamBatch
  \/ CatchUp \/ CatchUpAgain \/ OpenStream \/ RequestRaises \/ LeaveFeed
  \/ Connect \/ ReadRow \/ Flush \/ ReadOn \/ FlushFailed \/ FinalDone

\* What the server, the network and the operator do.
StreamEnvironment ==
  \/ (Mutate \/ StartAgain \/ Stop \/ Expire) /\ UNCHANGED <<feedType, streamVars>>
  \/ Crash /\ ForgetStream /\ UNCHANGED feedType
  \/ LastMessage \/ Closed \/ ReadError \/ FetchError

StreamNext == StreamStep \/ StreamEnvironment

\* The worker's own steps are taken, and the server sends what it has.
StreamSpec == StreamInit /\ [][StreamNext]_svars /\ WF_svars(StreamStep)

-----------------------------------------------------------------------------
(* Properties. *)

\* No change falls between two connections: all that is behind the position
\* of the stream, and all that is behind the request that would reopen it, was
\* looked at or is in the buffer or in the batch being processed.
NoGap ==
  /\ ~stopping => Covered(asked)
  /\ pc = "poll" /\ conn =>
       \A s \in DOMAIN log : s <= pos => Accounted(s) \/ s \in buffer

\* A WebSocket feed never moves the stored checkpoint back.
WebSocketMonotone == [][feedType = "websocket" => sg'.seq >= sg.seq]_svars

Stopped == stopping \/ pc = "ended"

\* Every change is dealt with at some point, unless the job is stopped.
StreamHandlesAll ==
  \A s \in Seqs : s \in DOMAIN log ~> Stopped \/ (s \in DOMAIN log /\ Accounted(s))

\* A checkpoint, on Sync Gateway or in the fallback, catches up with a source
\* that has come to rest, unless the job is stopped.
StreamCheckpointCatchesUp == <>[](Stopped \/ Len(log) \in Durable)

\* "Continuous stream read error: same as EOF - backoff, catch-up, reconnect"
\* (DESIGN.md): a connection is opened from the cursor.
ReconnectsFromCursor == [][~conn /\ conn' => pos' = since]_svars

-----------------------------------------------------------------------------
(* The inductive invariant behind CheckpointCovered, NoGap and               *)
(* WebSocketMonotone.                                                        *)

\* A connection is open only while streaming.  Rows wait only while reading,
\* and the last of them is where reading is.
BufferInv ==
  /\ phase = "catchup" => ~conn
  /\ ~conn \/ pc # "poll" => buffer = {}
  /\ buffer # {} => pos \in buffer /\ \A s \in buffer : s <= pos

\* A connection is reopened from a number that is covered.
ConnInv ==
  /\ pc \in {"down", "ended", "boot", "replay"} => phase = "catchup" /\ asked = 0
  /\ ~conn \/ pc = "poll" => final = 0
  /\ ~stopping => Covered(asked)

\* What is behind the position was looked at, waits in the buffer or is in the
\* batch, which ends where reading is.
ReadInv ==
  conn =>
    /\ pos <= Len(log)
    /\ pc = "poll" => \A s \in DOMAIN log : s <= pos => Accounted(s) \/ s \in buffer
    /\ pc \in {"empty", "fetch", "work", "after"} => last = pos
    /\ final # 0 => /\ pos <= final /\ final <= Len(log)
                    /\ \A t \in (pos + 1)..final : ~Current(t)

\* The batch before a closing message fails only because of a stop.
FinalInv ==
  final # 0 =>
    /\ feedType = "websocket" /\ phase = "stream" /\ faults = MaxFaults
    /\ \A s \in Seqs : res[s] # "down" /\ (res[s] = "shut" => stopping)
    /\ pc = "failed" => stopping

\* A WebSocket reads on from the cursor or beyond.
ForwardInv(forward) ==
  forward /\ phase = "stream" /\ pc \in {"poll", "fetch"} =>
    /\ since <= asked
    /\ conn => since <= pos /\ \A s \in buffer : since < s

\* A stop broke off the batch before a closing message, and the cursor went on
\* to its last_seq all the same: nothing is saved before the worker ends.
Limbo ==
  /\ stopping /\ pc = "poll" /\ phase = "stream" /\ ~conn /\ feedType = "websocket"
  /\ CheckpointCovered /\ (~sg.there => sg.seq = 0)

StreamInv(forward) ==
  /\ StreamTypeOK
  /\ Limbo \/ IInv(forward)
  /\ BufferInv /\ ConnInv /\ ReadInv /\ FinalInv /\ ForwardInv(forward)
=============================================================================
