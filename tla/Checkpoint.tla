----------------------------- MODULE Checkpoint -----------------------------
(***************************************************************************)
(* class Checkpoint of main.py: the cursor of one job.  It lives in three  *)
(* places that can disagree: a _local document on Sync Gateway (sg), a     *)
(* local fallback written when a save to Sync Gateway fails (fb), and the  *)
(* Checkpoint object in the worker's memory (ck).                          *)
(*                                                                         *)
(* A sequence number is a natural number.  The _rev that Sync Gateway      *)
(* wants on an update is abstracted to one bit, ck.revOk: whether the _rev *)
(* in memory is the one the stored document has now.  Only this worker     *)
(* writes the document, so nothing else can make the bit false.            *)
(*                                                                         *)
(* The module also holds what the outside world does to the worker's       *)
(* requests: faults counts the failures so far, stopping is the worker's   *)
(* stop_event.                                                             *)
(***************************************************************************)
EXTENDS Naturals

CONSTANTS
  Faults,      \* the kinds of failure this instance lets happen
  MaxFaults,   \* bound: how many failures may happen in one behaviour
  UseCbl       \* USE_CBL: local storage is Couchbase Lite, not a file

FaultKinds == {"unreachable", "load", "save", "saveReply", "feed", "target", "fetch", "send",
               "sendReply", "crash", "stop", "expire", "read", "eof", "final", "drained"}

ASSUME FaultsAssumption ==
  /\ Faults \subseteq FaultKinds
  /\ MaxFaults \in Nat
  /\ UseCbl \in BOOLEAN

VARIABLES
  sg,          \* the checkpoint document on Sync Gateway
  fb,          \* the local fallback copy
  ck,          \* the Checkpoint object in memory
  faults,      \* number of failures so far
  stopping     \* stop_event is set

ckptVars == <<sg, fb, ck>>
worldVars == <<faults, stopping>>

Stored == [there : BOOLEAN, seq : Nat, done : BOOLEAN]
NotStored == [there |-> FALSE, seq |-> 0, done |-> FALSE]

\* A Checkpoint object just constructed: _seq "0", _rev None.
NewCheckpoint == [seq |-> 0, done |-> FALSE, revOk |-> FALSE]

CheckpointTypeOK ==
  /\ sg \in Stored
  /\ fb \in Stored
  /\ ck \in [seq : Nat, done : BOOLEAN, revOk : BOOLEAN]
  /\ faults \in Nat
  /\ stopping \in BOOLEAN

\* Established: an earlier run finished the initial sync of an empty database.
CheckpointInit(established) ==
  /\ sg = IF established THEN [there |-> TRUE, seq |-> 0, done |-> TRUE]
                         ELSE NotStored
  /\ fb = NotStored
  /\ ck = NewCheckpoint
  /\ faults = 0
  /\ stopping = FALSE

\* One failure of kind k happens, within the bound.
Fault(k) == k \in Faults /\ faults < MaxFaults /\ faults' = faults + 1
NoFault == UNCHANGED faults

-----------------------------------------------------------------------------
(* load() *)

\* The document is read: cursor, flag and _rev come from it.
LoadStored ==
  /\ sg.there /\ ~stopping /\ NoFault
  /\ ck' = [seq |-> sg.seq, done |-> sg.done, revOk |-> TRUE]

\* Slip: every answer counts as a 404.
LoadAnyAsMissing ==
  /\ ~stopping /\ NoFault
  /\ ck' = [NewCheckpoint EXCEPT !.revOk = TRUE]

\* 404: start from 0, whatever the fallback holds.
LoadMissing ==
  /\ ~sg.there /\ ~stopping /\ NoFault
  /\ ck' = [NewCheckpoint EXCEPT !.revOk = TRUE]

\* Any other failure, and a stop: the fallback if there is one, else 0.  The
\* _rev stays None, which is right only if Sync Gateway has no document.  With
\* Couchbase Lite the store never holds this key (see SaveRaises).
LoadFallback ==
  /\ (stopping /\ NoFault) \/ Fault("load")
  /\ ck' = [seq |-> fb.seq, done |-> fb.done, revOk |-> ~sg.there]

Load ==
  /\ LoadStored \/ LoadMissing \/ LoadFallback
  /\ UNCHANGED <<sg, fb, stopping>>

-----------------------------------------------------------------------------
(* save(seq): "done" is the initial_sync_done flag the body carries. *)

Body(n, done) == [there |-> TRUE, seq |-> n, done |-> done]

SaveStored(n, done) ==
  /\ ck.revOk /\ ~stopping /\ NoFault
  /\ sg' = Body(n, done)
  /\ ck' = [seq |-> n, done |-> done, revOk |-> TRUE]
  /\ UNCHANGED fb

\* The PUT does not get through: 409 on a stale _rev, ShutdownRequested, or
\* retries exhausted.  Second disjunct: it does, but the reply is lost; the
\* retry is then a 409 and the _rev in memory stays behind.
PutFails(n, done) ==
  \/ /\ ((stopping \/ ~ck.revOk) /\ NoFault) \/ Fault("save")
     /\ UNCHANGED sg
     /\ ck' = [ck EXCEPT !.seq = n, !.done = done]
  \/ /\ ck.revOk /\ ~stopping /\ Fault("saveReply")
     /\ sg' = Body(n, done)
     /\ ck' = [seq |-> n, done |-> done, revOk |-> FALSE]

\* "except Exception": the file fallback is written and save() returns.
SaveFellBack(n, done) ==
  /\ ~UseCbl
  /\ PutFails(n, done)
  /\ fb' = Body(n, done)

\* save() returns to its caller.
Save(n, done) ==
  /\ SaveStored(n, done) \/ SaveFellBack(n, done)
  /\ UNCHANGED stopping

\* With Couchbase Lite the fallback calls CBLStore.save_checkpoint with three
\* arguments, but the class's later definition of that name takes two: the
\* TypeError leaves save() from inside its except clause.  The caller dies, so
\* ck is the caller's to reset: this is the effect on the stored copies.
SaveRaises(n, done) ==
  /\ UseCbl
  /\ \/ /\ ((stopping \/ ~ck.revOk) /\ NoFault) \/ Fault("save")
        /\ UNCHANGED sg
     \/ /\ ck.revOk /\ ~stopping /\ Fault("saveReply")
        /\ sg' = Body(n, done)
  /\ UNCHANGED <<fb, stopping>>
=============================================================================
