------------------------------ MODULE StartUp ------------------------------
(***************************************************************************)
(* The start of the worker over its store: seeding and migrating the       *)
(* configuration, the sync of the mapping files, the migrations of the     *)
(* store, and the Admin UI, a second process on the same store and the     *)
(* same mapping directory.                                                 *)
(*                                                                         *)
(* One write to the store is one step; either process may run, and the     *)
(* worker may crash, between two.  A container that ends is started again. *)
(***************************************************************************)
EXTENDS Naturals, FiniteSets

CONSTANTS
  Names,       \* mapping file names
  JobMapping,  \* the name under which the migrated job looks for a mapping
  None,        \* model value: no file, no configuration
  OldStore,    \* a store of a version before collections is found
  CkptFile,    \* a checkpoint.json: "none", "good", or "bad", one that cannot be parsed
  Stdout,      \* the old output is stdout, which 2.0 no longer has
  Overlap,     \* the UI is used, and files edited, while the worker starts
  MapCrash,    \* a crash may fall between a mapping and its manifest
  MaxEdits,    \* bound: edits of mapping files and of settings
  MaxStops     \* bound: crashes and restarts of the worker

\* The text of a mapping: which edit, and whether the UI wrote its "meta" into it.
Texts == [edit : 0..MaxEdits, meta : BOOLEAN]

ASSUME StartAssumption ==
  /\ None \notin Names \cup Texts \cup {"v1", "plain", "v2"} /\ JobMapping \in Names \cup {None}
  /\ {OldStore, Stdout, Overlap, MapCrash} \subseteq BOOLEAN
  /\ CkptFile \in {"none", "good", "bad"}
  /\ {MaxEdits, MaxStops} \subseteq Nat

VARIABLES
  pc,        \* where the start of the worker is
  mem,       \* the configuration main() loaded
  cfg,       \* the configuration in the store
  library,   \* which of inputs_changes and outputs_{type} were made from it
  jobs,      \* number of jobs made from the old configuration
  keys,      \* checkpoint documents: under the job's uuid, under the feed's hash
  begins,    \* where the job's feed began: at 0, or at a checkpoint it loaded
  removed,   \* the user has deleted the jobs
  moved,     \* the documents of an older store are in the collections
  disk,      \* [Names -> text of the file, or None]
  maps,      \* [Names -> text of the mapping document, or None]
  manifest,  \* names the manifest of the mappings lists
  op,        \* [Process -> the save or delete of a mapping it is in]
  todo,      \* names the sync has still to look at
  edits,     \* edits so far; also numbers the texts
  stops      \* crashes and restarts so far

worker == <<pc, mem, todo>>
config == <<cfg, library, jobs, keys, begins, removed, moved>>
mapping == <<disk, maps, manifest, op>>
counts == <<edits, stops>>
startvars == <<worker, config, mapping, counts>>

Process == {"worker", "ui"}
Stages == {"down", "boot", "files", "outputs", "job", "ckpt", "slim", "sync", "purge", "collections",
           "embed", "validate", "load", "ready"}

Idle == [kind |-> "none"]
Works ==
  [kind : {"save", "delete"}, step : {"doc", "read", "write", "file"},
   name : Names, text : Texts \cup {None}, ids : SUBSET Names]
Ops == {Idle} \cup Works

StartTypeOK ==
  /\ pc \in Stages /\ mem \in {None, "v1", "plain", "v2"} /\ cfg \in {None, "v1", "plain", "v2"}
  /\ {removed, moved} \subseteq BOOLEAN /\ library \subseteq {"inputs", "outputs"}
  \* A job of each start that was stopped and of the last.
  /\ jobs \in 0..MaxStops + 1
  /\ keys \subseteq {"uuid", "hash"} /\ begins \in {"none", "zero", "stored"}
  /\ disk \in [Names -> Texts \cup {None}] /\ maps \in [Names -> Texts \cup {None}]
  /\ manifest \subseteq Names /\ op \in [Process -> Ops] /\ todo \subseteq Names
  /\ edits \in 0..MaxEdits /\ stops \in 0..MaxStops
  \* The worker saves mappings during the sync only.
  /\ op["worker"] # Idle => pc \in {"sync", "purge"}

\* A fresh volume, a config.json of version 1, and some mapping files.
Init ==
  /\ pc = "down" /\ mem = None /\ cfg = None
  /\ library = {} /\ jobs = 0 /\ keys = {} /\ begins = "none" /\ removed = FALSE /\ moved = FALSE
  /\ disk \in [Names -> {[edit |-> 0, meta |-> FALSE], None}]
  /\ maps = [n \in Names |-> None] /\ manifest = {} /\ op = [p \in Process |-> Idle]
  /\ todo = {} /\ edits = 0 /\ stops = 0

Goto(p) == pc' = p
Present(f) == {n \in Names : f[n] # None}

-----------------------------------------------------------------------------
(* main(): the configuration. *)

Container == pc = "down" /\ Goto("boot") /\ UNCHANGED <<mem, todo, config, mapping, counts>>

\* load_config: from the store, seeded from config.json when it has none.
LoadConfig ==
  /\ pc = "boot"
  /\ cfg' = IF cfg = None THEN "v1" ELSE cfg
  /\ mem' = cfg'
  /\ Goto("files")
  /\ UNCHANGED <<todo, library, jobs, keys, begins, removed, moved, mapping, counts>>

BeginSync == Goto("sync") /\ todo' = Present(disk)

\* Slips: the settings are slimmed first; settings without a gateway are not marked.
MigrateInputsSlim ==
  /\ pc = "files"
  /\ IF cfg = "v1" THEN Goto("outputs") /\ library' = library \cup {"inputs"} /\ UNCHANGED todo
     ELSE BeginSync /\ UNCHANGED library
  /\ cfg' = "v2"
  /\ UNCHANGED <<mem, jobs, keys, begins, removed, moved, mapping, counts>>
MigrateInputsUnmarked ==
  /\ pc = "files"
  /\ IF cfg = "v1" THEN Goto("outputs") /\ library' = library \cup {"inputs"} /\ UNCHANGED todo
     ELSE BeginSync /\ UNCHANGED library
  /\ UNCHANGED <<mem, cfg, jobs, keys, begins, removed, moved, mapping, counts>>

\* migrate_v1_to_v2: a configuration without a gateway is marked, one of
\* version 1 becomes an input ...
MigrateInputs ==
  /\ pc = "files"
  /\ IF cfg = "v1"
     THEN Goto("outputs") /\ library' = library \cup {"inputs"} /\ UNCHANGED <<todo, cfg>>
     ELSE BeginSync /\ cfg' = "v2" /\ UNCHANGED library
  /\ UNCHANGED <<mem, jobs, keys, begins, removed, moved, mapping, counts>>

\* ... an output, unless it is stdout ...
MigrateOutputs ==
  /\ pc = "outputs"
  /\ library' = IF Stdout THEN library ELSE library \cup {"outputs"}
  /\ Goto("job")
  /\ UNCHANGED <<mem, todo, cfg, jobs, keys, begins, removed, moved, mapping, counts>>

\* ... a job of a new uuid; a checkpoint.json that cannot be read is passed over ...
MigrateJob ==
  /\ pc = "job" /\ jobs' = jobs + 1
  /\ Goto(IF CkptFile = "good" THEN "ckpt" ELSE "slim")
  /\ UNCHANGED <<mem, todo, cfg, library, keys, begins, removed, moved, mapping, counts>>

\* ... its checkpoint, checkpoint::{uuid} ...
MigrateCheckpoint ==
  /\ pc = "ckpt" /\ keys' = keys \cup {"uuid"} /\ Goto("slim")
  /\ UNCHANGED <<mem, todo, cfg, library, jobs, begins, removed, moved, mapping, counts>>

\* ... and settings without a pipeline.
SlimConfig ==
  /\ pc = "slim" /\ cfg' = "v2" /\ BeginSync
  /\ UNCHANGED <<mem, library, jobs, keys, begins, removed, moved, mapping, counts>>

-----------------------------------------------------------------------------
(* save_mapping and delete_mapping, in either process. *)

Begin(p, kind, n, text) ==
  op' = [op EXCEPT ![p] = [kind |-> kind, step |-> "doc", name |-> n, text |-> text,
                           ids |-> {}]]
Step(p, s) == op' = [op EXCEPT ![p].step = s]
InOp(p, s) == op[p] # Idle /\ op[p].step = s

\* The document.  Nothing more is done about one that is not there to delete.
MapDoc(p) ==
  /\ InOp(p, "doc")
  /\ maps' = [maps EXCEPT ![op[p].name] = IF op[p].kind = "save" THEN op[p].text ELSE None]
  /\ Step(p, IF op[p].kind = "delete" /\ maps[op[p].name] = None THEN "file" ELSE "read")
  /\ UNCHANGED <<worker, config, disk, manifest, counts>>

\* The manifest is read ...
MapRead(p) ==
  /\ InOp(p, "read")
  /\ op' = [op EXCEPT ![p].step = "write", ![p].ids = manifest]
  /\ UNCHANGED <<worker, config, disk, maps, manifest, counts>>

\* ... and written, when it changes.
MapWrite(p) ==
  /\ InOp(p, "write")
  /\ LET n == op[p].name
     IN  manifest' = IF op[p].kind = "delete" THEN op[p].ids \ {n}
                     ELSE IF n \in op[p].ids THEN manifest
                     ELSE op[p].ids \cup {n}
  /\ Step(p, "file")
  /\ UNCHANGED <<worker, config, disk, maps, counts>>

\* The UI writes the file too, with its "meta", or removes it.
MapFile(p) ==
  /\ InOp(p, "file")
  /\ op' = [op EXCEPT ![p] = Idle]
  /\ disk' = IF p = "worker" THEN disk
             ELSE [disk EXCEPT ![op[p].name] =
                     IF op[p].kind = "save" THEN [op[p].text EXCEPT !.meta = TRUE] ELSE None]
  /\ UNCHANGED <<worker, config, maps, manifest, counts>>

SaveMapping(p) == MapDoc(p) \/ MapRead(p) \/ MapWrite(p) \/ MapFile(p)

-----------------------------------------------------------------------------
(* migrate_files_to_cbl: the mapping files win. *)

\* Slip: only a file that is new is saved.
SyncNewFile ==
  /\ pc = "sync" /\ op["worker"] = Idle
  /\ \E n \in todo :
       /\ todo' = todo \ {n}
       /\ IF disk[n] # None /\ maps[n] = None
          THEN Begin("worker", "save", n, disk[n]) ELSE UNCHANGED op
  /\ UNCHANGED <<pc, mem, config, disk, maps, manifest, counts>>

\* A file that is new or differs is saved.
SyncFile ==
  /\ pc = "sync" /\ op["worker"] = Idle
  /\ \E n \in todo :
       /\ todo' = todo \ {n}
       /\ IF disk[n] # None /\ disk[n] # maps[n]
          THEN Begin("worker", "save", n, disk[n]) ELSE UNCHANGED op
  /\ UNCHANGED <<pc, mem, config, disk, maps, manifest, counts>>

\* Then the mappings the manifest lists that have no file are deleted.
SyncListed ==
  /\ pc = "sync" /\ todo = {} /\ op["worker"] = Idle
  /\ todo' = (manifest \cap Present(maps)) \ Present(disk)
  /\ Goto("purge")
  /\ UNCHANGED <<mem, config, mapping, counts>>

SyncDelete ==
  /\ pc = "purge" /\ op["worker"] = Idle
  /\ \E n \in todo : todo' = todo \ {n} /\ Begin("worker", "delete", n, None)
  /\ UNCHANGED <<pc, mem, config, disk, maps, manifest, counts>>

\* Slip: the last deletion is not waited for.
SyncEndsEarly ==
  /\ pc = "purge" /\ todo = {} /\ Goto("collections")
  /\ UNCHANGED <<mem, todo, config, mapping, counts>>

\* Nobody catches what parsing checkpoint.json raises: main() ends.
SyncEnds ==
  /\ pc = "purge" /\ todo = {} /\ op["worker"] = Idle
  /\ Goto(IF CkptFile = "bad" THEN "down" ELSE "collections")
  /\ UNCHANGED <<mem, todo, config, mapping, counts>>

-----------------------------------------------------------------------------
(* The other migrations and the load of the jobs. *)

\* migrate_default_to_collections: done before, if the collections have a
\* configuration.
MigrateDefault ==
  /\ pc = "collections"
  /\ moved' = (moved \/ (OldStore /\ cfg = None))
  /\ Goto("embed")
  /\ UNCHANGED <<mem, todo, cfg, library, jobs, keys, begins, removed, mapping, counts>>

\* migrate_mappings_to_jobs: a job for which there is a mapping is updated by a
\* method the store does not have, and main() ends.
EmbedMappings ==
  /\ pc = "embed"
  /\ LET found == JobMapping # None /\ jobs > 0 /\ maps[JobMapping] # None
     IN  Goto(IF found THEN "down" ELSE "validate")
  /\ UNCHANGED <<mem, todo, config, mapping, counts>>

\* validate_config of what main() loaded.  Settings that were not marked have no
\* gateway: an error, unless the marking reached the cached object main() holds.
Validate ==
  /\ pc = "validate"
  /\ \/ Goto("load")
     \/ mem = "plain" /\ Goto("down")
  /\ UNCHANGED <<mem, todo, config, mapping, counts>>

\* load_enabled_jobs; without a job, one is made of a configuration of version 1.
LoadJobs ==
  /\ pc = "load"
  /\ jobs' = IF jobs = 0 /\ mem = "v1" THEN 1 ELSE jobs
  /\ Goto("ready")
  /\ UNCHANGED <<mem, todo, cfg, library, keys, begins, removed, moved, mapping, counts>>

\* Checkpoint.load for the job: the gateway's document and the copy in the store
\* both go by a hash of the client, the gateway, the channels and the job.
Resume ==
  /\ pc = "ready" /\ jobs > 0 /\ begins = "none"
  /\ begins' = IF "hash" \in keys THEN "stored" ELSE "zero"
  /\ UNCHANGED <<worker, cfg, library, jobs, keys, removed, moved, mapping, counts>>

\* Checkpoint.save: the job has a checkpoint of its own (module Checkpoint).
FeedSaves ==
  /\ pc = "ready" /\ begins # "none" /\ "hash" \notin keys
  /\ keys' = keys \cup {"hash"}
  /\ UNCHANGED <<worker, cfg, library, jobs, begins, removed, moved, mapping, counts>>

-----------------------------------------------------------------------------
(* Users and faults. *)

Quiet == Overlap \/ pc \in {"down", "ready"}
Edit == edits < MaxEdits /\ edits' = edits + 1 /\ UNCHANGED stops

\* put_mapping, delete_mapping.
UiMapping ==
  /\ Overlap \/ pc = "ready"
  /\ op["ui"] = Idle /\ Edit
  /\ \E n \in Names : \/ Begin("ui", "save", n, [edit |-> edits', meta |-> FALSE])
                      \/ Begin("ui", "delete", n, None)
  /\ UNCHANGED <<worker, config, disk, maps, manifest>>

\* The mapping directory is edited by hand.
EditFile ==
  /\ Quiet /\ op["ui"] = Idle /\ Edit
  /\ \E n \in Names : \E t \in {[edit |-> edits', meta |-> FALSE], None} :
       disk' = [disk EXCEPT ![n] = t]
  /\ UNCHANGED <<worker, config, maps, manifest, op>>

\* put_config: settings without a pipeline; what the page loaded may have the mark.
PutConfig ==
  /\ Overlap \/ pc = "ready"
  /\ Edit /\ cfg' \in {"plain", "v2"}
  /\ UNCHANGED <<worker, library, jobs, keys, begins, removed, moved, mapping>>

\* A later job has another uuid, and finds none of the checkpoints of these.
DeleteJobs ==
  /\ Overlap \/ pc = "ready"
  /\ jobs > 0 /\ jobs' = 0 /\ keys' = {} /\ begins' = "none" /\ removed' = TRUE
  /\ UNCHANGED <<worker, cfg, library, moved, mapping, counts>>

\* A crash or a restart of the worker; the UI goes on.
Stop ==
  /\ pc # "down" /\ stops < MaxStops /\ stops' = stops + 1
  /\ Overlap \/ op["ui"] = Idle
  /\ MapCrash \/ op["worker"] = Idle
  /\ Goto("down") /\ op' = [op EXCEPT !["worker"] = Idle] /\ todo' = {} /\ begins' = "none"
  /\ UNCHANGED <<mem, cfg, library, jobs, keys, removed, moved, disk, maps, manifest, edits>>

Start ==
  \/ Container \/ LoadConfig
  \/ MigrateInputs \/ MigrateOutputs \/ MigrateJob \/ MigrateCheckpoint \/ SlimConfig
  \/ SyncFile \/ SyncListed \/ SyncDelete \/ SyncEnds
  \/ MigrateDefault \/ EmbedMappings \/ Validate \/ LoadJobs
  \/ Resume \/ FeedSaves
  \/ SaveMapping("worker")

Next == Start \/ SaveMapping("ui") \/ UiMapping \/ EditFile \/ PutConfig \/ DeleteJobs \/ Stop

\* The container is restarted and its main() goes on; so does the UI's handler.
Spec ==
  /\ Init /\ [][Next]_startvars
  /\ WF_startvars(Start) /\ WF_startvars(SaveMapping("ui"))

-----------------------------------------------------------------------------
(* Properties. *)

\* Whatever stops the migration, the pipeline of the old configuration is in
\* that configuration or in a job with its output, until the user deletes it.
PipelineKept == removed \/ (jobs > 0 /\ ~Stdout) \/ cfg \in {None, "v1"}

\* "One-time migration ... creates ... a default job, and preserves the
\* checkpoint": the job that was migrated does not begin at sequence 0.
CheckpointPreserved == CkptFile = "good" /\ ~removed => begins # "zero"

\* "Disk files are synced into CBL (new, changed, and deleted)": after the sync
\* the listed mappings are the files.
MappingsFollowDisk ==
  pc \in {"collections", "embed"} /\ op["ui"] = Idle =>
    \A n \in Names : maps[n] = disk[n] /\ (n \in manifest <=> disk[n] # None)

\* "Check if config needs migration (one-time operation)": one job per
\* configuration.
OneJob == jobs <= 1

\* "One-time migration: move docs from _default._default".
OldDocsMoved == pc = "ready" /\ OldStore => moved

\* A worker that is down comes up, if it is no longer stopped.
ComesUp == pc = "down" ~> pc = "ready"
=============================================================================
