--------------------------- MODULE StartUpProofs ---------------------------
(***************************************************************************)
(* The migration of the configuration does not lose the pipeline, for any  *)
(* number of crashes, edits and mapping files, if nobody uses the UI while *)
(* the worker starts; and the mappings follow their files.                 *)
(***************************************************************************)
EXTENDS StartUp, TLAPS

\* The pipeline is in a job, or the user has deleted the jobs.
InJobs == removed \/ jobs > 0

Migrating == {"outputs", "job", "ckpt", "slim"}
Migrated == {"sync", "purge", "collections", "embed", "validate", "load", "ready"}

ConfigType ==
  /\ pc \in {"down", "boot", "files"} \cup Migrating \cup Migrated
  /\ cfg \in {None, "v1", "plain", "v2"}
  /\ removed \in BOOLEAN /\ jobs \in Nat

\* Where the pipeline is at each stage of the start.
MigrationInv ==
  \* Settings without a pipeline, from whatever start they are.
  /\ cfg \in {"plain", "v2"} => InJobs
  /\ pc = "files" => cfg # None
  /\ pc \in Migrating => cfg = "v1"
  \* The job comes before its checkpoint and the settings.
  /\ pc \in {"ckpt", "slim"} => InJobs
  /\ pc \in Migrated => InJobs

MInv == ConfigType /\ MigrationInv

LEMMA MInvInit == Init => MInv
<1>1. None # "plain" /\ None # "v2"
  BY StartAssumption
<1>2. Init => /\ pc = "down" /\ cfg = None
              /\ removed = FALSE /\ jobs = 0
  BY DEF Init
<1>3. Init => removed \in BOOLEAN
  BY Zenon DEF Init
<1>4. Init => ConfigType
  BY <1>2, <1>3 DEF ConfigType
<1>5. Init => MigrationInv
  BY <1>1, <1>2 DEF MigrationInv, Migrating, Migrated
<1> QED BY <1>4, <1>5 DEF MInv

\* The migration itself.
LEMMA MigrationKeeps ==
  ASSUME MInv,
         \/ MigrateInputs \/ MigrateOutputs
         \/ MigrateJob \/ MigrateCheckpoint \/ SlimConfig
  PROVE  MInv'
<1> USE StartAssumption DEF MInv, ConfigType, MigrationInv, Migrating, Migrated, InJobs,
      Goto, BeginSync
<1>1. CASE MigrateInputs \/ MigrateOutputs
  BY <1>1 DEF MigrateInputs, MigrateOutputs
<1>2. CASE MigrateJob
  BY <1>2 DEF MigrateJob
<1>3. CASE MigrateCheckpoint
  BY <1>3 DEF MigrateCheckpoint
<1>4. CASE SlimConfig
  BY <1>4 DEF SlimConfig
<1> QED BY <1>1, <1>2, <1>3, <1>4

\* The rest of the start only follows it.
LEMMA StartKeeps ==
  ASSUME MInv,
         \/ Container \/ LoadConfig
         \/ SyncFile \/ SyncListed \/ SyncDelete \/ SyncEnds
         \/ MigrateDefault \/ EmbedMappings \/ Validate \/ LoadJobs
         \/ Resume \/ FeedSaves
  PROVE  MInv'
<1> USE StartAssumption DEF MInv, ConfigType, MigrationInv, Migrating, Migrated, InJobs,
      Goto, config, mapping, counts
<1>1. CASE Container \/ LoadConfig
  BY <1>1 DEF Container, LoadConfig
<1>2. CASE SyncFile \/ SyncListed \/ SyncDelete \/ SyncEnds
  BY <1>2 DEF SyncFile, SyncListed, SyncDelete, SyncEnds
<1>3. CASE MigrateDefault \/ EmbedMappings \/ Validate
  BY <1>3 DEF MigrateDefault, EmbedMappings, Validate
<1>4. CASE LoadJobs \/ Resume \/ FeedSaves
  BY <1>4 DEF LoadJobs, Resume, FeedSaves, worker
<1> QED BY <1>1, <1>2, <1>3, <1>4

\* Users, while the worker is up, and crashes.
LEMMA UsersKeep ==
  ASSUME MInv, ~Overlap,
         \/ UiMapping \/ EditFile \/ PutConfig \/ DeleteJobs \/ Stop
         \/ \E p \in Process : SaveMapping(p)
  PROVE  MInv'
<1> USE StartAssumption DEF MInv, ConfigType, MigrationInv, Migrating, Migrated, InJobs,
      Goto, worker, config, mapping, counts
<1>1. CASE UiMapping \/ EditFile
  BY <1>1 DEF UiMapping, EditFile
<1>2. CASE PutConfig
  BY <1>2 DEF PutConfig
<1>3. CASE DeleteJobs
  BY <1>3 DEF DeleteJobs
<1>4. CASE Stop
  BY <1>4 DEF Stop
<1>5. CASE \E p \in Process : SaveMapping(p)
  BY <1>5 DEF SaveMapping, MapDoc, MapRead, MapWrite, MapFile
<1> QED BY <1>1, <1>2, <1>3, <1>4, <1>5

LEMMA MInvStep ==
  ASSUME MInv, ~Overlap, [Next]_startvars
  PROVE  MInv'
<1>1. CASE Next
  BY <1>1, MigrationKeeps, StartKeeps, UsersKeep DEF Next, Start, Process
<1>2. CASE UNCHANGED startvars
  BY <1>2 DEF MInv, ConfigType, MigrationInv, InJobs, startvars, worker,
              config
<1> QED BY <1>1, <1>2

LEMMA AlwaysMInv ==
  ASSUME ~Overlap
  PROVE  Spec => []MInv
<1>1. MInv /\ [Next]_startvars => MInv'
  BY MInvStep
<1> QED BY <1>1, MInvInit, PTL DEF Spec

\* migrate_v1_to_v2 stopped anywhere, and run again, does not lose the pipeline
\* of the old configuration, if its output is one that 2.0 still has.
THEOREM PipelineSafe ==
  ASSUME ~Overlap, ~Stdout
  PROVE  Spec => []PipelineKept
<1>1. MInv => PipelineKept
  BY DEF MInv, ConfigType, MigrationInv, PipelineKept, InJobs
<1> QED BY <1>1, AlwaysMInv, PTL

-----------------------------------------------------------------------------
(* Types, and how many jobs are made. *)

Configs == {None, "v1", "plain", "v2"}
\* The configuration still has the pipeline a job is to be made of.
Unmigrated == cfg \in {None, "v1"}

TypeInv ==
  /\ pc \in Stages /\ mem \in Configs /\ cfg \in Configs
  /\ library \subseteq {"inputs", "outputs"} /\ removed \in BOOLEAN /\ moved \in BOOLEAN
  /\ jobs \in Nat /\ keys \subseteq {"uuid", "hash"} /\ begins \in {"none", "zero", "stored"}
  /\ disk \in [Names -> Texts \cup {None}] /\ maps \in [Names -> Texts \cup {None}]
  /\ manifest \subseteq Names /\ op \in [Process -> Ops] /\ todo \subseteq Names
  /\ edits \in 0..MaxEdits /\ stops \in 0..MaxStops
  /\ \A p \in Process : op[p].kind = "save" => op[p].text \in Texts
  /\ op["worker"] # Idle => pc \in {"sync", "purge"}

\* A start that is stopped makes one job at most.
CountInv ==
  /\ jobs <= stops + 1
  /\ pc \in Migrated => ~Unmigrated
  /\ pc \in {"down", "boot", "files"} /\ Unmigrated => jobs <= stops
  /\ pc \in {"outputs", "job"} => jobs <= stops

LEMMA EditedWork ==
  ASSUME NEW o \in Works, NEW s \in {"doc", "read", "write", "file"}, NEW i \in SUBSET Names
  PROVE  /\ [o EXCEPT !.step = s] \in Works
         /\ [o EXCEPT !.step = s].kind = o.kind /\ [o EXCEPT !.step = s].text = o.text
         /\ [o EXCEPT !.step = s, !.ids = i] \in Works
         /\ [o EXCEPT !.step = s, !.ids = i].kind = o.kind
         /\ [o EXCEPT !.step = s, !.ids = i].text = o.text
BY DEF Works

\* Saving and deleting mappings, in either process.
LEMMA SaveType ==
  ASSUME TypeInv, NEW p \in Process, SaveMapping(p)
  PROVE  TypeInv'
<1> USE DEF TypeInv
<1>1. /\ op[p] \in Works /\ op[p] # Idle
      /\ UNCHANGED <<pc, mem, todo, cfg, library, jobs, keys, begins, removed, moved, edits, stops>>
  BY DEF SaveMapping, MapDoc, MapRead, MapWrite, MapFile, InOp, Ops, worker, config, counts
<1>2. /\ op[p].name \in Names /\ op[p].text \in Texts \cup {None}
      /\ op[p].kind \in {"save", "delete"} /\ op[p].ids \subseteq Names
  BY <1>1 DEF Works
<1>3. ASSUME NEW o \in Ops, op' = [op EXCEPT ![p] = o], o.kind = "save" => o.text \in Texts
      PROVE  /\ op' \in [Process -> Ops]
             /\ \A q \in Process : op'[q].kind = "save" => op'[q].text \in Texts
             /\ op'["worker"] # Idle => pc \in {"sync", "purge"}
  BY <1>1, <1>3
<1>4. CASE MapDoc(p)
  <2>1. PICK s \in {"doc", "read", "write", "file"} : op' = [op EXCEPT ![p].step = s]
    BY <1>4 DEF MapDoc, Step
  <2>2. op' = [op EXCEPT ![p] = [op[p] EXCEPT !.step = s]]
    BY <2>1
  <2>3. maps' \in [Names -> Texts \cup {None}]
    BY <1>2, <1>4 DEF MapDoc
  <2>4. /\ op' \in [Process -> Ops]
        /\ \A q \in Process : op'[q].kind = "save" => op'[q].text \in Texts
        /\ op'["worker"] # Idle => pc \in {"sync", "purge"}
    <3> DEFINE o == [op[p] EXCEPT !.step = s]
    <3>1. o \in Works /\ o.kind = op[p].kind /\ o.text = op[p].text
      BY <1>1, EditedWork
    <3> HIDE DEF o
    <3>2. o \in Ops /\ (o.kind = "save" => o.text \in Texts)
      BY <3>1 DEF Ops
    <3>3. op' = [op EXCEPT ![p] = o]
      BY <2>2 DEF o
    <3> QED BY <1>3, <3>2, <3>3
  <2>5. UNCHANGED <<disk, manifest>>
    BY <1>4 DEF MapDoc
  <2> QED BY <1>1, <2>3, <2>4, <2>5
<1>5. CASE MapRead(p)
  <2>1. op' = [op EXCEPT ![p] = [op[p] EXCEPT !.step = "write", !.ids = manifest]]
    BY <1>5 DEF MapRead
  <2>2. /\ op' \in [Process -> Ops]
        /\ \A q \in Process : op'[q].kind = "save" => op'[q].text \in Texts
        /\ op'["worker"] # Idle => pc \in {"sync", "purge"}
    <3> DEFINE o == [op[p] EXCEPT !.step = "write", !.ids = manifest]
    <3>1. o \in Works /\ o.kind = op[p].kind /\ o.text = op[p].text
      BY <1>1, EditedWork
    <3>3. op' = [op EXCEPT ![p] = o]
      BY <2>1
    <3> HIDE DEF o
    <3>2. o \in Ops /\ (o.kind = "save" => o.text \in Texts)
      BY <3>1 DEF Ops
    <3> QED BY <1>3, <3>2, <3>3
  <2>3. UNCHANGED <<disk, maps, manifest>>
    BY <1>5 DEF MapRead
  <2> QED BY <1>1, <2>2, <2>3
<1>6. CASE MapWrite(p)
  <2>1. op' = [op EXCEPT ![p] = [op[p] EXCEPT !.step = "file"]]
    BY <1>6 DEF MapWrite, Step
  <2>2. manifest' \subseteq Names
    BY <1>2, <1>6 DEF MapWrite
  <2>3. /\ op' \in [Process -> Ops]
        /\ \A q \in Process : op'[q].kind = "save" => op'[q].text \in Texts
        /\ op'["worker"] # Idle => pc \in {"sync", "purge"}
    <3> DEFINE o == [op[p] EXCEPT !.step = "file"]
    <3>1. o \in Works /\ o.kind = op[p].kind /\ o.text = op[p].text
      BY <1>1, EditedWork
    <3>3. op' = [op EXCEPT ![p] = o]
      BY <2>1
    <3> HIDE DEF o
    <3>2. o \in Ops /\ (o.kind = "save" => o.text \in Texts)
      BY <3>1 DEF Ops
    <3> QED BY <1>3, <3>2, <3>3
  <2>4. UNCHANGED <<disk, maps>>
    BY <1>6 DEF MapWrite
  <2> QED BY <1>1, <2>2, <2>3, <2>4
<1>7. CASE MapFile(p)
  <2>1. op[p].kind = "save" => [op[p].text EXCEPT !.meta = TRUE] \in Texts
    BY DEF Texts
  <2>2. disk' \in [Names -> Texts \cup {None}]
    BY <1>2, <1>7, <2>1 DEF MapFile
  <2>3. op' = [op EXCEPT ![p] = Idle] /\ Idle \in Ops /\ Idle.kind = "none"
    BY <1>7 DEF MapFile, Idle, Ops
  <2> QED BY <1>1, <1>3, <1>7, <2>2, <2>3 DEF MapFile
<1> QED BY <1>4, <1>5, <1>6, <1>7 DEF SaveMapping

\* A save or a delete begins.
LEMMA BeginType ==
  ASSUME TypeInv, NEW p \in Process, NEW kind \in {"save", "delete"}, NEW n \in Names,
         NEW text \in Texts \cup {None}, kind = "save" => text \in Texts,
         Begin(p, kind, n, text), p = "worker" => pc' \in {"sync", "purge"},
         p # "worker" => UNCHANGED pc
  PROVE  /\ op' \in [Process -> Ops]
         /\ \A q \in Process : op'[q].kind = "save" => op'[q].text \in Texts
         /\ op'["worker"] # Idle => pc' \in {"sync", "purge"}
<1> DEFINE o == [kind |-> kind, step |-> "doc", name |-> n, text |-> text, ids |-> {}]
<1>1. op' = [op EXCEPT ![p] = o]
  BY DEF Begin
<1>2. o \in Ops /\ o.kind = kind /\ o.text = text
  BY DEF Ops, Works
<1> HIDE DEF o
<1> QED BY <1>1, <1>2 DEF TypeInv, Process

LEMMA SyncType ==
  ASSUME TypeInv, SyncFile \/ SyncDelete \/ SyncListed \/ SyncEnds
  PROVE  TypeInv'
<1> USE DEF TypeInv
<1>1. "worker" \in Process
  BY DEF Process
<1>2. CASE SyncFile
  <2>1. PICK n \in todo :
          /\ todo' = todo \ {n}
          /\ IF disk[n] # None /\ disk[n] # maps[n]
             THEN Begin("worker", "save", n, disk[n]) ELSE UNCHANGED op
    BY <1>2 DEF SyncFile
  <2>2. UNCHANGED <<pc, mem, config, disk, maps, manifest, counts>> /\ pc = "sync"
    BY <1>2 DEF SyncFile
  <2>3. /\ op' \in [Process -> Ops]
        /\ \A q \in Process : op'[q].kind = "save" => op'[q].text \in Texts
        /\ op'["worker"] # Idle => pc' \in {"sync", "purge"}
    <3>1. CASE Begin("worker", "save", n, disk[n]) /\ disk[n] # None
      <4>1. n \in Names /\ disk[n] \in Texts
        BY <3>1
      <4> QED BY <1>1, <2>2, <3>1, <4>1, BeginType
    <3>2. CASE UNCHANGED op
      BY <2>2, <3>2
    <3> QED BY <2>1, <3>1, <3>2
  <2> QED BY <2>1, <2>2, <2>3 DEF config, counts
<1>3. CASE SyncDelete
  <2>1. PICK n \in todo : todo' = todo \ {n} /\ Begin("worker", "delete", n, None)
    BY <1>3 DEF SyncDelete
  <2>2. UNCHANGED <<pc, mem, config, disk, maps, manifest, counts>> /\ pc = "purge"
    BY <1>3 DEF SyncDelete
  <2>3. /\ op' \in [Process -> Ops]
        /\ \A q \in Process : op'[q].kind = "save" => op'[q].text \in Texts
        /\ op'["worker"] # Idle => pc' \in {"sync", "purge"}
    BY <1>1, <2>1, <2>2, BeginType
  <2> QED BY <2>1, <2>2, <2>3 DEF config, counts
<1>4. CASE SyncListed
  BY <1>4 DEF SyncListed, Goto, Stages, config, mapping, counts
<1>5. CASE SyncEnds
  BY <1>5 DEF SyncEnds, Goto, Stages, config, mapping, counts
<1> QED BY <1>2, <1>3, <1>4, <1>5

LEMMA MigrationType ==
  ASSUME TypeInv,
         \/ Container \/ LoadConfig
         \/ MigrateInputs \/ MigrateOutputs \/ MigrateJob \/ MigrateCheckpoint \/ SlimConfig
         \/ MigrateDefault \/ EmbedMappings \/ Validate \/ LoadJobs \/ Resume \/ FeedSaves
  PROVE  TypeInv'
<1> USE DEF TypeInv, Goto, Stages, Configs, config, mapping, counts
<1>1. Present(disk) \subseteq Names
  BY DEF Present
<1>2. CASE Container \/ LoadConfig
  BY <1>2 DEF Container, LoadConfig
<1>3. CASE MigrateInputs \/ MigrateOutputs \/ SlimConfig
  <2>1. library' \subseteq {"inputs", "outputs"}
    BY <1>3 DEF MigrateInputs, MigrateOutputs, SlimConfig
  <2>2. todo' \subseteq Names
    BY <1>1, <1>3 DEF MigrateInputs, MigrateOutputs, SlimConfig, BeginSync
  <2>3. pc' \in Stages /\ pc' \notin {"purge"} /\ pc \notin {"sync", "purge"} /\ cfg' \in Configs
    BY <1>3 DEF MigrateInputs, MigrateOutputs, SlimConfig, BeginSync
  <2>4. UNCHANGED <<mem, jobs, keys, begins, removed, moved, mapping, counts>>
    BY <1>3 DEF MigrateInputs, MigrateOutputs, SlimConfig
  <2> QED BY <2>1, <2>2, <2>3, <2>4
<1>4. CASE MigrateJob \/ MigrateCheckpoint
  <2>1. keys' \subseteq {"uuid", "hash"}
    BY <1>4 DEF MigrateJob, MigrateCheckpoint
  <2>2. pc' \in {"ckpt", "slim"} /\ pc \notin {"sync", "purge"} /\ jobs' \in Nat
    BY <1>4 DEF MigrateJob, MigrateCheckpoint
  <2>3. UNCHANGED <<mem, todo, cfg, library, begins, removed, moved, mapping, counts>>
    BY <1>4 DEF MigrateJob, MigrateCheckpoint
  <2> QED BY <2>1, <2>2, <2>3
<1>7. CASE Resume \/ FeedSaves
  <2>1. keys' \subseteq {"uuid", "hash"} /\ begins' \in {"none", "zero", "stored"}
    BY <1>7 DEF Resume, FeedSaves
  <2>2. UNCHANGED <<worker, cfg, library, jobs, removed, moved, mapping, counts>>
    BY <1>7 DEF Resume, FeedSaves
  <2> QED BY <2>1, <2>2 DEF worker
<1>5. CASE EmbedMappings \/ Validate
  BY <1>5 DEF EmbedMappings, Validate
<1>8. CASE LoadJobs
  <2>1. jobs' \in Nat /\ pc' = "ready" /\ pc = "load"
    BY <1>8 DEF LoadJobs
  <2>2. UNCHANGED <<mem, todo, cfg, library, keys, begins, removed, moved, mapping, counts>>
    BY <1>8 DEF LoadJobs
  <2> QED BY <2>1, <2>2
<1>6. CASE MigrateDefault
  <2>1. moved' \in BOOLEAN
    BY <1>6 DEF MigrateDefault
  <2> QED BY <1>6, <2>1 DEF MigrateDefault
<1> QED BY <1>2, <1>3, <1>4, <1>5, <1>6, <1>7, <1>8

LEMMA UserType ==
  ASSUME TypeInv, UiMapping \/ EditFile \/ PutConfig \/ DeleteJobs \/ Stop
  PROVE  TypeInv'
<1> USE DEF TypeInv
<1>1. Edit => /\ edits' \in 0..MaxEdits /\ stops' = stops
              /\ [edit |-> edits', meta |-> FALSE] \in Texts
  BY StartAssumption DEF Edit, Texts
<1>2. CASE UiMapping
  <2>1. UNCHANGED <<worker, config, disk, maps, manifest>> /\ Edit
    BY <1>2 DEF UiMapping
  <2>2. PICK n \in Names : \/ Begin("ui", "save", n, [edit |-> edits', meta |-> FALSE])
                           \/ Begin("ui", "delete", n, None)
    BY <1>2 DEF UiMapping
  <2>3. /\ op' \in [Process -> Ops]
        /\ \A q \in Process : op'[q].kind = "save" => op'[q].text \in Texts
        /\ op'["worker"] # Idle => pc' \in {"sync", "purge"}
    <3>1. "ui" \in Process /\ "ui" # "worker" /\ pc' = pc
      BY <2>1 DEF Process, worker
    <3> QED BY <1>1, <2>1, <2>2, <3>1, BeginType
  <2> QED BY <1>1, <2>1, <2>3 DEF worker, config
<1>3. CASE EditFile
  <2>1. disk' \in [Names -> Texts \cup {None}]
    BY <1>1, <1>3 DEF EditFile
  <2> QED BY <1>1, <1>3, <2>1 DEF EditFile, worker, config
<1>4. CASE PutConfig
  BY <1>1, <1>4 DEF PutConfig, worker, mapping, Configs
<1>5. CASE DeleteJobs
  BY <1>5 DEF DeleteJobs, worker, mapping, counts
<1>6. CASE Stop
  <2>1. op' = [op EXCEPT !["worker"] = Idle] /\ Idle \in Ops /\ Idle.kind = "none"
    BY <1>6 DEF Stop, Idle, Ops
  <2>2. stops' \in 0..MaxStops
    BY <1>6, StartAssumption DEF Stop
  <2> QED BY <1>6, <2>1, <2>2 DEF Stop, Goto, Stages, config, Process
<1> QED BY <1>2, <1>3, <1>4, <1>5, <1>6

LEMMA TypeStep ==
  ASSUME TypeInv, [Next]_startvars
  PROVE  TypeInv'
<1>1. CASE UNCHANGED startvars
  BY <1>1 DEF TypeInv, startvars, worker, config, mapping, counts
<1> QED BY <1>1, SaveType, SyncType, MigrationType, UserType DEF Next, Start, Process

LEMMA CountStep ==
  ASSUME TypeInv, CountInv, [Next]_startvars
  PROVE  CountInv'
<1> USE StartAssumption DEF TypeInv, CountInv, Configs, Migrated, Unmigrated, Goto
<1>1. CASE Container \/ LoadConfig
  BY <1>1 DEF Container, LoadConfig, config, mapping, counts
<1>2. CASE MigrateInputs \/ MigrateOutputs
  BY <1>2 DEF MigrateInputs, MigrateOutputs, BeginSync, counts
<1>3. CASE MigrateJob
  BY <1>3 DEF MigrateJob, counts
<1>4. CASE MigrateCheckpoint
  BY <1>4 DEF MigrateCheckpoint, counts
<1>5. CASE SlimConfig
  BY <1>5 DEF SlimConfig, BeginSync, counts
<1>6. CASE SyncFile \/ SyncListed \/ SyncDelete \/ SyncEnds
  BY <1>6 DEF SyncFile, SyncListed, SyncDelete, SyncEnds, config, mapping, counts
<1>7. CASE MigrateDefault \/ EmbedMappings \/ Validate
  BY <1>7 DEF MigrateDefault, EmbedMappings, Validate, config, mapping, counts
<1>8. CASE LoadJobs \/ Resume \/ FeedSaves
  BY <1>8 DEF LoadJobs, Resume, FeedSaves, worker, counts
<1>9. ASSUME NEW p \in Process, SaveMapping(p)
      PROVE  CountInv'
  BY <1>9 DEF SaveMapping, MapDoc, MapRead, MapWrite, MapFile, worker, config, counts
<1>10. CASE UiMapping \/ EditFile
  BY <1>10 DEF UiMapping, EditFile, Edit, worker, config
<1>11. CASE PutConfig
  BY <1>11 DEF PutConfig, Edit, worker
<1>12. CASE DeleteJobs
  BY <1>12 DEF DeleteJobs, worker, counts
<1>13. CASE Stop
  BY <1>13 DEF Stop, config
<1>14. CASE UNCHANGED startvars
  BY <1>14 DEF startvars, worker, config, mapping, counts
<1> QED BY <1>1, <1>2, <1>3, <1>4, <1>5, <1>6, <1>7, <1>8, <1>9, <1>10, <1>11, <1>12, <1>13,
           <1>14 DEF Next, Start, Process

LEMMA TypeInit == Init => TypeInv /\ CountInv
<1> SUFFICES ASSUME Init
             PROVE  TypeInv /\ CountInv
  OBVIOUS
<1>1. Idle \in Ops /\ Idle.kind = "none"
  BY DEF Idle, Ops
<1>2. [edit |-> 0, meta |-> FALSE] \in Texts
  BY StartAssumption DEF Texts
<1>3. disk \in [Names -> Texts \cup {None}]
  BY <1>2 DEF Init
<1>4. op \in [Process -> Ops] /\ \A p \in Process : op[p] = Idle
  BY <1>1 DEF Init, Process
<1>5. edits \in 0..MaxEdits /\ stops \in 0..MaxStops
  BY StartAssumption DEF Init
<1>6. TypeInv
  <2>1. pc \in Stages /\ mem \in Configs /\ cfg \in Configs /\ todo \subseteq Names
    BY DEF Init, Configs, Stages
  <2>2. removed \in BOOLEAN /\ moved \in BOOLEAN
    BY Zenon DEF Init
  <2>3. maps \in [Names -> Texts \cup {None}] /\ manifest \subseteq Names
    BY DEF Init
  <2>4. /\ library \subseteq {"inputs", "outputs"} /\ jobs \in Nat
        /\ keys \subseteq {"uuid", "hash"} /\ begins \in {"none", "zero", "stored"}
    BY DEF Init
  <2>5. \A p \in Process : op[p].kind # "save"
    BY <1>1, <1>4
  <2>6. op["worker"] = Idle
    BY <1>4 DEF Process
  <2> QED BY <1>3, <1>4, <1>5, <2>1, <2>2, <2>3, <2>4, <2>5, <2>6, Zenon DEF TypeInv
<1>7. CountInv
  BY DEF Init, CountInv, Migrated
<1> QED BY <1>6, <1>7

\* Types, and that migrate_v1_to_v2 makes no more jobs than the worker is started:
\* for any files, edits and crashes, with the UI in use at any time.
THEOREM StartTypeCorrect == Spec => []StartTypeOK
<1>1. TypeInv /\ CountInv /\ [Next]_startvars => (TypeInv /\ CountInv)'
  BY TypeStep, CountStep
<1>2. TypeInv /\ CountInv => StartTypeOK
  <2> SUFFICES ASSUME TypeInv, CountInv
               PROVE  StartTypeOK
    OBVIOUS
  <2>1. jobs \in 0..MaxStops + 1
    BY StartAssumption DEF TypeInv, CountInv
  <2> QED BY <2>1 DEF TypeInv, CountInv, StartTypeOK, Configs
<1> QED BY <1>1, <1>2, TypeInit, PTL DEF Spec

-----------------------------------------------------------------------------
(* The sync of the mapping files. *)

\* A save or a delete of mapping n is at one of these steps.
At(p, n, steps) == op[p] # Idle /\ op[p].name = n /\ op[p].step \in steps

\* One process works on the mappings at a time, and the manifest lists what there
\* is but for the mapping it works on.
ListInv ==
  /\ op["ui"] # Idle => pc = "ready"
  /\ \A n \in Names : \/ n \in manifest <=> maps[n] # None
                      \/ \E p \in Process : At(p, n, {"read", "write"})
  /\ \A p \in Process : op[p] # Idle =>
       /\ op[p].step # "doc" =>
            maps[op[p].name] = IF op[p].kind = "save" THEN op[p].text ELSE None
       /\ op[p].step = "write" => op[p].ids = manifest

\* The sync: the files that are seen to, then the mappings that have none.
SyncInv ==
  /\ pc = "sync" =>
       /\ op["worker"] # Idle =>
            op["worker"].kind = "save" /\ op["worker"].text = disk[op["worker"].name]
       /\ \A n \in Names : \/ disk[n] = None \/ maps[n] = disk[n]
                           \/ n \in todo \/ At("worker", n, {"doc"})
  /\ pc = "purge" =>
       /\ op["worker"] # Idle =>
            op["worker"].kind = "delete" /\ disk[op["worker"].name] = None
       /\ \A n \in todo : disk[n] = None
       /\ \A n \in Names : \/ maps[n] = disk[n]
                           \/ disk[n] = None /\ (n \in todo \/ At("worker", n, {"doc"}))
  /\ pc \in {"collections", "embed"} => \A n \in Names : maps[n] = disk[n]

FollowInv == TypeInv /\ ListInv /\ SyncInv

Other(p) == IF p = "ui" THEN "worker" ELSE "ui"

\* Who works on the mappings works alone, the UI when no sync is under way.
LEMMA Alone ==
  ASSUME FollowInv, NEW p \in Process, op[p] # Idle
  PROVE  /\ op[p] \in Works /\ op[Other(p)] = Idle /\ \A q \in Process : q = p \/ q = Other(p)
         /\ p = "ui" => pc = "ready"
         /\ p = "worker" => pc \in {"sync", "purge"}
BY DEF FollowInv, TypeInv, ListInv, Process, Ops, Other

\* The next step of who works.
LEMMA Stepped ==
  ASSUME NEW o \in Works, NEW s \in {"doc", "read", "write", "file"}, NEW i \in SUBSET Names
  PROVE  /\ [o EXCEPT !.step = s].step = s /\ [o EXCEPT !.step = s].name = o.name
         /\ [o EXCEPT !.step = s].ids = o.ids
         /\ [o EXCEPT !.step = s, !.ids = i].step = s
         /\ [o EXCEPT !.step = s, !.ids = i].name = o.name
         /\ [o EXCEPT !.step = s, !.ids = i].ids = i
         /\ o.step \in {"doc", "read", "write", "file"}
BY DEF Works

\* One step of a save or a delete, and what it leaves.
LEMMA DocFollows ==
  ASSUME FollowInv, NEW p \in Process, MapDoc(p)
  PROVE  (ListInv /\ SyncInv)'
<1> DEFINE s == IF op[p].kind = "delete" /\ maps[op[p].name] = None THEN "file" ELSE "read"
           n == op[p].name
           text == IF op[p].kind = "save" THEN op[p].text ELSE None
           o == [op[p] EXCEPT !.step = s]
<1>1. /\ op[p] # Idle /\ op[p].step = "doc" /\ maps' = [maps EXCEPT ![n] = text]
      /\ op' = [op EXCEPT ![p] = o] /\ UNCHANGED <<pc, todo, disk, manifest>>
  BY DEF MapDoc, InOp, Step, worker
<1>2. /\ op[p] \in Works /\ op[Other(p)] = Idle
      /\ \A q \in Process : q = p \/ q = Other(p)
      /\ p = "ui" => pc = "ready"
      /\ p = "worker" => pc \in {"sync", "purge"}
  BY <1>1, Alone
<1>13. s \in {"doc", "read", "write", "file"} /\ {} \in SUBSET Names
  OBVIOUS
<1>3. /\ o.step = s /\ o.name = n /\ o.ids = op[p].ids /\ o.kind = op[p].kind
      /\ o.text = op[p].text /\ o \in Works
  <2> HIDE DEF s
  <2> QED BY <1>2, <1>13 DEF Works
<1>4. n \in Names /\ op[p].kind \in {"save", "delete"}
  BY <1>2 DEF Works
<1>5. maps'[n] = text /\ \A m \in Names : m # n => maps'[m] = maps[m]
  BY <1>1, <1>4 DEF FollowInv, TypeInv
<1>6. op'[p] = o /\ \A q \in Process : q # p => op'[q] = Idle
  BY <1>1, <1>2 DEF FollowInv, TypeInv
<1>7. s \in {"read", "file"} /\ (s = "file" => maps[n] = None /\ text = None)
  BY <1>4
<1>8. \A m \in Names : m \in manifest <=> maps[m] # None
  <2>1. \A q \in Process : ~At(q, n, {"read", "write"})
    BY <1>1, <1>2 DEF At
  <2>2. \A m \in Names : m # n => \A q \in Process : ~At(q, m, {"read", "write"})
    BY <1>1, <1>2 DEF At
  <2> QED BY <2>1, <2>2 DEF FollowInv, ListInv
<1>9. o # Idle \/ o = Idle
  OBVIOUS
<1>10. o # Idle
  BY <1>3, <1>4 DEF Idle
<1> HIDE DEF s, n, text, o
<1>11. ListInv'
  <2>1. op'["ui"] # Idle => pc' = "ready"
    BY <1>1, <1>2, <1>6 DEF Process
  <2>2. \A m \in Names : \/ m \in manifest' <=> maps'[m] # None
                         \/ \E q \in Process : At(q, m, {"read", "write"})'
    <3>1. CASE s = "read"
      <4>1. \A m \in Names : m = n => At(p, m, {"read", "write"})'
        BY <1>3, <1>6, <1>10, <3>1 DEF At
      <4>2. \A m \in Names : m # n => (m \in manifest' <=> maps'[m] # None)
        BY <1>1, <1>5, <1>8
      <4> QED BY <4>1, <4>2, Zenon
    <3>2. CASE s = "file"
      BY <1>1, <1>4, <1>5, <1>7, <1>8, <3>2
    <3> QED BY <1>7, <3>1, <3>2
  <2>3. \A q \in Process : op'[q] # Idle =>
          /\ op'[q].step # "doc" =>
               maps'[op'[q].name] = IF op'[q].kind = "save" THEN op'[q].text ELSE None
          /\ op'[q].step = "write" => op'[q].ids = manifest'
    <3>1. text = IF op[p].kind = "save" THEN op[p].text ELSE None
      BY DEF text
    <3> QED BY <1>3, <1>5, <1>6, <1>7, <3>1
  <2> QED BY <2>1, <2>2, <2>3 DEF ListInv
<1>12. SyncInv'
  <2>1. CASE p = "ui"
    BY <1>1, <1>2, <2>1 DEF SyncInv
  <2>2. CASE p = "worker"
    <3>1. \A m \in Names : m # n => ~At("worker", m, {"doc"})
      BY <2>2 DEF At, n
    <3>2. CASE pc = "sync"
      <4>1. op[p].kind = "save" /\ op[p].text = disk[n]
        BY <1>1, <2>2, <3>2 DEF FollowInv, SyncInv, n
      <4>2. maps'[n] = disk[n]
        BY <1>5, <4>1 DEF text
      <4> QED BY <1>1, <1>3, <1>5, <1>6, <2>2, <3>1, <3>2, <4>1, <4>2 DEF FollowInv, SyncInv
    <3>3. CASE pc = "purge"
      <4>1. op[p].kind = "delete" /\ disk[n] = None
        BY <1>1, <2>2, <3>3 DEF FollowInv, SyncInv, n
      <4>2. maps'[n] = disk[n]
        BY <1>5, <4>1 DEF text
      <4> QED BY <1>1, <1>3, <1>5, <1>6, <2>2, <3>1, <3>3, <4>1, <4>2 DEF FollowInv, SyncInv
    <3> QED BY <1>2, <2>2, <3>2, <3>3
  <2> QED BY <2>1, <2>2 DEF Process
<1> QED BY <1>11, <1>12

LEMMA ManifestFollows ==
  ASSUME FollowInv, NEW p \in Process, MapRead(p) \/ MapWrite(p)
  PROVE  (ListInv /\ SyncInv)'
<1> DEFINE n == op[p].name
           text == IF op[p].kind = "save" THEN op[p].text ELSE None
<1>1. op[p] # Idle /\ op[p].step \in {"read", "write"} /\ UNCHANGED <<pc, todo, disk, maps>>
  BY DEF MapRead, MapWrite, InOp, worker
<1>2. /\ op[p] \in Works /\ op[Other(p)] = Idle
      /\ \A q \in Process : q = p \/ q = Other(p)
      /\ p = "ui" => pc = "ready"
  BY <1>1, Alone
<1>3. n \in Names /\ op[p].kind \in {"save", "delete"}
  BY <1>2 DEF Works
<1>4. maps[n] = text /\ (op[p].step = "write" => op[p].ids = manifest)
  BY <1>1 DEF FollowInv, ListInv
<1>5. \A m \in Names : m # n => (m \in manifest <=> maps[m] # None)
  BY <1>2 DEF FollowInv, ListInv, At
<1>6. PICK o : /\ op' = [op EXCEPT ![p] = o]
               /\ o.name = n /\ o.kind = op[p].kind /\ o.text = op[p].text
               /\ o.step \in {"write", "file"}
               /\ o.step = "write" => MapRead(p) /\ o.ids = manifest
               /\ o.step = "file" => MapWrite(p)
  <2>1. CASE MapRead(p)
    <3> DEFINE w == [op[p] EXCEPT !.step = "write", !.ids = manifest]
    <3>1. op' = [op EXCEPT ![p] = w]
      BY <2>1 DEF MapRead
    <3>2. /\ w.name = n /\ w.kind = op[p].kind /\ w.text = op[p].text
          /\ w.step = "write" /\ w.ids = manifest
      <4>1. manifest \in SUBSET Names /\ op[p] \in Works
        BY <1>2 DEF FollowInv, TypeInv
      <4>2. \A i \in SUBSET Names : LET v == [op[p] EXCEPT !.step = "write", !.ids = i]
              IN  /\ v.name = n /\ v.kind = op[p].kind /\ v.text = op[p].text
                  /\ v.step = "write" /\ v.ids = i
        BY <4>1 DEF Works
      <4> QED BY <4>1, <4>2, Zenon
    <3> QED BY <2>1, <3>1, <3>2
  <2>2. CASE MapWrite(p)
    <3> DEFINE w == [op[p] EXCEPT !.step = "file"]
    <3>1. op' = [op EXCEPT ![p] = w]
      BY <2>2 DEF MapWrite, Step
    <3>2. w.name = n /\ w.kind = op[p].kind /\ w.text = op[p].text /\ w.step = "file"
      BY <1>2, Stepped, EditedWork
    <3> QED BY <2>2, <3>1, <3>2
  <2> QED BY <2>1, <2>2
<1>7. op'[p] = o /\ \A q \in Process : q # p => op'[q] = Idle
  BY <1>2, <1>6 DEF FollowInv, TypeInv
<1>8. o # Idle
  BY <1>3, <1>6 DEF Idle
<1>9. ListInv'
  <2>1. op'["ui"] # Idle => pc' = "ready"
    BY <1>1, <1>2, <1>7 DEF Process
  <2>2. \A m \in Names : \/ m \in manifest' <=> maps'[m] # None
                         \/ \E q \in Process : At(q, m, {"read", "write"})'
    <3>1. CASE o.step = "write"
      <4>1. /\ \A m \in Names : m = n => At(p, m, {"read", "write"})'
            /\ manifest' = manifest
        BY <1>6, <1>7, <1>8, <3>1 DEF At, MapRead
      <4>2. \A m \in Names : m # n => (m \in manifest' <=> maps'[m] # None)
        BY <1>1, <1>5, <4>1
      <4> QED BY <4>1, <4>2, Zenon
    <3>2. CASE o.step = "file"
      <4>1. op[p].step = "write" /\ op[p].ids = manifest
        BY <1>4, <1>6, <3>2 DEF MapWrite, InOp
      <4>2. CASE op[p].kind = "save"
        <5>1. maps[n] # None
          BY <1>4, <4>2, StartAssumption DEF FollowInv, TypeInv
        <5>2. manifest' = manifest \cup {n}
          BY <1>6, <3>2, <4>1, <4>2 DEF MapWrite
        <5> QED BY <1>1, <1>5, <5>1, <5>2
      <4>3. CASE op[p].kind = "delete"
        <5>1. maps[n] = None
          BY <1>4, <4>3
        <5>2. manifest' = manifest \ {n}
          BY <1>6, <3>2, <4>1, <4>3 DEF MapWrite
        <5> QED BY <1>1, <1>5, <5>1, <5>2
      <4> QED BY <1>3, <4>2, <4>3
    <3> QED BY <1>6, <3>1, <3>2
  <2>3. \A q \in Process : op'[q] # Idle =>
          /\ op'[q].step # "doc" =>
               maps'[op'[q].name] = IF op'[q].kind = "save" THEN op'[q].text ELSE None
          /\ op'[q].step = "write" => op'[q].ids = manifest'
    <3>1. o.step = "write" => manifest' = manifest
      BY <1>6 DEF MapRead
    <3> QED BY <1>1, <1>4, <1>6, <1>7, <3>1
  <2> QED BY <2>1, <2>2, <2>3 DEF ListInv
<1>10. SyncInv'
  <2>1. CASE p = "ui"
    BY <1>1, <1>2, <2>1 DEF SyncInv
  <2>2. CASE p = "worker"
    <3>1. \A m \in Names : ~At("worker", m, {"doc"})
      BY <1>1, <2>2 DEF At
    <3> QED BY <1>1, <1>6, <1>7, <2>2, <3>1 DEF FollowInv, SyncInv
  <2> QED BY <2>1, <2>2 DEF Process
<1> QED BY <1>9, <1>10

LEMMA FileFollows ==
  ASSUME FollowInv, NEW p \in Process, MapFile(p)
  PROVE  (ListInv /\ SyncInv)'
<1>1. /\ op[p] # Idle /\ op[p].step = "file" /\ UNCHANGED <<pc, todo, maps, manifest>>
      /\ p = "worker" => UNCHANGED disk
  BY DEF MapFile, InOp, worker
<1>2. /\ op[Other(p)] = Idle
      /\ \A q \in Process : q = p \/ q = Other(p)
      /\ p = "ui" => pc = "ready"
  BY <1>1, Alone
<1>3. \A q \in Process : op'[q] = Idle
  BY <1>2 DEF MapFile, FollowInv, TypeInv
<1>4. \A m \in Names : m \in manifest <=> maps[m] # None
  BY <1>1, <1>2 DEF FollowInv, ListInv, At
<1>5. ListInv'
  BY <1>1, <1>3, <1>4 DEF ListInv, Process
<1>6. SyncInv'
  <2>1. CASE p = "ui"
    BY <1>1, <1>2, <2>1 DEF SyncInv
  <2>2. CASE p = "worker"
    <3>1. \A m \in Names : ~At("worker", m, {"doc"})
      BY <1>1, <2>2 DEF At
    <3> QED BY <1>1, <1>3, <2>2, <3>1 DEF FollowInv, SyncInv
  <2> QED BY <2>1, <2>2 DEF Process
<1> QED BY <1>5, <1>6

\* A step that leaves the mappings alone.
LEMMA ListKept ==
  ASSUME FollowInv, UNCHANGED <<maps, manifest, op>>,
         pc' = pc \/ op["ui"] = Idle
  PROVE  ListInv'
BY DEF FollowInv, ListInv, At, Process

\* With nobody at work the manifest is right.
LEMMA AllListed ==
  ASSUME FollowInv, \A p \in Process : op[p] = Idle
  PROVE  \A n \in Names : n \in manifest <=> maps[n] # None
BY DEF FollowInv, ListInv, At

\* A save or a delete begins when nobody is at work.
LEMMA BeginListed ==
  ASSUME FollowInv, \A p \in Process : op[p] = Idle, UNCHANGED <<pc, maps, manifest>>,
         NEW p \in Process, p = "ui" => pc = "ready",
         NEW kind \in {"save", "delete"}, NEW n \in Names, NEW text, Begin(p, kind, n, text)
  PROVE  /\ ListInv' /\ op'[p] # Idle
         /\ op'[p].kind = kind /\ op'[p].name = n /\ op'[p].text = text /\ op'[p].step = "doc"
<1> DEFINE o == [kind |-> kind, step |-> "doc", name |-> n, text |-> text, ids |-> {}]
<1>1. op'[p] = o /\ \A q \in Process : q # p => op'[q] = Idle
  BY DEF Begin, FollowInv, TypeInv
<1>2. o.kind = kind /\ o.name = n /\ o.text = text /\ o.step = "doc"
  OBVIOUS
<1>3. o # Idle
  BY <1>2 DEF Idle
<1> HIDE DEF o
<1>4. ListInv'
  BY <1>1, <1>2, AllListed DEF ListInv, Process
<1> QED BY <1>1, <1>2, <1>3, <1>4

LEMMA SyncFollows ==
  ASSUME FollowInv, SyncFile \/ SyncListed \/ SyncDelete \/ SyncEnds
  PROVE  (ListInv /\ SyncInv)'
<1> USE DEF FollowInv, SyncInv
<1>1. pc \in {"sync", "purge"} /\ op["worker"] = Idle /\ UNCHANGED <<disk, maps, manifest>>
  BY DEF SyncFile, SyncListed, SyncDelete, SyncEnds, mapping
<1>2. \A p \in Process : op[p] = Idle
  BY <1>1 DEF ListInv, Process
<1>3. \A n \in Names : n \in manifest <=> maps[n] # None
  BY <1>2, AllListed
<1>4. \A n \in Names : ~At("worker", n, {"doc"})
  BY <1>1 DEF At
<1>5. "worker" \in Process /\ "worker" # "ui"
  BY DEF Process
<1>6. CASE SyncFile
  <2>1. PICK n \in todo :
          /\ todo' = todo \ {n}
          /\ IF disk[n] # None /\ disk[n] # maps[n]
             THEN Begin("worker", "save", n, disk[n]) ELSE UNCHANGED op
    BY <1>6 DEF SyncFile
  <2>2. n \in Names /\ pc' = pc /\ pc = "sync"
    BY <1>6 DEF SyncFile, TypeInv
  <2>3. CASE Begin("worker", "save", n, disk[n])
    <3>1. /\ ListInv' /\ op'["worker"] # Idle
          /\ op'["worker"].kind = "save" /\ op'["worker"].name = n
          /\ op'["worker"].text = disk[n] /\ op'["worker"].step = "doc"
      BY <1>1, <1>2, <1>5, <2>2, <2>3, BeginListed
    <3>2. \A m \in Names : m = n => At("worker", m, {"doc"})'
      BY <3>1 DEF At
    <3> QED BY <1>1, <1>4, <2>1, <2>2, <3>1, <3>2
  <2>4. CASE UNCHANGED op /\ (disk[n] = None \/ disk[n] = maps[n])
    <3>1. ListInv'
      BY <1>1, <2>2, <2>4, ListKept
    <3> QED BY <1>1, <1>4, <2>1, <2>2, <2>4, <3>1
  <2> QED BY <2>1, <2>3, <2>4
<1>7. CASE SyncListed
  <2>1. /\ todo' = (manifest \cap Present(maps)) \ Present(disk) /\ pc' = "purge" /\ op' = op
        /\ todo = {} /\ pc = "sync"
    BY <1>7 DEF SyncListed, Goto, mapping
  <2>2. ListInv'
    BY <1>1, <1>2, <2>1, ListKept DEF Process
  <2>3. \A n \in Names : n \in todo' <=> maps[n] # None /\ disk[n] = None
    BY <1>3, <2>1 DEF Present
  <2>4. todo' \subseteq Names
    BY <2>1 DEF Present
  <2>5. \A n \in Names : disk[n] = None \/ maps[n] = disk[n]
    BY <1>4, <2>1
  <2> QED BY <1>1, <2>1, <2>2, <2>3, <2>4, <2>5
<1>8. CASE SyncDelete
  <2>1. PICK n \in todo : todo' = todo \ {n} /\ Begin("worker", "delete", n, None)
    BY <1>8 DEF SyncDelete
  <2>2. n \in Names /\ pc' = pc /\ pc = "purge" /\ disk[n] = None
    BY <1>8 DEF SyncDelete, TypeInv
  <2>3. /\ ListInv' /\ op'["worker"] # Idle
        /\ op'["worker"].kind = "delete" /\ op'["worker"].name = n
        /\ op'["worker"].step = "doc"
    BY <1>1, <1>2, <1>5, <2>1, <2>2, BeginListed
  <2>4. \A m \in Names : m = n => At("worker", m, {"doc"})'
    BY <2>3 DEF At
  <2> QED BY <1>1, <1>4, <2>1, <2>2, <2>3, <2>4
<1>9. CASE SyncEnds
  <2>1. pc' \in {"collections", "down"} /\ op' = op /\ pc = "purge" /\ todo = {}
    BY <1>9 DEF SyncEnds, Goto, mapping
  <2>2. ListInv'
    BY <1>1, <1>2, <2>1, ListKept DEF Process
  <2> QED BY <1>1, <1>4, <2>1, <2>2
<1> QED BY <1>6, <1>7, <1>8, <1>9

LEMMA StartFollows ==
  ASSUME FollowInv,
         \/ Container \/ LoadConfig
         \/ MigrateInputs \/ MigrateOutputs \/ MigrateJob \/ MigrateCheckpoint \/ SlimConfig
         \/ MigrateDefault \/ EmbedMappings \/ Validate \/ LoadJobs
  PROVE  (ListInv /\ SyncInv)'
<1>1. /\ UNCHANGED <<disk, maps, manifest, op>> /\ pc \notin {"ready", "sync", "purge"}
      /\ \/ pc' \notin {"sync", "purge", "collections", "embed"}
         \/ pc' = "sync" /\ todo' = Present(disk)
         \/ pc' = "embed" /\ pc = "collections"
  BY DEF Container, LoadConfig, MigrateInputs, MigrateOutputs, MigrateJob, MigrateCheckpoint,
         SlimConfig, MigrateDefault, EmbedMappings, Validate, LoadJobs, BeginSync, Goto, mapping
<1>2. op["ui"] = Idle /\ op["worker"] = Idle
  BY <1>1 DEF FollowInv, ListInv, TypeInv
<1>3. ListInv'
  BY <1>1, <1>2, ListKept
<1>4. SyncInv'
  BY <1>1, <1>2 DEF FollowInv, SyncInv, Present
<1> QED BY <1>3, <1>4

LEMMA FeedFollows ==
  ASSUME FollowInv, Resume \/ FeedSaves
  PROVE  (ListInv /\ SyncInv)'
<1>1. UNCHANGED <<pc, disk, maps, manifest, op>> /\ pc = "ready"
  BY DEF Resume, FeedSaves, worker, mapping
<1>2. ListInv'
  BY <1>1, ListKept
<1> QED BY <1>1, <1>2 DEF SyncInv

LEMMA UserFollows ==
  ASSUME FollowInv, ~Overlap, ~MapCrash,
         UiMapping \/ EditFile \/ PutConfig \/ DeleteJobs \/ Stop
  PROVE  (ListInv /\ SyncInv)'
<1>1. CASE UiMapping
  <2>1. pc = "ready" /\ op["ui"] = Idle /\ UNCHANGED <<pc, maps, manifest>>
    BY <1>1 DEF UiMapping, worker
  <2>2. \A p \in Process : op[p] = Idle
    BY <2>1 DEF FollowInv, TypeInv, Process
  <2>3. PICK n \in Names : \/ Begin("ui", "save", n, [edit |-> edits', meta |-> FALSE])
                           \/ Begin("ui", "delete", n, None)
    BY <1>1 DEF UiMapping
  <2>4. ListInv'
    BY <2>1, <2>2, <2>3, BeginListed DEF Process
  <2> QED BY <2>1, <2>4 DEF SyncInv
<1>2. CASE EditFile \/ PutConfig \/ DeleteJobs
  <2>1. pc \in {"down", "ready"} /\ UNCHANGED <<pc, maps, manifest, op>>
    BY <1>2 DEF EditFile, PutConfig, DeleteJobs, Quiet, worker, mapping
  <2>2. ListInv'
    BY <2>1, ListKept
  <2> QED BY <2>1, <2>2 DEF SyncInv
<1>3. CASE Stop
  <2>1. /\ op["ui"] = Idle /\ op["worker"] = Idle /\ pc' = "down"
        /\ UNCHANGED <<maps, manifest>> /\ op' = [op EXCEPT !["worker"] = Idle]
    BY <1>3 DEF Stop, Goto
  <2>2. op' = op
    BY <2>1 DEF FollowInv, TypeInv
  <2>3. ListInv'
    BY <2>1, <2>2, ListKept
  <2> QED BY <2>1, <2>3 DEF SyncInv
<1> QED BY <1>1, <1>2, <1>3

LEMMA FollowStep ==
  ASSUME FollowInv, ~Overlap, ~MapCrash, [Next]_startvars
  PROVE  FollowInv'
<1>1. TypeInv'
  BY TypeStep DEF FollowInv
<1>2. ASSUME NEW p \in Process, SaveMapping(p)
      PROVE  (ListInv /\ SyncInv)'
  BY <1>2, DocFollows, ManifestFollows, FileFollows DEF SaveMapping
<1>3. CASE UNCHANGED startvars
  <2>1. UNCHANGED <<pc, todo, disk, maps, manifest, op>>
    BY <1>3 DEF startvars, worker, mapping
  <2> QED BY <1>1, <2>1 DEF FollowInv, ListInv, SyncInv, At
<1> QED BY <1>1, <1>2, <1>3, SyncFollows, StartFollows, FeedFollows, UserFollows
        DEF Next, Start, Process, FollowInv

\* After the sync the mappings, and the manifest, are what the files say: new,
\* changed and deleted ones, whatever crashed and whoever edited between two starts.
THEOREM MappingsAlwaysFollow ==
  ASSUME ~Overlap, ~MapCrash
  PROVE  Spec => []MappingsFollowDisk
<1>1. Init => FollowInv
  <2> SUFFICES ASSUME Init
               PROVE  FollowInv
    OBVIOUS
  <2>1. TypeInv
    BY TypeInit
  <2>2. \A p \in Process : op[p] = Idle
    BY DEF Init
  <2>3. pc = "down" /\ manifest = {} /\ \A n \in Names : maps[n] = None
    BY DEF Init
  <2>4. ListInv
    BY <2>2, <2>3 DEF ListInv, Process
  <2>5. SyncInv
    BY <2>3 DEF SyncInv
  <2> QED BY <2>1, <2>4, <2>5 DEF FollowInv
<1>2. FollowInv /\ [Next]_startvars => FollowInv'
  BY FollowStep
<1>3. FollowInv => MappingsFollowDisk
  <2> SUFFICES ASSUME FollowInv, pc \in {"collections", "embed"}
               PROVE  \A n \in Names : maps[n] = disk[n] /\ (n \in manifest <=> disk[n] # None)
    BY DEF MappingsFollowDisk
  <2>1. \A p \in Process : op[p] = Idle
    BY DEF FollowInv, TypeInv, ListInv, Process
  <2>2. \A n \in Names : n \in manifest <=> maps[n] # None
    BY <2>1, AllListed
  <2> QED BY <2>2 DEF FollowInv, SyncInv
<1> QED BY <1>1, <1>2, <1>3, PTL DEF Spec
=============================================================================
