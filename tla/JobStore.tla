------------------------------ MODULE JobStore ------------------------------
(***************************************************************************)
(* The handlers of the API over the documents of the store: a list of      *)
(* entries is one document that is loaded, changed and saved whole; a      *)
(* source is a document and its name in an index; a job is a document and  *)
(* its checkpoint.                                                         *)
(*                                                                         *)
(* A handler awaits nothing after it has read the request, so a server     *)
(* finishes one before it begins the next; but the worker and the Admin UI *)
(* are two servers on one store, and the last write wins.                  *)
(***************************************************************************)
EXTENDS Naturals, FiniteSets

CONSTANTS
  Servers,    \* processes that serve the API
  Kinds,      \* lists: "input", "output" and "table"
  Ids,        \* ids of entries and names of sources
  Jobs,       \* uuids
  None,       \* model value: no job
  MaxEdits,   \* bound: requests that write; also numbers the versions
  MaxFaults   \* bound: writes that the store refuses

Versions == 1..MaxEdits + 1
JobDocs ==
  [input : Ids, inVersion : Versions, output : Ids, outVersion : Versions,
   name : Versions, mapping : Versions \cup {0}]

\* A job document, and what the API shows of it, is not None.
ASSUME JobStoreAssumption ==
  /\ {"input", "output"} \subseteq Kinds /\ Kinds \subseteq {"input", "output", "table"}
  /\ {MaxEdits, MaxFaults} \subseteq Nat
  /\ None \notin JobDocs
  /\ None \notin [input : Ids, inVersion : Versions, output : Ids, outVersion : Versions,
                   name : Versions]

VARIABLES
  lists,    \* [Kinds -> [Ids -> version, 0: not in the list]]
  source,   \* [Ids -> version of the source document, 0: none]
  index,    \* names in _source_index
  job,      \* [Jobs -> document, or None]
  ckpt,     \* jobs with a checkpoint document
  used,     \* uuids given out
  request,  \* [Servers -> the request in hand]
  wanted,   \* history: [Jobs -> version of the mapping last acknowledged]
  edits,    \* requests so far
  faults    \* refused writes so far

documents == <<lists, source, index, job, ckpt>>
storevars == <<documents, used, request, wanted, edits, faults>>

Idle == [do |-> "nothing"]
Requests ==
  {Idle} \cup [do : {"put", "remove"}, step : {"load", "save"}, kind : Kinds, id : Ids,
               version : Versions, list : [Ids -> Versions \cup {0}]]
         \cup [do : {"source", "unsource"}, step : {"doc", "index"}, id : Ids, version : Versions]
         \cup [do : {"create"}, step : {"input", "output", "job", "ckpt"}, job : Jobs,
               doc : [input : Ids, inVersion : Versions \cup {0}, output : Ids,
                      outVersion : Versions \cup {0}, name : Versions, mapping : {0}]]
         \cup [do : {"rename", "map", "input", "output"}, step : {"load", "copy", "save"},
               job : Jobs, version : Versions, doc : JobDocs \cup {None}]
         \cup [do : {"delete"}, step : {"job", "ckpt"}, job : Jobs]

JobStoreTypeOK ==
  /\ lists \in [Kinds -> [Ids -> Versions \cup {0}]]
  /\ source \in [Ids -> Versions \cup {0}] /\ index \subseteq Ids
  /\ job \in [Jobs -> JobDocs \cup {None}] /\ ckpt \subseteq Jobs
  /\ \A s \in Servers : request[s] \in Requests
  /\ wanted \in [Jobs -> Versions \cup {0}] /\ edits \in 0..MaxEdits /\ faults \in 0..MaxFaults
  \* A uuid names one job for ever.
  /\ {j \in Jobs : job[j] # None} \cup ckpt \subseteq used

\* An input and an output of each id; no source and no job yet.
Init ==
  /\ lists = [k \in Kinds |-> [i \in Ids |-> IF k = "table" THEN 0 ELSE 1]]
  /\ source = [i \in Ids |-> 0] /\ index = {}
  /\ job = [j \in Jobs |-> None] /\ ckpt = {} /\ used = {}
  /\ request = [s \in Servers |-> Idle]
  /\ wanted = [j \in Jobs |-> 0] /\ edits = 0 /\ faults = 0

-----------------------------------------------------------------------------
(* A request arrives. *)

Accept(s, r) == request' = [request EXCEPT ![s] = r]
Version == edits + 2

Receive(s) ==
  /\ request[s] = Idle /\ edits < MaxEdits /\ edits' = edits + 1
  /\ \/ \E d \in {"put", "remove"} : \E k \in Kinds : \E i \in Ids :
          /\ Accept(s, [do |-> d, step |-> "load", kind |-> k, id |-> i, version |-> Version,
                        list |-> [x \in Ids |-> 0]])
          /\ UNCHANGED used
     \/ \E d \in {"source", "unsource"} : \E i \in Ids :
          /\ Accept(s, [do |-> d, step |-> "doc", id |-> i, version |-> Version])
          /\ UNCHANGED used
     \/ \E i, o \in Ids : \E j \in Jobs \ used :
          /\ Accept(s, [do |-> "create", step |-> "input", job |-> j,
                        doc |-> [input |-> i, inVersion |-> 0, output |-> o, outVersion |-> 0,
                                 name |-> Version, mapping |-> 0]])
          /\ used' = used \cup {j}
     \/ \E d \in {"rename", "map", "input", "output"} : \E j \in used :
          /\ Accept(s, [do |-> d, step |-> "load", job |-> j, version |-> Version, doc |-> None])
          /\ UNCHANGED used
     \/ \E j \in used :
          /\ job[j] # None
          /\ Accept(s, [do |-> "delete", step |-> "job", job |-> j])
          /\ UNCHANGED used
  /\ UNCHANGED <<documents, wanted, faults>>

\* POST of a whole list: nothing is loaded.
PostList(s) ==
  /\ request[s] = Idle /\ edits < MaxEdits /\ edits' = edits + 1
  /\ \E k \in Kinds : \E I \in SUBSET Ids :
       lists' = [lists EXCEPT ![k] = [i \in Ids |-> IF i \in I THEN Version ELSE 0]]
  /\ UNCHANGED <<source, index, job, ckpt, used, request, wanted, faults>>

-----------------------------------------------------------------------------
(* Steps of the handlers. *)

At(s, D, step) == request[s] # Idle /\ request[s].do \in D /\ request[s].step = step
Step(s, step) == request' = [request EXCEPT ![s].step = step]
Answer(s) == request' = [request EXCEPT ![s] = Idle]
Kept == UNCHANGED <<used, wanted, edits, faults>>

\* PUT and DELETE of an entry load the list.  An input or output that is not in
\* it cannot be put, nor a table removed.
LoadList(s) ==
  /\ At(s, {"put", "remove"}, "load")
  /\ LET r == request[s]
         refused == /\ lists[r.kind][r.id] = 0
                    /\ (r.do = "put") # (r.kind = "table")
     IN  IF refused THEN Answer(s)
         ELSE request' = [request EXCEPT ![s].step = "save", ![s].list = lists[r.kind]]
  /\ UNCHANGED documents /\ Kept

SaveList(s) ==
  /\ At(s, {"put", "remove"}, "save")
  /\ LET r == request[s]
     IN  lists' = [lists EXCEPT ![r.kind] =
                     [r.list EXCEPT ![r.id] = IF r.do = "put" THEN r.version ELSE 0]]
  /\ Answer(s)
  /\ UNCHANGED <<source, index, job, ckpt>> /\ Kept

\* A source: the document, then the index.
SourceDoc(s) ==
  /\ At(s, {"source", "unsource"}, "doc")
  /\ LET r == request[s]
     IN  IF r.do = "unsource" /\ source[r.id] = 0 THEN Answer(s) /\ UNCHANGED source
         ELSE /\ source' = [source EXCEPT ![r.id] = IF r.do = "source" THEN r.version ELSE 0]
              /\ Step(s, "index")
  /\ UNCHANGED <<lists, index, job, ckpt>> /\ Kept

SourceIndex(s) ==
  /\ At(s, {"source", "unsource"}, "index")
  /\ index' = IF request[s].do = "source" THEN index \cup {request[s].id}
              ELSE index \ {request[s].id}
  /\ Answer(s)
  /\ UNCHANGED <<lists, source, job, ckpt>> /\ Kept

\* clear_all_sources deletes those that load_sources lists.
ClearSources(s) ==
  /\ request[s] = Idle
  /\ \E i \in index :
       /\ source[i] # 0
       /\ Accept(s, [do |-> "unsource", step |-> "doc", id |-> i, version |-> 1])
  /\ UNCHANGED documents /\ Kept

\* Slip: what the entry's list does not have is copied too.
CopyNewUnseen(s, side, next) ==
  /\ At(s, {"create"}, side)
  /\ LET d == request[s].doc
         v == lists[side][IF side = "input" THEN d.input ELSE d.output]
     IN  request' = [request EXCEPT
           ![s].step = next,
           ![s].doc = IF side = "input" THEN [d EXCEPT !.inVersion = v]
                                        ELSE [d EXCEPT !.outVersion = v]]
  /\ UNCHANGED documents /\ Kept

\* A new job copies the input and the output it names, if they exist.
CopyNew(s, side, next) ==
  /\ At(s, {"create"}, side)
  /\ LET d == request[s].doc
         v == lists[side][IF side = "input" THEN d.input ELSE d.output]
     IN  IF v = 0 THEN Answer(s)
         ELSE request' = [request EXCEPT
                ![s].step = next,
                ![s].doc = IF side = "input" THEN [d EXCEPT !.inVersion = v]
                                             ELSE [d EXCEPT !.outVersion = v]]
  /\ UNCHANGED documents /\ Kept

\* save_job writes the fields it knows; "mapping" is not one of them.
Saved(j, d) == [d EXCEPT !.mapping = IF job[j] = None THEN 0 ELSE job[j].mapping]

SaveNewJob(s) ==
  /\ At(s, {"create"}, "job")
  /\ job' = [job EXCEPT ![request[s].job] = Saved(request[s].job, request[s].doc)]
  /\ Step(s, "ckpt")
  /\ UNCHANGED <<lists, source, index, ckpt>> /\ Kept

SaveCheckpoint(s) ==
  /\ At(s, {"create"}, "ckpt")
  /\ ckpt' = ckpt \cup {request[s].job} /\ Answer(s)
  /\ UNCHANGED <<lists, source, index, job>> /\ Kept

\* The other requests about a job load it ...
LoadJob(s) ==
  /\ At(s, {"rename", "map", "input", "output"}, "load")
  /\ LET r == request[s] d == job[r.job]
     IN  IF d = None THEN Answer(s)
         ELSE request' = [request EXCEPT
                ![s].step = IF r.do \in {"input", "output"} THEN "copy" ELSE "save",
                ![s].doc = CASE r.do = "rename" -> [d EXCEPT !.name = r.version]
                             [] r.do = "map" -> [d EXCEPT !.mapping = r.version]
                             [] OTHER -> d]
  /\ UNCHANGED documents /\ Kept

\* Slip: both refreshes copy from the outputs.
CopyOutputAgain(s) ==
  /\ At(s, {"input", "output"}, "copy")
  /\ LET r == request[s] d == r.doc
         v == lists["output"][IF r.do = "input" THEN d.input ELSE d.output]
     IN  IF v = 0 THEN Answer(s)
         ELSE request' = [request EXCEPT
                ![s].step = "save",
                ![s].doc = IF r.do = "input" THEN [d EXCEPT !.inVersion = v]
                                             ELSE [d EXCEPT !.outVersion = v]]
  /\ UNCHANGED documents /\ Kept

\* ... refresh-input and refresh-output copy the entry again ...
CopyAgain(s) ==
  /\ At(s, {"input", "output"}, "copy")
  /\ LET r == request[s] d == r.doc
         v == lists[r.do][IF r.do = "input" THEN d.input ELSE d.output]
     IN  IF v = 0 THEN Answer(s)
         ELSE request' = [request EXCEPT
                ![s].step = "save",
                ![s].doc = IF r.do = "input" THEN [d EXCEPT !.inVersion = v]
                                             ELSE [d EXCEPT !.outVersion = v]]
  /\ UNCHANGED documents /\ Kept

\* ... and save it, whether or not it is still there.
SaveJob(s) ==
  /\ At(s, {"rename", "map", "input", "output"}, "save")
  /\ LET r == request[s]
     IN  /\ job' = [job EXCEPT ![r.job] = Saved(r.job, r.doc)]
         /\ wanted' = IF r.do = "map" THEN [wanted EXCEPT ![r.job] = r.version] ELSE wanted
  /\ Answer(s)
  /\ UNCHANGED <<lists, source, index, ckpt, used, edits, faults>>

PurgeJob(s) ==
  /\ At(s, {"delete"}, "job")
  /\ job' = [job EXCEPT ![request[s].job] = None]
  /\ wanted' = [wanted EXCEPT ![request[s].job] = 0]
  /\ Step(s, "ckpt")
  /\ UNCHANGED <<lists, source, index, ckpt, used, edits, faults>>

PurgeCheckpoint(s) ==
  /\ At(s, {"delete"}, "ckpt")
  /\ ckpt' = ckpt \ {request[s].job} /\ Answer(s)
  /\ UNCHANGED <<lists, source, index, job>> /\ Kept

\* The store refuses a write, or the server dies: an error, and nothing is taken
\* back.
WriteFails(s) ==
  /\ request[s] # Idle /\ request[s].step \in {"save", "doc", "index", "job", "ckpt"}
  /\ faults < MaxFaults /\ faults' = faults + 1
  /\ Answer(s)
  /\ UNCHANGED <<documents, used, wanted, edits>>

Handle(s) ==
  \/ LoadList(s) \/ SaveList(s) \/ SourceDoc(s) \/ SourceIndex(s)
  \/ CopyNew(s, "input", "output") \/ CopyNew(s, "output", "job")
  \/ SaveNewJob(s) \/ SaveCheckpoint(s)
  \/ LoadJob(s) \/ CopyAgain(s) \/ SaveJob(s) \/ PurgeJob(s) \/ PurgeCheckpoint(s)

Next ==
  \E s \in Servers :
    \/ Receive(s) \/ PostList(s) \/ ClearSources(s) \/ Handle(s) \/ WriteFails(s)

Spec == Init /\ [][Next]_storevars

-----------------------------------------------------------------------------
(* Properties. *)

Promise == INSTANCE Registry WITH
  entries <- lists,
  sources <- [i \in Ids |-> IF i \in index THEN source[i] ELSE 0],
  jobs <- [j \in Jobs |->
             IF job[j] = None THEN None
             ELSE [input |-> job[j].input, inVersion |-> job[j].inVersion,
                   output |-> job[j].output, outVersion |-> job[j].outVersion,
                   name |-> job[j].name]]

\* Each request has the effect the API names and no other.
KeepsRegistry == Promise!Spec

\* "PUT /api/v2/jobs/{id}/mapping - Update only the mapping on an existing job"
\* (api_v2.py): a mapping that was acknowledged is in the job.
MappingStored == \A j \in Jobs : job[j] # None /\ wanted[j] # 0 => job[j].mapping = wanted[j]

\* "Delete a job and its checkpoint" (api_v2.py), and creating both: when no
\* request is in hand, the jobs are those with a checkpoint.
CheckpointPerJob ==
  (\A s \in Servers : request[s] = Idle) => ckpt = {j \in Jobs : job[j] # None}
=============================================================================
