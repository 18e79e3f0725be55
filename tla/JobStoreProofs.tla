--------------------------- MODULE JobStoreProofs ---------------------------
(***************************************************************************)
(* The store of jobs: its documents keep their types, with any number of   *)
(* servers; and one server alone implements Registry.                      *)
(***************************************************************************)
EXTENDS JobStore, TLAPS

\* The requests of each family of handlers.
ListRequests ==
  [do : {"put", "remove"}, step : {"load", "save"}, kind : Kinds, id : Ids,
   version : Versions, list : [Ids -> Versions \cup {0}]]
SourceRequests ==
  [do : {"source", "unsource"}, step : {"doc", "index"}, id : Ids, version : Versions]
NewDocs ==
  [input : Ids, inVersion : Versions \cup {0}, output : Ids,
   outVersion : Versions \cup {0}, name : Versions, mapping : {0}]
CreateRequests ==
  [do : {"create"}, step : {"input", "output", "job", "ckpt"}, job : Jobs, doc : NewDocs]
JobRequests ==
  [do : {"rename", "map", "input", "output"}, step : {"load", "copy", "save"},
   job : Jobs, version : Versions, doc : JobDocs \cup {None}]
DeleteRequests == [do : {"delete"}, step : {"job", "ckpt"}, job : Jobs]

\* What a request has of the store, when the ids in U have been given out: its
\* job is one of them, and the parts that it copies next are there.
RequestOK(r, U) ==
  /\ r.do = "create" =>
       /\ r.job \in U
       /\ r.step \in {"output", "job"} => r.doc.inVersion \in Versions
       /\ r.step = "job" => r.doc.outVersion \in Versions
  /\ r.do \in {"rename", "map", "input", "output"} =>
       r.job \in U /\ (r.step # "load" => r.doc \in JobDocs)
  /\ r.do = "delete" => r.job \in U

DocumentsType ==
  /\ lists \in [Kinds -> [Ids -> Versions \cup {0}]]
  /\ source \in [Ids -> Versions \cup {0}] /\ index \subseteq Ids
  /\ job \in [Jobs -> JobDocs \cup {None}] /\ ckpt \subseteq Jobs
CountersType ==
  wanted \in [Jobs -> Versions \cup {0}] /\ edits \in 0..MaxEdits /\ faults \in 0..MaxFaults
UsedInv == {j \in Jobs : job[j] # None} \cup ckpt \subseteq used /\ used \subseteq Jobs
RequestInv ==
  /\ request \in [Servers -> Requests]
  /\ \A s \in Servers : RequestOK(request[s], used)

TypeInv == DocumentsType /\ CountersType /\ UsedInv /\ RequestInv

-----------------------------------------------------------------------------
(* Requests. *)

LEMMA RequestFamilies ==
  /\ Requests = {Idle} \cup ListRequests \cup SourceRequests \cup CreateRequests
                       \cup JobRequests \cup DeleteRequests
  /\ \A r \in ListRequests : r.do \in {"put", "remove"} /\ r # Idle
  /\ \A r \in SourceRequests : r.do \in {"source", "unsource"} /\ r # Idle
  /\ \A r \in CreateRequests : r.do = "create" /\ r # Idle
  /\ \A r \in JobRequests : r.do \in {"rename", "map", "input", "output"} /\ r # Idle
  /\ \A r \in DeleteRequests : r.do = "delete" /\ r # Idle
  /\ Idle.do = "nothing"
<1>1. Requests = {Idle} \cup ListRequests \cup SourceRequests \cup CreateRequests
                        \cup JobRequests \cup DeleteRequests
  BY Zenon DEF Requests, ListRequests, SourceRequests, CreateRequests, NewDocs, JobRequests,
     DeleteRequests
<1>2. Idle.do = "nothing"
  BY DEF Idle
<1>3. \A r \in ListRequests : r.do \in {"put", "remove"}
  BY DEF ListRequests
<1>4. \A r \in SourceRequests : r.do \in {"source", "unsource"}
  BY DEF SourceRequests
<1>5. \A r \in CreateRequests : r.do = "create"
  BY DEF CreateRequests
<1>6. \A r \in JobRequests : r.do \in {"rename", "map", "input", "output"}
  BY DEF JobRequests
<1>7. \A r \in DeleteRequests : r.do = "delete"
  BY DEF DeleteRequests
<1> QED BY <1>1, <1>2, <1>3, <1>4, <1>5, <1>6, <1>7

\* What a request asks for tells its family.
LEMMA RequestFamily ==
  ASSUME NEW r \in Requests
  PROVE  /\ r.do \in {"put", "remove"} => r \in ListRequests
         /\ r.do \in {"source", "unsource"} => r \in SourceRequests
         /\ r.do = "create" => r \in CreateRequests
         /\ r.do \in {"rename", "map", "input", "output"} => r \in JobRequests
         /\ r.do = "delete" => r \in DeleteRequests
BY RequestFamilies

\* A request in the place of another.
LEMMA NewRequest ==
  ASSUME RequestInv, NEW s \in Servers, NEW r \in Requests, RequestOK(r, used'),
         request' = [request EXCEPT ![s] = r], used \subseteq used'
  PROVE  RequestInv'
<1>1. request' \in [Servers -> Requests]
  BY DEF RequestInv
<1>2. ASSUME NEW t \in Servers PROVE RequestOK(request'[t], used')
  <2>1. CASE t = s
    BY <2>1 DEF RequestInv
  <2>2. CASE t # s
    <3>1. request'[t] = request[t] /\ RequestOK(request[t], used)
      BY <2>2 DEF RequestInv
    <3> QED BY <3>1 DEF RequestOK
  <2> QED BY <2>1, <2>2
<1> QED BY <1>1, <1>2 DEF RequestInv

LEMMA AnswerKeeps ==
  ASSUME RequestInv, NEW s \in Servers, Answer(s), used' = used
  PROVE  RequestInv'
<1>1. Idle \in Requests /\ RequestOK(Idle, used')
  BY RequestFamilies DEF RequestOK
<1> QED BY <1>1, NewRequest DEF Answer

-----------------------------------------------------------------------------
(* Each handler keeps the types. *)

LEMMA VersionType ==
  TypeInv /\ edits < MaxEdits => Version \in Versions /\ edits + 1 \in 0..MaxEdits
BY JobStoreAssumption DEF TypeInv, CountersType, Version, Versions

LEMMA ReceiveKeeps == ASSUME TypeInv, NEW s \in Servers, Receive(s) PROVE TypeInv'
<1> USE DEF TypeInv
<1>0. edits < MaxEdits /\ edits' = edits + 1 /\ UNCHANGED <<documents, wanted, faults>>
  BY DEF Receive
<1>1. Version \in Versions /\ DocumentsType' /\ CountersType'
  BY <1>0, VersionType DEF DocumentsType, CountersType, documents
<1>2. used \subseteq used' /\ used' \subseteq Jobs => UsedInv'
  BY <1>0 DEF UsedInv, documents
<1>3. ASSUME NEW r \in Requests, RequestOK(r, used'), Accept(s, r),
             used \subseteq used', used' \subseteq Jobs
      PROVE  UsedInv' /\ RequestInv'
  BY <1>2, <1>3, NewRequest DEF Accept
<1>4. used \subseteq Jobs
  BY DEF UsedInv
<1>5. CASE \E d \in {"put", "remove"} : \E k \in Kinds : \E i \in Ids :
             /\ Accept(s, [do |-> d, step |-> "load", kind |-> k, id |-> i, version |-> Version,
                           list |-> [x \in Ids |-> 0]])
             /\ UNCHANGED used
  <2>1. PICK d \in {"put", "remove"}, k \in Kinds, i \in Ids :
             /\ Accept(s, [do |-> d, step |-> "load", kind |-> k, id |-> i, version |-> Version,
                           list |-> [x \in Ids |-> 0]])
             /\ UNCHANGED used
    BY <1>5
  <2> DEFINE r == [do |-> d, step |-> "load", kind |-> k, id |-> i, version |-> Version,
                   list |-> [x \in Ids |-> 0]]
  <2>2. r \in ListRequests /\ r.do = d
    BY <1>1 DEF ListRequests
  <2>3. r \in Requests /\ RequestOK(r, used')
    BY <2>2, RequestFamilies DEF RequestOK
  <2> QED BY <1>1, <1>3, <1>4, <2>1, <2>3
<1>6. CASE \E d \in {"source", "unsource"} : \E i \in Ids :
             /\ Accept(s, [do |-> d, step |-> "doc", id |-> i, version |-> Version])
             /\ UNCHANGED used
  <2>1. PICK d \in {"source", "unsource"}, i \in Ids :
             /\ Accept(s, [do |-> d, step |-> "doc", id |-> i, version |-> Version])
             /\ UNCHANGED used
    BY <1>6
  <2> DEFINE r == [do |-> d, step |-> "doc", id |-> i, version |-> Version]
  <2>2. r \in SourceRequests /\ r.do = d
    BY <1>1 DEF SourceRequests
  <2>3. r \in Requests /\ RequestOK(r, used')
    BY <2>2, RequestFamilies DEF RequestOK
  <2> QED BY <1>1, <1>3, <1>4, <2>1, <2>3
<1>7. CASE \E i, o \in Ids : \E j \in Jobs \ used :
             /\ Accept(s, [do |-> "create", step |-> "input", job |-> j,
                           doc |-> [input |-> i, inVersion |-> 0, output |-> o, outVersion |-> 0,
                                    name |-> Version, mapping |-> 0]])
             /\ used' = used \cup {j}
  <2>1. PICK i \in Ids, o \in Ids, j \in Jobs \ used :
             /\ Accept(s, [do |-> "create", step |-> "input", job |-> j,
                           doc |-> [input |-> i, inVersion |-> 0, output |-> o, outVersion |-> 0,
                                    name |-> Version, mapping |-> 0]])
             /\ used' = used \cup {j}
    BY <1>7
  <2> DEFINE d == [input |-> i, inVersion |-> 0, output |-> o, outVersion |-> 0,
                   name |-> Version, mapping |-> 0]
             r == [do |-> "create", step |-> "input", job |-> j, doc |-> d]
  <2>2. d \in NewDocs
    BY <1>1 DEF NewDocs
  <2> HIDE DEF d
  <2>3. r \in CreateRequests /\ r.do = "create" /\ r.step = "input" /\ r.job = j
    BY <2>2 DEF CreateRequests
  <2>4. r \in Requests /\ RequestOK(r, used')
    BY <2>1, <2>3, RequestFamilies DEF RequestOK
  <2>5. Accept(s, r)
    BY <2>1 DEF d
  <2> QED BY <1>1, <1>3, <1>4, <2>1, <2>4, <2>5
<1>8. CASE \E d \in {"rename", "map", "input", "output"} : \E j \in used :
             /\ Accept(s, [do |-> d, step |-> "load", job |-> j, version |-> Version, doc |-> None])
             /\ UNCHANGED used
  <2>1. PICK d \in {"rename", "map", "input", "output"}, j \in used :
             /\ Accept(s, [do |-> d, step |-> "load", job |-> j, version |-> Version, doc |-> None])
             /\ UNCHANGED used
    BY <1>8
  <2> DEFINE r == [do |-> d, step |-> "load", job |-> j, version |-> Version, doc |-> None]
  <2>2. r \in JobRequests /\ r.do = d /\ r.step = "load" /\ r.job = j
    BY <1>1, <1>4 DEF JobRequests
  <2>3. r \in Requests /\ RequestOK(r, used')
    BY <2>1, <2>2, RequestFamilies DEF RequestOK
  <2> QED BY <1>1, <1>3, <1>4, <2>1, <2>3
<1>9. CASE \E j \in used :
             /\ job[j] # None
             /\ Accept(s, [do |-> "delete", step |-> "job", job |-> j])
             /\ UNCHANGED used
  <2>1. PICK j \in used :
             Accept(s, [do |-> "delete", step |-> "job", job |-> j]) /\ UNCHANGED used
    BY <1>9
  <2> DEFINE r == [do |-> "delete", step |-> "job", job |-> j]
  <2>2. r \in DeleteRequests /\ r.do = "delete" /\ r.job = j
    BY <1>4 DEF DeleteRequests
  <2>3. r \in Requests /\ RequestOK(r, used')
    BY <2>1, <2>2, RequestFamilies DEF RequestOK
  <2> QED BY <1>1, <1>3, <1>4, <2>1, <2>3
<1> QED BY <1>5, <1>6, <1>7, <1>8, <1>9 DEF Receive

\* A list that is posted whole; a source that clear_all_sources deletes.
LEMMA OutsideKeeps ==
  ASSUME TypeInv, NEW s \in Servers, PostList(s) \/ ClearSources(s)
  PROVE  TypeInv'
<1> USE DEF TypeInv
<1>1. CASE PostList(s)
  <2>1. Version \in Versions /\ CountersType'
    BY <1>1, VersionType DEF PostList, CountersType
  <2>2. PICK k \in Kinds, I \in SUBSET Ids :
          lists' = [lists EXCEPT ![k] = [i \in Ids |-> IF i \in I THEN Version ELSE 0]]
    BY <1>1 DEF PostList
  <2>3. lists' \in [Kinds -> [Ids -> Versions \cup {0}]]
    BY <2>1, <2>2 DEF DocumentsType
  <2> QED BY <1>1, <2>1, <2>3 DEF PostList, DocumentsType, UsedInv, RequestInv
<1>2. CASE ClearSources(s)
  <2>1. PICK i \in index :
          Accept(s, [do |-> "unsource", step |-> "doc", id |-> i, version |-> 1])
    BY <1>2 DEF ClearSources
  <2> DEFINE r == [do |-> "unsource", step |-> "doc", id |-> i, version |-> 1]
  <2>2. i \in Ids /\ 1 \in Versions
    BY JobStoreAssumption DEF DocumentsType, Versions
  <2>3. r \in SourceRequests /\ r.do = "unsource"
    BY <2>2 DEF SourceRequests
  <2>4. r \in Requests /\ RequestOK(r, used')
    BY <2>3, RequestFamilies DEF RequestOK
  <2>5. RequestInv'
    BY <1>2, <2>1, <2>4, NewRequest DEF Accept, ClearSources, Kept
  <2> QED BY <1>2, <2>5 DEF ClearSources, Kept, documents, DocumentsType, CountersType, UsedInv
<1> QED BY <1>1, <1>2

\* Lists and sources.
LEMMA ListsKeep ==
  ASSUME TypeInv, NEW s \in Servers, LoadList(s) \/ SaveList(s)
  PROVE  TypeInv'
<1> USE DEF TypeInv
<1> DEFINE r == request[s]
<1>1. r \in ListRequests
  BY RequestFamily DEF LoadList, SaveList, At, RequestInv
<1>2. r.kind \in Kinds /\ r.id \in Ids /\ r.version \in Versions
      /\ r.list \in [Ids -> Versions \cup {0}]
  BY <1>1 DEF ListRequests
<1>3. CASE LoadList(s)
  <2> DEFINE q == [r EXCEPT !.step = "save", !.list = lists[r.kind]]
  <2>1. q \in ListRequests
    BY <1>1, <1>2 DEF ListRequests, DocumentsType
  <2>2. q \in Requests /\ RequestOK(q, used')
    BY <2>1, RequestFamilies DEF RequestOK
  <2>3. Answer(s) \/ request' = [request EXCEPT ![s] = q]
    BY <1>3 DEF LoadList
  <2>4. RequestInv'
    BY <1>3, <2>2, <2>3, NewRequest, AnswerKeeps DEF LoadList, Kept
  <2> QED BY <1>3, <2>4 DEF LoadList, Kept, documents, DocumentsType, CountersType, UsedInv
<1>4. CASE SaveList(s)
  <2>1. PICK v \in Versions \cup {0} :
          lists' = [lists EXCEPT ![r.kind] = [r.list EXCEPT ![r.id] = v]]
    BY <1>2, <1>4 DEF SaveList
  <2>2. lists' \in [Kinds -> [Ids -> Versions \cup {0}]]
    BY <1>2, <2>1 DEF DocumentsType
  <2>3. RequestInv'
    BY <1>4, AnswerKeeps DEF SaveList, Kept
  <2> QED BY <1>4, <2>2, <2>3 DEF SaveList, Kept, DocumentsType, CountersType, UsedInv
<1> QED BY <1>3, <1>4

LEMMA SourcesKeep ==
  ASSUME TypeInv, NEW s \in Servers, SourceDoc(s) \/ SourceIndex(s)
  PROVE  TypeInv'
<1> USE DEF TypeInv
<1> DEFINE r == request[s]
<1>1. r \in SourceRequests
  BY RequestFamily DEF SourceDoc, SourceIndex, At, RequestInv
<1>2. r.id \in Ids /\ r.version \in Versions
  BY <1>1 DEF SourceRequests
<1>3. CASE SourceDoc(s)
  <2> DEFINE q == [r EXCEPT !.step = "index"]
  <2>1. q \in SourceRequests
    BY <1>1 DEF SourceRequests
  <2>2. q \in Requests /\ RequestOK(q, used')
    BY <2>1, RequestFamilies DEF RequestOK
  <2>3. Answer(s) \/ request' = [request EXCEPT ![s] = q]
    BY <1>3 DEF SourceDoc, Step
  <2>4. RequestInv'
    BY <1>3, <2>2, <2>3, NewRequest, AnswerKeeps DEF SourceDoc, Kept
  <2>5. source' \in [Ids -> Versions \cup {0}]
    BY <1>2, <1>3 DEF SourceDoc, DocumentsType
  <2> QED BY <1>3, <2>4, <2>5 DEF SourceDoc, Kept, DocumentsType, CountersType, UsedInv
<1>4. CASE SourceIndex(s)
  <2>1. index' \subseteq Ids
    BY <1>2, <1>4 DEF SourceIndex, DocumentsType
  <2>2. RequestInv'
    BY <1>4, AnswerKeeps DEF SourceIndex, Kept
  <2> QED BY <1>4, <2>1, <2>2 DEF SourceIndex, Kept, DocumentsType, CountersType, UsedInv
<1> QED BY <1>3, <1>4

\* A new job copies the versions that are in the lists.
LEMMA CopyNewKeeps ==
  ASSUME TypeInv, NEW s \in Servers,
         CopyNew(s, "input", "output") \/ CopyNew(s, "output", "job")
  PROVE  TypeInv'
<1> USE DEF TypeInv
<1> DEFINE r == request[s]
           d == r.doc
<1>1. r \in CreateRequests /\ RequestOK(r, used)
  BY RequestFamily DEF CopyNew, At, RequestInv
<1>2. r.job \in used /\ d \in NewDocs /\ r.do = "create"
  BY <1>1 DEF CreateRequests, RequestOK
<1>3. used' = used /\ DocumentsType' /\ CountersType' /\ UsedInv'
  BY DEF CopyNew, Kept, documents, DocumentsType, CountersType, UsedInv
<1>4. CASE CopyNew(s, "input", "output")
  <2> DEFINE v == lists["input"][d.input]
             e == [d EXCEPT !.inVersion = v]
             q == [r EXCEPT !.step = "output", !.doc = e]
  <2>1. v \in Versions \cup {0}
    BY <1>2, JobStoreAssumption DEF NewDocs, DocumentsType
  <2>2. Answer(s) \/ (v # 0 /\ request' = [request EXCEPT ![s] = q])
    BY <1>4 DEF CopyNew
  <2>3. ASSUME v # 0 PROVE q \in Requests /\ RequestOK(q, used)
    <3>1. e \in NewDocs /\ e.inVersion \in Versions
      BY <1>2, <2>1, <2>3 DEF NewDocs
    <3> HIDE DEF e
    <3>2. q \in CreateRequests /\ q.do = "create" /\ q.step = "output" /\ q.job = r.job
          /\ q.doc = e
      BY <1>1, <3>1 DEF CreateRequests
    <3> QED BY <1>2, <3>1, <3>2, RequestFamilies DEF RequestOK
  <2> QED BY <1>3, <2>2, <2>3, NewRequest, AnswerKeeps
<1>5. CASE CopyNew(s, "output", "job")
  <2> DEFINE v == lists["output"][d.output]
             e == [d EXCEPT !.outVersion = v]
             q == [r EXCEPT !.step = "job", !.doc = e]
  <2>1. v \in Versions \cup {0}
    BY <1>2, JobStoreAssumption DEF NewDocs, DocumentsType
  <2>2. Answer(s) \/ (v # 0 /\ request' = [request EXCEPT ![s] = q])
    BY <1>5 DEF CopyNew
  <2>3. ASSUME v # 0 PROVE q \in Requests /\ RequestOK(q, used)
    <3>0. d.inVersion \in Versions
      BY <1>1, <1>5 DEF CopyNew, At, RequestOK
    <3>1. e \in NewDocs /\ e.inVersion \in Versions /\ e.outVersion \in Versions
      BY <1>2, <2>1, <2>3, <3>0 DEF NewDocs
    <3> HIDE DEF e
    <3>2. q \in CreateRequests /\ q.do = "create" /\ q.step = "job" /\ q.job = r.job
          /\ q.doc = e
      BY <1>1, <3>1 DEF CreateRequests
    <3> QED BY <1>2, <3>1, <3>2, RequestFamilies DEF RequestOK
  <2> QED BY <1>3, <2>2, <2>3, NewRequest, AnswerKeeps
<1> QED BY <1>4, <1>5

\* save_job keeps the mapping that is there.
LEMMA SavedType ==
  ASSUME TypeInv, NEW j \in Jobs,
         NEW d \in [input : Ids, inVersion : Versions, output : Ids, outVersion : Versions,
                    name : Versions, mapping : Versions \cup {0}]
  PROVE  Saved(j, d) \in JobDocs
<1>1. (IF job[j] = None THEN 0 ELSE job[j].mapping) \in Versions \cup {0}
  BY DEF TypeInv, DocumentsType, JobDocs
<1> QED BY <1>1 DEF Saved, JobDocs

LEMMA CreatesKeep ==
  ASSUME TypeInv, NEW s \in Servers, SaveNewJob(s) \/ SaveCheckpoint(s)
  PROVE  TypeInv'
<1> USE DEF TypeInv
<1> DEFINE r == request[s]
           d == r.doc
<1>1. r \in CreateRequests /\ RequestOK(r, used)
  BY RequestFamily DEF SaveNewJob, SaveCheckpoint, At, RequestInv
<1>2. r.job \in used /\ r.job \in Jobs /\ d \in NewDocs /\ r.do = "create"
  BY <1>1 DEF CreateRequests, RequestOK
<1>3. CASE SaveNewJob(s)
  <2> DEFINE q == [r EXCEPT !.step = "ckpt"]
  <2>1. d.inVersion \in Versions /\ d.outVersion \in Versions
    BY <1>1, <1>3 DEF SaveNewJob, At, RequestOK
  <2>2. d \in JobDocs
    BY <1>2, <2>1 DEF NewDocs, JobDocs
  <2>3. Saved(r.job, d) \in JobDocs
    BY <1>2, <2>2, SavedType DEF JobDocs
  <2>4. job' \in [Jobs -> JobDocs \cup {None}] /\ \A j \in Jobs : j # r.job => job'[j] = job[j]
    BY <1>2, <1>3, <2>3 DEF SaveNewJob, DocumentsType
  <2>5. q \in CreateRequests /\ q.do = "create" /\ q.step = "ckpt" /\ q.job = r.job
    BY <1>1 DEF CreateRequests
  <2>6. q \in Requests /\ RequestOK(q, used)
    BY <1>2, <2>5, RequestFamilies DEF RequestOK
  <2>7. RequestInv'
    BY <1>3, <2>6, NewRequest DEF SaveNewJob, Step, Kept
  <2> QED BY <1>2, <1>3, <2>4, <2>7 DEF SaveNewJob, Kept, DocumentsType, CountersType, UsedInv
<1>4. CASE SaveCheckpoint(s)
  <2>1. RequestInv'
    BY <1>4, AnswerKeeps DEF SaveCheckpoint, Kept
  <2> QED BY <1>2, <1>4, <2>1 DEF SaveCheckpoint, Kept, DocumentsType, CountersType, UsedInv
<1> QED BY <1>3, <1>4

\* The requests about a job there is, or was.
LEMMA LoadJobKeeps == ASSUME TypeInv, NEW s \in Servers, LoadJob(s) PROVE TypeInv'
<1> USE DEF TypeInv
<1> DEFINE r == request[s]
           d == job[r.job]
           e == CASE r.do = "rename" -> [d EXCEPT !.name = r.version]
                  [] r.do = "map" -> [d EXCEPT !.mapping = r.version]
                  [] OTHER -> d
           step == IF r.do \in {"input", "output"} THEN "copy" ELSE "save"
           q == [r EXCEPT !.step = step, !.doc = e]
<1>1. r \in JobRequests /\ RequestOK(r, used)
  BY RequestFamily DEF LoadJob, At, RequestInv
<1>2. r.job \in used /\ r.job \in Jobs /\ r.version \in Versions
      /\ r.do \in {"rename", "map", "input", "output"}
  BY <1>1 DEF JobRequests, RequestOK
<1>3. used' = used /\ DocumentsType' /\ CountersType' /\ UsedInv'
  BY DEF LoadJob, Kept, documents, DocumentsType, CountersType, UsedInv
<1>4. Answer(s) \/ (d # None /\ request' = [request EXCEPT ![s] = q])
  BY DEF LoadJob
<1>5. ASSUME d # None PROVE q \in Requests /\ RequestOK(q, used)
  <2>1. d \in JobDocs
    BY <1>2, <1>5 DEF DocumentsType
  <2>2. e \in JobDocs
    BY <1>2, <2>1 DEF JobDocs
  <2>3. step \in {"load", "copy", "save"}
    OBVIOUS
  <2> HIDE DEF d, e, step
  <2>4. q \in JobRequests /\ q.do = r.do /\ q.job = r.job /\ q.doc = e
    BY <1>1, <2>2, <2>3 DEF JobRequests
  <2> QED BY <1>2, <2>2, <2>4, RequestFamilies DEF RequestOK
<1> QED BY <1>3, <1>4, <1>5, NewRequest, AnswerKeeps

LEMMA CopyAgainKeeps == ASSUME TypeInv, NEW s \in Servers, CopyAgain(s) PROVE TypeInv'
<1> USE DEF TypeInv
<1> DEFINE r == request[s]
           d == r.doc
           v == lists[r.do][IF r.do = "input" THEN d.input ELSE d.output]
           e == IF r.do = "input" THEN [d EXCEPT !.inVersion = v]
                                  ELSE [d EXCEPT !.outVersion = v]
           q == [r EXCEPT !.step = "save", !.doc = e]
<1>1. r \in JobRequests /\ RequestOK(r, used) /\ r.do \in {"input", "output"} /\ r.step = "copy"
  BY RequestFamily DEF CopyAgain, At, RequestInv
<1>2. r.job \in used /\ d \in JobDocs
  BY <1>1 DEF RequestOK
<1>3. used' = used /\ DocumentsType' /\ CountersType' /\ UsedInv'
  BY DEF CopyAgain, Kept, documents, DocumentsType, CountersType, UsedInv
<1>4. Answer(s) \/ (v # 0 /\ request' = [request EXCEPT ![s] = q])
  BY DEF CopyAgain
<1>5. ASSUME v # 0 PROVE q \in Requests /\ RequestOK(q, used)
  <2>1. d.input \in Ids /\ d.output \in Ids /\ r.do \in Kinds
    BY <1>1, <1>2, JobStoreAssumption DEF JobDocs
  <2>2. v \in Versions
    BY <1>5, <2>1 DEF DocumentsType
  <2> HIDE DEF v
  <2>3. e \in JobDocs
    BY <1>2, <2>2 DEF JobDocs
  <2> HIDE DEF e
  <2>4. q \in JobRequests /\ q.do = r.do /\ q.job = r.job /\ q.doc = e
    BY <1>1, <2>3 DEF JobRequests
  <2> QED BY <1>1, <1>2, <2>3, <2>4, RequestFamilies DEF RequestOK
<1> QED BY <1>3, <1>4, <1>5, NewRequest, AnswerKeeps

LEMMA SaveJobKeeps == ASSUME TypeInv, NEW s \in Servers, SaveJob(s) PROVE TypeInv'
<1> USE DEF TypeInv
<1> DEFINE r == request[s]
<1>1. r \in JobRequests /\ RequestOK(r, used) /\ r.step = "save"
  BY RequestFamily DEF SaveJob, At, RequestInv
<1>2. r.job \in used /\ r.job \in Jobs /\ r.version \in Versions /\ r.doc \in JobDocs
  BY <1>1, RequestFamilies DEF JobRequests, RequestOK
<1>3. Saved(r.job, r.doc) \in JobDocs
  BY <1>2, SavedType DEF JobDocs
<1>4. job' \in [Jobs -> JobDocs \cup {None}] /\ \A j \in Jobs : j # r.job => job'[j] = job[j]
  BY <1>2, <1>3 DEF SaveJob, DocumentsType
<1>5. wanted' \in [Jobs -> Versions \cup {0}]
  BY <1>2 DEF SaveJob, CountersType
<1>6. RequestInv'
  BY AnswerKeeps DEF SaveJob
<1> QED BY <1>2, <1>4, <1>5, <1>6 DEF SaveJob, DocumentsType, CountersType, UsedInv

\* A deletion, and a write that the store refuses.
LEMMA PurgesKeep ==
  ASSUME TypeInv, NEW s \in Servers, PurgeJob(s) \/ PurgeCheckpoint(s)
  PROVE  TypeInv'
<1> USE DEF TypeInv
<1> DEFINE r == request[s]
<1>1. r \in DeleteRequests /\ RequestOK(r, used)
  BY RequestFamily DEF PurgeJob, PurgeCheckpoint, At, RequestInv
<1>2. r.job \in used /\ r.job \in Jobs /\ r.do = "delete"
  BY <1>1 DEF DeleteRequests, RequestOK
<1>3. CASE PurgeJob(s)
  <2> DEFINE q == [r EXCEPT !.step = "ckpt"]
  <2>1. q \in DeleteRequests /\ q.do = "delete" /\ q.job = r.job
    BY <1>1 DEF DeleteRequests
  <2>2. q \in Requests /\ RequestOK(q, used)
    BY <1>2, <2>1, RequestFamilies DEF RequestOK
  <2>3. RequestInv'
    BY <1>3, <2>2, NewRequest DEF PurgeJob, Step
  <2>4. job' \in [Jobs -> JobDocs \cup {None}] /\ \A j \in Jobs : j # r.job => job'[j] = job[j]
        /\ wanted' \in [Jobs -> Versions \cup {0}] /\ job'[r.job] = None
    BY <1>2, <1>3 DEF PurgeJob, DocumentsType, CountersType
  <2> QED BY <1>3, <2>3, <2>4 DEF PurgeJob, DocumentsType, CountersType, UsedInv
<1>4. CASE PurgeCheckpoint(s)
  <2>1. RequestInv'
    BY <1>4, AnswerKeeps DEF PurgeCheckpoint, Kept
  <2> QED BY <1>4, <2>1 DEF PurgeCheckpoint, Kept, DocumentsType, CountersType, UsedInv
<1> QED BY <1>3, <1>4

LEMMA WriteFailsKeeps == ASSUME TypeInv, NEW s \in Servers, WriteFails(s) PROVE TypeInv'
<1> USE DEF TypeInv
<1>1. RequestInv'
  BY AnswerKeeps DEF WriteFails
<1>2. CountersType'
  BY JobStoreAssumption DEF WriteFails, CountersType
<1> QED BY <1>1, <1>2 DEF WriteFails, documents, DocumentsType, UsedInv

LEMMA TypeInit == Init => TypeInv
<1> SUFFICES ASSUME Init PROVE TypeInv
  OBVIOUS
<1>1. DocumentsType /\ CountersType
  BY JobStoreAssumption DEF Init, DocumentsType, CountersType, Versions
<1>2. UsedInv
  BY DEF Init, UsedInv
<1>3. Idle \in Requests /\ RequestOK(Idle, used)
  BY RequestFamilies DEF RequestOK
<1>4. RequestInv
  BY <1>3 DEF Init, RequestInv
<1> QED BY <1>1, <1>2, <1>4 DEF TypeInv

LEMMA TypeNext == TypeInv /\ [Next]_storevars => TypeInv'
<1> SUFFICES ASSUME TypeInv, [Next]_storevars PROVE TypeInv'
  OBVIOUS
<1>1. CASE UNCHANGED storevars
  BY <1>1 DEF storevars, documents, TypeInv, DocumentsType, CountersType, UsedInv, RequestInv
<1>2. CASE Next
  <2>1. PICK s \in Servers : Receive(s) \/ PostList(s) \/ ClearSources(s) \/ Handle(s)
                             \/ WriteFails(s)
    BY <1>2 DEF Next
  <2>2. CASE Handle(s)
    BY <2>2, ListsKeep, SourcesKeep, CopyNewKeeps, CreatesKeep, LoadJobKeeps, CopyAgainKeeps,
       SaveJobKeeps, PurgesKeep DEF Handle
  <2> QED BY <2>1, <2>2, ReceiveKeeps, OutsideKeeps, WriteFailsKeeps
<1> QED BY <1>1, <1>2

LEMMA TypeAlways == Spec => []TypeInv
BY TypeInit, TypeNext, PTL DEF Spec

\* Whatever the interleaving of the handlers of any number of servers and the
\* writes that fail between two steps: the documents keep their types, no id is
\* given out twice, and every job or checkpoint is of an id that was given out.
THEOREM JobStoreTypeCorrect == Spec => []JobStoreTypeOK
<1>1. TypeInv => JobStoreTypeOK
  BY DEF TypeInv, DocumentsType, CountersType, UsedInv, RequestInv, JobStoreTypeOK
<1> QED BY <1>1, TypeAlways, PTL

-----------------------------------------------------------------------------
(* One server implements Registry: what a request has loaded is what the   *)
(* store still holds when it saves.                                        *)

OneServer == \A s, t \in Servers : s = t

\* In the lists L and the jobs J.
CurrentList(r, L) == r.step = "save" => r.list = L[r.kind]

CurrentNew(r, L, J) ==
  /\ r.step # "ckpt" => J[r.job] = None
  /\ r.step \in {"output", "job"} => r.doc.inVersion = L["input"][r.doc.input]
  /\ r.step = "job" => r.doc.outVersion = L["output"][r.doc.output]

\* What the request makes of the job d.
Edited(r, d, L) ==
  CASE r.do = "rename" -> [d EXCEPT !.name = r.version]
    [] r.do = "map"    -> [d EXCEPT !.mapping = r.version]
    [] r.do = "input"  -> [d EXCEPT !.inVersion = L["input"][d.input]]
    [] r.do = "output" -> [d EXCEPT !.outVersion = L["output"][d.output]]

CurrentJob(r, L, J) ==
  /\ r.step # "load" => J[r.job] # None
  /\ r.step = "copy" => r.do \in {"input", "output"} /\ r.doc = J[r.job]
  /\ r.step = "save" => r.doc = Edited(r, J[r.job], L)

Current(r, L, J) ==
  /\ r.do \in {"put", "remove"} => CurrentList(r, L)
  /\ r.do = "create" => CurrentNew(r, L, J)
  /\ r.do \in {"rename", "map", "input", "output"} => CurrentJob(r, L, J)
  /\ r.do = "delete" /\ r.step = "job" => J[r.job] # None

CurrentInv == \A s \in Servers : Current(request[s], lists, job)

LEMMA CurrentInit == Init => CurrentInv
<1> SUFFICES ASSUME Init, NEW s \in Servers PROVE Current(request[s], lists, job)
  BY DEF CurrentInv
<1>1. request[s].do = "nothing"
  BY RequestFamilies DEF Init
<1> QED BY <1>1 DEF Current

LEMMA CurrentReceive ==
  ASSUME TypeInv, OneServer, NEW s \in Servers, Receive(s)
  PROVE  Current(request'[s], lists', job')
<1>0. documents' = documents /\ request[s] = Idle
  BY DEF Receive
<1>1. ASSUME NEW r, Accept(s, r) PROVE request'[s] = r
  BY <1>1 DEF Accept, TypeInv, RequestInv
<1>2. CASE \E d \in {"put", "remove"} : \E k \in Kinds : \E i \in Ids :
             Accept(s, [do |-> d, step |-> "load", kind |-> k, id |-> i, version |-> Version,
                        list |-> [x \in Ids |-> 0]])
  <2>1. request'[s].do \in {"put", "remove"} /\ request'[s].step = "load"
    BY <1>1, <1>2
  <2> QED BY <2>1 DEF Current, CurrentList
<1>3. CASE \E d \in {"source", "unsource"} : \E i \in Ids :
             Accept(s, [do |-> d, step |-> "doc", id |-> i, version |-> Version])
  <2>1. request'[s].do \in {"source", "unsource"}
    BY <1>1, <1>3
  <2> QED BY <2>1 DEF Current
<1>4. CASE \E i, o \in Ids : \E j \in Jobs \ used :
             Accept(s, [do |-> "create", step |-> "input", job |-> j,
                        doc |-> [input |-> i, inVersion |-> 0, output |-> o, outVersion |-> 0,
                                 name |-> Version, mapping |-> 0]])
  <2>1. request'[s].do = "create" /\ request'[s].step = "input"
        /\ request'[s].job \in Jobs \ used
    BY <1>1, <1>4
  <2>2. job'[request'[s].job] = None
    BY <1>0, <2>1 DEF documents, TypeInv, UsedInv
  <2> QED BY <2>1, <2>2 DEF Current, CurrentNew
<1>5. CASE \E d \in {"rename", "map", "input", "output"} : \E j \in used :
             Accept(s, [do |-> d, step |-> "load", job |-> j, version |-> Version, doc |-> None])
  <2>1. request'[s].do \in {"rename", "map", "input", "output"} /\ request'[s].step = "load"
    BY <1>1, <1>5
  <2> QED BY <2>1 DEF Current, CurrentJob
<1>6. CASE \E j \in used : job[j] # None
                           /\ Accept(s, [do |-> "delete", step |-> "job", job |-> j])
  <2>1. request'[s].do = "delete" /\ job[request'[s].job] # None
    BY <1>1, <1>6
  <2> QED BY <1>0, <2>1 DEF Current, documents
<1> QED BY <1>2, <1>3, <1>4, <1>5, <1>6 DEF Receive

LEMMA CurrentLoads ==
  ASSUME TypeInv, OneServer, NEW s \in Servers, CurrentInv,
         LoadList(s) \/ LoadJob(s) \/ CopyAgain(s)
  PROVE  request'[s] = Idle \/ Current(request'[s], lists', job')
<1> DEFINE r == request[s]
<1>0. documents' = documents /\ request \in [Servers -> Requests] /\ Current(r, lists, job)
      /\ RequestOK(r, used)
  BY DEF LoadList, LoadJob, CopyAgain, TypeInv, RequestInv, CurrentInv
<1>1. CASE LoadList(s)
  <2> DEFINE q == [r EXCEPT !.step = "save", !.list = lists[r.kind]]
  <2>1. r \in ListRequests /\ r.do \in {"put", "remove"}
    BY <1>0, <1>1, RequestFamily DEF LoadList, At
  <2>2. q.do = r.do /\ q.kind = r.kind /\ q.list = lists[r.kind]
    BY <2>1 DEF ListRequests
  <2>3. request'[s] = Idle \/ request'[s] = q
    BY <1>0, <1>1 DEF LoadList, Answer
  <2>4. Current(q, lists', job')
    BY <1>0, <2>1, <2>2 DEF documents, Current, CurrentList
  <2> QED BY <2>3, <2>4
<1>2. CASE LoadJob(s)
  <2> DEFINE d == job[r.job]
             e == CASE r.do = "rename" -> [d EXCEPT !.name = r.version]
                    [] r.do = "map" -> [d EXCEPT !.mapping = r.version]
                    [] OTHER -> d
             step == IF r.do \in {"input", "output"} THEN "copy" ELSE "save"
             q == [r EXCEPT !.step = step, !.doc = e]
  <2>1. r \in JobRequests /\ r.do \in {"rename", "map", "input", "output"}
    BY <1>0, <1>2, RequestFamily DEF LoadJob, At
  <2>2. q.do = r.do /\ q.job = r.job /\ q.version = r.version /\ q.doc = e /\ q.step = step
    BY <2>1 DEF JobRequests
  <2>3. request'[s] = Idle \/ (d # None /\ request'[s] = q)
    BY <1>0, <1>2 DEF LoadJob, Answer
  <2>4. step = "copy" => q.do \in {"input", "output"} /\ e = d
    OBVIOUS
  <2>5. step = "save" => e = Edited(q, d, lists)
    BY <2>1, <2>2 DEF Edited
  <2>6. ASSUME d # None PROVE CurrentJob(q, lists, job)
    BY <2>2, <2>4, <2>5, <2>6 DEF CurrentJob
  <2>7. ASSUME d # None PROVE CurrentJob(q, lists', job')
    BY <1>0, <2>6, <2>7 DEF documents, CurrentJob, Edited
  <2>8. ASSUME d # None PROVE Current(q, lists', job')
    BY <2>1, <2>2, <2>7, <2>8 DEF Current
  <2> QED BY <2>3, <2>8
<1>3. CASE CopyAgain(s)
  <2> DEFINE d == r.doc
             v == lists[r.do][IF r.do = "input" THEN d.input ELSE d.output]
             e == IF r.do = "input" THEN [d EXCEPT !.inVersion = v]
                                    ELSE [d EXCEPT !.outVersion = v]
             q == [r EXCEPT !.step = "save", !.doc = e]
  <2>1. r \in JobRequests /\ r.do \in {"input", "output"} /\ r.step = "copy"
    BY <1>0, <1>3, RequestFamily DEF CopyAgain, At
  <2>2. q.do = r.do /\ q.job = r.job /\ q.doc = e /\ q.step = "save"
    BY <2>1 DEF JobRequests
  <2>3. request'[s] = Idle \/ request'[s] = q
    BY <1>0, <1>3 DEF CopyAgain, Answer
  <2>4. job[r.job] # None /\ d = job[r.job]
    BY <1>0, <2>1 DEF Current, CurrentJob
  <2>5. e = Edited(q, d, lists)
    BY <2>1, <2>2 DEF Edited
  <2>6. CurrentJob(q, lists', job')
    BY <1>0, <2>2, <2>4, <2>5 DEF documents, CurrentJob, Edited
  <2> QED BY <2>1, <2>2, <2>3, <2>6 DEF Current
<1> QED BY <1>1, <1>2, <1>3

LEMMA CurrentCreates ==
  ASSUME TypeInv, OneServer, NEW s \in Servers, CurrentInv,
         CopyNew(s, "input", "output") \/ CopyNew(s, "output", "job") \/ SaveNewJob(s)
  PROVE  request'[s] = Idle \/ Current(request'[s], lists', job')
<1> DEFINE r == request[s]
           d == r.doc
<1>0. /\ request \in [Servers -> Requests] /\ Current(r, lists, job)
      /\ r \in CreateRequests /\ r.do = "create"
  BY RequestFamily DEF CopyNew, SaveNewJob, At, TypeInv, RequestInv, CurrentInv
<1>1. CurrentNew(r, lists, job) /\ d \in NewDocs
  BY <1>0 DEF Current, CreateRequests
<1>2. CASE CopyNew(s, "input", "output")
  <2> DEFINE v == lists["input"][d.input]
             e == [d EXCEPT !.inVersion = v]
             q == [r EXCEPT !.step = "output", !.doc = e]
  <2>1. e.inVersion = lists["input"][e.input]
    BY <1>1 DEF NewDocs
  <2>2. q.do = "create" /\ q.job = r.job /\ q.doc = e /\ q.step = "output"
    BY <1>0 DEF CreateRequests
  <2>3. request'[s] = Idle \/ request'[s] = q
    BY <1>0, <1>2 DEF CopyNew, Answer
  <2>4. CurrentNew(q, lists', job')
    BY <1>1, <1>2, <2>1, <2>2 DEF CopyNew, At, documents, CurrentNew
  <2> QED BY <2>2, <2>3, <2>4 DEF Current
<1>3. CASE CopyNew(s, "output", "job")
  <2> DEFINE v == lists["output"][d.output]
             e == [d EXCEPT !.outVersion = v]
             q == [r EXCEPT !.step = "job", !.doc = e]
  <2>1. e.outVersion = lists["output"][e.output] /\ e.input = d.input
        /\ e.inVersion = d.inVersion
    BY <1>1 DEF NewDocs
  <2>2. q.do = "create" /\ q.job = r.job /\ q.doc = e /\ q.step = "job"
    BY <1>0 DEF CreateRequests
  <2>3. request'[s] = Idle \/ request'[s] = q
    BY <1>0, <1>3 DEF CopyNew, Answer
  <2>4. CurrentNew(q, lists', job')
    BY <1>1, <1>3, <2>1, <2>2 DEF CopyNew, At, documents, CurrentNew
  <2> QED BY <2>2, <2>3, <2>4 DEF Current
<1>4. CASE SaveNewJob(s)
  <2> DEFINE q == [r EXCEPT !.step = "ckpt"]
  <2>1. request'[s] = q
    BY <1>0, <1>4 DEF SaveNewJob, Step
  <2>2. q.do = "create" /\ q.step = "ckpt"
    BY <1>0 DEF CreateRequests
  <2> QED BY <2>1, <2>2 DEF Current, CurrentNew
<1> QED BY <1>2, <1>3, <1>4

LEMMA CurrentNext ==
  ASSUME OneServer, TypeInv, CurrentInv, [Next]_storevars
  PROVE  CurrentInv'
<1>1. CASE UNCHANGED storevars
  BY <1>1 DEF storevars, documents, CurrentInv, Current, CurrentList, CurrentNew, CurrentJob,
     Edited
<1>2. CASE Next
  <2>1. PICK s \in Servers : Receive(s) \/ PostList(s) \/ ClearSources(s) \/ Handle(s)
                             \/ WriteFails(s)
    BY <1>2 DEF Next
  <2>2. SUFFICES Current(request'[s], lists', job')
    BY DEF OneServer, CurrentInv
  <2>3. request'[s].do \in {"nothing", "source", "unsource"} => Current(request'[s], lists', job')
    BY DEF Current
  <2>4. request'[s] = Idle => Current(request'[s], lists', job')
    BY <2>3, RequestFamilies
  <2>5. request \in [Servers -> Requests]
    BY DEF TypeInv, RequestInv
  <2>6. Answer(s) => request'[s] = Idle
    BY <2>5 DEF Answer
  <2>7. CASE PostList(s)
    BY <2>4, <2>7 DEF PostList
  <2>8. CASE ClearSources(s)
    BY <2>3, <2>5, <2>8 DEF ClearSources, Accept
  <2>9. CASE SourceDoc(s)
    <3> DEFINE q == [request[s] EXCEPT !.step = "index"]
    <3>1. request[s] \in SourceRequests
      BY <2>5, <2>9, RequestFamily DEF SourceDoc, At
    <3>2. q.do \in {"source", "unsource"}
      BY <3>1 DEF SourceRequests
    <3>3. request'[s] = Idle \/ request'[s] = q
      BY <2>5, <2>6, <2>9 DEF SourceDoc, Step
    <3> QED BY <2>3, <2>4, <3>2, <3>3
  <2>10. CASE PurgeJob(s)
    <3> DEFINE q == [request[s] EXCEPT !.step = "ckpt"]
    <3>1. request[s] \in DeleteRequests
      BY <2>5, <2>10, RequestFamily DEF PurgeJob, At
    <3>2. q.do = "delete" /\ q.step = "ckpt"
      BY <3>1 DEF DeleteRequests
    <3>3. request'[s] = q
      BY <2>5, <2>10 DEF PurgeJob, Step
    <3> QED BY <3>2, <3>3 DEF Current
  <2>11. CASE SaveList(s) \/ SourceIndex(s) \/ SaveCheckpoint(s) \/ SaveJob(s)
              \/ PurgeCheckpoint(s) \/ WriteFails(s)
    BY <2>4, <2>6, <2>11 DEF SaveList, SourceIndex, SaveCheckpoint, SaveJob, PurgeCheckpoint,
       WriteFails
  <2> QED BY <2>1, <2>4, <2>7, <2>8, <2>9, <2>10, <2>11, CurrentReceive, CurrentLoads,
             CurrentCreates DEF Handle
<1> QED BY <1>1, <1>2

-----------------------------------------------------------------------------
(* Each handler is one step of Registry, or none that it sees.             *)

\* What the API shows of a source and of a job.
ShownSources == [i \in Ids |-> IF i \in index THEN source[i] ELSE 0]
Shown(d) ==
  IF d = None THEN None
  ELSE [input |-> d.input, inVersion |-> d.inVersion, output |-> d.output,
        outVersion |-> d.outVersion, name |-> d.name]
ShownJobs == [j \in Jobs |-> Shown(job[j])]

LEMMA ShownRegistry == Promise!registry = <<lists, ShownSources, ShownJobs>>
BY DEF Promise!registry, ShownSources, ShownJobs, Shown

LEMMA ShownJob ==
  ASSUME NEW d \in JobDocs
  PROVE  /\ d # None /\ Shown(d) # None
         /\ Shown(d).input = d.input /\ Shown(d).output = d.output
         /\ Shown(d) \in [input : Ids, inVersion : Versions, output : Ids,
                          outVersion : Versions, name : Versions]
BY JobStoreAssumption DEF Shown, JobDocs

\* A step that the API does not show.
LEMMA Unseen ==
  ASSUME UNCHANGED lists, ShownSources' = ShownSources, ShownJobs' = ShownJobs
  PROVE  [Promise!Next]_(Promise!registry)
<1>1. Promise!registry' = Promise!registry
  BY DEF Promise!registry, ShownSources, ShownJobs, Shown
<1> QED BY <1>1

\* A write to one job is a step that sets it.
LEMMA OneJobSet ==
  ASSUME TypeInv, NEW j \in Jobs, NEW d, job' = [job EXCEPT ![j] = d]
  PROVE  ShownJobs' = [ShownJobs EXCEPT ![j] = Shown(d)]
<1>1. job \in [Jobs -> JobDocs \cup {None}]
  BY DEF TypeInv, DocumentsType
<1>2. \A i \in Jobs : job'[i] = IF i = j THEN d ELSE job[i]
  BY <1>1
<1>3. ShownJobs' = [i \in Jobs |-> Shown(job'[i])]
  BY DEF ShownJobs
<1>4. \A i \in Jobs : Shown(job'[i]) = IF i = j THEN Shown(d) ELSE ShownJobs[i]
  BY <1>2 DEF ShownJobs
<1>5. ShownJobs' = [i \in Jobs |-> IF i = j THEN Shown(d) ELSE ShownJobs[i]]
  BY <1>3, <1>4
<1>6. DOMAIN ShownJobs = Jobs
  BY DEF ShownJobs
<1> QED BY <1>5, <1>6

\* The actions of Registry, in what the API shows.
LEMMA PromiseSetJob ==
  ASSUME NEW j \in Jobs, NEW d
  PROVE  Promise!SetJob(j, d) <=>
           /\ ShownJobs' = [ShownJobs EXCEPT ![j] = d]
           /\ UNCHANGED <<lists, ShownSources>>
BY Zenon DEF Promise!SetJob, ShownJobs, Shown, ShownSources

LEMMA PromiseJobs ==
  ASSUME NEW j \in Jobs
  PROVE  /\ Promise!CreateJob(j) <=>
              /\ ShownJobs[j] = None
              /\ \E i, o \in Ids : \E v \in Versions :
                   /\ lists["input"][i] # 0 /\ lists["output"][o] # 0
                   /\ Promise!SetJob(j, [input |-> i, inVersion |-> lists["input"][i],
                                         output |-> o, outVersion |-> lists["output"][o],
                                         name |-> v])
         /\ Promise!RenameJob(j) <=>
              /\ ShownJobs[j] # None
              /\ \E v \in Versions :
                   /\ ShownJobs' = [ShownJobs EXCEPT ![j] = [ShownJobs[j] EXCEPT !.name = v]]
                   /\ UNCHANGED <<lists, ShownSources>>
         /\ Promise!RefreshJob(j) <=>
              /\ ShownJobs[j] # None
              /\ \/ /\ lists["input"][ShownJobs[j].input] # 0
                    /\ Promise!SetJob(j, [ShownJobs[j] EXCEPT
                         !.inVersion = lists["input"][ShownJobs[j].input]])
                 \/ /\ lists["output"][ShownJobs[j].output] # 0
                    /\ Promise!SetJob(j, [ShownJobs[j] EXCEPT
                         !.outVersion = lists["output"][ShownJobs[j].output]])
         /\ Promise!DeleteJob(j) <=> ShownJobs[j] # None /\ Promise!SetJob(j, None)
<1> USE DEF ShownJobs, Shown, ShownSources
<1>1. Promise!CreateJob(j) <=>
              /\ ShownJobs[j] = None
              /\ \E i, o \in Ids : \E v \in Versions :
                   /\ lists["input"][i] # 0 /\ lists["output"][o] # 0
                   /\ Promise!SetJob(j, [input |-> i, inVersion |-> lists["input"][i],
                                         output |-> o, outVersion |-> lists["output"][o],
                                         name |-> v])
  BY Zenon DEF Promise!CreateJob
<1>2. Promise!RenameJob(j) <=>
              /\ ShownJobs[j] # None
              /\ \E v \in Versions :
                   /\ ShownJobs' = [ShownJobs EXCEPT ![j] = [ShownJobs[j] EXCEPT !.name = v]]
                   /\ UNCHANGED <<lists, ShownSources>>
  BY Zenon DEF Promise!RenameJob, Promise!SetJob
<1>3. Promise!RefreshJob(j) <=>
              /\ ShownJobs[j] # None
              /\ \/ /\ lists["input"][ShownJobs[j].input] # 0
                    /\ Promise!SetJob(j, [ShownJobs[j] EXCEPT
                         !.inVersion = lists["input"][ShownJobs[j].input]])
                 \/ /\ lists["output"][ShownJobs[j].output] # 0
                    /\ Promise!SetJob(j, [ShownJobs[j] EXCEPT
                         !.outVersion = lists["output"][ShownJobs[j].output]])
  BY Zenon DEF Promise!RefreshJob
<1>4. Promise!DeleteJob(j) <=> ShownJobs[j] # None /\ Promise!SetJob(j, None)
  BY Zenon DEF Promise!DeleteJob
<1> QED BY <1>1, <1>2, <1>3, <1>4

LEMMA PromiseOthers ==
  /\ \A k \in Kinds : Promise!ReplaceAll(k) <=>
       /\ \E f \in [Ids -> Versions \cup {0}] : lists' = [lists EXCEPT ![k] = f]
       /\ \A i, j \in Ids : lists'[k][i] # 0 /\ lists'[k][j] # 0 => lists'[k][i] = lists'[k][j]
       /\ UNCHANGED <<ShownSources, ShownJobs>>
  /\ \A k \in Kinds, i \in Ids : Promise!SetEntry(k, i) <=>
       /\ \E v \in Versions \cup {0} : lists' = [lists EXCEPT ![k][i] = v]
       /\ UNCHANGED <<ShownSources, ShownJobs>>
  /\ \A i \in Ids : Promise!SetSource(i) <=>
       /\ \E v \in Versions \cup {0} : ShownSources' = [ShownSources EXCEPT ![i] = v]
       /\ UNCHANGED <<lists, ShownJobs>>
<1> USE DEF ShownJobs, Shown, ShownSources
<1>1. \A k \in Kinds : Promise!ReplaceAll(k) <=>
       /\ \E f \in [Ids -> Versions \cup {0}] : lists' = [lists EXCEPT ![k] = f]
       /\ \A i, j \in Ids : lists'[k][i] # 0 /\ lists'[k][j] # 0 => lists'[k][i] = lists'[k][j]
       /\ UNCHANGED <<ShownSources, ShownJobs>>
  BY Zenon DEF Promise!ReplaceAll
<1>2. \A k \in Kinds, i \in Ids : Promise!SetEntry(k, i) <=>
       /\ \E v \in Versions \cup {0} : lists' = [lists EXCEPT ![k][i] = v]
       /\ UNCHANGED <<ShownSources, ShownJobs>>
  BY Zenon DEF Promise!SetEntry
<1>3. \A i \in Ids : Promise!SetSource(i) <=>
       /\ \E v \in Versions \cup {0} : ShownSources' = [ShownSources EXCEPT ![i] = v]
       /\ UNCHANGED <<lists, ShownJobs>>
  BY Zenon DEF Promise!SetSource
<1> QED BY <1>1, <1>2, <1>3

\* A list that is posted is replaced; one that is loaded and saved has changed
\* in the entry.
LEMMA ListsPromised ==
  ASSUME TypeInv, CurrentInv, NEW s \in Servers, PostList(s) \/ SaveList(s)
  PROVE  \E k \in Kinds : Promise!ReplaceAll(k) \/ \E i \in Ids : Promise!SetEntry(k, i)
<1>0. UNCHANGED <<ShownSources, ShownJobs>> /\ lists \in [Kinds -> [Ids -> Versions \cup {0}]]
  BY DEF PostList, SaveList, ShownSources, ShownJobs, Shown, TypeInv, DocumentsType
<1>1. CASE PostList(s)
  <2>1. PICK k \in Kinds, I \in SUBSET Ids :
          lists' = [lists EXCEPT ![k] = [i \in Ids |-> IF i \in I THEN Version ELSE 0]]
    BY <1>1 DEF PostList
  <2> DEFINE f == [i \in Ids |-> IF i \in I THEN Version ELSE 0]
  <2>2. f \in [Ids -> Versions \cup {0}]
    BY <1>1, VersionType DEF PostList
  <2>3. lists'[k] = f
    BY <1>0, <2>1
  <2>4. \A i, j \in Ids : lists'[k][i] # 0 /\ lists'[k][j] # 0 => lists'[k][i] = lists'[k][j]
    BY <2>3
  <2>5. Promise!ReplaceAll(k)
    BY <1>0, <2>1, <2>2, <2>4, PromiseOthers
  <2> QED BY <2>5
<1>2. CASE SaveList(s)
  <2> DEFINE r == request[s]
  <2>1. r \in ListRequests /\ r.do \in {"put", "remove"} /\ r.step = "save"
    BY <1>2, RequestFamily DEF SaveList, At, TypeInv, RequestInv
  <2>2. r.kind \in Kinds /\ r.id \in Ids /\ r.version \in Versions
    BY <2>1 DEF ListRequests
  <2>3. r.list = lists[r.kind]
    BY <2>1 DEF CurrentInv, Current, CurrentList
  <2>4. PICK v \in Versions \cup {0} :
          lists' = [lists EXCEPT ![r.kind] = [r.list EXCEPT ![r.id] = v]]
    BY <1>2, <2>2 DEF SaveList
  <2>5. lists' = [lists EXCEPT ![r.kind][r.id] = v]
    BY <1>0, <2>2, <2>3, <2>4
  <2>6. Promise!SetEntry(r.kind, r.id)
    BY <1>0, <2>2, <2>5, PromiseOthers
  <2> QED BY <2>2, <2>6
<1> QED BY <1>1, <1>2

\* A source is shown from its name in the index on.
LEMMA SourcesPromised ==
  ASSUME TypeInv, NEW s \in Servers, SourceDoc(s) \/ SourceIndex(s)
  PROVE  \/ UNCHANGED <<lists, ShownSources, ShownJobs>>
         \/ \E i \in Ids : Promise!SetSource(i)
<1> DEFINE r == request[s]
<1>0. UNCHANGED <<lists, ShownJobs>> /\ source \in [Ids -> Versions \cup {0}]
  BY DEF SourceDoc, SourceIndex, ShownJobs, Shown, TypeInv, DocumentsType
<1>1. r \in SourceRequests
  BY RequestFamily DEF SourceDoc, SourceIndex, At, TypeInv, RequestInv
<1>2. r.id \in Ids /\ r.version \in Versions
  BY <1>1 DEF SourceRequests
<1>3. ASSUME source' \in [Ids -> Versions \cup {0}],
             \A i \in Ids \ {r.id} : source'[i] = source[i] /\ (i \in index' <=> i \in index)
      PROVE  \E i \in Ids : Promise!SetSource(i)
  <2> DEFINE v == IF r.id \in index' THEN source'[r.id] ELSE 0
  <2>1. v \in Versions \cup {0}
    BY <1>2, <1>3
  <2>2. ShownSources' = [ShownSources EXCEPT ![r.id] = v]
    BY <1>2, <1>3 DEF ShownSources
  <2>3. PICK i \in Ids, w \in Versions \cup {0} : ShownSources' = [ShownSources EXCEPT ![i] = w]
    BY Zenon, <1>2, <2>1, <2>2
  <2>4. Promise!SetSource(i)
    BY <1>0, <2>3, PromiseOthers
  <2> QED BY <2>4
<1>4. CASE SourceDoc(s)
  <2>1. CASE UNCHANGED source
    BY <1>0, <1>4, <2>1 DEF SourceDoc, ShownSources
  <2>2. CASE source' = [source EXCEPT ![r.id] = IF r.do = "source" THEN r.version ELSE 0]
    <3>1. source' \in [Ids -> Versions \cup {0}] /\ \A i \in Ids \ {r.id} : source'[i] = source[i]
      BY <1>0, <1>2, <2>2
    <3> QED BY <1>2, <1>3, <1>4, <3>1 DEF SourceDoc
  <2> QED BY <1>4, <2>1, <2>2 DEF SourceDoc
<1>5. CASE SourceIndex(s)
  <2>1. \A i \in Ids \ {r.id} : i \in index' <=> i \in index
    BY <1>5 DEF SourceIndex
  <2> QED BY <1>0, <1>2, <1>3, <1>5, <2>1 DEF SourceIndex
<1> QED BY <1>4, <1>5

LEMMA JobPromised ==
  ASSUME TypeInv, NEW j \in Jobs, NEW d, job' = [job EXCEPT ![j] = d],
         UNCHANGED <<lists, source, index>>
  PROVE  Promise!SetJob(j, Shown(d))
<1>1. UNCHANGED <<lists, ShownSources>>
  BY DEF ShownSources
<1>2. ShownJobs' = [ShownJobs EXCEPT ![j] = Shown(d)]
  BY OneJobSet
<1> QED BY Zenon, <1>1, <1>2, PromiseSetJob

\* A new job has what it copied, and those entries are still there.
LEMMA CreatePromised ==
  ASSUME TypeInv, CurrentInv, NEW s \in Servers, SaveNewJob(s)
  PROVE  \E j \in Jobs : Promise!CreateJob(j)
<1> DEFINE r == request[s]
           d == r.doc
           e == Saved(r.job, d)
<1>1. r \in CreateRequests /\ r.do = "create" /\ r.step = "job" /\ RequestOK(r, used)
      /\ CurrentNew(r, lists, job)
  BY RequestFamily DEF SaveNewJob, At, TypeInv, RequestInv, CurrentInv, Current
<1>2. r.job \in Jobs /\ d \in NewDocs /\ d.inVersion \in Versions /\ d.outVersion \in Versions
  BY <1>1 DEF CreateRequests, RequestOK
<1>3. job[r.job] = None /\ d.inVersion = lists["input"][d.input]
      /\ d.outVersion = lists["output"][d.output]
  BY <1>1 DEF CurrentNew
<1>4. d \in JobDocs /\ e \in JobDocs
  BY <1>2, SavedType DEF NewDocs, JobDocs
<1>5. e.input = d.input /\ e.inVersion = d.inVersion /\ e.output = d.output
      /\ e.outVersion = d.outVersion /\ e.name = d.name
  BY <1>4 DEF Saved, JobDocs
<1>6. ShownJobs[r.job] = None
  BY <1>2, <1>3 DEF ShownJobs, Shown
<1> HIDE DEF e
<1>7. Shown(e) = [input |-> d.input, inVersion |-> lists["input"][d.input],
                  output |-> d.output, outVersion |-> lists["output"][d.output],
                  name |-> d.name]
  BY <1>3, <1>4, <1>5, ShownJob DEF Shown
<1>8. job' = [job EXCEPT ![r.job] = e] /\ UNCHANGED <<lists, source, index>>
  BY DEF SaveNewJob, e
<1>9. d.input \in Ids /\ d.output \in Ids /\ d.name \in Versions
      /\ d.inVersion # 0 /\ d.outVersion # 0
  BY <1>2, JobStoreAssumption DEF NewDocs, Versions
<1>10. PICK j \in Jobs, i \in Ids, o \in Ids, v \in Versions, f \in JobDocs :
          j = r.job /\ i = d.input /\ o = d.output /\ v = d.name /\ f = e
  BY <1>2, <1>4, <1>9 DEF e
<1>11. Promise!SetJob(j, Shown(f))
  BY <1>8, <1>10, JobPromised
<1>12. Shown(f) = [input |-> i, inVersion |-> lists["input"][i],
                   output |-> o, outVersion |-> lists["output"][o], name |-> v]
  BY <1>7, <1>10
<1>13. ShownJobs[j] = None /\ lists["input"][i] # 0 /\ lists["output"][o] # 0
  BY <1>3, <1>6, <1>9, <1>10
<1>14. Promise!SetJob(j, [input |-> i, inVersion |-> lists["input"][i],
                          output |-> o, outVersion |-> lists["output"][o], name |-> v])
  BY <1>11, <1>12 DEF Promise!SetJob
<1>15. Promise!CreateJob(j)
  BY <1>13, <1>14, PromiseJobs
<1> QED BY <1>15

\* A job is saved with the one field that the request is about.
LEMMA SavePromised ==
  ASSUME TypeInv, CurrentInv, NEW s \in Servers, SaveJob(s)
  PROVE  \/ UNCHANGED <<lists, ShownSources, ShownJobs>>
         \/ \E j \in Jobs : Promise!RenameJob(j) \/ Promise!RefreshJob(j)
<1> DEFINE r == request[s]
<1>1. /\ r \in JobRequests /\ r.do \in {"rename", "map", "input", "output"} /\ r.step = "save"
      /\ RequestOK(r, used) /\ CurrentJob(r, lists, job)
  BY RequestFamily DEF SaveJob, At, TypeInv, RequestInv, CurrentInv, Current
<1>2. r.job \in Jobs /\ r.version \in Versions /\ r.doc \in JobDocs
  BY <1>1 DEF JobRequests, RequestOK
<1>3. job[r.job] \in JobDocs /\ r.doc = Edited(r, job[r.job], lists)
  BY <1>1, <1>2 DEF CurrentJob, TypeInv, DocumentsType
<1>4. PICK j \in Jobs, d \in JobDocs, e \in JobDocs, w \in Versions :
         j = r.job /\ d = job[j] /\ e = Saved(r.job, r.doc) /\ w = r.version
  <2>1. Saved(r.job, r.doc) \in JobDocs
    BY <1>2, SavedType DEF JobDocs
  <2> QED BY <1>2, <1>3, <2>1
<1>5. e = [r.doc EXCEPT !.mapping = d.mapping] /\ d # None /\ e # None
      /\ r.doc = Edited(r, d, lists)
  BY <1>3, <1>4, ShownJob DEF Saved
<1>6. Promise!SetJob(j, Shown(e))
  <2>1. job' = [job EXCEPT ![j] = e] /\ UNCHANGED <<lists, source, index>>
    BY <1>4 DEF SaveJob
  <2> QED BY <2>1, JobPromised
<1>7. ShownJobs[j] = Shown(d) /\ Shown(d) # None
  BY <1>4, ShownJob DEF ShownJobs
<1>8. CASE r.do = "rename"
  <2>0. r.doc = [d EXCEPT !.name = w]
    BY <1>4, <1>5, <1>8 DEF Edited
  <2>1. Shown(e) = [Shown(d) EXCEPT !.name = w]
    BY <1>5, <2>0 DEF Shown, JobDocs
  <2>2. /\ ShownJobs' = [ShownJobs EXCEPT ![j] = [ShownJobs[j] EXCEPT !.name = w]]
        /\ UNCHANGED <<lists, ShownSources>>
    BY <1>6, <1>7, <2>1, PromiseSetJob
  <2>3. Promise!RenameJob(j)
    BY <1>7, <2>2, PromiseJobs
  <2> QED BY <2>3
<1>9. CASE r.do = "map"
  <2>0. r.doc = [d EXCEPT !.mapping = w]
    BY <1>4, <1>5, <1>9 DEF Edited
  <2>1. Shown(e) = Shown(d)
    BY <1>5, <2>0 DEF Shown, JobDocs
  <2>2. ShownJobs' = [ShownJobs EXCEPT ![j] = ShownJobs[j]] /\ UNCHANGED <<lists, ShownSources>>
    BY <1>6, <1>7, <2>1, PromiseSetJob
  <2>3. ShownJobs' = ShownJobs
    BY <2>2 DEF ShownJobs
  <2> QED BY <2>2, <2>3
<1>10. CASE r.do \in {"input", "output"}
  <2>1. r.doc.inVersion # 0 /\ r.doc.outVersion # 0 /\ d.input \in Ids /\ d.output \in Ids
    BY <1>2, JobStoreAssumption DEF JobDocs, Versions
  <2>2. CASE r.do = "input"
    <3> DEFINE v == lists["input"][d.input]
    <3>0. r.doc = [d EXCEPT !.inVersion = v]
      BY <1>5, <2>2 DEF Edited
    <3>1. Shown(e) = [Shown(d) EXCEPT !.inVersion = v] /\ v # 0
      <4> HIDE DEF v
      <4> QED BY <1>5, <2>1, <3>0 DEF Shown, JobDocs
    <3>2. ShownJobs[j].input = d.input
      BY <1>7, ShownJob
    <3>3. Promise!SetJob(j, [ShownJobs[j] EXCEPT !.inVersion = lists["input"][ShownJobs[j].input]])
      BY <1>6, <1>7, <3>1, <3>2 DEF Promise!SetJob
    <3>4. Promise!RefreshJob(j)
      BY <1>7, <3>1, <3>2, <3>3, PromiseJobs
    <3> QED BY <3>4
  <2>3. CASE r.do = "output"
    <3> DEFINE v == lists["output"][d.output]
    <3>0. r.doc = [d EXCEPT !.outVersion = v]
      BY <1>5, <2>3 DEF Edited
    <3>1. Shown(e) = [Shown(d) EXCEPT !.outVersion = v] /\ v # 0
      <4> HIDE DEF v
      <4> QED BY <1>5, <2>1, <3>0 DEF Shown, JobDocs
    <3>2. ShownJobs[j].output = d.output
      BY <1>7, ShownJob
    <3>3. Promise!SetJob(j, [ShownJobs[j] EXCEPT
                               !.outVersion = lists["output"][ShownJobs[j].output]])
      BY <1>6, <1>7, <3>1, <3>2 DEF Promise!SetJob
    <3>4. Promise!RefreshJob(j)
      BY <1>7, <3>1, <3>2, <3>3, PromiseJobs
    <3> QED BY <3>4
  <2> QED BY <1>10, <2>2, <2>3
<1> QED BY <1>1, <1>8, <1>9, <1>10

LEMMA PurgePromised ==
  ASSUME TypeInv, CurrentInv, NEW s \in Servers, PurgeJob(s)
  PROVE  \E j \in Jobs : Promise!DeleteJob(j)
<1> DEFINE r == request[s]
<1>1. r \in DeleteRequests /\ r.do = "delete" /\ r.step = "job" /\ job[r.job] # None
  BY RequestFamily DEF PurgeJob, At, TypeInv, RequestInv, CurrentInv, Current
<1>2. PICK j \in Jobs : j = r.job
  BY <1>1 DEF DeleteRequests
<1>3. Promise!SetJob(j, Shown(None))
  BY <1>2, JobPromised DEF PurgeJob
<1>4. Shown(None) = None
  BY DEF Shown
<1>5. job[j] \in JobDocs
  BY <1>1, <1>2 DEF TypeInv, DocumentsType
<1>6. ShownJobs[j] # None
  BY <1>5, ShownJob DEF ShownJobs
<1>7. Promise!SetJob(j, None)
  BY <1>3, <1>4 DEF Promise!SetJob
<1>8. Promise!DeleteJob(j)
  BY <1>6, <1>7, PromiseJobs
<1> QED BY <1>8

LEMMA StepPromised ==
  ASSUME TypeInv, CurrentInv, [Next]_storevars
  PROVE  [Promise!Next]_(Promise!registry)
<1>1. ASSUME UNCHANGED <<lists, source, index, job>>
      PROVE  [Promise!Next]_(Promise!registry)
  BY <1>1, Unseen DEF ShownSources, ShownJobs, Shown
<1>2. CASE UNCHANGED storevars
  BY <1>1, <1>2 DEF storevars, documents
<1>3. CASE Next
  <2>1. PICK s \in Servers : Receive(s) \/ PostList(s) \/ ClearSources(s) \/ Handle(s)
                             \/ WriteFails(s)
    BY <1>3 DEF Next
  <2>2. CASE PostList(s) \/ SaveList(s)
    BY <2>2, ListsPromised DEF Promise!Next
  <2>3. CASE SourceDoc(s) \/ SourceIndex(s)
    BY <2>3, SourcesPromised, Unseen DEF Promise!Next
  <2>4. CASE SaveNewJob(s)
    BY <2>4, CreatePromised DEF Promise!Next
  <2>5. CASE SaveJob(s)
    BY <2>5, SavePromised, Unseen DEF Promise!Next
  <2>6. CASE PurgeJob(s)
    BY <2>6, PurgePromised DEF Promise!Next
  <2>7. CASE SaveCheckpoint(s) \/ PurgeCheckpoint(s)
    BY <1>1, <2>7 DEF SaveCheckpoint, PurgeCheckpoint
  <2>8. CASE Receive(s) \/ ClearSources(s) \/ WriteFails(s) \/ LoadList(s) \/ LoadJob(s)
             \/ CopyNew(s, "input", "output") \/ CopyNew(s, "output", "job") \/ CopyAgain(s)
    BY <1>1, <2>8 DEF documents, Receive, ClearSources, WriteFails, LoadList, LoadJob, CopyNew,
       CopyAgain
  <2> QED BY <2>1, <2>2, <2>3, <2>4, <2>5, <2>6, <2>7, <2>8 DEF Handle
<1> QED BY <1>2, <1>3

LEMMA InitPromised == Init => Promise!Init
<1> SUFFICES ASSUME Init PROVE Promise!Init
  OBVIOUS
<1>1. lists \in [Kinds -> [Ids -> Versions \cup {0}]]
  BY TypeInit DEF TypeInv, DocumentsType
<1>2. ShownSources = [i \in Ids |-> 0]
  BY DEF Init, ShownSources
<1>3. ShownJobs = [j \in Jobs |-> None]
  BY DEF Init, ShownJobs, Shown
<1> QED BY Zenon, <1>1, <1>2, <1>3 DEF Promise!Init, ShownSources, ShownJobs, Shown

\* With one server on the store, every request changes at once what it names and
\* nothing else: no edit of another entry or job is lost, a new job has entries
\* that are in the lists, and a deleted job does not come back.  Writes may fail
\* between any two steps of a handler.  With the worker and the Admin UI on one
\* store it is false.
THEOREM RegistryKept == ASSUME OneServer PROVE Spec => KeepsRegistry
<1>1. Init => TypeInv /\ CurrentInv
  BY TypeInit, CurrentInit
<1>2. TypeInv /\ CurrentInv /\ [Next]_storevars => (TypeInv /\ CurrentInv)'
  BY TypeNext, CurrentNext
<1>3. TypeInv /\ CurrentInv /\ [Next]_storevars => [Promise!Next]_(Promise!registry)
  BY StepPromised
<1> QED BY <1>1, <1>2, <1>3, InitPromised, PTL DEF Spec, KeepsRegistry, Promise!Spec
=============================================================================
