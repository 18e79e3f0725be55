------------------------------ MODULE Registry ------------------------------
(***************************************************************************)
(* What the API for inputs, outputs, tables, sources and jobs promises:    *)
(* each request changes the one entry or job it names, at once.            *)
(***************************************************************************)
EXTENDS Naturals

CONSTANTS Kinds, Ids, Jobs, Versions, None

VARIABLES entries, sources, jobs
registry == <<entries, sources, jobs>>

\* Entries have versions; 0: there is none.  A job copies an input and an
\* output when it is made, and when it is refreshed.
JobRecords ==
  [input : Ids, inVersion : Versions, output : Ids, outVersion : Versions, name : Versions]

Init ==
  /\ entries \in [Kinds -> [Ids -> Versions \cup {0}]]
  /\ sources = [i \in Ids |-> 0]
  /\ jobs = [j \in Jobs |-> None]

SetEntry(k, i) ==
  /\ \E v \in Versions \cup {0} : entries' = [entries EXCEPT ![k][i] = v]
  /\ UNCHANGED <<sources, jobs>>

ReplaceAll(k) ==
  /\ \E f \in [Ids -> Versions \cup {0}] : entries' = [entries EXCEPT ![k] = f]
  /\ \A i, j \in Ids : entries'[k][i] # 0 /\ entries'[k][j] # 0 => entries'[k][i] = entries'[k][j]
  /\ UNCHANGED <<sources, jobs>>

SetSource(i) ==
  /\ \E v \in Versions \cup {0} : sources' = [sources EXCEPT ![i] = v]
  /\ UNCHANGED <<entries, jobs>>

SetJob(j, record) == jobs' = [jobs EXCEPT ![j] = record] /\ UNCHANGED <<entries, sources>>

\* Of an input and an output that exist, as they are.
CreateJob(j) ==
  /\ jobs[j] = None
  /\ \E i, o \in Ids : \E v \in Versions :
       /\ entries["input"][i] # 0 /\ entries["output"][o] # 0
       /\ SetJob(j, [input |-> i, inVersion |-> entries["input"][i],
                     output |-> o, outVersion |-> entries["output"][o], name |-> v])

RenameJob(j) ==
  /\ jobs[j] # None
  /\ \E v \in Versions : SetJob(j, [jobs[j] EXCEPT !.name = v])

RefreshJob(j) ==
  /\ jobs[j] # None
  /\ \/ /\ entries["input"][jobs[j].input] # 0
        /\ SetJob(j, [jobs[j] EXCEPT !.inVersion = entries["input"][jobs[j].input]])
     \/ /\ entries["output"][jobs[j].output] # 0
        /\ SetJob(j, [jobs[j] EXCEPT !.outVersion = entries["output"][jobs[j].output]])

DeleteJob(j) == jobs[j] # None /\ SetJob(j, None)

Next ==
  \/ \E k \in Kinds : ReplaceAll(k) \/ \E i \in Ids : SetEntry(k, i)
  \/ \E i \in Ids : SetSource(i)
  \/ \E j \in Jobs : CreateJob(j) \/ RenameJob(j) \/ RefreshJob(j) \/ DeleteJob(j)

Spec == Init /\ [][Next]_registry
=============================================================================
