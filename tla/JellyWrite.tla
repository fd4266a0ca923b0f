------------------------------ MODULE JellyWrite ------------------------------
(***************************************************************************)
(* JellyWrite (Write/Jelly/JellyWrite.cpp), the backend main uses: every   *)
(* Set makes a request that is owned by m_requests and whose address is    *)
(* handed to a jelly::BlobNode; Update lets the node process what was      *)
(* queued, drops the requests that are completed, and then does what the   *)
(* housekeeping advisor tells it to do.                                    *)
(*                                                                         *)
(* jelly::BlobNode is modelled by what is done with it here: Set queues a  *)
(* request; ProcessRequests puts each queued one into the pending part of  *)
(* one of several concurrent WALs, or completes it at once when its        *)
(* sequence number is not newer; FlushPendingWAL makes one WAL durable and *)
(* completes its requests, so requests complete out of order;              *)
(* FlushPendingStore makes what the node holds durable but completes       *)
(* nothing; clean-ups and compactions rewrite files and change no content. *)
(*                                                                         *)
(* m_requests is a set here: what _UpdateRequests does to the vector is    *)
(* the subject of CyclicRemove.  The byte counter that Set adds to,        *)
(* m_logicalWriteBytes, is only read for the report and is left out.       *)
(***************************************************************************)
EXTENDS Integers, Sequences, SequencesExt

CONSTANTS
  Key, Blob,         \* what a caller may pass to Set
  MaxSeq,            \* 2^32 - 1, the largest sequence number (a uint32_t)
  None,              \* no version, no request
  Request,           \* addresses of requests, used again once released
  WAL                \* the concurrent WALs of the node

ASSUME SeqAssumption == MaxSeq \in Nat

SeqNo == 0 .. MaxSeq

Version == [seq : SeqNo, blob : Blob]

Item == Key \X Version

ASSUME NoneAssumption == None \notin Version \cup Item

VARIABLES
  pc,         \* "off" | "ready" | "housekeeping" | "closing"
  m_requests, \* the requests owned by the backend
  fields,     \* what a request at each address holds
  queue,      \* node: addresses that ProcessRequests has not seen yet
  pending,    \* node: per WAL, the addresses that wait for its flush
  completed,  \* the owned requests whose IsCompleted() is true
  table,      \* node: newest version per key among the processed requests
  durable,    \* what the files hold
  written     \* history: every item that was set and was newer

jellyVars == <<pc, m_requests, fields, queue, pending, completed, table,
               durable, written>>

Empty == [k \in Key |-> None]

Older(v, w) == v = None \/ v.seq < w.seq

Waiting == ToSet(queue) \cup UNION {pending[w] : w \in WAL}

-----------------------------------------------------------------------------
(* jelly::BlobNode *)

\* The newest of a version and the versions that the requests of R set for k.
Newest(v, R, k) ==
  LET versions == {fields[r][2] : r \in {q \in R : fields[q][1] = k}} \cup {v}
      newer == {w \in versions : w # None /\ Older(v, w)}
  IN  IF newer = {} THEN v
      ELSE CHOOSE w \in newer : \A x \in newer : x.seq <= w.seq

(***************************************************************************)
(* ProcessRequests takes the queue in its order: a request is outdated if  *)
(* the table, or a request before it, has a version of its key that is not *)
(* older.                                                                  *)
(***************************************************************************)
OutdatedAt(j) ==
  LET k == fields[queue[j]][1]
      v == fields[queue[j]][2]
  IN  \/ ~Older(table[k], v)
      \/ \E i \in 1 .. j - 1 : /\ fields[queue[i]][1] = k
                              /\ ~Older(fields[queue[i]][2], v)

Outdated == {queue[j] : j \in {l \in 1 .. Len(queue) : OutdatedAt(l)}}

\* What the node holds once the queue has been processed.
Processed ==
  [k \in Key |-> Newest(table[k], ToSet(queue) \ Outdated, k)]

ProcessRequests ==
  \E wal \in [ToSet(queue) \ Outdated -> WAL] :
    /\ pending' = [w \in WAL |-> pending[w] \cup {r \in DOMAIN wal : wal[r] = w}]
    /\ table' = Processed
    /\ queue' = << >>

FlushPendingWAL(w) ==
  /\ durable' = [k \in Key |-> Newest(durable[k], pending[w], k)]
  /\ completed' = completed \cup pending[w]
  /\ pending' = [pending EXCEPT ![w] = {}]
  /\ UNCHANGED <<queue, table>>

-----------------------------------------------------------------------------
(* JellyWrite *)

Init ==
  /\ pc = "off"
  /\ m_requests = {}
  /\ fields = [r \in Request |-> None]
  /\ queue = << >>
  /\ pending = [w \in WAL |-> {}]
  /\ completed = {}
  /\ table = Empty
  /\ durable = Empty
  /\ written = {}

(***************************************************************************)
(* The constructor deletes all files before it creates the node.           *)
(***************************************************************************)
\* Mutant of Open: the files of an earlier run are kept.
OpenExisting ==
  /\ pc = "off"
  /\ pc' = "ready"
  /\ table' = durable
  /\ written' = {}
  /\ UNCHANGED <<durable, m_requests, fields, queue, pending, completed>>

Open ==
  /\ pc = "off"
  /\ pc' = "ready"
  /\ durable' = Empty
  /\ table' = Empty
  /\ written' = {}
  /\ UNCHANGED <<m_requests, fields, queue, pending, completed>>

\* Mutant of Set: the request is released before its key and blob are set.
SetUnfilled(k, v) ==
  /\ pc = "ready"
  /\ \E r \in Request \ m_requests :
       /\ queue' = Append(queue, r)
       /\ m_requests' = m_requests \cup {r}
  /\ UNCHANGED <<pc, fields, pending, completed, table, durable, written>>

(***************************************************************************)
(* The request gets its key, number and blob before the node gets the      *)
(* request.  m_logicalWriteBytes, which only the report reads, is left out.*)
(***************************************************************************)
Set(k, v) ==
  /\ pc = "ready"
  /\ \E r \in Request \ m_requests :
       /\ fields' = [fields EXCEPT ![r] = <<k, v>>]
       /\ queue' = Append(queue, r)
       /\ m_requests' = m_requests \cup {r}
  /\ written' = IF Older(Processed[k], v) THEN written \cup {<<k, v>>}
                                                ELSE written
  /\ UNCHANGED <<pc, pending, completed, table, durable>>

\* The requests that _UpdateRequests releases are no longer anyone's.
Released(R) ==
  /\ m_requests' = m_requests \ R
  /\ fields' = [r \in Request |-> IF r \in R THEN None ELSE fields[r]]

(***************************************************************************)
(* Update with m_processRequestsTimer expired: the node processes its      *)
(* queue, then _UpdateRequests drops what is completed by then.            *)
(***************************************************************************)
UpdateRequests(done) ==
  /\ Released(done)
  /\ completed' = {}

\* Mutants of UpdateExpired: without ProcessRequests; without _UpdateRequests.
UpdateOnlyReleases ==
  /\ pc = "ready"
  /\ pc' = "housekeeping"
  /\ UpdateRequests(completed)
  /\ UNCHANGED <<queue, pending, table, durable, written>>

UpdateOnlyProcesses ==
  /\ pc = "ready"
  /\ pc' = "housekeeping"
  /\ ProcessRequests
  /\ completed' = completed \cup Outdated
  /\ UNCHANGED <<m_requests, fields, durable, written>>

UpdateExpired ==
  /\ pc = "ready"
  /\ pc' = "housekeeping"
  /\ ProcessRequests
  /\ UpdateRequests(completed \cup Outdated)
  /\ UNCHANGED <<durable, written>>

\* Update with the timer still running.
UpdateEarly ==
  /\ pc = "ready"
  /\ pc' = "housekeeping"
  /\ UNCHANGED <<m_requests, fields, queue, pending, completed, table,
                 durable, written>>

(***************************************************************************)
(* The advisor's events, any number of them in any order.                  *)
(***************************************************************************)
\* Mutant of FlushWAL: the index that the event carries is not passed on.
FlushAnyWAL(w) ==
  /\ pc = "housekeeping"
  /\ pending[w] # {}
  /\ FlushPendingWAL(CHOOSE any \in WAL : TRUE)
  /\ UNCHANGED <<pc, m_requests, fields, written>>

FlushWAL(w) ==
  /\ pc = "housekeeping"
  /\ pending[w] # {}
  /\ FlushPendingWAL(w)
  /\ UNCHANGED <<pc, m_requests, fields, written>>

FlushStore ==
  /\ pc = "housekeeping"
  /\ durable' = table
  /\ UNCHANGED <<pc, m_requests, fields, queue, pending, completed, table,
                 written>>

\* CleanupWALs and PerformCompaction with ApplyCompactionResult.
RewriteFiles ==
  /\ pc = "housekeeping"
  /\ UNCHANGED jellyVars

UpdateReturns ==
  /\ pc = "housekeeping"
  /\ pc' = "ready"
  /\ UNCHANGED <<m_requests, fields, queue, pending, completed, table,
                 durable, written>>

\* The node is gone, and with it what it had not made durable.
NodeGone ==
  /\ queue' = << >>
  /\ pending' = [w \in WAL |-> {}]
  /\ table' = durable
  /\ UNCHANGED <<durable, written>>

(***************************************************************************)
(* The destructor resets m_blobNode before the members, m_requests among   *)
(* them, are destroyed.                                                    *)
(***************************************************************************)
\* Mutant of Close: no reset, the members are destroyed in reverse order.
CloseMembers ==
  /\ pc = "ready"
  /\ pc' = "closing"
  /\ Released(m_requests)
  /\ completed' = {}
  /\ UNCHANGED <<queue, pending, table, durable, written>>

Close ==
  /\ pc = "ready"
  /\ pc' = "closing"
  /\ NodeGone
  /\ UNCHANGED <<m_requests, fields, completed>>

DestroyMembers ==
  /\ pc = "closing"
  /\ pc' = "off"
  /\ Released(m_requests)
  /\ completed' = {}
  /\ NodeGone

\* The process is killed.
Crash ==
  /\ pc # "off"
  /\ pc' = "off"
  /\ Released(m_requests)
  /\ completed' = {}
  /\ NodeGone

Next ==
  \/ Open
  \/ \E k \in Key, v \in Version : Set(k, v)
  \/ UpdateExpired
  \/ UpdateEarly
  \/ \E w \in WAL : FlushWAL(w)
  \/ FlushStore
  \/ RewriteFiles
  \/ UpdateReturns
  \/ Close
  \/ DestroyMembers
  \/ Crash

Spec == Init /\ [][Next]_jellyVars

(***************************************************************************)
(* Update is called again and again and returns, and the timer expires     *)
(* every 500 ms.  That the advisor does not forget a WAL with waiting      *)
(* requests is jelly's promise.                                            *)
(***************************************************************************)
FairSpec ==
  /\ Spec
  /\ SF_jellyVars(UpdateExpired)
  /\ WF_jellyVars(UpdateReturns)
  /\ \A w \in WAL : SF_jellyVars(FlushWAL(w))
  /\ WF_jellyVars(DestroyMembers)
-----------------------------------------------------------------------------
(***************************************************************************)
(* Properties                                                              *)
(***************************************************************************)
Table == [Key -> Version \cup {None}]

\* A request holds an item exactly while it is owned.
TypeOK ==
  /\ pc \in {"off", "ready", "housekeeping", "closing"}
  /\ m_requests \subseteq Request
  /\ fields \in [Request -> Item \cup {None}]
  /\ \A r \in Request : r \in m_requests <=> fields[r] # None
  /\ queue \in Seq(Request)
  /\ pending \in [WAL -> SUBSET Request]
  /\ completed \subseteq m_requests
  /\ table \in Table
  /\ durable \in Table
  /\ written \subseteq Item

(***************************************************************************)
(* The node never holds the address of a request that the backend has      *)
(* released, through every order in which requests complete and WALs are   *)
(* flushed, and while the backend is destroyed.                            *)
(***************************************************************************)
NoDanglingRequest == Waiting \subseteq m_requests

(***************************************************************************)
(* Every request is released in the end, so that m_requests does not grow  *)
(* without bound: none waits for a WAL that is never flushed, and none is  *)
(* overlooked once it is completed.                                        *)
(***************************************************************************)
RequestsReleased ==
  \A r \in Request : r \in m_requests ~> r \notin m_requests

Store == INSTANCE BlobStore
           WITH store <- Processed

(***************************************************************************)
(* The backend is a BlobStore whose content is what the node will hold     *)
(* once it has processed its queue.                                        *)
(***************************************************************************)
ImplementsBlobStore == Store!Spec
=============================================================================
