---------------------------- MODULE SQLiteBlobNode ----------------------------
(***************************************************************************)
(* SQLiteBlobNode (SQLiteBlobNode.cpp): blobs in one table of one SQLite   *)
(* database, written in batches.  The first Set after a Flush begins a     *)
(* transaction, Flush commits it, and m_batching remembers which of the    *)
(* two comes next.  Any error of SQLite aborts the process                 *)
(* (JELLY_ALWAYS_ASSERT).                                                  *)
(*                                                                         *)
(* SQLite itself is modelled by what the calls made here rely on: a        *)
(* connection that is in a transaction or not, BEGIN and COMMIT that fail  *)
(* in the wrong one of the two states, an upsert that fails when it would  *)
(* leave NULL in a NOT NULL column, and a database file whose committed    *)
(* content survives the process while an open transaction does not.        *)
(***************************************************************************)
EXTENDS Integers

CONSTANTS
  Key,    \* keys a caller may pass
  Blob,   \* blobs a caller may pass
  SeqNo,    \* sequence numbers a caller may pass
  None    \* no row, no data

ASSUME SeqAssumption == SeqNo \subseteq Nat

Version == [seq : SeqNo, blob : Blob]

ASSUME NoneAssumption == None \notin Version \cup Blob

VARIABLES
  process,        \* "off" | "running" | "failed" (an assertion ended it)
  failure,        \* what the assertion was about: "none" while there is none
  committed,      \* the table in the database file
  working,        \* the table as the connection sees it
  inTransaction,  \* SQLite: the connection has left autocommit mode
  batching,       \* m_batching
  written,        \* history: every (key, version) that was set
  flushed         \* history: written as of the last commit

nodeVars == <<process, failure, committed, working, inTransaction, batching,
              written, flushed>>

Empty == [k \in Key |-> None]

Init ==
  /\ process = "off"
  /\ failure = "none"
  /\ committed = Empty
  /\ working = Empty
  /\ inTransaction = FALSE
  /\ batching = FALSE
  /\ written = {}
  /\ flushed = {}

-----------------------------------------------------------------------------
(* SQLite *)

\* BEGIN is an error inside a transaction, COMMIT outside of one.
BeginFails == inTransaction
CommitFails == ~inTransaction

(***************************************************************************)
(* The row that INSERT ... ON CONFLICT DO UPDATE would store: on a         *)
(* conflict its data is the new blob if the new sequence number is         *)
(* greater and NULL otherwise.                                             *)
(***************************************************************************)
\* Mutant of Upserted: INSERT OR REPLACE, which does not look at the sequence numbers.
Replaced(row, s, b) == [seq |-> s, blob |-> b]

Upserted(row, s, b) ==
  [seq |-> s, blob |-> IF row = None \/ s > row.seq THEN b ELSE None]

\* NOT NULL constraint failed: blobs.data
\* Mutant of ConstraintFails: the data column is nullable.
NoConstraint(row, s, b) == FALSE

ConstraintFails(row, s, b) == Upserted(row, s, b).blob = None

\* The connection is gone: an open transaction is rolled back.
Disconnected ==
  /\ working' = committed
  /\ inTransaction' = FALSE
  /\ batching' = FALSE
  /\ UNCHANGED <<committed, written, flushed>>

-----------------------------------------------------------------------------
(* SQLiteBlobNode *)

\* An assertion failed: the process ends without committing.
Abort(reason) ==
  /\ process' = "failed"
  /\ failure' = reason
  /\ Disconnected

(***************************************************************************)
(* The constructor removes sqlite.db, so nothing of an earlier run is left,*)
(* then opens it, creates the table and prepares the statement.  It can    *)
(* end at each of these: at the removal, with the old file still there, or *)
(* later, with a file that has no rows.                                    *)
(***************************************************************************)
\* Mutant of Removed: the constructor keeps the database of an earlier run.
RemovedNothing ==
  /\ working' = committed
  /\ inTransaction' = FALSE
  /\ batching' = FALSE
  /\ written' = {}
  /\ flushed' = {}
  /\ UNCHANGED committed

\* What was there is gone, and nothing is there yet.
Removed ==
  /\ committed' = Empty
  /\ working' = Empty
  /\ inTransaction' = FALSE
  /\ batching' = FALSE
  /\ written' = {}
  /\ flushed' = {}

Open ==
  /\ process # "running"
  /\ process' = "running"
  /\ failure' = "none"
  /\ Removed

\* std::filesystem::remove throws: the file of the earlier run stays.
RemoveThrows ==
  /\ process # "running"
  /\ Abort("remove")

\* One of the constructor's assertions fails, or the process is killed in it.
OpenAborts ==
  /\ process # "running"
  /\ \/ process' = "failed" /\ failure' = "engine"
     \/ process' = "off" /\ failure' = "none"
  /\ Removed

(***************************************************************************)
(* BEGIN when no batch is open, then the upsert.  Outside of a transaction *)
(* SQLite would commit the upsert on its own.                              *)
(***************************************************************************)
Set(k, s, b) ==
  /\ process = "running"
  /\ batching \/ ~BeginFails
  /\ ~ConstraintFails(working[k], s, b)
  /\ working' = [working EXCEPT ![k] = Upserted(@, s, b)]
  /\ inTransaction' = (inTransaction \/ ~batching)
  /\ batching' = TRUE
  /\ written' = written \cup {<<k, [seq |-> s, blob |-> b]>>}
  /\ committed' = IF inTransaction' THEN committed ELSE working'
  /\ flushed' = IF inTransaction' THEN flushed ELSE written'
  /\ UNCHANGED <<process, failure>>

SetAborts(k, s, b) ==
  /\ process = "running"
  /\ \/ ~batching /\ BeginFails /\ Abort("begin")
     \/ ConstraintFails(working[k], s, b) /\ Abort("constraint")
     \/ Abort("engine")   \* any error of SQLite's own: disk full, I/O, memory

(***************************************************************************)
(* Flush does nothing when no batch is open.                               *)
(***************************************************************************)
\* Mutant of Flush: it commits but does not leave batching mode.
FlushKeepsBatching ==
  /\ process = "running"
  /\ batching => ~CommitFails
  /\ committed' = IF batching THEN working ELSE committed
  /\ flushed' = IF batching THEN written ELSE flushed
  /\ inTransaction' = (inTransaction /\ ~batching)
  /\ UNCHANGED <<process, failure, working, written, batching>>

Flush ==
  /\ process = "running"
  /\ batching => ~CommitFails
  /\ committed' = IF batching THEN working ELSE committed
  /\ flushed' = IF batching THEN written ELSE flushed
  /\ inTransaction' = (inTransaction /\ ~batching)
  /\ batching' = FALSE
  /\ UNCHANGED <<process, failure, working, written>>

FlushAborts ==
  /\ process = "running"
  /\ batching
  /\ \/ CommitFails /\ Abort("commit")
     \/ Abort("engine")

\* The destructor finalizes the statement and closes the connection.  It does not commit.
Close ==
  /\ process = "running"
  /\ process' = "off"
  /\ UNCHANGED failure
  /\ Disconnected

\* The process is killed.
Crash ==
  /\ process = "running"
  /\ process' = "off"
  /\ UNCHANGED failure
  /\ Disconnected

Next ==
  \/ Open
  \/ RemoveThrows
  \/ OpenAborts
  \/ \E k \in Key, s \in SeqNo, b \in Blob : Set(k, s, b) \/ SetAborts(k, s, b)
  \/ Flush
  \/ FlushAborts
  \/ Close
  \/ Crash

Spec == Init /\ [][Next]_nodeVars
-----------------------------------------------------------------------------
(***************************************************************************)
(* Properties                                                              *)
(***************************************************************************)
Table == [Key -> Version \cup {None}]

\* Every row that is stored has a blob; the history holds versions only.
TypeOK ==
  /\ process \in {"off", "running", "failed"}
  /\ failure \in {"none", "remove", "begin", "commit", "constraint", "engine"}
  /\ committed \in Table
  /\ working \in Table
  /\ inTransaction \in BOOLEAN
  /\ batching \in BOOLEAN
  /\ written \subseteq Key \X Version
  /\ flushed \subseteq written

(***************************************************************************)
(* m_batching follows SQLite's own transaction state through every         *)
(* sequence of Set, Flush, failures and restarts: no run of the process    *)
(* ends because BEGIN or COMMIT was issued in the wrong state.             *)
(***************************************************************************)
TransactionsPair == failure \notin {"begin", "commit"}

\* row is what a table holds for key k when all of W, and nothing else, was set.
IsLatest(row, W, k) ==
  IF \E v \in Version : <<k, v>> \in W
    THEN /\ <<k, row>> \in W
         /\ \A v \in Version : <<k, v>> \in W => v.seq <= row.seq
    ELSE row = None

(***************************************************************************)
(* The table of a running process holds, for each key, the newest of all   *)
(* blobs set since the process started, and the file holds the newest of   *)
(* those set before the last commit - no more and no less, whatever        *)
(* failure, crash or restart comes in between.                             *)
(***************************************************************************)
LatestBlobWins ==
  \A k \in Key :
    /\ process = "running" => IsLatest(working[k], written, k)
    /\ IsLatest(committed[k], flushed, k)

Store == INSTANCE BlobStore WITH store <- working, durable <- committed

\* The node is a BlobStore: the connection's table is the store, the file its durable copy.
ImplementsBlobStore == Store!Spec
=============================================================================
