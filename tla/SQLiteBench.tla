----------------------------- MODULE SQLiteBench -----------------------------
(***************************************************************************)
(* The write benchmark on SQLite: the loop of WriteBenchmark calling       *)
(* SQLiteWrite (Write/SQLite/SQLiteWrite.cpp), which hands every Set to a  *)
(* SQLiteBlobNode at once and flushes it from Update when its timer has    *)
(* expired.  main constructs the backend, runs the benchmark and deletes   *)
(* the backend.  The process may be killed at any time, any error of       *)
(* SQLite ends it, and what an earlier run left of the database is there   *)
(* when it starts.                                                         *)
(***************************************************************************)
EXTENDS WriteBenchmark

CONSTANTS
  FlushTicks,  \* m_flushTimer.SetTimeout(500)
  None         \* no row, no data

ASSUME FlushAssumption ==
  /\ FlushTicks \in PosInt
  /\ None \notin BlobSize \cup [seq : 0 .. Uint32 - 1, blob : BlobSize]

VARIABLES
  process, failure, committed, working, inTransaction, batching, written,
  flushed,           \* SQLiteBlobNode's
  started,           \* the constructor of the backend has removed the file
  flushTimer,        \* m_flushTimer
  logicalWriteBytes, \* m_logicalWriteBytes
  dirtySince         \* history: when the first Set after a commit was called

Node == INSTANCE SQLiteBlobNode
          WITH Key <- BlobKey, Blob <- BlobSize, SeqNo <- 0 .. Uint32 - 1

nodeVars == <<process, failure, committed, working, inTransaction, batching,
              written, flushed>>

backendVars == <<started, flushTimer, logicalWriteBytes, dirtySince>>

benchVars == <<loopVars, nodeVars, backendVars>>

-----------------------------------------------------------------------------
(***************************************************************************)
(* The constructor of the backend sets m_flushTimer some time before       *)
(* startTime.  The file may hold whatever an earlier run committed.        *)
(***************************************************************************)
BenchInit ==
  /\ Init
  /\ process = "off" /\ failure = "none"
  /\ committed \in Node!Table
  /\ working = committed
  /\ inTransaction = FALSE /\ batching = FALSE
  /\ written = {} /\ flushed = {}
  /\ started = FALSE
  /\ flushTimer \in 0 .. FlushTicks
  /\ logicalWriteBytes = 0
  /\ dirtySince = 0

\* main: _CreateWriteBackend constructs the node.
Start ==
  /\ ~started
  /\ \/ Node!Open
     \/ Node!OpenAborts
  /\ started' = TRUE
  /\ UNCHANGED <<loopVars, flushTimer, logicalWriteBytes, dirtySince>>

\* The file cannot be removed: the process ends, and may be run again.
StartThrows ==
  /\ ~started
  /\ Node!RemoveThrows
  /\ UNCHANGED <<loopVars, backendVars>>

(***************************************************************************)
(* IWriteBackend::Set, called from the catch-up loop with numWrites as its *)
(* sequence number.                                                        *)
(***************************************************************************)
Write(k, b, d) ==
  /\ IssueWrite(d)
  /\ Node!Set(k, numWrites, b)
  /\ logicalWriteBytes' = logicalWriteBytes + b
  /\ dirtySince' = IF inTransaction THEN dirtySince ELSE now
  /\ UNCHANGED <<started, flushTimer>>

WriteAborts(k, b) ==
  /\ pc = "writes"
  /\ pending > 0
  /\ Node!SetAborts(k, numWrites, b)
  /\ UNCHANGED <<loopVars, backendVars>>

\* Mutant of Update: the call of Flush is missing.
UpdateWithoutFlush(d) ==
  /\ process = "running"
  /\ UpdateBackend(d)
  /\ \/ /\ HasExpired(flushTimer, now)
        /\ flushTimer' \in Rearmed(flushTimer, now, FlushTicks)
     \/ /\ ~HasExpired(flushTimer, now)
        /\ UNCHANGED flushTimer
  /\ UNCHANGED <<started, nodeVars, logicalWriteBytes, dirtySince>>

\* IWriteBackend::Update, called once the catch-up loop is done.
Update(d) ==
  /\ process = "running"
  /\ UpdateBackend(d)
  /\ \/ /\ HasExpired(flushTimer, now)
        /\ flushTimer' \in Rearmed(flushTimer, now, FlushTicks)
        /\ Node!Flush
     \/ /\ ~HasExpired(flushTimer, now)
        /\ UNCHANGED <<flushTimer, nodeVars>>
  /\ UNCHANGED <<started, logicalWriteBytes, dirtySince>>

UpdateAborts ==
  /\ pc = "writes"
  /\ pending <= 0
  /\ HasExpired(flushTimer, now)
  /\ Node!FlushAborts
  /\ UNCHANGED <<loopVars, backendVars>>

\* The steps of the loop that do not call into the node or only read it.
Proceed(d) ==
  /\ process = "running"
  /\ \/ RunOver(d)
     \/ Account(d)
     \/ SampleMemory(d)
     \/ \E diskUsage \in DiskSamples : SampleDisk(diskUsage, d)
     \/ SkipDisk(d)
     \/ Sleep(d)
     \/ Report
  /\ UNCHANGED <<nodeVars, backendVars>>

\* main returns: the backend is deleted, and with it the node.
Finish ==
  /\ pc = "done"
  /\ Node!Close
  /\ UNCHANGED <<loopVars, backendVars>>

Kill ==
  /\ Node!Crash
  /\ UNCHANGED <<loopVars, backendVars>>

BenchNext ==
  \/ Start
  \/ StartThrows
  \/ \E k \in BlobKey, b \in RandomBlob :
       \/ \E d \in SetDurations : Write(k, b, d)
       \/ WriteAborts(k, b)
  \/ \E d \in StepDurations : Update(d) \/ Proceed(d)
  \/ UpdateAborts
  \/ Finish
  \/ Kill

BenchSpec == BenchInit /\ [][BenchNext]_benchVars
-----------------------------------------------------------------------------
(***************************************************************************)
(* Properties                                                              *)
(***************************************************************************)
(***************************************************************************)
(* The upsert stores NULL, and so ends the process, for a sequence number  *)
(* that is not above the row's.  The loop numbers its writes so that this  *)
(* cannot happen before a uint32_t count of writes has wrapped around -    *)
(* whatever an earlier run, finished or killed, left in the file.          *)
(***************************************************************************)
StaleOnlyAfterWrap == failure = "constraint" => ~BeforeWrap

(***************************************************************************)
(* What a crash can lose is bounded in time: at any moment the oldest      *)
(* write that is not durable is younger than the flush period plus one     *)
(* iteration of the loop, as long as Set is fast enough for the rate.      *)
(* The README has every engine flush its log every 500 ms.                 *)
(***************************************************************************)
LossWindow ==
  inTransaction /\ pc \notin {"report", "done"} =>
    WithinIterations(1, now - dirtySince - FlushTicks)

(***************************************************************************)
(* What a crash leaves is a prefix of the run: for some n the file holds,  *)
(* for each key, the newest of the first n writes, and nothing of an       *)
(* earlier run.  This is claimed only while NoCounterWrapped holds: once   *)
(* numWrites has wrapped around, two writes of the run have one number and *)
(* "the first n" cannot be told by numbers.                                *)
(***************************************************************************)
FileIsPrefix ==
  started /\ NoCounterWrapped =>
    \E n \in 0 .. Uint32 :
      \A k \in BlobKey :
        Node!IsLatest(committed[k], {w \in written : w[2].seq < n}, k)
=============================================================================
