----------------------------- MODULE RocksDBBench -----------------------------
(***************************************************************************)
(* The write benchmark on RocksDB: the loop of WriteBenchmark calling      *)
(* RocksDBWrite (Write/RocksDB/RocksDBWrite.cpp), which hands every Set to *)
(* a RocksDBBlobNode and flushes it from Update when its timer has         *)
(* expired.  A Get or a FlushWAL may fail unnoticed at any call, any other *)
(* error of RocksDB ends the process, and the process may be killed or the *)
(* machine crash at any time, also between the two Puts of a Set.          *)
(***************************************************************************)
EXTENDS WriteBenchmark, Sequences

CONSTANTS
  FlushTicks,  \* m_flushTimer.SetTimeout(500)
  None,        \* no value, no item, no time
  MaxSets,     \* bound: accepted writes of a run, more than it can make
  Compression, DefaultCompression

ASSUME FlushAssumption ==
  /\ FlushTicks \in PosInt
  /\ MaxSets \in Nat
  /\ LET Version == [seq : 0 .. Uint32 - 1, blob : BlobSize]
     IN  None \notin Nat \cup Version \cup (BlobKey \X Version)

VARIABLES
  nodePc, failure, families, compression, log, synced, item, readFailed,
  written,            \* RocksDBBlobNode's
  started,            \* main has begun to construct the backend
  flushTimer,         \* m_flushTimer
  logicalWriteBytes,  \* m_logicalWriteBytes
  dirtySince,         \* history: time of the first Put after the last sync
  flushFailures       \* history: calls of FlushWAL that failed since then

Node == INSTANCE RocksDBBlobNode
          WITH Key <- BlobKey, Blob <- BlobSize, SeqNo <- 0 .. Uint32 - 1,
               pc <- nodePc

nodeVars == <<nodePc, failure, families, compression, log, synced, item,
              readFailed, written>>

backendVars == <<started, flushTimer, logicalWriteBytes, dirtySince,
                 flushFailures>>

benchVars == <<loopVars, nodeVars, backendVars>>

-----------------------------------------------------------------------------
(***************************************************************************)
(* An earlier run may have left a database; the constructor deletes it.    *)
(***************************************************************************)
BenchInit ==
  /\ Init
  /\ nodePc = "off" /\ failure = "none"
  /\ families \in {{}, {"default"}, {"default", "seq"}}
  /\ compression = None
  /\ log = << >> /\ synced = 0
  /\ item = None
  /\ readFailed = FALSE
  /\ written = {}
  /\ started = FALSE
  /\ flushTimer \in 0 .. FlushTicks
  /\ logicalWriteBytes = 0
  /\ dirtySince = None
  /\ flushFailures = 0

\* main: _CreateWriteBackend runs the steps of the node's constructor.
Construct ==
  /\ \/ ~started /\ Node!RemoveAll
     \/ Node!CreateDatabase
     \/ Node!CreateColumnFamily
     \/ Node!DeleteTempDB
     \/ Node!OpenDatabase
     \/ Node!OpenAborts
  /\ started' = TRUE
  /\ UNCHANGED <<loopVars, flushTimer, logicalWriteBytes, dirtySince,
                 flushFailures>>

Due == pc = "writes" /\ pending > 0

\* The number that the loop passes to Set.
\* Mutant of Number: the number is narrowed to a type of half the range.
NarrowNumber == numWrites % (Uint32 \div 2)

Number == numWrites

\* IWriteBackend::Set, up to the first Put of the node.
BeginWrite(k, b) ==
  /\ Due
  /\ Node!SetBlob(k, [seq |-> Number, blob |-> b])
  /\ dirtySince' = IF dirtySince = None THEN now ELSE dirtySince
  /\ UNCHANGED <<loopVars, started, flushTimer, logicalWriteBytes,
                 flushFailures>>

EndWrite(d) ==
  /\ Node!SetSeq
  /\ IssueWrite(d)
  /\ logicalWriteBytes' = logicalWriteBytes + item[2].blob
  /\ UNCHANGED <<started, flushTimer, dirtySince, flushFailures>>

\* The node drops the write; the backend counts its bytes all the same.
DropWrite(k, b, d) ==
  /\ Node!SetStale(k, [seq |-> Number, blob |-> b])
  /\ IssueWrite(d)
  /\ logicalWriteBytes' = logicalWriteBytes + b
  /\ UNCHANGED <<started, flushTimer, dirtySince, flushFailures>>

WriteAborts ==
  /\ Due
  /\ Node!SetAborts
  /\ UNCHANGED <<loopVars, backendVars>>

\* Mutant of FlushNode: FlushWAL(false), which leaves the log to the system.
FlushNodeWithoutSync ==
  UNCHANGED <<nodeVars, dirtySince, flushFailures>>

\* m_blobNode.Flush(), whose failure nobody sees.
FlushNode ==
  \/ Node!Flush /\ dirtySince' = None /\ flushFailures' = 0
  \/ Node!FlushFails /\ UNCHANGED dirtySince /\ flushFailures' = flushFailures + 1

\* IWriteBackend::Update, called once the catch-up loop is done.
Update(d) ==
  /\ nodePc = "ready"
  /\ UpdateBackend(d)
  /\ \/ /\ HasExpired(flushTimer, now)
        /\ flushTimer' \in Rearmed(flushTimer, now, FlushTicks)
        /\ FlushNode
     \/ /\ ~HasExpired(flushTimer, now)
        /\ UNCHANGED <<flushTimer, nodeVars, dirtySince, flushFailures>>
  /\ UNCHANGED <<started, logicalWriteBytes>>

\* The steps of the loop that do not call into the node or only read it.
Proceed(d) ==
  /\ nodePc = "ready"
  /\ \/ RunOver(d)
     \/ Account(d)
     \/ SampleMemory(d)
     \/ \E diskUsage \in DiskSamples : SampleDisk(diskUsage, d)
     \/ SkipDisk(d)
     \/ Sleep(d)
     \/ Report
  /\ UNCHANGED <<nodeVars, backendVars>>

\* GetDiskSpaceUsed throws, and nobody catches it.
SampleDiskThrows ==
  /\ pc = "disk"
  /\ HasExpired(diskUsageTimer, now)
  /\ Node!GetDiskSpaceUsedThrows
  /\ UNCHANGED <<loopVars, backendVars>>

\* main returns: the backend is deleted, and with it the node.
Finish ==
  /\ pc = "done"
  /\ Node!Close
  /\ UNCHANGED <<loopVars, backendVars>>

GoDown ==
  /\ nodePc # "off"
  /\ Node!Kill \/ Node!MachineCrash
  /\ UNCHANGED <<loopVars, backendVars>>

BackgroundSync ==
  /\ nodePc # "off"
  /\ Node!BackgroundSync
  /\ UNCHANGED <<loopVars, backendVars>>

BenchNext ==
  \/ Construct
  \/ \E k \in BlobKey, b \in RandomBlob : BeginWrite(k, b)
  \/ \E k \in BlobKey, b \in RandomBlob, d \in SetDurations : DropWrite(k, b, d)
  \/ \E d \in SetDurations : EndWrite(d)
  \/ WriteAborts
  \/ \E d \in StepDurations : Update(d) \/ Proceed(d)
  \/ SampleDiskThrows
  \/ Finish
  \/ GoDown
  \/ BackgroundSync

BenchSpec == BenchInit /\ [][BenchNext]_benchVars
-----------------------------------------------------------------------------
(***************************************************************************)
(* Properties                                                              *)
(***************************************************************************)
(***************************************************************************)
(* The versions of key k among the first m writes of the run: those whose  *)
(* two Puts were made, and the one that was begun last.                    *)
(***************************************************************************)
FirstWrites(m, k) ==
  {w[2] : w \in {x \in written \cup {item} :
                   x # None /\ x[1] = k /\ x[2].seq < m}}

\* The newest of the versions W, if there is one.
Newest(W) == {v \in W : \A u \in W : u.seq <= v.seq}

IsNumberOf(s, W) == IF W = {} THEN s = None ELSE \E v \in Newest(W) : s = v.seq

IsBlobOf(b, W) == IF W = {} THEN b = None ELSE \E v \in Newest(W) : b = v.blob

(***************************************************************************)
(* What a crash of the process or of the machine leaves is a prefix of the *)
(* run, or a prefix and one blob.  After n Puts the numbers that Gets find *)
(* are those of the first n \div 2 writes, each counted, of which the      *)
(* newest of a key wins; the blobs are those of the same writes, but if n  *)
(* is odd the next write's blob is there too, under the old number of its  *)
(* key.  This holds although Gets may have failed: as long as numWrites    *)
(* has not wrapped around, an error that is taken for "no number" lets     *)
(* through only what a number would have let through.                      *)
(***************************************************************************)
PrefixButOneBlob ==
  BeforeWrap =>
    \A n \in synced .. Len(log), k \in BlobKey :
      LET row == Node!Stored(n)[k]
      IN  /\ IsNumberOf(row.seq, FirstWrites(n \div 2, k))
          /\ IsBlobOf(row.blob, FirstWrites((n + 1) \div 2, k))

\* The bytes of a Put, if it is the Put of a blob.
Bytes(p) == IF p.family = "default" THEN p.value ELSE 0

BlobBytes(puts) ==
  LET total[n \in 0 .. Len(puts)] ==
        IF n = 0 THEN 0 ELSE total[n - 1] + Bytes(puts[n])
  IN  total[Len(puts)]

(***************************************************************************)
(* The write amplification in the report's last line divides by the        *)
(* logical bytes: as long as numWrites has not wrapped around they are the *)
(* bytes of the blobs that were put, none of them dropped as stale.        *)
(***************************************************************************)
LogicalBytesArePut ==
  BeforeWrap /\ nodePc = "ready" => logicalWriteBytes = BlobBytes(log)

(***************************************************************************)
(* What a crash of the machine can lose is bounded in time: the oldest     *)
(* write that is not synced is younger than the flush period plus an       *)
(* iteration of the loop, and this much longer again for each FlushWAL in  *)
(* a row whose failure went unnoticed, as long as Set is fast enough for   *)
(* the rate.  The README has every engine flush its log every 500 ms.      *)
(***************************************************************************)
LossWindow ==
  LET periods == flushFailures + 1
  IN  synced < Len(log) /\ nodePc # "off" /\ pc \notin {"report", "done"} =>
        WithinIterations(periods, now - dirtySince - periods * FlushTicks)
=============================================================================
