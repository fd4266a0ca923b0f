-------------------------- MODULE RocksDBBenchProofs --------------------------
(***************************************************************************)
(* Proofs about RocksDBBench: what the loop and the node guarantee         *)
(* together that neither does alone, for every configuration, all          *)
(* durations and a log of any length.  The lemmas about the loop are those *)
(* of WriteBenchmarkProofs, those about the node are                       *)
(* RocksDBBlobNodeProofs' of the node as it is composed here.              *)
(***************************************************************************)
EXTENDS RocksDBBench, WriteBenchmarkProofs, WellFoundedInduction, NaturalsInduction

NodeProofs == INSTANCE RocksDBBlobNodeProofs
                WITH Key <- BlobKey, Blob <- BlobSize, SeqNo <- 0 .. Uint32 - 1,
                     pc <- nodePc

USE DEF PosInt

-----------------------------------------------------------------------------
(***************************************************************************)
(* The composition                                                         *)
(***************************************************************************)
\* What the node assumes of its constants.
LEMMA NodeAssumptions ==
  /\ 0 .. Uint32 - 1 \subseteq Nat /\ MaxSets \in Nat
  /\ None \notin BlobSize \cup (0 .. Uint32 - 1) \cup NodeProofs!Version \cup NodeProofs!Item
<1>1. BlobSize \subseteq Nat
  BY ConfigAssumption DEF BlobSize
<1>2. NodeProofs!Version = [seq : 0 .. Uint32 - 1, blob : BlobSize]
  BY DEF NodeProofs!Version
<1>3. NodeProofs!Item = BlobKey \X NodeProofs!Version
  BY DEF NodeProofs!Item
<1>4. 0 .. Uint32 - 1 \subseteq Nat
  OBVIOUS
<1> HIDE DEF NodeProofs!Version
<1>5. None \notin Nat /\ None \notin NodeProofs!Version /\ None \notin NodeProofs!Item
  BY <1>2, <1>3, FlushAssumption
<1> QED BY <1>1, <1>4, <1>5, FlushAssumption

\* A step of the composition is a step of the loop, or leaves the loop alone.
LEMMA LoopSteps == ASSUME TypeOK, [BenchNext]_benchVars PROVE [Next]_loopVars
<1>1. ASSUME NEW d \in SetDurations, EndWrite(d) \/ \E k, b : DropWrite(k, b, d)
      PROVE  Next
  BY <1>1 DEF EndWrite, DropWrite, Next
<1>2. ASSUME NEW d \in StepDurations, Update(d) \/ Proceed(d) PROVE Next
  BY <1>2 DEF Update, Proceed, Next
<1>3. CASE \/ Construct \/ \E k \in BlobKey, b \in RandomBlob : BeginWrite(k, b)
           \/ WriteAborts \/ SampleDiskThrows \/ Finish \/ GoDown \/ BackgroundSync
  BY <1>3 DEF Construct, BeginWrite, WriteAborts, SampleDiskThrows, Finish, GoDown,
              BackgroundSync
<1>4. CASE UNCHANGED benchVars
  BY <1>4 DEF benchVars
<1> QED BY <1>1, <1>2, <1>3, <1>4 DEF BenchNext

\* What is proved of the loop holds of the composition.
LEMMA LoopAlways == BenchSpec => [](TypeOK /\ PaceInv /\ IterInv)
<1>1. BenchInit => TypeOK /\ PaceInv /\ IterInv
  BY InitType, InitPace, InitIter DEF BenchInit
<1>2. TypeOK /\ PaceInv /\ IterInv /\ [BenchNext]_benchVars
        => (TypeOK /\ PaceInv /\ IterInv)'
  BY LoopSteps, NextType, NextPace, NextIter
<1> QED BY <1>1, <1>2, PTL DEF BenchSpec

\* The number that Get finds, and the store that the log stands for.
LEMMA LookUps ==
  /\ \A k : Node!ExistingSeq(k) = NodeProofs!ExistingSeq(k)
  /\ \A n : Node!Stored(n) = NodeProofs!StoredIn(log, n)
<1>1. \A f, k, n : Node!LastPut(f, k, n) = NodeProofs!LastPut(f, k, n)
  BY Zenon DEF Node!LastPut, NodeProofs!LastPut, Node!SelectLastInSeq,
               NodeProofs!SelectLastInSeq, Node!Max, NodeProofs!Max
<1>2. \A f, k, n : Node!Row(f, k, n) = NodeProofs!Row(f, k, n)
  BY <1>1, Zenon DEF Node!Row, NodeProofs!Row
<1>3. \A k : Node!ExistingSeq(k) = NodeProofs!ExistingSeq(k)
  BY <1>2, Zenon DEF Node!ExistingSeq, NodeProofs!ExistingSeq
<1>4. \A f, k, n : Node!Row(f, k, n) = NodeProofs!RowIn(log, f, k, n)
  BY <1>2, NodeAssumptions, NodeProofs!LookUps
<1>5. \A n : Node!Stored(n) = NodeProofs!StoredIn(log, n)
  BY <1>4, Zenon DEF Node!Stored, NodeProofs!StoredIn
<1> QED BY <1>3, <1>5

\* The actions of the node are those its proofs are about.
LEMMA NodeActions ==
  /\ Node!RemoveAll => NodeProofs!RemoveAll
  /\ \/ Node!CreateDatabase \/ Node!CreateColumnFamily \/ Node!DeleteTempDB
     \/ Node!OpenDatabase
     => \/ NodeProofs!CreateDatabase \/ NodeProofs!CreateColumnFamily
        \/ NodeProofs!DeleteTempDB \/ NodeProofs!OpenDatabase
  /\ \/ Node!OpenAborts \/ Node!SetAborts \/ Node!GetDiskSpaceUsedThrows
     \/ Node!Close \/ Node!Kill
     => \/ NodeProofs!OpenAborts \/ NodeProofs!SetAborts
        \/ NodeProofs!GetDiskSpaceUsedThrows \/ NodeProofs!Close \/ NodeProofs!Kill
  /\ \A k, v : Node!SetBlob(k, v) => NodeProofs!SetBlob(k, v)
  /\ Node!SetSeq => NodeProofs!SetSeq
  /\ Node!Flush => NodeProofs!Flush
  /\ Node!BackgroundSync => NodeProofs!BackgroundSync
  /\ Node!MachineCrash => NodeProofs!MachineCrash
<1> USE DEF Node!Abort, NodeProofs!Abort, Node!Gone, NodeProofs!Gone, Node!Opened,
            NodeProofs!Opened, Node!Descriptors, NodeProofs!Descriptors, Node!Put,
            NodeProofs!Put, Node!Puts, NodeProofs!Puts
<1>1. Node!RemoveAll => NodeProofs!RemoveAll
  BY DEF Node!RemoveAll, NodeProofs!RemoveAll
<1>2. \/ Node!CreateDatabase \/ Node!CreateColumnFamily \/ Node!DeleteTempDB
      \/ Node!OpenDatabase
      => \/ NodeProofs!CreateDatabase \/ NodeProofs!CreateColumnFamily
         \/ NodeProofs!DeleteTempDB \/ NodeProofs!OpenDatabase
  BY Zenon DEF Node!CreateDatabase, NodeProofs!CreateDatabase, Node!CreateColumnFamily,
         NodeProofs!CreateColumnFamily, Node!DeleteTempDB, NodeProofs!DeleteTempDB,
         Node!OpenDatabase, NodeProofs!OpenDatabase
<1>3. Node!OpenAborts => NodeProofs!OpenAborts
  BY Zenon DEF Node!OpenAborts, NodeProofs!OpenAborts, Node!OpenFailure,
         NodeProofs!OpenFailure
<1>4. /\ Node!SetAborts => NodeProofs!SetAborts
      /\ Node!GetDiskSpaceUsedThrows => NodeProofs!GetDiskSpaceUsedThrows
      /\ Node!Close => NodeProofs!Close
      /\ Node!Kill => NodeProofs!Kill
  BY Zenon DEF Node!SetAborts, NodeProofs!SetAborts, Node!GetDiskSpaceUsedThrows,
         NodeProofs!GetDiskSpaceUsedThrows, Node!Close, NodeProofs!Close, Node!Kill,
         NodeProofs!Kill
<1>5. \A k, v : Node!SetBlob(k, v) => NodeProofs!SetBlob(k, v)
  BY LookUps, Zenon DEF Node!SetBlob, NodeProofs!SetBlob, Node!Stale, NodeProofs!Stale
<1>6. Node!SetSeq => NodeProofs!SetSeq
  BY Zenon DEF Node!SetSeq, NodeProofs!SetSeq
<1>7. /\ Node!Flush => NodeProofs!Flush
      /\ Node!BackgroundSync => NodeProofs!BackgroundSync
      /\ Node!MachineCrash => NodeProofs!MachineCrash
  BY Zenon DEF Node!Flush, NodeProofs!Flush, Node!BackgroundSync, NodeProofs!BackgroundSync,
         Node!MachineCrash, NodeProofs!MachineCrash
<1>8. \/ Node!OpenAborts \/ Node!SetAborts \/ Node!GetDiskSpaceUsedThrows
      \/ Node!Close \/ Node!Kill
      => \/ NodeProofs!OpenAborts \/ NodeProofs!SetAborts
         \/ NodeProofs!GetDiskSpaceUsedThrows \/ NodeProofs!Close \/ NodeProofs!Kill
  BY <1>3, <1>4, Zenon
<1> QED BY <1>1, <1>2, <1>5, <1>6, <1>7, <1>8, Zenon

\* What Set is called with is a version.
LEMMA NextVersion ==
  ASSUME TypeOK
  PROVE  \A b \in RandomBlob :
           /\ b \in BlobSize
           /\ [seq |-> Number, blob |-> b] \in NodeProofs!Version
BY DEF TypeOK, RandomBlob, Number, NodeProofs!Version

-----------------------------------------------------------------------------
(***************************************************************************)
(* What a step of the composition does                                     *)
(***************************************************************************)
\* The constructor, until it has opened the database.
Constructing == nodePc \in {"create", "family", "delete", "open"}

Constructs ==
  /\ UNCHANGED <<loopVars, flushTimer, logicalWriteBytes, dirtySince, flushFailures>>
  /\ \/ ~started /\ NodeProofs!RemoveAll
     \/ Constructing /\ UNCHANGED <<log, synced, written>>
  /\ nodePc' = "off" \/ Constructing' \/ nodePc' = "ready"
  /\ started'

Begins ==
  \E k \in BlobKey, v \in NodeProofs!Version :
    /\ pc = "writes" /\ v.seq = numWrites
    /\ NodeProofs!SetBlob(k, v)
    /\ dirtySince' = IF dirtySince = None THEN now ELSE dirtySince
    /\ UNCHANGED <<loopVars, flushTimer, logicalWriteBytes, flushFailures, started>>

Writes ==
  \E d \in SetDurations :
    /\ IssueWrite(d)
    /\ \/ NodeProofs!SetSeq /\ logicalWriteBytes' = logicalWriteBytes + item[2].blob
       \/ /\ nodePc = "ready"
          /\ UNCHANGED nodeVars
          /\ \E k \in BlobKey : NodeProofs!Stale(NodeProofs!ExistingSeq(k), numWrites)
          /\ \E b \in BlobSize : logicalWriteBytes' = logicalWriteBytes + b
    /\ UNCHANGED <<flushTimer, dirtySince, flushFailures, started>>

Updates ==
  \E d \in StepDurations :
    /\ nodePc = "ready"
    /\ UpdateBackend(d)
    /\ HasExpired(flushTimer, now)
    /\ flushTimer' \in Rearmed(flushTimer, now, FlushTicks)
    /\ \/ NodeProofs!Flush /\ dirtySince' = None /\ flushFailures' = 0
       \/ /\ UNCHANGED <<nodeVars, dirtySince>>
          /\ flushFailures' = flushFailures + 1
    /\ UNCHANGED <<logicalWriteBytes, started>>

Waits ==
  /\ [Next]_loopVars
  /\ pc = "writes" /\ pc' = "stats" => ~HasExpired(flushTimer, now)
  /\ pc # "writes" \/ pc' # "writes" \/ UNCHANGED loopVars
  /\ UNCHANGED nodeVars \/ (NodeProofs!BackgroundSync /\ UNCHANGED loopVars)
  /\ UNCHANGED <<flushTimer, logicalWriteBytes, dirtySince, flushFailures, started>>

Ends ==
  /\ nodePc # "off"
  /\ nodePc' = "off"
  /\ \/ NodeProofs!MachineCrash
     \/ UNCHANGED <<log, synced, item, readFailed, written>>
  /\ UNCHANGED <<loopVars, backendVars>>

LEMMA BenchSteps ==
  ASSUME TypeOK, [BenchNext]_benchVars, NodeProofs!NodeInv
  PROVE  /\ NodeProofs!NodeInv'
         /\ Constructs \/ Begins \/ Writes \/ Updates \/ Waits \/ Ends
<1> USE NodeAssumptions
<1>1. CASE Construct
  <2>1. UNCHANGED <<loopVars, flushTimer, logicalWriteBytes, dirtySince, flushFailures>> /\ started'
    BY <1>1 DEF Construct
  <2>2. CASE ~started /\ Node!RemoveAll
    <3>1. NodeProofs!RemoveAll /\ ~started
      BY <2>2, NodeActions
    <3>2. nodePc' = "create"
      BY <3>1 DEF NodeProofs!RemoveAll
    <3> QED BY <2>1, <3>1, <3>2, NodeProofs!EmptyLogInv DEF Constructs, Constructing
  <2>3. CASE \/ Node!CreateDatabase \/ Node!CreateColumnFamily \/ Node!DeleteTempDB
             \/ Node!OpenDatabase
    <3>1. \/ NodeProofs!CreateDatabase \/ NodeProofs!CreateColumnFamily
          \/ NodeProofs!DeleteTempDB \/ NodeProofs!OpenDatabase
      BY <2>3, NodeActions
    <3>2. /\ Constructing /\ UNCHANGED <<log, synced, written>>
          /\ Constructing' \/ nodePc' = "ready"
      BY <3>1 DEF NodeProofs!CreateDatabase, NodeProofs!CreateColumnFamily,
                  NodeProofs!DeleteTempDB, NodeProofs!OpenDatabase, Constructing
    <3> QED BY <2>1, <3>1, <3>2, NodeProofs!OpeningInv DEF Constructs
  <2>4. CASE Node!OpenAborts
    <3>1. /\ Constructing /\ UNCHANGED <<log, synced, written>> /\ nodePc' = "off"
      BY <2>4 DEF Node!OpenAborts, Node!Abort, Node!Gone, Constructing
    <3>2. NodeProofs!NodeInv'
      BY <2>4, NodeActions, NodeProofs!EndOfProcess, NodeProofs!EndInv
    <3> QED BY <2>1, <3>1, <3>2 DEF Constructs
  <2> QED BY <1>1, <2>2, <2>3, <2>4 DEF Construct
<1>2. ASSUME NEW k \in BlobKey, NEW b \in RandomBlob, BeginWrite(k, b)
      PROVE  NodeProofs!NodeInv' /\ Begins
  <2> DEFINE v == [seq |-> Number, blob |-> b]
  <2>1. v \in NodeProofs!Version /\ v.seq = numWrites
    BY NextVersion DEF Number
  <2>2. NodeProofs!SetBlob(k, v)
    BY <1>2, NodeActions DEF BeginWrite
  <2> HIDE DEF v
  <2>3. NodeProofs!NodeInv'
    BY <2>1, <2>2, NodeProofs!SetBlobInv
  <2> QED BY <1>2, <2>1, <2>2, <2>3 DEF Begins, BeginWrite, Due
<1>3. ASSUME NEW d \in SetDurations, EndWrite(d)
      PROVE  NodeProofs!NodeInv' /\ Writes
  <2>1. NodeProofs!SetSeq
    BY <1>3, NodeActions DEF EndWrite
  <2>2. NodeProofs!NodeInv'
    BY <2>1, NodeProofs!SetSeqInv
  <2> QED BY <1>3, <2>1, <2>2 DEF Writes, EndWrite
<1>4. ASSUME UNCHANGED nodeVars PROVE NodeProofs!NodeInv'
  <2>1. UNCHANGED NodeProofs!nodeVars
    BY <1>4 DEF nodeVars, NodeProofs!nodeVars
  <2> QED BY <2>1, NodeProofs!StepInv
<1>5. ASSUME NEW k \in BlobKey, NEW b \in RandomBlob, NEW d \in SetDurations,
             DropWrite(k, b, d)
      PROVE  NodeProofs!NodeInv' /\ Writes
  <2>1. /\ UNCHANGED nodeVars /\ nodePc = "ready"
        /\ NodeProofs!Stale(NodeProofs!ExistingSeq(k), numWrites)
    BY <1>5, LookUps DEF DropWrite, Node!SetStale, Node!nodeVars, nodeVars, Number,
                         Node!Stale, NodeProofs!Stale
  <2>2. \E b0 \in BlobSize : logicalWriteBytes' = logicalWriteBytes + b0
    BY <1>5, NextVersion DEF DropWrite
  <2>3. IssueWrite(d) /\ UNCHANGED <<flushTimer, dirtySince, flushFailures, started>>
    BY <1>5 DEF DropWrite
  <2>4. Writes
    BY <2>1, <2>2, <2>3 DEF Writes
  <2> QED BY <1>4, <2>1, <2>4
<1>6. ASSUME NEW d \in StepDurations, Update(d)
      PROVE  NodeProofs!NodeInv' /\ (Updates \/ Waits)
  <2>1. nodePc = "ready" /\ UpdateBackend(d) /\ UNCHANGED <<logicalWriteBytes, started>>
    BY <1>6 DEF Update
  <2>2. CASE HasExpired(flushTimer, now) /\ Node!Flush /\ dirtySince' = None /\ flushFailures' = 0
    <3>1. NodeProofs!Flush
      BY <2>2, NodeActions
    <3>2. NodeProofs!NodeInv'
      BY <3>1, NodeProofs!SyncInv
    <3> QED BY <1>6, <2>1, <2>2, <3>1, <3>2 DEF Update, Updates
  <2>3. CASE /\ HasExpired(flushTimer, now) /\ Node!FlushFails
             /\ UNCHANGED dirtySince /\ flushFailures' = flushFailures + 1
    <3>1. UNCHANGED <<nodeVars, dirtySince>>
      BY <2>3 DEF Node!FlushFails, Node!nodeVars, nodeVars
    <3> QED BY <1>4, <1>6, <2>1, <2>3, <3>1 DEF Update, Updates
  <2>4. CASE ~HasExpired(flushTimer, now)
    <3>1. /\ UNCHANGED nodeVars
          /\ UNCHANGED <<flushTimer, logicalWriteBytes, dirtySince, flushFailures, started>>
      BY <1>6, <2>4 DEF Update
    <3>2. [Next]_loopVars /\ pc' = "stats"
      BY <2>1 DEF Next, UpdateBackend
    <3> QED BY <1>4, <2>4, <3>1, <3>2 DEF Waits
  <2> QED BY <1>6, <2>2, <2>3, <2>4 DEF Update, FlushNode
<1>7. ASSUME NEW d \in StepDurations, Proceed(d)
      PROVE  NodeProofs!NodeInv' /\ Waits
  <2>1. UNCHANGED <<nodeVars, backendVars>> /\ [Next]_loopVars
    BY <1>7 DEF Proceed, Next
  <2>2. pc # "writes"
    BY <1>7 DEF Proceed, RunOver, Account, SampleMemory, SampleDisk, SkipDisk, Sleep, Report
  <2> QED BY <1>4, <2>1, <2>2 DEF Waits, backendVars
<1>8. CASE WriteAborts \/ SampleDiskThrows \/ Finish \/ (GoDown /\ Node!Kill)
  <2>1. /\ UNCHANGED <<loopVars, backendVars>>
        /\ Node!SetAborts \/ Node!GetDiskSpaceUsedThrows \/ Node!Close \/ Node!Kill
    BY <1>8 DEF WriteAborts, SampleDiskThrows, Finish, GoDown
  <2>2. NodeProofs!NodeInv'
    BY <2>1, NodeActions, NodeProofs!EndOfProcess, NodeProofs!EndInv
  <2>3. /\ nodePc # "off" /\ nodePc' = "off"
        /\ UNCHANGED <<log, synced, item, readFailed, written>>
    BY <2>1 DEF Node!SetAborts, Node!GetDiskSpaceUsedThrows, Node!Close, Node!Kill,
                Node!Abort, Node!Gone
  <2> QED BY <2>1, <2>2, <2>3 DEF Ends, backendVars
<1>9. CASE GoDown /\ Node!MachineCrash
  <2>1. NodeProofs!MachineCrash
    BY <1>9, NodeActions
  <2>2. NodeProofs!NodeInv' /\ nodePc' = "off"
    BY <2>1, NodeProofs!CrashInv DEF NodeProofs!MachineCrash
  <2> QED BY <1>9, <2>1, <2>2 DEF GoDown, Ends, backendVars
<1>10. CASE BackgroundSync
  <2>1. NodeProofs!BackgroundSync /\ UNCHANGED <<loopVars, backendVars>>
    BY <1>10, NodeActions DEF BackgroundSync
  <2>2. NodeProofs!NodeInv'
    BY <2>1, NodeProofs!SyncInv
  <2>3. pc' = pc
    BY <2>1 DEF loopVars
  <2> QED BY <2>1, <2>2, <2>3 DEF Waits, backendVars
<1>11. CASE UNCHANGED benchVars
  <2>1. UNCHANGED nodeVars /\ UNCHANGED loopVars /\ pc' = pc /\ UNCHANGED backendVars
    BY <1>11 DEF benchVars, loopVars
  <2> QED BY <1>4, <2>1 DEF Waits, backendVars
<1> QED
  BY <1>1, <1>2, <1>3, <1>5, <1>6, <1>7, <1>8, <1>9, <1>10, <1>11 DEF BenchNext, GoDown

LEMMA NodeAlways == BenchSpec => []NodeProofs!NodeInv
<1>1. BenchInit => NodeProofs!NodeInv
  <2> SUFFICES ASSUME BenchInit PROVE NodeProofs!NodeInv
    OBVIOUS
  <2>1. NodeProofs!TypeOK
    <3>1. log \in Seq(NodeProofs!PutRecord) /\ synced \in 0 .. Len(log)
      BY DEF BenchInit
    <3>2. families \subseteq NodeProofs!Family
      BY DEF BenchInit, NodeProofs!Family
    <3> QED BY <3>1, <3>2 DEF BenchInit, NodeProofs!TypeOK
  <2> QED BY <2>1 DEF BenchInit, NodeProofs!NodeInv, NodeProofs!OpensWhateverWasLeft,
                      NodeProofs!Opening, NodeProofs!Alternating, NodeProofs!InPairs,
                      NodeProofs!Between
<1>2. TypeOK /\ NodeProofs!NodeInv /\ [BenchNext]_benchVars => NodeProofs!NodeInv'
  BY BenchSteps
<1> QED BY <1>1, <1>2, LoopAlways, PTL DEF BenchSpec

-----------------------------------------------------------------------------
(***************************************************************************)
(* Numbers                                                                 *)
(***************************************************************************)
(***************************************************************************)
(* Until numWrites wraps around, the write of number s has its two Puts at *)
(* 2 s + 1 and 2 s + 2 of the log, whether or not the Gets succeeded: a    *)
(* Put's place in the log says how many writes are before it.              *)
(***************************************************************************)
\* The writes of which the node has made the two Puts, and the one begun last.
Begun == (written \cup {item}) \ {None}

\* The blob put at i is at the place of a write.
BlobInPlace(i) ==
  \E v \in NodeProofs!Version :
    /\ <<log[i].key, v>> \in Begun
    /\ log[i].value = v.blob
    /\ i = 2 * v.seq + 1

\* The blob of write w is at its place, if that is within the log.
PutInPlace(w) ==
  2 * w[2].seq + 1 <= Len(log)
    => NodeProofs!IsPut(log, "default", w[1], 2 * w[2].seq + 1)

InPlace ==
  /\ \A i \in 1 .. Len(log) :
       /\ log[i].family = "seq" => i = 2 * (log[i].value + 1)
       /\ log[i].family = "default" => BlobInPlace(i)
  /\ \A w \in Begun : PutInPlace(w)

\* How long the log is while the node is constructed and runs.
AsLong ==
  /\ ~started => nodePc = "off"
  /\ ~started \/ Constructing => numWrites = 0 /\ log = << >> /\ written = {}
  /\ nodePc = "ready" => Len(log) = 2 * numWrites
  /\ nodePc = "put" => Len(log) = 2 * numWrites + 1 /\ item[2].seq = numWrites

Numbered ==
  /\ InPlace
  /\ AsLong
  /\ \A w \in written : w[2].seq < numWrites

NumbersInv == BeforeWrap => Numbered

\* The types that the proofs of this section need.
LEMMA LogTypes ==
  ASSUME TypeOK, NodeProofs!NodeInv
  PROVE  /\ numWrites \in Nat /\ numWrites \in 0 .. Uint32 - 1
         /\ log \in Seq(NodeProofs!PutRecord) /\ Len(log) \in Nat /\ synced \in 0 .. Len(log)
         /\ \A i \in 1 .. Len(log) :
              /\ log[i].family \in {"default", "seq"}
              /\ log[i].family = "seq" => log[i].value \in Nat
         /\ \A w \in written : w[1] \in BlobKey /\ w[2] \in NodeProofs!Version /\ w[2].seq \in Nat
         /\ \A w \in Begun : w \in NodeProofs!Item /\ w[2].seq \in Nat
<1>1. log \in Seq(NodeProofs!PutRecord) /\ synced \in 0 .. Len(log)
  BY DEF NodeProofs!NodeInv, NodeProofs!TypeOK
<1>2. /\ \A p \in NodeProofs!PutRecord :
           /\ p.family \in {"default", "seq"}
           /\ p.family = "seq" => p.value \in Nat
      /\ \A v \in NodeProofs!Version : v.seq \in Nat
  BY NodeAssumptions, NodeProofs!PutTypes DEF NodeProofs!Version
<1>3. /\ \A w \in written : w[1] \in BlobKey /\ w[2] \in NodeProofs!Version
      /\ \A w \in Begun : w \in NodeProofs!Item /\ w[2] \in NodeProofs!Version
  BY DEF NodeProofs!NodeInv, NodeProofs!TypeOK, NodeProofs!Item, Begun
<1>4. numWrites \in 0 .. Uint32 - 1 /\ numWrites \in Nat
  BY DEF TypeOK
<1> QED BY <1>1, <1>2, <1>3, <1>4

\* A log that is a prefix has its Puts at their places.
LEMMA PrefixInPlace ==
  ASSUME InPlace, log \in Seq(NodeProofs!PutRecord), written' = written, item' = item,
         log' \in Seq(NodeProofs!PutRecord), NEW n \in 0 .. Len(log), Len(log') = n,
         \A i \in 1 .. n : log'[i] = log[i],
         \A w \in Begun : w[2].seq \in Nat
  PROVE  InPlace'
<1>1. ASSUME NEW i \in 1 .. Len(log')
      PROVE  /\ log'[i].family = "seq" => i = 2 * (log'[i].value + 1)
             /\ log'[i].family = "default" => BlobInPlace(i)'
  <2>1. i \in 1 .. Len(log) /\ log'[i] = log[i]
    OBVIOUS
  <2>2. /\ log[i].family = "seq" => i = 2 * (log[i].value + 1)
        /\ log[i].family = "default" => BlobInPlace(i)
    BY <2>1 DEF InPlace
  <2> QED BY <2>1, <2>2 DEF BlobInPlace, Begun
<1>2. ASSUME NEW w \in Begun, 2 * w[2].seq + 1 <= Len(log')
      PROVE  NodeProofs!IsPut(log', "default", w[1], 2 * w[2].seq + 1)
  <2> DEFINE j == 2 * w[2].seq + 1
  <2>1. j \in 1 .. n /\ j <= Len(log)
    BY <1>2
  <2>2. NodeProofs!IsPut(log, "default", w[1], j)
    BY <2>1 DEF InPlace, PutInPlace
  <2> HIDE DEF j
  <2>3. NodeProofs!IsPut(log', "default", w[1], j)
    BY <2>1, <2>2 DEF NodeProofs!IsPut
  <2> QED BY <2>3 DEF j
<1> QED BY <1>1, <1>2 DEF InPlace, PutInPlace, Begun

\* Get finds a number below the one that Set is called with.
LEMMA NeverStale ==
  ASSUME TypeOK, NodeProofs!NodeInv, Numbered, nodePc = "ready", NEW k \in BlobKey
  PROVE  ~NodeProofs!Stale(NodeProofs!ExistingSeq(k), numWrites)
<1> DEFINE q == NodeProofs!LastIn(log, "seq", k, Len(log))
<1>1. /\ numWrites \in Nat /\ log \in Seq(NodeProofs!PutRecord) /\ Len(log) \in Nat
      /\ \A i \in 1 .. Len(log) : log[i].family = "seq" => log[i].value \in Nat
  BY LogTypes
<1>2. Len(log) \in 0 .. Len(log)
  BY <1>1
<1>3. q \in 0 .. Len(log) /\ (q # 0 => NodeProofs!IsPut(log, "seq", k, q))
  BY <1>1, <1>2, NodeAssumptions, NodeProofs!LastInIs
<1>4. NodeProofs!ExistingSeq(k) = IF q = 0 THEN None ELSE log[q].value
  BY NodeAssumptions, NodeProofs!LookUps DEF NodeProofs!ExistingSeq, NodeProofs!RowIn
<1> HIDE DEF q
<1>5. CASE q = 0
  BY <1>4, <1>5 DEF NodeProofs!Stale
<1>6. CASE q # 0
  <2>1. q \in 1 .. Len(log) /\ log[q].family = "seq"
    BY <1>1, <1>3, <1>6 DEF NodeProofs!IsPut
  <2>2. log[q].value \in Nat /\ q = 2 * (log[q].value + 1) /\ Len(log) = 2 * numWrites
    BY <1>1, <2>1 DEF Numbered, InPlace, AsLong
  <2>3. log[q].value < numWrites
    BY <1>1, <2>1, <2>2
  <2> QED BY <1>1, <1>4, <1>6, <2>2, <2>3 DEF NodeProofs!Stale
<1> QED BY <1>5, <1>6

LEMMA NextNumbers ==
  ASSUME TypeOK, PaceInv, NodeProofs!NodeInv, NumbersInv, [BenchNext]_benchVars
  PROVE  NumbersInv'
<1> SUFFICES ASSUME BeforeWrap' PROVE Numbered'
  BY DEF NumbersInv
<1>1. BeforeWrap
  BY LoopSteps, WrapStays
<1>2. Numbered
  BY <1>1 DEF NumbersInv
<1>3. /\ numWrites \in Nat /\ numWrites \in 0 .. Uint32 - 1
      /\ log \in Seq(NodeProofs!PutRecord) /\ Len(log) \in Nat /\ synced \in 0 .. Len(log)
      /\ \A i \in 1 .. Len(log) :
           /\ log[i].family \in {"default", "seq"}
           /\ log[i].family = "seq" => log[i].value \in Nat
      /\ \A w \in written : w[1] \in BlobKey /\ w[2] \in NodeProofs!Version /\ w[2].seq \in Nat
      /\ \A w \in Begun : w \in NodeProofs!Item /\ w[2].seq \in Nat
  BY LogTypes
<1>4. \A w \in Begun' : w[2].seq \in Nat
  <2>1. NodeProofs!TypeOK'
    BY BenchSteps DEF NodeProofs!NodeInv
  <2>2. \A v \in NodeProofs!Version : v.seq \in Nat
    BY DEF NodeProofs!Version
  <2> QED BY <2>1, <2>2 DEF NodeProofs!TypeOK, NodeProofs!Item, Begun
<1>5. ASSUME log' = << >> PROVE InPlace'
  BY <1>4, <1>5 DEF InPlace, PutInPlace
<1>6. CASE Constructs
  <2>1. numWrites' = numWrites /\ started'
    BY <1>6 DEF Constructs, loopVars
  <2>2. CASE ~started /\ NodeProofs!RemoveAll
    <3>1. numWrites = 0 /\ log' = << >> /\ written' = {} /\ nodePc' = "create"
      BY <1>2, <2>2 DEF Numbered, AsLong, NodeProofs!RemoveAll
    <3> QED BY <1>5, <2>1, <3>1 DEF Numbered, AsLong, Constructing
  <2>3. CASE Constructing /\ UNCHANGED <<log, synced, written>>
    <3>1. numWrites = 0 /\ log = << >> /\ written = {}
      BY <1>2, <2>3 DEF Numbered, AsLong
    <3>2. nodePc' # "put"
      BY <1>6 DEF Constructs, Constructing
    <3> QED BY <1>5, <2>1, <2>3, <3>1, <3>2 DEF Numbered, AsLong, Constructing
  <2> QED BY <1>6, <2>2, <2>3 DEF Constructs
<1>7. CASE Begins
  <2>1. PICK k \in BlobKey, v \in NodeProofs!Version :
          /\ v.seq = numWrites /\ NodeProofs!SetBlob(k, v)
          /\ UNCHANGED <<loopVars, started>>
    BY <1>7 DEF Begins
  <2> DEFINE p == NodeProofs!Puts(k, v)[1]
  <2>2. /\ p \in NodeProofs!PutRecord /\ p.family = "default" /\ p.key = k
        /\ p.value = v.blob
    BY NodeAssumptions, NodeProofs!PutTypes DEF NodeProofs!Puts
  <2>3. /\ NodeProofs!Put(p) /\ item' = <<k, v>> /\ written' = written
        /\ nodePc = "ready" /\ nodePc' = "put"
    BY <2>1 DEF NodeProofs!SetBlob
  <2> HIDE DEF p
  <2>4. PICK n \in Nat : n = Len(log)
    BY <1>3
  <2>5. /\ log' \in Seq(NodeProofs!PutRecord) /\ Len(log') = n + 1
        /\ \A i \in 1 .. n : log'[i] = log[i]
        /\ log'[n + 1] = p
    BY <2>2, <2>3, <2>4, NodeAssumptions, NodeProofs!PutEffect
  <2>6. n = 2 * numWrites /\ numWrites' = numWrites /\ item'[2].seq = numWrites /\ started
    BY <1>2, <2>1, <2>3, <2>4 DEF Numbered, AsLong, loopVars
  <2>7. ASSUME NEW i \in 1 .. Len(log')
        PROVE  /\ log'[i].family = "seq" => i = 2 * (log'[i].value + 1)
               /\ log'[i].family = "default" => BlobInPlace(i)'
    <3>1. CASE i = n + 1
      <4>1. <<k, v>> \in Begun' /\ i = 2 * v.seq + 1 /\ log'[i] = p
        <5>1. <<k, v>> \in NodeProofs!Item
          BY DEF NodeProofs!Item
        <5> QED BY <2>1, <2>3, <2>5, <2>6, <3>1, <5>1, NodeAssumptions DEF Begun
      <4>2. BlobInPlace(i)'
        BY <2>2, <4>1 DEF BlobInPlace
      <4> QED BY <2>2, <4>1, <4>2
    <3>2. CASE i # n + 1 /\ log'[i].family = "default"
      <4>1. i \in 1 .. n /\ log'[i] = log[i] /\ i \in 1 .. Len(log)
        BY <2>4, <2>5, <3>2
      <4>2. log[n].family = "seq"
        BY <2>3, <2>4, <4>1 DEF NodeProofs!NodeInv, NodeProofs!Between
      <4>3. i < n /\ i + 1 \in 1 .. Len(log) /\ i \in 1 .. Len(log) - 1
        BY <2>4, <3>2, <4>1, <4>2
      <4>4. log[i + 1].family = "seq"
        BY <3>2, <4>1, <4>3 DEF NodeProofs!NodeInv, NodeProofs!Alternating
      <4>5. PICK w \in NodeProofs!Version : NodeProofs!BlobOf(i, w)
        BY <3>2, <4>1 DEF NodeProofs!NodeInv, NodeProofs!InPairs
      <4>6. /\ log[i].value = w.blob /\ <<log[i].key, w>> \in written
            /\ log[i + 1].value = w.seq
        BY <2>4, <4>3, <4>5 DEF NodeProofs!BlobOf
      <4>7. <<log[i].key, w>> # None
        BY <4>6, NodeAssumptions DEF NodeProofs!NodeInv, NodeProofs!TypeOK
      <4>8. w.seq \in Nat /\ i + 1 = 2 * (w.seq + 1)
        BY <1>2, <1>3, <4>3, <4>4, <4>6 DEF Numbered, InPlace
      <4>9. i = 2 * w.seq + 1
        BY <4>8
      <4>10. BlobInPlace(i)'
        BY <2>3, <4>1, <4>6, <4>7, <4>9 DEF BlobInPlace, Begun
      <4> QED BY <3>2, <4>10
    <3>3. CASE i # n + 1 /\ log'[i].family # "default"
      <4>1. i \in 1 .. Len(log) /\ log'[i] = log[i]
        BY <2>4, <2>5, <3>3
      <4> QED BY <1>2, <3>3, <4>1 DEF Numbered, InPlace
    <3> QED BY <3>1, <3>2, <3>3
  <2>8. ASSUME NEW w \in Begun', 2 * w[2].seq + 1 <= Len(log')
        PROVE  NodeProofs!IsPut(log', "default", w[1], 2 * w[2].seq + 1)
    <3>1. CASE w = <<k, v>>
      <4>1. 2 * w[2].seq + 1 = n + 1 /\ w[1] = k
        BY <2>1, <2>6, <3>1
      <4> QED BY <2>2, <2>5, <4>1 DEF NodeProofs!IsPut
    <3>2. CASE w \in written
      <4> DEFINE j == 2 * w[2].seq + 1
      <4>1. w[2].seq < numWrites /\ w[2].seq \in Nat /\ w \in Begun
        BY <1>2, <1>3, <2>8, <3>2 DEF Numbered, Begun
      <4>2. j \in 1 .. n
        BY <1>3, <2>6, <4>1
      <4>3. NodeProofs!IsPut(log, "default", w[1], j)
        BY <1>2, <2>4, <4>1, <4>2 DEF Numbered, InPlace, PutInPlace
      <4> HIDE DEF j
      <4>4. NodeProofs!IsPut(log', "default", w[1], j)
        BY <2>5, <4>2, <4>3 DEF NodeProofs!IsPut
      <4> QED BY <4>4 DEF j
    <3> QED BY <2>3, <3>1, <3>2 DEF Begun
  <2>9. InPlace'
    BY <2>7, <2>8 DEF InPlace, PutInPlace
  <2>10. AsLong'
    BY <1>3, <2>1, <2>3, <2>5, <2>6 DEF AsLong, Constructing
  <2> QED BY <1>2, <2>3, <2>6, <2>9, <2>10 DEF Numbered
<1>8. CASE Writes
  <2>1. PICK d \in SetDurations :
          /\ IssueWrite(d)
          /\ \/ NodeProofs!SetSeq
             \/ /\ nodePc = "ready"
                /\ \E k \in BlobKey : NodeProofs!Stale(NodeProofs!ExistingSeq(k), numWrites)
          /\ UNCHANGED started
    BY <1>8 DEF Writes
  <2>2. NodeProofs!SetSeq
    BY <1>2, <2>1, NeverStale
  <2>3. numWrites' = numWrites + 1
    BY <1>1, <2>1, NextNumber
  <2>4. nodePc = "put" /\ nodePc' = "ready" /\ written' = written \cup {item}
    BY <2>2 DEF NodeProofs!SetSeq
  <2>5. PICK k \in BlobKey, v \in NodeProofs!Version : item = <<k, v>>
    BY <2>4 DEF NodeProofs!NodeInv, NodeProofs!Between, NodeProofs!Item
  <2> DEFINE p == NodeProofs!Puts(k, v)[2]
  <2>6. /\ p \in NodeProofs!PutRecord /\ p.family = "seq" /\ p.key = k /\ p.value = v.seq
    BY NodeAssumptions, NodeProofs!PutTypes DEF NodeProofs!Puts
  <2>7. NodeProofs!Put(p)
    BY <2>2, <2>5 DEF NodeProofs!SetSeq
  <2> HIDE DEF p
  <2>8. PICK n \in Nat : n = Len(log)
    BY <1>3
  <2>9. /\ log' \in Seq(NodeProofs!PutRecord) /\ Len(log') = n + 1
        /\ \A i \in 1 .. n : log'[i] = log[i]
        /\ log'[n + 1] = p
    BY <2>6, <2>7, <2>8, NodeAssumptions, NodeProofs!PutEffect
  <2>10. n = 2 * numWrites + 1 /\ v.seq = numWrites /\ started
    BY <1>2, <2>4, <2>5, <2>8 DEF Numbered, AsLong
  <2>11. Begun' = Begun
    BY <2>2, <2>4 DEF Begun, NodeProofs!SetSeq
  <2>12. ASSUME NEW i \in 1 .. Len(log')
         PROVE  /\ log'[i].family = "seq" => i = 2 * (log'[i].value + 1)
                /\ log'[i].family = "default" => BlobInPlace(i)'
    <3>1. CASE i \in 1 .. n
      <4>1. log'[i] = log[i] /\ i \in 1 .. Len(log)
        BY <2>8, <2>9, <3>1
      <4>2. /\ log[i].family = "seq" => i = 2 * (log[i].value + 1)
            /\ log[i].family = "default" => BlobInPlace(i)
        BY <1>2, <4>1 DEF Numbered, InPlace
      <4> QED BY <2>11, <4>1, <4>2 DEF BlobInPlace
    <3>2. CASE i = n + 1
      BY <1>3, <2>6, <2>9, <2>10, <3>2
    <3> QED BY <2>9, <3>1, <3>2
  <2>13. ASSUME NEW w \in Begun, 2 * w[2].seq + 1 <= Len(log')
         PROVE  NodeProofs!IsPut(log', "default", w[1], 2 * w[2].seq + 1)
    <3> DEFINE j == 2 * w[2].seq + 1
    <3>1. w[2].seq \in Nat
      BY <1>3
    <3>2. j \in 1 .. n
      BY <1>3, <2>9, <2>10, <2>13, <3>1
    <3>3. NodeProofs!IsPut(log, "default", w[1], j)
      BY <1>2, <2>8, <3>2 DEF Numbered, InPlace, PutInPlace
    <3> HIDE DEF j
    <3>4. NodeProofs!IsPut(log', "default", w[1], j)
      BY <2>9, <3>2, <3>3 DEF NodeProofs!IsPut
    <3> QED BY <3>4 DEF j
  <2>14. InPlace'
    BY <2>12, <2>13, <2>11 DEF InPlace, PutInPlace
  <2>15. AsLong'
    BY <1>3, <2>1, <2>3, <2>4, <2>9, <2>10 DEF AsLong, Constructing
  <2>16. \A w \in written' : w[2].seq < numWrites'
    BY <1>2, <1>3, <2>3, <2>4, <2>5, <2>10 DEF Numbered
  <2> QED BY <2>14, <2>15, <2>16 DEF Numbered
<1>9. CASE Updates \/ Waits
  <2>1. UNCHANGED <<log, written, nodePc, item, started>>
    BY <1>9 DEF Updates, Waits, nodeVars, NodeProofs!Flush, NodeProofs!BackgroundSync
  <2>2. numWrites' = numWrites
    BY <1>9 DEF Updates, UpdateBackend, Waits, Next, IssueWrite, RunOver, Account,
                SampleMemory, SampleDisk, SkipDisk, Sleep, Report, loopVars
  <2>3. InPlace'
    BY <1>2, <1>3, <2>1, PrefixInPlace DEF Numbered
  <2> QED BY <1>2, <2>1, <2>2, <2>3 DEF Numbered, AsLong, Constructing
<1>10. CASE Ends
  <2>1. /\ numWrites' = numWrites /\ nodePc # "off" /\ nodePc' = "off" /\ started' = started
        /\ written' = written /\ item' = item
    BY <1>10 DEF Ends, loopVars, backendVars, NodeProofs!MachineCrash
  <2>2. \E n \in 0 .. Len(log) :
          /\ log' \in Seq(NodeProofs!PutRecord) /\ Len(log') = n
          /\ \A i \in 1 .. n : log'[i] = log[i]
    <3>1. CASE NodeProofs!MachineCrash
      BY <3>1, NodeAssumptions, NodeProofs!CrashEffect
    <3>2. CASE log' = log
      BY <1>3, <3>2
    <3> QED BY <1>10, <3>1, <3>2 DEF Ends
  <2>3. InPlace'
    BY <1>2, <1>3, <2>1, <2>2, PrefixInPlace DEF Numbered
  <2>4. AsLong'
    BY <1>2, <2>1 DEF Numbered, AsLong, Constructing
  <2> QED BY <1>2, <2>1, <2>3, <2>4 DEF Numbered
<1> QED BY <1>6, <1>7, <1>8, <1>9, <1>10, BenchSteps

LEMMA NumbersAlways == BenchSpec => []NumbersInv
<1>1. BenchInit => NumbersInv
  BY DEF BenchInit, Init, NumbersInv, Numbered, InPlace, AsLong, Begun
<1>2. TypeOK /\ PaceInv /\ NodeProofs!NodeInv /\ NumbersInv /\ [BenchNext]_benchVars
        => NumbersInv'
  BY NextNumbers
<1> QED BY <1>1, <1>2, LoopAlways, NodeAlways, PTL DEF BenchSpec

\* What the versions in FirstWrites are.
LEMMA FirstWritesAre ==
  ASSUME TypeOK, NodeProofs!NodeInv, NEW m \in Nat, NEW k \in BlobKey
  PROVE  /\ \A u \in FirstWrites(m, k) : <<k, u>> \in Begun /\ u.seq \in Nat /\ u.seq < m
         /\ \A v : <<k, v>> \in Begun /\ v.seq < m => v \in FirstWrites(m, k)
<1>1. \A w \in Begun : w \in NodeProofs!Item /\ w[2].seq \in Nat
  BY LogTypes
<1>2. ASSUME NEW u \in FirstWrites(m, k)
      PROVE  <<k, u>> \in Begun /\ u.seq \in Nat /\ u.seq < m
  <2>1. PICK w \in Begun : w[1] = k /\ w[2].seq < m /\ u = w[2]
    BY DEF FirstWrites, Begun
  <2>2. w = <<k, u>>
    BY <1>1, <2>1 DEF NodeProofs!Item
  <2> QED BY <1>1, <2>1, <2>2
<1>3. ASSUME NEW v, <<k, v>> \in Begun, v.seq < m
      PROVE  v \in FirstWrites(m, k)
  BY <1>3 DEF FirstWrites, Begun
<1> QED BY <1>2, <1>3

\* A write that began within the log has its blob there, and its number if
\* that is within the log too.
LEMMA WritesAreThere ==
  ASSUME TypeOK, NodeProofs!NodeInv, Numbered, NEW k \in BlobKey, NEW u,
         <<k, u>> \in Begun, u.seq \in Nat, 2 * u.seq + 1 <= Len(log)
  PROVE  /\ NodeProofs!IsPut(log, "default", k, 2 * u.seq + 1)
         /\ 2 * u.seq + 2 <= Len(log)
              => NodeProofs!IsPut(log, "seq", k, 2 * u.seq + 2)
<1>1. log \in Seq(NodeProofs!PutRecord) /\ Len(log) \in Nat /\ NodeProofs!Alternating
  BY LogTypes DEF NodeProofs!NodeInv
<1> DEFINE i == 2 * u.seq + 1
<1>2. i \in 1 .. Len(log) /\ 2 * u.seq + 2 = i + 1
  BY <1>1
<1>3. NodeProofs!IsPut(log, "default", k, i)
  BY DEF Numbered, InPlace, PutInPlace
<1> HIDE DEF i
<1>4. i + 1 <= Len(log) => NodeProofs!IsPut(log, "seq", k, i + 1)
  <2> SUFFICES ASSUME i + 1 <= Len(log) PROVE NodeProofs!IsPut(log, "seq", k, i + 1)
    OBVIOUS
  <2>1. i \in 1 .. Len(log) - 1
    BY <1>1, <1>2
  <2> QED BY <1>1, <1>3, <2>1 DEF NodeProofs!Alternating, NodeProofs!IsPut
<1>5. 2 * u.seq + 2 <= Len(log) => NodeProofs!IsPut(log, "seq", k, 2 * u.seq + 2)
  BY <1>2, <1>4
<1> QED BY <1>3, <1>5 DEF i

\* The number that Get finds for a key after n Puts is that of its newest write
\* among those of which both Puts are.
LEMMA NumberIsNewest ==
  ASSUME TypeOK, NodeProofs!NodeInv, Numbered, NEW n \in 0 .. Len(log), NEW k \in BlobKey
  PROVE  IsNumberOf(NodeProofs!RowIn(log, "seq", k, n), FirstWrites(n \div 2, k))
<1> DEFINE q == NodeProofs!LastIn(log, "seq", k, n)
           s == NodeProofs!RowIn(log, "seq", k, n)
           W == FirstWrites(n \div 2, k)
<1>1. log \in Seq(NodeProofs!PutRecord) /\ Len(log) \in Nat
  BY LogTypes
<1>2. PICK m \in Nat : m = n \div 2 /\ 2 * m <= n /\ n <= 2 * m + 1
  BY <1>1
<1>3. /\ q \in 0 .. n /\ (q # 0 => NodeProofs!IsPut(log, "seq", k, q))
      /\ \A i \in 1 .. n : NodeProofs!IsPut(log, "seq", k, i) => i <= q
  BY <1>1, NodeAssumptions, NodeProofs!LastInIs
<1>4. s = IF q = 0 THEN None ELSE log[q].value
  BY DEF NodeProofs!RowIn
<1>5. /\ \A u \in W : <<k, u>> \in Begun /\ u.seq \in Nat /\ u.seq < m
      /\ \A v : <<k, v>> \in Begun /\ v.seq < m => v \in W
  BY <1>2, FirstWritesAre
<1> HIDE DEF q, s, W
<1>6. ASSUME NEW u \in W PROVE u.seq \in Nat /\ 2 * u.seq + 2 <= q
  <2>1. <<k, u>> \in Begun /\ u.seq \in Nat /\ 2 * u.seq + 2 \in 1 .. n
    BY <1>2, <1>5
  <2>2. NodeProofs!IsPut(log, "seq", k, 2 * u.seq + 2)
    BY <1>1, <2>1, WritesAreThere
  <2> QED BY <1>3, <2>1, <2>2
<1>7. CASE q = 0
  <2>1. W = {}
    <3> SUFFICES ASSUME NEW u \in W PROVE FALSE
      OBVIOUS
    <3> QED BY <1>6, <1>7
  <2> QED BY <1>4, <1>7, <2>1 DEF IsNumberOf, s, W
<1>8. CASE q # 0
  <2> DEFINE v == [seq |-> log[q].value, blob |-> log[q - 1].value]
  <2>1. q \in 1 .. Len(log) /\ log[q].family = "seq" /\ log[q].key = k
    BY <1>1, <1>3, <1>8 DEF NodeProofs!IsPut
  <2>2. v \in NodeProofs!Version /\ <<k, v>> \in written
    BY <2>1, NodeAssumptions, NodeProofs!NumberOf
  <2>3. v.seq = log[q].value /\ log[q].value \in Nat /\ q = 2 * (log[q].value + 1)
    BY <2>1, LogTypes DEF Numbered, InPlace
  <2> HIDE DEF v
  <2>4. <<k, v>> \in Begun
    BY <2>2, NodeAssumptions DEF Begun, NodeProofs!Item
  <2>5. v.seq < m
    BY <1>2, <1>3, <2>3
  <2>6. v \in W
    BY <1>5, <2>4, <2>5
  <2>7. \A u \in W : u.seq <= v.seq
    <3> TAKE u \in W
    <3>1. u.seq \in Nat /\ 2 * u.seq + 2 <= q
      BY <1>6
    <3> QED BY <2>3, <3>1
  <2>8. s = v.seq
    BY <1>4, <1>8, <2>3
  <2> QED BY <2>6, <2>7, <2>8 DEF IsNumberOf, Newest, s, W
<1> QED BY <1>7, <1>8

\* The blob is that of its newest write among those of which the first Put is.
LEMMA BlobIsNewest ==
  ASSUME TypeOK, NodeProofs!NodeInv, Numbered, NEW n \in 0 .. Len(log), NEW k \in BlobKey
  PROVE  IsBlobOf(NodeProofs!RowIn(log, "default", k, n), FirstWrites((n + 1) \div 2, k))
<1> DEFINE d == NodeProofs!LastIn(log, "default", k, n)
           b == NodeProofs!RowIn(log, "default", k, n)
           W == FirstWrites((n + 1) \div 2, k)
<1>1. log \in Seq(NodeProofs!PutRecord) /\ Len(log) \in Nat
  BY LogTypes
<1>2. PICK m \in Nat : m = (n + 1) \div 2 /\ 2 * m <= n + 1 /\ n <= 2 * m
  BY <1>1
<1>3. /\ d \in 0 .. n /\ (d # 0 => NodeProofs!IsPut(log, "default", k, d))
      /\ \A i \in 1 .. n : NodeProofs!IsPut(log, "default", k, i) => i <= d
  BY <1>1, NodeAssumptions, NodeProofs!LastInIs
<1>4. b = IF d = 0 THEN None ELSE log[d].value
  BY DEF NodeProofs!RowIn
<1>5. /\ \A u \in W : <<k, u>> \in Begun /\ u.seq \in Nat /\ u.seq < m
      /\ \A v : <<k, v>> \in Begun /\ v.seq < m => v \in W
  BY <1>2, FirstWritesAre
<1> HIDE DEF d, b, W
<1>6. ASSUME NEW u \in W PROVE u.seq \in Nat /\ 2 * u.seq + 1 <= d
  <2>1. <<k, u>> \in Begun /\ u.seq \in Nat /\ 2 * u.seq + 1 \in 1 .. n
    BY <1>2, <1>5
  <2>2. NodeProofs!IsPut(log, "default", k, 2 * u.seq + 1)
    BY <1>1, <2>1, WritesAreThere
  <2> QED BY <1>3, <2>1, <2>2
<1>7. CASE d = 0
  <2>1. W = {}
    <3> SUFFICES ASSUME NEW u \in W PROVE FALSE
      OBVIOUS
    <3> QED BY <1>6, <1>7
  <2> QED BY <1>4, <1>7, <2>1 DEF IsBlobOf, b, W
<1>8. CASE d # 0
  <2>1. d \in 1 .. Len(log) /\ log[d].family = "default" /\ log[d].key = k
    BY <1>1, <1>3, <1>8 DEF NodeProofs!IsPut
  <2>2. PICK v \in NodeProofs!Version :
          <<k, v>> \in Begun /\ log[d].value = v.blob /\ d = 2 * v.seq + 1
    BY <2>1 DEF Numbered, InPlace, BlobInPlace
  <2>3. v.seq \in Nat
    BY <2>2, LogTypes
  <2>4. v.seq < m
    BY <1>2, <1>3, <2>2, <2>3
  <2>5. v \in W
    BY <1>5, <2>2, <2>4
  <2>6. \A u \in W : u.seq <= v.seq
    <3> TAKE u \in W
    <3>1. u.seq \in Nat /\ 2 * u.seq + 1 <= d
      BY <1>6
    <3> QED BY <2>2, <2>3, <3>1
  <2>7. b = v.blob
    BY <1>4, <1>8, <2>2
  <2> QED BY <2>5, <2>6, <2>7 DEF IsBlobOf, Newest, b, W
<1> QED BY <1>7, <1>8

(***************************************************************************)
(* Whatever a crash of the process or of the machine leaves is a prefix of *)
(* the run, and one blob more if it is an odd number of Puts: the newest   *)
(* numbers of the first n \div 2 writes and the newest blobs of the first  *)
(* (n + 1) \div 2 - also when Gets have failed, since no number is above   *)
(* the next one.                                                           *)
(***************************************************************************)
THEOREM PrefixAndOneBlobIsLeft == BenchSpec => []PrefixButOneBlob
<1>1. ASSUME TypeOK, NodeProofs!NodeInv, NumbersInv PROVE PrefixButOneBlob
  <2> SUFFICES ASSUME BeforeWrap, NEW n \in synced .. Len(log), NEW k \in BlobKey
               PROVE  /\ IsNumberOf(Node!Stored(n)[k].seq, FirstWrites(n \div 2, k))
                      /\ IsBlobOf(Node!Stored(n)[k].blob, FirstWrites((n + 1) \div 2, k))
    BY DEF PrefixButOneBlob
  <2>1. n \in 0 .. Len(log)
    BY <1>1, LogTypes
  <2>2. /\ IsNumberOf(NodeProofs!RowIn(log, "seq", k, n), FirstWrites(n \div 2, k))
        /\ IsBlobOf(NodeProofs!RowIn(log, "default", k, n), FirstWrites((n + 1) \div 2, k))
    BY <1>1, <2>1, NumberIsNewest, BlobIsNewest DEF NumbersInv
  <2>3. /\ Node!Stored(n)[k].seq = NodeProofs!RowIn(log, "seq", k, n)
        /\ Node!Stored(n)[k].blob = NodeProofs!RowIn(log, "default", k, n)
    BY LookUps DEF NodeProofs!StoredIn
  <2> QED BY <2>2, <2>3
<1> QED BY <1>1, LoopAlways, NodeAlways, NumbersAlways, PTL

-----------------------------------------------------------------------------
(***************************************************************************)
(* The bytes of a log                                                      *)
(***************************************************************************)
\* g adds up the first m Puts.
AddsUp(g, puts, m) ==
  g = [n \in 0 .. m |-> IF n = 0 THEN 0 ELSE g[n - 1] + Bytes(puts[n])]

\* A set of numbers that is not empty has a least element.
LEMMA LeastOf ==
  ASSUME NEW S \in SUBSET Nat, S # {}
  PROVE  \E m \in S : \A n \in S : m <= n
<1> DEFINE R == OpToRel(<, Nat)
<1>1. IsWellFoundedOn(R, Nat)
  BY NatLessThanWellFounded
<1>2. R = {ss \in Nat \X Nat : ss[1] < ss[2]}
  BY DEF OpToRel
<1> HIDE DEF R
<1>3. PICK m \in S : \A n \in S : ~(<<n, m>> \in R)
  BY <1>1, WFMin
<1>4. \A n \in S : ~(n < m)
  BY <1>2, <1>3
<1>5. \A n \in S : m \in Nat /\ n \in Nat
  OBVIOUS
<1> QED BY <1>4, <1>5

LEMMA TotalExists ==
  ASSUME NEW puts, NEW m \in Nat
  PROVE  \E g : AddsUp(g, puts, m)
<1> DEFINE T == {n \in Nat : ~\E g : AddsUp(g, puts, n)}
<1> SUFFICES ASSUME T # {} PROVE FALSE
  OBVIOUS
<1>1. PICK l \in T : \A n \in T : l <= n
  <2>1. T \in SUBSET Nat
    OBVIOUS
  <2> HIDE DEF T
  <2> QED BY <2>1, LeastOf
<1>2. l \in Nat /\ ~\E g : AddsUp(g, puts, l)
  OBVIOUS
<1>3. CASE l = 0
  <2> DEFINE g == [n \in 0 .. 0 |-> 0]
  <2>1. AddsUp(g, puts, 0)
    BY DEF AddsUp
  <2> QED BY <1>2, <1>3, <2>1
<1>4. CASE l # 0
  <2>1. l - 1 \in Nat /\ ~(l <= l - 1)
    BY <1>2, <1>4
  <2>2. l - 1 \notin T
    BY <1>1, <2>1
  <2>3. PICK g : AddsUp(g, puts, l - 1)
    BY <2>1, <2>2
  <2> HIDE DEF T
  <2> DEFINE h == [n \in 0 .. l |-> IF n = l THEN g[l - 1] + Bytes(puts[l]) ELSE g[n]]
             rhs == [n \in 0 .. l |-> IF n = 0 THEN 0 ELSE h[n - 1] + Bytes(puts[n])]
  <2>4. ASSUME NEW n \in 0 .. l
        PROVE  h[n] = IF n = 0 THEN 0 ELSE h[n - 1] + Bytes(puts[n])
    <3>1. CASE n = l
      <4>1. l - 1 \in 0 .. l /\ l - 1 # l /\ h[l - 1] = g[l - 1]
        BY <1>2, <1>4
      <4>2. h[l] = g[l - 1] + Bytes(puts[l])
        BY <1>2
      <4> HIDE DEF h
      <4> QED BY <1>4, <3>1, <4>1, <4>2
    <3>2. CASE n # l
      <4>1. n \in 0 .. l - 1
        BY <1>2, <3>2
      <4>2. g[n] = IF n = 0 THEN 0 ELSE g[n - 1] + Bytes(puts[n])
        BY <2>3, <4>1 DEF AddsUp
      <4>3. h[n] = g[n]
        BY <3>2
      <4>4. n # 0 => n - 1 \in 0 .. l /\ n - 1 # l
        BY <1>2
      <4>5. n # 0 => h[n - 1] = g[n - 1]
        BY <4>4
      <4> HIDE DEF h
      <4> QED BY <4>2, <4>3, <4>5
    <3> QED BY <3>1, <3>2
  <2>5. h = rhs
    <3>1. DOMAIN h = 0 .. l /\ DOMAIN rhs = 0 .. l
      OBVIOUS
    <3>2. h = [n \in 0 .. l |-> h[n]]
      OBVIOUS
    <3> HIDE DEF h
    <3> QED BY <2>4, <3>2
  <2>6. AddsUp(h, puts, l)
    BY <2>5 DEF AddsUp
  <2> QED BY <1>2, <2>6
<1> QED BY <1>3, <1>4

\* The first m Puts are the same.
Agree(puts, more, m) == \A n \in 1 .. m : puts[n] = more[n]

\* Two totals agree on the Puts that they have in common.
LEMMA TotalUnique ==
  ASSUME NEW puts, NEW more, NEW m \in Nat, NEW l \in Nat, m <= l, Agree(puts, more, m),
         NEW g, AddsUp(g, puts, m), NEW h, AddsUp(h, more, l)
  PROVE  g[m] = h[m]
<1> DEFINE T == {n \in 0 .. m : g[n] # h[n]}
<1> SUFFICES ASSUME T # {} PROVE FALSE
  OBVIOUS
<1>1. PICK d \in T : \A n \in T : d <= n
  <2>1. T \in SUBSET Nat
    OBVIOUS
  <2> HIDE DEF T
  <2> QED BY <2>1, LeastOf
<1>2. d \in 0 .. m /\ d \in 0 .. l /\ g[d] # h[d]
  OBVIOUS
<1>3. /\ g[d] = IF d = 0 THEN 0 ELSE g[d - 1] + Bytes(puts[d])
      /\ h[d] = IF d = 0 THEN 0 ELSE h[d - 1] + Bytes(more[d])
  BY <1>2 DEF AddsUp
<1>4. d # 0
  BY <1>2, <1>3
<1>5. d - 1 \in 0 .. m /\ ~(d <= d - 1) /\ d \in 1 .. m
  BY <1>2, <1>4
<1>6. g[d - 1] = h[d - 1]
  BY <1>1, <1>5
<1> QED BY <1>2, <1>3, <1>4, <1>5, <1>6 DEF Agree

LEMMA TotalIs ==
  ASSUME NEW puts, Len(puts) \in Nat
  PROVE  \E g : AddsUp(g, puts, Len(puts)) /\ BlobBytes(puts) = g[Len(puts)]
<1> DEFINE m == Len(puts)
           total == CHOOSE g : g = [n \in 0 .. m |-> IF n = 0 THEN 0
                                                     ELSE g[n - 1] + Bytes(puts[n])]
<1>1. BlobBytes(puts) = total[m]
  BY DEF BlobBytes
<1>2. \E g : AddsUp(g, puts, m)
  BY TotalExists
<1>3. total = CHOOSE g : AddsUp(g, puts, m)
  BY DEF AddsUp
<1>4. AddsUp(total, puts, m)
  <2> HIDE DEF total
  <2> QED BY <1>2, <1>3
<1> QED BY <1>1, <1>4

\* One more Put adds its bytes.
LEMMA BytesOfAppend ==
  ASSUME NEW puts, NEW more, Len(puts) \in Nat, Len(more) = Len(puts) + 1,
         \A n \in 1 .. Len(puts) : more[n] = puts[n]
  PROVE  BlobBytes(more) = BlobBytes(puts) + Bytes(more[Len(more)])
<1> DEFINE m == Len(puts)
<1>1. PICK g : AddsUp(g, puts, m) /\ BlobBytes(puts) = g[m]
  BY TotalIs
<1>2. PICK l \in Nat : l = m + 1 /\ l = Len(more)
  OBVIOUS
<1>3. PICK h : AddsUp(h, more, l) /\ BlobBytes(more) = h[l]
  BY <1>2, TotalIs
<1>4. m \in Nat /\ m <= l /\ l - 1 = m /\ l # 0 /\ l \in 0 .. l
  BY <1>2
<1>5. Agree(puts, more, m)
  BY DEF Agree
<1> HIDE DEF m
<1>6. g[m] = h[m]
  BY <1>1, <1>2, <1>3, <1>4, <1>5, TotalUnique
<1>7. h[l] = h[m] + Bytes(more[l])
  BY <1>3, <1>4 DEF AddsUp
<1> QED BY <1>1, <1>2, <1>3, <1>6, <1>7

LEMMA BytesOfNothing == BlobBytes(<< >>) = 0
<1>1. Len(<< >>) = 0 /\ 0 \in Nat
  OBVIOUS
<1>2. PICK g : AddsUp(g, << >>, 0) /\ BlobBytes(<< >>) = g[0]
  BY <1>1, TotalIs
<1> QED BY <1>2 DEF AddsUp

(***************************************************************************)
(* While the node runs, what the backend has counted are the blobs in the  *)
(* log, but for the blob of a Set that has made its first Put.             *)
(***************************************************************************)
BytesInv ==
  /\ logicalWriteBytes \in Nat
  /\ ~started => nodePc = "off"
  /\ ~started \/ Constructing => logicalWriteBytes = 0
  /\ BeforeWrap /\ nodePc = "ready" => BlobBytes(log) = logicalWriteBytes
  /\ BeforeWrap /\ nodePc = "put" => BlobBytes(log) = logicalWriteBytes + item[2].blob

LEMMA NextBytes ==
  ASSUME TypeOK, PaceInv, NodeProofs!NodeInv, NumbersInv, BytesInv, [BenchNext]_benchVars
  PROVE  BytesInv'
<1>1. BeforeWrap' => BeforeWrap /\ Numbered
  BY LoopSteps, WrapStays DEF NumbersInv
<1>2. /\ log \in Seq(NodeProofs!PutRecord) /\ Len(log) \in Nat
      /\ \A b \in BlobSize : b \in Nat
  BY LogTypes, ConfigAssumption DEF BlobSize
<1>3. CASE Constructs
  <2>1. /\ logicalWriteBytes' = logicalWriteBytes /\ started' /\ nodePc' # "put"
        /\ logicalWriteBytes = 0
    BY <1>3 DEF Constructs, Constructing, BytesInv
  <2>2. ASSUME BeforeWrap', nodePc' = "ready" PROVE log' = << >>
    <3>1. nodePc # "off" /\ Constructing /\ UNCHANGED log
      BY <1>3, <2>2 DEF Constructs, Constructing, NodeProofs!RemoveAll
    <3> QED BY <1>1, <2>2, <3>1 DEF Numbered, AsLong
  <2> QED BY <2>1, <2>2, BytesOfNothing DEF BytesInv
<1>4. CASE Begins
  <2>1. PICK k \in BlobKey, v \in NodeProofs!Version :
          /\ NodeProofs!SetBlob(k, v)
          /\ UNCHANGED <<loopVars, logicalWriteBytes, started>>
    BY <1>4 DEF Begins
  <2> DEFINE p == NodeProofs!Puts(k, v)[1]
  <2>2. p \in NodeProofs!PutRecord /\ p.family = "default" /\ p.value = v.blob
    BY NodeAssumptions, NodeProofs!PutTypes DEF NodeProofs!Puts
  <2>3. /\ NodeProofs!Put(p) /\ item' = <<k, v>>
        /\ nodePc = "ready" /\ nodePc' = "put"
    BY <2>1 DEF NodeProofs!SetBlob
  <2> HIDE DEF p
  <2>4. /\ Len(log') = Len(log) + 1
        /\ \A i \in 1 .. Len(log) : log'[i] = log[i]
        /\ log'[Len(log')] = p
    BY <1>2, <2>2, <2>3, NodeAssumptions, NodeProofs!PutEffect
  <2>5. BlobBytes(log') = BlobBytes(log) + v.blob
    BY <1>2, <2>2, <2>4, BytesOfAppend DEF Bytes
  <2> QED BY <1>1, <2>1, <2>3, <2>5 DEF BytesInv, Constructing
<1>5. CASE Writes
  <2>1. /\ started' = started /\ nodePc \in {"ready", "put"} /\ nodePc' = "ready"
        /\ \/ NodeProofs!SetSeq /\ logicalWriteBytes' = logicalWriteBytes + item[2].blob
           \/ /\ nodePc = "ready"
              /\ \E k \in BlobKey : NodeProofs!Stale(NodeProofs!ExistingSeq(k), numWrites)
              /\ \E b \in BlobSize : logicalWriteBytes' = logicalWriteBytes + b
    BY <1>5 DEF Writes, NodeProofs!SetSeq, nodeVars
  <2>2. CASE /\ nodePc = "ready"
             /\ \E k \in BlobKey : NodeProofs!Stale(NodeProofs!ExistingSeq(k), numWrites)
             /\ \E b \in BlobSize : logicalWriteBytes' = logicalWriteBytes + b
    <3>1. ~BeforeWrap'
      BY <1>1, <2>2, NeverStale
    <3>2. logicalWriteBytes' \in Nat
      BY <1>2, <2>2 DEF BytesInv
    <3> QED BY <2>1, <3>1, <3>2 DEF BytesInv, Constructing
  <2>3. CASE NodeProofs!SetSeq /\ logicalWriteBytes' = logicalWriteBytes + item[2].blob
    <3>1. nodePc = "put"
      BY <2>3 DEF NodeProofs!SetSeq
    <3>2. PICK k \in BlobKey, v \in NodeProofs!Version : item = <<k, v>>
      BY <3>1 DEF NodeProofs!NodeInv, NodeProofs!Between, NodeProofs!Item
    <3> DEFINE p == NodeProofs!Puts(k, v)[2]
    <3>3. p \in NodeProofs!PutRecord /\ p.family = "seq"
      BY NodeAssumptions, NodeProofs!PutTypes DEF NodeProofs!Puts
    <3>4. NodeProofs!Put(p)
      BY <2>3, <3>2 DEF NodeProofs!SetSeq
    <3> HIDE DEF p
    <3>5. /\ Len(log') = Len(log) + 1
          /\ \A i \in 1 .. Len(log) : log'[i] = log[i]
          /\ log'[Len(log')] = p
      BY <1>2, <3>3, <3>4, NodeAssumptions, NodeProofs!PutEffect
    <3>6. BlobBytes(log') = BlobBytes(log) + 0
      BY <1>2, <3>3, <3>5, BytesOfAppend DEF Bytes
    <3>7. logicalWriteBytes' \in Nat
      BY <1>2, <2>3, <3>2 DEF BytesInv, NodeProofs!Version
    <3>8. ASSUME BeforeWrap' PROVE BlobBytes(log') = logicalWriteBytes'
      BY <1>1, <2>3, <3>1, <3>6, <3>7, <3>8 DEF BytesInv
    <3> QED BY <2>1, <3>7, <3>8 DEF BytesInv, Constructing
  <2> QED BY <2>1, <2>2, <2>3
<1>6. CASE Updates \/ Waits
  <2>1. UNCHANGED <<log, nodePc, item, started, logicalWriteBytes>>
    BY <1>6 DEF Updates, Waits, nodeVars, NodeProofs!Flush, NodeProofs!BackgroundSync
  <2> QED BY <1>1, <2>1 DEF BytesInv, Constructing
<1>7. CASE Ends
  <2>1. UNCHANGED <<started, logicalWriteBytes>> /\ nodePc' = "off"
    BY <1>7 DEF Ends, backendVars
  <2> QED BY <2>1 DEF BytesInv, Constructing
<1> QED BY <1>3, <1>4, <1>5, <1>6, <1>7, BenchSteps

(***************************************************************************)
(* Between two Sets the logical bytes, by which the report divides, are    *)
(* the bytes of the blobs that were put: until numWrites wraps around no   *)
(* Set is counted that the node has dropped, in logs of any length.        *)
(***************************************************************************)
THEOREM CountedBytesArePut == BenchSpec => []LogicalBytesArePut
<1>1. BenchInit => BytesInv
  BY DEF BenchInit, BytesInv
<1>2. TypeOK /\ PaceInv /\ NodeProofs!NodeInv /\ NumbersInv /\ BytesInv
        /\ [BenchNext]_benchVars => BytesInv'
  BY NextBytes
<1>3. BytesInv => LogicalBytesArePut
  BY DEF BytesInv, LogicalBytesArePut
<1> QED BY <1>1, <1>2, <1>3, LoopAlways, NodeAlways, NumbersAlways, PTL DEF BenchSpec

-----------------------------------------------------------------------------
(***************************************************************************)
(* The time until a write is durable                                       *)
(***************************************************************************)
\* The time, multiplied by Headroom, by which a write made at t is flushed
\* although f calls of FlushWAL fail before: a period for each call, and after
\* a call that failed the iteration by which the next period may begin late.
Deadline(t, f) == (t + (f + 1) * FlushTicks) * Headroom + f * (OwnTime * Second)

\* timer expires within a period of time t.
DueWithin(timer, t) == timer \in Nat /\ timer <= t + FlushTicks

\* timer expires at or before A, which is a time multiplied by Headroom.
DueBy(timer, A) == timer \in Nat /\ timer * Headroom <= A

(***************************************************************************)
(* From the first Put after a sync on, the timer is due by the deadline,   *)
(* and the deadline is never later than WriteBenchmarkProofs' Late allows. *)
(* A Set that has made its first Put counts as not synced, whatever        *)
(* RocksDB has synced meanwhile.                                           *)
(***************************************************************************)
FlushesInTime ==
  /\ DueWithin(flushTimer, now)
  /\ flushFailures \in Nat
  /\ ~started => dirtySince = None /\ nodePc = "off"
  /\ nodePc = "put" => dirtySince # None
  /\ nodePc # "off" /\ synced < Len(log) => dirtySince # None
  /\ nodePc # "off" /\ dirtySince # None =>
       /\ dirtySince \in Nat
       /\ Headroom > 0 =>
            /\ DueBy(flushTimer, Deadline(dirtySince, flushFailures))
            /\ Late(Deadline(dirtySince, flushFailures))

LEMMA DeadlineType ==
  ASSUME NEW t \in Nat, NEW f \in Nat
  PROVE  /\ Deadline(t, f) \in Int
         /\ Deadline(t, f + 1) = Deadline(t, f) + FlushTicks * Headroom + OwnTime * Second
         /\ FlushTicks * Headroom \in Int /\ OwnTime * Second \in Nat
         /\ Headroom > 0 => (t + FlushTicks) * Headroom <= Deadline(t, f)
<1>1. /\ FlushTicks \in Nat /\ Headroom \in Int /\ OwnTime * Second \in Nat
      /\ FlushTicks * Headroom \in Int
  <2>1. FlushTicks \in Nat /\ Headroom \in Int /\ OwnTime \in Nat /\ Second \in Nat
    BY FlushAssumption, TimeTypes
  <2> QED BY <2>1
<1> DEFINE own == OwnTime * Second
           wait == FlushTicks * Headroom
<1>2. /\ (f + 1) * FlushTicks = f * FlushTicks + FlushTicks
      /\ (f + 1 + 1) * FlushTicks = f * FlushTicks + FlushTicks + FlushTicks
      /\ f * FlushTicks \in Nat
  BY <1>1
<1> DEFINE waits == f * FlushTicks
<1>3. own \in Nat /\ wait \in Int /\ waits \in Nat
  BY <1>1, <1>2
<1>4. Deadline(t, f) = t * Headroom + waits * Headroom + wait + f * own
  <2>1. (t + (waits + FlushTicks)) * Headroom = t * Headroom + waits * Headroom + wait
    BY <1>1, <1>3
  <2> QED BY <1>2, <2>1 DEF Deadline
<1>5. Deadline(t, f + 1) = t * Headroom + waits * Headroom + wait + wait + (f + 1) * own
  <2>1. (t + (waits + FlushTicks + FlushTicks)) * Headroom
          = t * Headroom + waits * Headroom + wait + wait
    BY <1>1, <1>3
  <2> QED BY <1>2, <2>1 DEF Deadline
<1>6. (t + FlushTicks) * Headroom = t * Headroom + wait
  BY <1>1
<1> HIDE DEF own, wait, waits
<1>7. /\ f * own \in Nat /\ (f + 1) * own = f * own + own
      /\ t * Headroom \in Int /\ waits * Headroom \in Int
      /\ Headroom > 0 => waits * Headroom \in Nat
  BY <1>1, <1>3
<1> QED BY <1>1, <1>3, <1>4, <1>5, <1>6, <1>7 DEF own, wait

\* A time before another, multiplied by Headroom.
LEMMA Sooner ==
  ASSUME NEW t \in Nat, NEW a \in Nat, t <= a, Headroom > 0
  PROVE  a * Headroom \in Int /\ t * Headroom \in Int /\ t * Headroom <= a * Headroom
<1>1. Headroom \in Nat
  BY TimeTypes
<1>2. Headroom * t <= Headroom * a
  BY <1>1, Monotonic
<1> QED BY <1>1, <1>2

\* The timer keeps its deadline unless Update finds it expired.
LEMMA StaysInTime ==
  ASSUME TypeOK, PaceInv, IterInv, [Next]_loopVars, NEW t \in Nat, NEW f \in Nat,
         Headroom > 0, DueBy(flushTimer, Deadline(t, f)), Late(Deadline(t, f)),
         pc = "writes" /\ pc' = "stats" => ~HasExpired(flushTimer, now)
  PROVE  Late(Deadline(t, f))'
<1>1. PICK A \in Int : A = Deadline(t, f)
  BY DeadlineType
<1>2. pc = "writes" /\ pc' = "stats" => now * Headroom <= A
  <2> SUFFICES ASSUME ~HasExpired(flushTimer, now) PROVE now * Headroom <= A
    OBVIOUS
  <2>1. flushTimer \in Nat /\ now \in Nat /\ now <= flushTimer
    BY DEF DueBy, HasExpired, TypeOK
  <2>2. /\ now * Headroom <= flushTimer * Headroom
        /\ now * Headroom \in Int /\ flushTimer * Headroom \in Int
    BY <2>1, Sooner
  <2> QED BY <1>1, <2>2 DEF DueBy
<1>3. Late(A)
  BY <1>1
<1>4. Late(A)'
  BY <1>2, <1>3, LateNext
<1> QED BY <1>1, <1>4 DEF Deadline, Late, CatchingUp, Headroom, OwnTime, Second, SetTime,
                          StepTime, Longest

\* A call of FlushWAL that fails moves the deadline by a period and an iteration.
LEMMA FailureMovesDeadline ==
  ASSUME TypeOK, PaceInv, IterInv, NEW d \in StepDurations, UpdateBackend(d),
         NEW t \in Nat, NEW f \in Nat, NEW timer \in Nat, NEW r \in Rearmed(timer, now, FlushTicks),
         HasExpired(timer, now), Headroom > 0, Late(Deadline(t, f))
  PROVE  DueBy(r, Deadline(t, f + 1)) /\ Late(Deadline(t, f + 1))'
<1> DEFINE wait == FlushTicks * Headroom
           own == OwnTime * Second
<1>1. PICK A \in Int, B \in Int :
        A = Deadline(t, f) /\ B = Deadline(t, f + 1) /\ B = A + wait + own
  BY DeadlineType
<1>2. wait \in Nat /\ own \in Nat /\ now \in Nat /\ FlushTicks \in Nat /\ Headroom \in Nat
  BY DeadlineType, FlushAssumption, TimeTypes DEF TypeOK
<1>3. pc = "writes" /\ pc' = "stats" /\ [Next]_loopVars
  BY DEF UpdateBackend, Next
<1>4. now * Headroom - A <= own /\ now * Headroom \in Int
  BY <1>1, <1>2, <1>3, LateByAnIteration
<1>5. r \in Nat /\ r <= now + FlushTicks
  BY <1>2 DEF Rearmed, HasExpired
<1>6. r * Headroom <= (now + FlushTicks) * Headroom /\ r * Headroom \in Int
  BY <1>2, <1>5, Sooner
<1>7. (now + FlushTicks) * Headroom = now * Headroom + wait
  BY <1>2
<1> HIDE DEF wait, own
<1>8. r * Headroom <= B /\ now * Headroom <= B
  BY <1>1, <1>2, <1>4, <1>6, <1>7
<1>9. Late(B)
  BY <1>3, <1>8, NotYetLate
<1>10. Late(B)'
  BY <1>3, <1>8, <1>9, LateNext
<1>11. Late(Deadline(t, f + 1))'
  BY <1>1, <1>10 DEF Deadline, Late, CatchingUp, Headroom, OwnTime, Second, SetTime, StepTime,
                     Longest
<1> QED BY <1>1, <1>5, <1>8, <1>11 DEF DueBy

LEMMA TimerDue ==
  ASSUME NEW timer, NEW t \in Nat, DueWithin(timer, t)
  PROVE  /\ \A u \in Nat : t <= u => DueWithin(timer, u)
         /\ HasExpired(timer, t)
              => \A r \in Rearmed(timer, t, FlushTicks) : DueWithin(r, t)
BY FlushAssumption DEF DueWithin, HasExpired, Rearmed

LEMMA NextFlushesInTime ==
  ASSUME TypeOK, PaceInv, IterInv, NodeProofs!NodeInv, FlushesInTime, [BenchNext]_benchVars
  PROVE  FlushesInTime'
<1>1. [Next]_loopVars
  BY LoopSteps
<1>2. now \in Nat /\ now' \in Nat /\ now <= now' /\ FlushTicks \in Nat
  BY <1>1, ClockAdvances, FlushAssumption DEF TypeOK
<1>3. ASSUME UNCHANGED <<flushTimer, dirtySince, flushFailures>>,
             ~started' => nodePc' = "off" /\ ~started,
             nodePc' # "off" /\ synced' < Len(log') => dirtySince # None,
             nodePc' # "off" /\ dirtySince # None => nodePc # "off",
             nodePc' = "put" => dirtySince # None,
             pc = "writes" /\ pc' = "stats" => ~HasExpired(flushTimer, now)
      PROVE  FlushesInTime'
  <2>1. ASSUME nodePc' # "off", dirtySince # None, Headroom > 0
        PROVE  Late(Deadline(dirtySince, flushFailures))'
    <3>1. PICK t \in Nat, f \in Nat : t = dirtySince /\ f = flushFailures
      BY <1>3, <2>1 DEF FlushesInTime
    <3>2. DueBy(flushTimer, Deadline(t, f)) /\ Late(Deadline(t, f))
      BY <1>3, <2>1, <3>1 DEF FlushesInTime
    <3>3. Late(Deadline(t, f))'
      BY <1>1, <1>3, <2>1, <3>2, StaysInTime
    <3>4. t = dirtySince' /\ f = flushFailures'
      BY <1>3, <3>1
    <3> QED BY <3>3, <3>4
  <2>2. \A u : u = now' => DueWithin(flushTimer, u)
    BY <1>2, TimerDue DEF FlushesInTime
  <2>4. nodePc' # "off" /\ dirtySince # None =>
          /\ dirtySince \in Nat
          /\ Headroom > 0 => DueBy(flushTimer, Deadline(dirtySince, flushFailures))
    BY <1>3 DEF FlushesInTime
  <2>5. flushFailures \in Nat /\ (~started' => dirtySince = None /\ nodePc' = "off")
    BY <1>3 DEF FlushesInTime
  <2>6. DueWithin(flushTimer, now)'
    BY <1>3, <2>2 DEF DueWithin
  <2>7. nodePc' # "off" /\ dirtySince' # None =>
          /\ dirtySince' \in Nat
          /\ Headroom > 0 =>
               /\ DueBy(flushTimer', Deadline(dirtySince', flushFailures'))
               /\ Late(Deadline(dirtySince, flushFailures))'
    BY <1>3, <2>1, <2>4
  <2> QED BY <1>3, <2>5, <2>6, <2>7 DEF FlushesInTime
<1>4. log \in Seq(NodeProofs!PutRecord) /\ Len(log) \in Nat /\ synced \in 0 .. Len(log)
  BY LogTypes
<1>5. CASE Constructs
  <2>1. /\ UNCHANGED <<flushTimer, dirtySince, flushFailures>> /\ started' /\ pc' = pc
        /\ \/ ~started /\ NodeProofs!RemoveAll
           \/ Constructing /\ UNCHANGED <<log, synced, written>>
        /\ nodePc' # "put"
    BY <1>5 DEF Constructs, Constructing, loopVars
  <2>2. CASE ~started /\ NodeProofs!RemoveAll
    <3>1. log' = << >> /\ synced' = 0 /\ dirtySince = None
      BY <2>2 DEF NodeProofs!RemoveAll, FlushesInTime
    <3> QED BY <1>3, <2>1, <3>1
  <2>3. CASE Constructing /\ UNCHANGED <<log, synced, written>>
    <3>1. nodePc # "off"
      BY <2>3 DEF Constructing
    <3> QED BY <1>3, <2>1, <2>3, <3>1 DEF FlushesInTime
  <2> QED BY <2>1, <2>2, <2>3
<1>6. CASE Begins
  <2>1. PICK k \in BlobKey, v \in NodeProofs!Version :
          /\ pc = "writes" /\ NodeProofs!SetBlob(k, v)
          /\ dirtySince' = IF dirtySince = None THEN now ELSE dirtySince
          /\ UNCHANGED <<loopVars, flushTimer, flushFailures, started>>
    BY <1>6 DEF Begins
  <2>2. nodePc = "ready" /\ started /\ now' = now /\ pc' = pc
    BY <2>1 DEF NodeProofs!SetBlob, FlushesInTime, loopVars
  <2>3. CASE dirtySince # None
    <3>1. UNCHANGED <<flushTimer, dirtySince, flushFailures>> /\ nodePc # "off" /\ started'
      BY <2>1, <2>2, <2>3
    <3> QED BY <1>3, <2>2, <2>3, <3>1
  <2>4. CASE dirtySince = None
    <3>1. PICK t \in Nat, f \in Nat : t = now /\ f = flushFailures
      BY <1>2 DEF FlushesInTime
    <3>2. dirtySince' = t /\ flushFailures' = f /\ flushTimer' = flushTimer
      BY <2>1, <2>4, <3>1
    <3>3. ASSUME Headroom > 0
          PROVE  DueBy(flushTimer, Deadline(t, f)) /\ Late(Deadline(t, f))'
      <4>1. PICK A \in Int : A = Deadline(t, f) /\ (t + FlushTicks) * Headroom <= A
        BY <3>3, DeadlineType
      <4>2. flushTimer \in Nat /\ flushTimer <= t + FlushTicks /\ t + FlushTicks \in Nat
        BY <1>2, <3>1 DEF FlushesInTime, DueWithin
      <4>3. /\ flushTimer * Headroom <= (t + FlushTicks) * Headroom
            /\ t * Headroom <= (t + FlushTicks) * Headroom
            /\ flushTimer * Headroom \in Int /\ t * Headroom \in Int
            /\ (t + FlushTicks) * Headroom \in Int
        BY <1>2, <3>3, <4>2, Sooner
      <4>4. flushTimer * Headroom <= A /\ now * Headroom <= A
        BY <3>1, <4>1, <4>3
      <4>5. Late(A)
        BY <2>1, <3>3, <4>4, NotYetLate
      <4>6. DueBy(flushTimer, Deadline(t, f)) /\ Late(Deadline(t, f))
        BY <4>1, <4>2, <4>4, <4>5 DEF DueBy
      <4>7. pc = "writes" /\ pc' = "stats" => ~HasExpired(flushTimer, now)
        BY <2>1, <2>2
      <4>8. Late(Deadline(t, f))'
        BY <1>1, <3>3, <4>6, <4>7, StaysInTime
      <4> QED BY <4>6, <4>8
    <3>4. t # None
      BY FlushAssumption
    <3>5. Headroom > 0 => /\ DueBy(flushTimer', Deadline(dirtySince', flushFailures'))
                          /\ Late(Deadline(dirtySince, flushFailures))'
      BY <3>2, <3>3
    <3>6. DueWithin(flushTimer, now)' /\ flushFailures' \in Nat
      BY <2>1, <2>2, <3>2 DEF FlushesInTime, DueWithin
    <3>7. started' /\ dirtySince' # None /\ dirtySince' \in Nat
      BY <2>1, <2>2, <3>2, <3>4
    <3> QED BY <3>5, <3>6, <3>7 DEF FlushesInTime
  <2> QED BY <2>3, <2>4
<1>7. CASE Writes
  <2>1. /\ UNCHANGED <<flushTimer, dirtySince, flushFailures, started>>
        /\ pc' = pc /\ nodePc \in {"ready", "put"}
        /\ NodeProofs!SetSeq \/ UNCHANGED nodeVars
    BY <1>7 DEF Writes, IssueWrite, NodeProofs!SetSeq
  <2>2. started /\ nodePc # "off"
    BY <2>1 DEF FlushesInTime
  <2>3. CASE NodeProofs!SetSeq
    <3>1. dirtySince # None /\ nodePc' # "put"
      BY <2>3 DEF NodeProofs!SetSeq, FlushesInTime
    <3> QED BY <1>3, <2>1, <2>2, <3>1
  <2>4. CASE UNCHANGED nodeVars
    <3>1. log' = log /\ synced' = synced /\ nodePc' = nodePc
      BY <2>4 DEF nodeVars
    <3> QED BY <1>3, <2>1, <2>2, <3>1 DEF FlushesInTime
  <2> QED BY <2>1, <2>3, <2>4
<1>8. CASE Updates
  <2>1. PICK d \in StepDurations :
          /\ nodePc = "ready"
          /\ UpdateBackend(d)
          /\ HasExpired(flushTimer, now)
          /\ flushTimer' \in Rearmed(flushTimer, now, FlushTicks)
          /\ \/ NodeProofs!Flush /\ dirtySince' = None /\ flushFailures' = 0
             \/ /\ UNCHANGED <<nodeVars, dirtySince>>
                /\ flushFailures' = flushFailures + 1
          /\ UNCHANGED started
    BY <1>8 DEF Updates
  <2>2. PICK timer \in Nat, r \in Nat : /\ timer = flushTimer /\ r = flushTimer'
                                       /\ DueWithin(r, now)
    BY <1>2, <2>1, TimerDue DEF DueWithin, FlushesInTime
  <2>3. DueWithin(flushTimer, now)'
    <3>1. \A u : u = now' => DueWithin(r, u)
      BY <1>2, <2>2, TimerDue
    <3> QED BY <2>2, <3>1 DEF DueWithin
  <2>4. started /\ nodePc' = "ready"
    BY <2>1 DEF FlushesInTime, nodeVars, NodeProofs!Flush
  <2>5. CASE NodeProofs!Flush /\ dirtySince' = None /\ flushFailures' = 0
    <3>1. ~(synced' < Len(log'))
      BY <1>4, <2>5 DEF NodeProofs!Flush
    <3> QED BY <2>1, <2>3, <2>4, <2>5, <3>1 DEF FlushesInTime
  <2>6. CASE UNCHANGED <<nodeVars, dirtySince>> /\ flushFailures' = flushFailures + 1
    <3>1. nodePc' = nodePc /\ log' = log /\ synced' = synced /\ dirtySince' = dirtySince
      BY <2>6 DEF nodeVars
    <3>2. PICK f \in Nat : f = flushFailures /\ f + 1 = flushFailures'
      BY <2>6 DEF FlushesInTime
    <3>3. ASSUME dirtySince # None, Headroom > 0
          PROVE  /\ DueBy(flushTimer', Deadline(dirtySince', flushFailures'))
                 /\ Late(Deadline(dirtySince, flushFailures))'
      <4>1. PICK t \in Nat : t = dirtySince
        BY <2>1, <3>3 DEF FlushesInTime
      <4>2. Late(Deadline(t, f))
        BY <2>1, <3>2, <3>3, <4>1 DEF FlushesInTime
      <4>3. r \in Rearmed(timer, now, FlushTicks) /\ HasExpired(timer, now)
        BY <2>1, <2>2
      <4>4. DueBy(r, Deadline(t, f + 1)) /\ Late(Deadline(t, f + 1))'
        BY <2>1, <3>3, <4>2, <4>3, FailureMovesDeadline
      <4>5. t = dirtySince'
        BY <3>1, <4>1
      <4> QED BY <2>2, <3>2, <4>4, <4>5
    <3>4. dirtySince # None => dirtySince \in Nat
      BY <2>1 DEF FlushesInTime
    <3>5. nodePc' # "off" /\ synced' < Len(log') => dirtySince' # None
      BY <3>1 DEF FlushesInTime
    <3>6. flushFailures' \in Nat /\ started'
      BY <2>1, <2>4, <3>2
    <3> QED BY <2>3, <3>1, <3>3, <3>4, <3>5, <3>6 DEF FlushesInTime
  <2> QED BY <2>1, <2>5, <2>6
<1>9. CASE Waits
  <2>1. /\ UNCHANGED <<flushTimer, dirtySince, flushFailures, started, nodePc, log>>
        /\ pc = "writes" /\ pc' = "stats" => ~HasExpired(flushTimer, now)
        /\ synced' = synced \/ synced < synced'
    BY <1>4, <1>9 DEF Waits, nodeVars, NodeProofs!BackgroundSync
  <2>2. synced' < Len(log') => synced < Len(log)
    <3>1. synced' \in Int
      BY <1>4, <1>9 DEF Waits, nodeVars, NodeProofs!BackgroundSync
    <3> QED BY <1>4, <2>1, <3>1
  <2> QED BY <1>3, <2>1, <2>2 DEF FlushesInTime
<1>10. CASE Ends
  <2>1. /\ UNCHANGED <<flushTimer, dirtySince, flushFailures, started>> /\ pc' = pc
        /\ nodePc' = "off"
    BY <1>10 DEF Ends, loopVars, backendVars
  <2> QED BY <1>3, <2>1
<1> QED BY <1>5, <1>6, <1>7, <1>8, <1>9, <1>10, BenchSteps

(***************************************************************************)
(* The oldest write that is not synced is younger than the flush period    *)
(* plus an iteration of the loop, and this much longer again for each      *)
(* FlushWAL in a row that failed unnoticed, if Set is fast enough for the  *)
(* rate: whatever RocksDB syncs on its own and however the timer re-arms.  *)
(***************************************************************************)
THEOREM LossIsBounded == BenchSpec => []LossWindow
<1>1. BenchInit => FlushesInTime
  BY ClockAssumption, FlushAssumption DEF BenchInit, Init, FlushesInTime, DueWithin
<1>2. TypeOK /\ PaceInv /\ IterInv /\ NodeProofs!NodeInv /\ FlushesInTime
        /\ [BenchNext]_benchVars => FlushesInTime'
  BY NextFlushesInTime
<1>3. ASSUME TypeOK, PaceInv, FlushesInTime PROVE LossWindow
  <2> DEFINE p == flushFailures + 1
             own == OwnTime * Second
  <2> SUFFICES ASSUME synced < Len(log), nodePc # "off", pc \notin {"report", "done"},
                      Headroom > 0
               PROVE  (now - dirtySince - p * FlushTicks) * Headroom <= p * own
    BY DEF LossWindow, WithinIterations
  <2>1. PICK t \in Nat, f \in Nat : t = dirtySince /\ f = flushFailures
    BY <1>3 DEF FlushesInTime
  <2>2. PICK A \in Int : A = Deadline(t, f)
    BY DeadlineType
  <2>3. Late(A)
    BY <1>3, <2>1, <2>2 DEF FlushesInTime
  <2>4. now * Headroom - A <= own
    BY <1>3, <2>3, LateByAnIteration
  <2>5. now \in Nat /\ Headroom \in Int /\ own \in Nat /\ FlushTicks \in Nat
    BY <1>3, DeadlineType, FlushAssumption, TimeTypes DEF TypeOK
  <2> HIDE DEF own
  <2> DEFINE wait == (f + 1) * FlushTicks
             x == (now - t - wait) * Headroom
             y == now * Headroom
             z == (t + wait) * Headroom
  <2>6. wait \in Nat /\ A = z + f * own
    BY <2>2, <2>5 DEF Deadline, own
  <2> HIDE DEF wait
  <2>7. x = y - z /\ x \in Int /\ y \in Int /\ z \in Int
    BY <2>5, <2>6
  <2>8. (f + 1) * own = f * own + own /\ f * own \in Nat
    BY <2>5
  <2> HIDE DEF x, y, z
  <2>9. y - A <= own
    BY <2>4 DEF y
  <2>10. x <= (f + 1) * own
    BY <2>5, <2>6, <2>7, <2>8, <2>9
  <2> QED BY <2>1, <2>10 DEF x, wait
<1> QED BY <1>1, <1>2, <1>3, LoopAlways, NodeAlways, PTL DEF BenchSpec
=============================================================================
