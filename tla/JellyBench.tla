------------------------------ MODULE JellyBench ------------------------------
(***************************************************************************)
(* The program as main runs it: the loop of WriteBenchmark on a JellyWrite *)
(* backend.  main constructs the backend over the files of whatever ran    *)
(* before, the loop queues a request per write, Update hands them to the   *)
(* node when its timer has expired and does what the advisor says, and     *)
(* main deletes the backend.  The process may be killed at any time.       *)
(***************************************************************************)
EXTENDS WriteBenchmark, Sequences

CONSTANTS
  ProcessTicks,  \* m_processRequestsTimer.SetTimeout(500)
  None,          \* no version, no request, no time
  Request,       \* addresses; at least as many as requests are owned at a time
  WAL

ASSUME ProcessAssumption ==
  /\ ProcessTicks \in PosInt
  /\ LET Version == [seq : 0 .. Uint32 - 1, blob : BlobSize]
     IN  None \notin Nat \cup Version \cup (BlobKey \X Version)

VARIABLES
  backendPc, m_requests, fields, queue, walPending, completed, table, durable,
  written,               \* JellyWrite's
  started,               \* main has constructed the backend
  processRequestsTimer,  \* m_processRequestsTimer
  queuedSince,           \* history: when the oldest request in queue was set
  completedSince         \* history: when the first of completed completed

Backend == INSTANCE JellyWrite
             WITH Key <- BlobKey, Blob <- BlobSize, MaxSeq <- Uint32 - 1,
                  pc <- backendPc, pending <- walPending

jellyVars == <<backendPc, m_requests, fields, queue, walPending, completed,
               table, durable, written>>

historyVars == <<queuedSince, completedSince>>

benchVars == <<loopVars, jellyVars, started, processRequestsTimer, historyVars>>

-----------------------------------------------------------------------------
\* The constructor of the backend sets the timer some time before startTime.
BenchInit ==
  /\ Init
  /\ backendPc = "off"
  /\ m_requests = {}
  /\ fields = [r \in Request |-> None]
  /\ queue = << >>
  /\ walPending = [w \in WAL |-> {}]
  /\ completed = {}
  /\ durable \in Backend!Table
  /\ table = durable
  /\ written = {}
  /\ started = FALSE
  /\ processRequestsTimer \in 0 .. ProcessTicks
  /\ queuedSince = None
  /\ completedSince = None

\* main: _CreateWriteBackend
Start ==
  /\ ~started
  /\ started' = TRUE
  /\ Backend!Open
  /\ UNCHANGED <<loopVars, processRequestsTimer, historyVars>>

\* IWriteBackend::Set, called from the catch-up loop with numWrites as its number.
Write(k, b, d) ==
  /\ IssueWrite(d)
  /\ Backend!Set(k, [seq |-> numWrites, blob |-> b])
  /\ queuedSince' = IF queue = << >> THEN now ELSE queuedSince
  /\ UNCHANGED <<started, processRequestsTimer, completedSince>>

(***************************************************************************)
(* IWriteBackend::Update, called once the catch-up loop is done: the       *)
(* timer, then the advisor's events, then the return to the loop.          *)
(***************************************************************************)
BeginUpdate ==
  /\ pc = "writes"
  /\ pending <= 0
  /\ \/ /\ HasExpired(processRequestsTimer, now)
        /\ processRequestsTimer' \in
             Rearmed(processRequestsTimer, now, ProcessTicks)
        /\ Backend!UpdateExpired
     \/ /\ ~HasExpired(processRequestsTimer, now)
        /\ UNCHANGED processRequestsTimer
        /\ Backend!UpdateEarly
  /\ queuedSince' = IF queue' = << >> THEN None ELSE queuedSince
  /\ completedSince' = IF completed' = {} THEN None ELSE completedSince
  /\ UNCHANGED <<loopVars, started>>

Housekeep ==
  /\ \/ \E w \in WAL : Backend!FlushWAL(w)
     \/ Backend!FlushStore
     \/ Backend!RewriteFiles
  /\ completedSince' =
       IF completed = {} /\ completed' # {} THEN now ELSE completedSince
  /\ UNCHANGED <<loopVars, started, processRequestsTimer, queuedSince>>

EndUpdate(d) ==
  /\ Backend!UpdateReturns
  /\ UpdateBackend(d)
  /\ UNCHANGED <<started, processRequestsTimer, historyVars>>

\* The steps of the loop that do not call into the backend or only read it.
Proceed(d) ==
  /\ backendPc = "ready"
  /\ \/ RunOver(d)
     \/ Account(d)
     \/ SampleMemory(d)
     \/ \E diskUsage \in DiskSamples : SampleDisk(diskUsage, d)
     \/ SkipDisk(d)
     \/ Sleep(d)
     \/ Report
  /\ UNCHANGED <<jellyVars, started, processRequestsTimer, historyVars>>

\* main returns: the backend is deleted.
Finish ==
  /\ \/ pc = "done" /\ Backend!Close
     \/ Backend!DestroyMembers
  /\ queuedSince' = None
  /\ completedSince' = None
  /\ UNCHANGED <<loopVars, started, processRequestsTimer>>

Kill ==
  /\ Backend!Crash
  /\ queuedSince' = None
  /\ completedSince' = None
  /\ UNCHANGED <<loopVars, started, processRequestsTimer>>

BenchNext ==
  \/ Start
  \/ \E k \in BlobKey, b \in RandomBlob, d \in SetDurations : Write(k, b, d)
  \/ BeginUpdate
  \/ Housekeep
  \/ \E d \in StepDurations : EndUpdate(d) \/ Proceed(d)
  \/ Finish
  \/ Kill

BenchSpec == BenchInit /\ [][BenchNext]_benchVars
-----------------------------------------------------------------------------
(***************************************************************************)
(* Properties                                                              *)
(***************************************************************************)
(***************************************************************************)
(* The node takes every write: as long as numWrites has not wrapped around *)
(* no queued request is outdated, by an earlier write or by what an        *)
(* earlier run left in the files.                                          *)
(***************************************************************************)
OutdatedOnlyAfterWrap == started /\ Backend!Outdated # {} => ~BeforeWrap

\* t is no longer ago than a period of the timer and an iteration of the loop.
WithinPeriod(t) == WithinIterations(1, now - t - ProcessTicks)

Looping == pc \notin {"report", "done"}

(***************************************************************************)
(* A write reaches the node, and with it a WAL, within 500 ms and one      *)
(* iteration of its Set, however the batches of the catch-up loop fall     *)
(* between the polls of the timer.                                         *)
(***************************************************************************)
HandedOverInTime == queue # << >> /\ Looping => WithinPeriod(queuedSince)

(***************************************************************************)
(* A completed request does not stay in m_requests for longer than that,   *)
(* although the requests are only looked at when the timer has expired and *)
(* complete later in the same Update or in one in between.                 *)
(***************************************************************************)
ReleasedInTime == completed # {} /\ Looping => WithinPeriod(completedSince)
=============================================================================
