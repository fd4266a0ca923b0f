# A TLA+ verification of jelly-bench

jelly-bench writes blobs at a steady rate into one of three storage engines
(jelly, SQLite, RocksDB) and reports what that costs. This directory holds TLA+
modules translated from its C++ source, TLC configurations that check them on
small instances, and proofs that TLAPS checks for every value of the constants.
Paths below are relative to the repository.

## 1. The system

| Component | Source | State it keeps | Operations |
|-|-|-|-|
| Write benchmark loop | `src/Write/WriteBenchmark.cpp` | clock readings, `pending` (a double), `numWrites` (uint32_t), two timers, maxima | one loop: account time, catch up with `Set` calls, `Update`, sample memory and disk, sleep; then a report |
| Random blob cache | `src/RandomBlobCache.cpp` | a fixed vector of random blobs | constructed once, then read |
| Backend interface | `src/Write/IWriteBackend.h` | logical bytes written | `Set`, `Update`, `GetDiskSpaceUsed` |
| Jelly backend | `src/Write/Jelly/JellyWrite.cpp` | `m_requests`, a node, a housekeeping advisor, a 500 ms timer | `Set`, `Update`, `_UpdateRequests`, construction, destruction |
| SQLite backend | `src/Write/SQLite/SQLiteWrite.cpp` | a node, a 500 ms flush timer | `Set`, `Update` |
| SQLite blob node | `src/SQLiteBlobNode.cpp` | `m_batching`, a connection, a prepared upsert | `Set`, `Flush`, construction, destruction |
| RocksDB backend, node | `src/Write/RocksDB/RocksDBWrite.cpp`, `src/RocksDBBlobNode.cpp` | a database with two column families, a 500 ms timer | `Set`, `Flush`, `GetDiskSpaceUsed`, construction, destruction |
| Configuration, `main` | `src/Config.h`, `src/Main.cpp` | the parsed command line | parse, override, construct a backend, run, delete it |
| Process monitor | `src/ProcessMonitor.cpp` | none | reads `times()` and `/proc` |

How they interact: `main` constructs one backend and passes it to the loop. The
loop is the only caller of the backend, from a single thread: `Set` any number of
times, with `numWrites` as the sequence number, then `Update` once, per
iteration. A backend polls its own timer in `Update`. The SQLite node and SQLite
share the transaction state, which the node mirrors in `m_batching`. `JellyWrite`
shares its requests with the jelly node: it owns them, the node holds raw
pointers to them. Files outlive the process; a backend deletes those of an
earlier run when it is constructed.

`main` at this commit overwrites the parsed backend with `jelly` and the rate
with 10000 (`src/Main.cpp:40-44`), so the SQLite and RocksDB backends are
compiled but not reachable without editing that block. They are modelled as
the backends they are written to be; that the options are ignored is itself a
finding (section 3).

### What is hard, and what makes each part correct

- **Pacing.** Elapsed time is truncated to microseconds and to 32 bits, a slow
  `Set` creates more owed writes, and nothing is looked at while catching up. The
  loop must keep the rate in the long run, never exceed it, not snowball when
  the backend is fast enough, terminate, and report numbers that fit each other.
- **Versions.** A sequence number that is not newer makes SQLite's upsert store NULL,
  which a constraint rejects and an assertion turns into an abort. Numbering must
  prevent that - across runs too, as the file of an earlier run is there at start.
- **Batches and crashes (SQLite).** Hand-mirrored transaction state, a destructor that does
  not commit, kills at any time: the file must be a prefix of the run, the window
  of lost writes bounded by the flush period and an iteration.
- **Ownership (Jelly).** Requests complete out of order, are found by a scan that
  moves entries and decrements an unsigned index below zero, and must be neither destroyed
  while the node has their address nor kept forever.
- **Several WALs (Jelly).** Two versions of a key may become durable in the opposite order
  of their `Set` calls; the newer one must win in memory and in the files.
- **Two puts (RocksDB).** A blob and its sequence number are written separately, and a
  crash may come between them; an error of `Get` is taken for "no number", one of
  `FlushWAL` for success. What is left must be a prefix of the run all the same, but for
  the blob of one write whose number is missing; at most one key is torn, and torn to the
  harmless side: the newer blob under the older number.
- **Opening (RocksDB).** The constructor deletes, creates, adds a family, closes, opens.
  `error_if_exists` and the list of families each refuse what does not fit, so a kill at
  any step must not lock the next run out.
- **Timers and batches (all engines).** The 500 ms timers are polled only between
  batches of writes: what waits for them waits for a period and an iteration.
- **The command line.** A name and its value are told apart by a dash only, and what the
  loop does not know goes to jelly without a complaint.
- **Two readings.** Processor times are differences of readings in coarse units, set
  against an elapsed time that is read separately.

`PROJECT.json` lists these hazards line by line with the properties aimed at them.

## 2. The modules

| Module | Models | Composes |
|-|-|-|
| `Timer` | `jelly::Timer`, from its use | |
| `WriteBenchmark` | the loop, any backend | `Timer` |
| `BlobStore` | *abstract*: what the loop may rely on a storage engine for | |
| `TwoPutStore` | *abstract*: what a storage engine gives that stores a blob and its number separately | |
| `SQLiteBlobNode` | the SQLite node, any caller | refines `BlobStore` |
| `SQLiteBench` | `main`, the loop, the SQLite backend and the node together | `WriteBenchmark`, `SQLiteBlobNode` |
| `JellyWrite` | the Jelly backend, any caller; the jelly node from its use | refines `BlobStore` |
| `CyclicRemove` | `JellyWrite::_UpdateRequests`, turn by turn | |
| `JellyBench` | `main`, the loop and the Jelly backend together | `WriteBenchmark`, `JellyWrite` |
| `RocksDBBlobNode` | the RocksDB node, any caller; RocksDB from its use | refines `TwoPutStore` until a `Get` fails |
| `RocksDBBench` | `main`, the loop, the RocksDB backend and the node together | `WriteBenchmark`, `RocksDBBlobNode` |
| `ProcessStats` | the processor times in the report | `WriteBenchmark` |
| `CommandLine` | `Config::InitFromCommandLine`, `main`'s overrides and the choice of backend | |
| `WriteBenchmarkProofs`, `SQLiteBlobNodeProofs`, `RocksDBBlobNodeProofs`, `JellyWriteProofs` | theorems about the module of the same name | |
| `SQLiteBenchProofs`, `RocksDBBenchProofs`, `JellyBenchProofs` | theorems about the three programs; the last one also about `ProcessStats` | the proofs of their parts |
| `AlgorithmProofs` | theorems about `CommandLine` and `CyclicRemove` | |

The `MC*` modules hold the sets that a `.cfg` cannot write.

### Correspondence with the code

**`WriteBenchmark`.** `pc` is the statement that runs next: `loop` (41-47),
`writes` (49-61), `stats` (63-66), `disk` (68-75), `sleep` (77), `report`
(80-102). `Account` is one pass of 45-47, `IssueWrite` one turn of the catch-up
loop, and so on; every step advances the clock by a duration of its own, so a
stall may happen at any statement. `pending` counts millionths of a write and is
exact, where the code uses a double: rounding of doubles is not modelled, and
near the values in question (rate x microseconds, far below 2^53 millionths) it
is smaller than the truncation which is. Conversions are modelled by what they do:
truncation to microseconds (`Microseconds`), to 32 bits (`MicrosSince`, the
report), the wrap-around of `numWrites` and of the unsigned difference printed as
`max_mem`. The disk sample's own `printf`, the write statistics and the
wording of the report are left out; the CPU statistics are in `ProcessStats`. A blob is its size. `ConfigAssumption`
excludes the configurations in which the program is undefined (a key count of 0, an
empty cache, an inverted size range).

**`Timer`.** An expired timer re-arms itself when polled. Whether the next
period counts from the poll or from the missed deadline is not visible here, so
both are allowed.

**`SQLiteBlobNode`.** `batching` is `m_batching`; `inTransaction` is SQLite's
own state, kept apart so that the two can disagree. `working` is the table as the
connection sees it, `committed` the one in the file. `Upserted` is the `ON
CONFLICT` clause of the prepared statement: NULL for a number that is not newer.
`SetAborts` and `FlushAborts` are the `JELLY_ALWAYS_ASSERT`s, for a wrong
BEGIN or COMMIT, the constraint, or any error of the engine. `Close` is the destructor,
which rolls back what is open; `Crash` a kill. The constructor has three outcomes: it removes the
file and succeeds (`Open`), cannot remove it and throws (`RemoveThrows`: the old file stays), or
ends after the removal, by an assertion or a kill (`OpenAborts`: a file without rows). What
the removal does is `Removed`. Nothing can be observed of its later steps but that the file has no
rows, so they are not told apart.

**`SQLiteBench`.** Conjoins the loop's actions with the node's: `Write` is
`IssueWrite` with `Node!Set(k, numWrites, b)`, `Update` is `UpdateBackend` with
the flush timer and `Node!Flush`. `Start` and `Finish` are `main`'s construction and
deletion. A construction that ends after the removal ends the run; after one that throws
(`StartThrows`) the program may be run again over the same file. The file initially holds any table at all. `dirtySince` is history.

**`JellyWrite`.** A request is an address; `fields` is what is stored there,
`m_requests` the owned ones. An address may be reused as soon as it is released.
`pc` is `housekeeping` between the timer's part of `Update` and its return, so
that the advisor's events interleave, and `closing` between the
`m_blobNode.reset()` of the destructor and the destruction of the members. The
library is modelled by what the backend does with it: a queue, concurrent WALs, a table,
files. `Outdated` are the queued requests whose number is not newer; they complete
at once. The others go to a WAL each, chosen freely, and complete when it is
flushed. `m_requests` is a set here; the vector and its scan are `CyclicRemove`.

**`CyclicRemove`.** One action per outcome of a turn of the loop. The index is
a `size_t` and the decrement at 0 wraps to the largest one.

**`JellyBench`.** As `SQLiteBench`, with `JellyWrite`'s actions. `Update` is several
steps, since the housekeeping of the node is: `BeginUpdate` is the timer's part,
`Housekeep` an event of the advisor, `EndUpdate` the return to the loop. The
files initially hold any table. `queuedSince` and `completedSince` are history. The
`Request` set has an address for every write of the run, so no address is short.

**`RocksDBBlobNode`.** One action per call that the constructor makes, as the process may
be killed between any two; `families` is what the directory holds and outlives
it. `RemoveInterrupted` is a `remove_all` that was cut off: what is left is a
database or not one. A `Set` is `SetBlob` and `SetSeq`, one per `Put`, and `SetStale`
the early return; `SetBlob` may take any key's number for absent
(`readFailed`). `log` is the write-ahead log, which both families share: what was put
survives the process, since RocksDB hands each `Put` to the operating system, and
the first `synced` records survive the machine. `Flush` is `FlushWAL(true)`,
`FlushFails` its ignored error, `BackgroundSync` any sync that nobody asked for. Because the log is
a sequence, a crash of the machine leaves a prefix of it (RocksDB's default
recovery stops at the first torn record). A `Get` is a look-up in the log, so memtables,
files and compactions do not appear. `GetDiskSpaceUsedThrows` is the exception of `file_size`.

**`RocksDBBench`.** As `SQLiteBench`. A write is `BeginWrite` and `EndWrite`, so that a crash
may come between; `DropWrite` is a `Set` that the node found stale, whose bytes the
backend counts. `FlushNode` is a flush or a failed one, which the history
`flushFailures` counts. `MaxSets` of the node is above what a run can write and bounds nothing.

**`ProcessStats`.** The loop's actions with two more counters, the true processor time of
the process in the kernel and out of it; each step uses none of the time it takes,
or all of it on `Threads` processors. `GetStats` rounds down to the unit of
`times()`. Both readings and the uint32_t differences are as in the code.

**`CommandLine`.** An argument is a text and whether a dash precedes it, which is all
that the parser looks at. `SetOption` is the chain of comparisons of `Config.h`,
with `atoi` a function and the width of each field; `SetJellyOption` its last branch, `SyntaxError`
the assertions. `Override` and `CreateBackend` are `main`.

### The abstract specification

`BlobStore` has four steps: a newer version is set; the durable copy moves forward,
for any keys, to versions that were set and are not newer than the store's; the process ends
and keeps what was durable; a backend is constructed and everything is empty.
The SQLite node implements it with its connection's table as the store; the Jelly
backend with what its node will hold once the queue is processed (`Processed`)
as the store, so that `ProcessRequests` is a stutter. An implementation may
flush all keys (a commit) or some (one WAL). 
The RocksDB node cannot be a `BlobStore`: a crash between its two `Put`s leaves the new blob under
the old number, a row that nobody set. `TwoPutStore` says what it is instead. A row is a number
and a blob, each of which may be missing; a version is set in two steps, the blob over an older
row and then its number; the durable copy moves forward to rows of one version each
(`Whole`), but for at most one key whose blob is that of a newer version than its number (`Torn`).
A process that goes down leaves the durable copy as the store. The refinement maps both to
what a `Get` in each family finds (`Stored`), of the whole log and of its synced part. It
holds until a `Get` fails: from then on an older version may
replace a newer one, and `TwoPutStoreUntilReadFails` demands no more. In the benchmark
that does not matter before `numWrites` wraps (`PrefixButOneBlob`).

## 3. What TLC checks

| Run | Configuration | Properties |
|-|-|-|
| `pacing` | `Pacing.cfg` | `TypeOK`, `DriftBounded`, `IterationBounded`, `MemorySampled`, `ReportedRateHonest`, `Termination` |
| `stalls` | `Stalls.cfg` | `NeverAheadOfRate`, `CpuWithinElapsed` |
| `sqlite_node` | `SQLiteNode.cfg` | `TypeOK`, `TransactionsPair`, `LatestBlobWins`, `ImplementsBlobStore` |
| `sqlite_bench` | `SQLiteBench.cfg` | `StaleOnlyAfterWrap`, `LossWindow`, `FileIsPrefix` |
| `jelly_write` | `JellyWrite.cfg` | `TypeOK`, `NoDanglingRequest`, `RequestsReleased`, `ImplementsBlobStore` |
| `cyclic_remove` | `CyclicRemove.cfg` | `ScanTypeOK`, `UncompletedKept`, `CompletedReleased`, `ScanEnds` |
| `jelly_bench` | `JellyBench.cfg` | `OutdatedOnlyAfterWrap`, `HandedOverInTime`, `ReleasedInTime` |
| `rocksdb_node` | `RocksDBNode.cfg` | `TypeOK`, `OpensWhateverWasLeft`, `TornAtMostOnce`, `TwoPutStoreUntilReadFails` |
| `rocksdb_bench` | `RocksDBBench.cfg` | `PrefixButOneBlob`, `LogicalBytesArePut`, `LossWindow` |
| `command_line` | `CommandLine.cfg` | `TypeOK`, `RefusesExactlyMalformed`, `LastValueCounts` |
| `rocksdb_compression` | `RocksDBCompression.cfg` | `CompressionAsConfigured` (violated) |
| `options_ignored` | `OptionsIgnored.cfg` | `RunsAsAsked` (violated) |

- **pacing** - with a backend fast enough, the shortfall of writes is at most the
  truncated fraction of a microsecond per millisecond slept, an iteration stays below a
  bound in closed form (`WithinIterations`), memory has been sampled by the time it is reported, the
  reported rate is not above the configured one, and the run ends. A second is
  four microseconds of two ticks, so every truncation loses something; steps
  take zero or one tick; three seconds are up to six iterations, and nine writes
  that fall due in batches of one or more. `Uint32` is 16, so that
  `NoCounterWrapped` holds throughout and excuses nothing; only the printed elapsed can wrap
  around, after a late last iteration, and `ReportedRateHonest` claims nothing of that. The
  wrap-arounds of the loop's own numbers are in `stalls`.
- **stalls** - the rate is never exceeded although any step may stall for 21 ticks,
  longer than `Uint32` (10) microseconds, and both 32-bit counters wrap; and the processor time that
  is reported fits in the elapsed time, whatever was used before the run. A unit of
  `times()` is two microseconds, so that both readings round; a run with one stall is
  past the elapsed time that a uint32_t holds, one without is not.
- **sqlite_node** - every caller: two keys, two blobs, three numbers in any order,
  flushes, failures, kills and restarts. The pairs of keys and numbers are what the properties
  tell apart; a third of either repeats the cases.
- **sqlite_bench** - the whole program on SQLite over any leftover file. `Uint32` is
  4, so that a wrap-around, and the abort it leads to, is within the run; the
  flush period is three ticks against iterations of two to eight, so flushes fall due
  between and during batches.
- **jelly_write** - any caller; two requests at a time, two WALs, two keys, three numbers.
  Two of each is what out-of-order completion, an outdated request behind a newer
  one, and a reused address need.
- **cyclic_remove** - every vector of up to four requests and every subset
  completed: all patterns of completed and uncompleted neighbours at both ends, and the
  last entry moved once, twice and to itself. `SizeModulus`, the modulus of `size_t`, is just wide
  enough.
- **jelly_bench** - the program as it is, over any files. `Uint32` is 3: the two seconds are up
  to eight iterations and four writes, so the numbers wrap. The period of three ticks is longer
  than one short iteration and shorter than two, so requests are processed in the same
  iteration, in the next one, and late. Addresses and WALs are symmetric: no property
  and no constant names one.
- **rocksdb_node** - every caller: two keys, two blobs, two numbers, three accepted writes of
  two `Put`s each, and the process or the machine going down between any two steps. Two
  numbers are enough for older, equal and newer; three writes for a key that is
  overwritten while another one is torn.
- **rocksdb_bench** - the whole program on RocksDB over any leftover directory: two keys, two blobs
  of different sizes, one second in which four writes fall due, and a tick for every `Set`. `Uint32` is 3, so
  `numWrites` wraps and the fourth write may be dropped; three flushes may fail in a row, and a crash leaves
  any part of the log from the synced one on, odd ones included. Two keys and two blobs
  tell a torn row from a whole one, and the row of the key written last from another. `BeforeWrap`
  still holds while the second write is made, so that the row it tears is one that the first write
  left whole; for longer runs there is the proof.
- **command_line** - every line of up to five arguments over seven texts with and without
  a dash: an option given twice, a missing value at the end and in the middle, a name in the
  place of a value, unknown names, text where a number is meant, and a negative number behind a blank.
  `SizeT` and `Uint32` are just above the numbers that occur, so that -1 wraps around in each.

TLC's deadlock check is off in the runs of the loop, the scan, the command line and the three
programs, which end; it is on for the nodes and for `jelly_write`, which can always be opened again.

### Two disagreements

- **Compression.** The README says "Compression is disabled." and has
  `-rocksdb_compression` in its command line. `RocksDBBlobNode.cpp:88` sets the
  compression in the `Options` it passes to the second `Open`, but that takes only the
  `DBOptions` part; the options of a family come from its descriptor, which has
  the default ones (`:71-74`), and those compress with snappy wherever RocksDB was built with
  it. What was configured only reaches the temporary database. `rocksdb_compression` shows it.
- **Options.** The README's command line gives a backend and a rate, and its tables
  rates from 10 to 10000; `main` parses them and then sets the backend, the rate
  and the compression to fixed values (`Main.cpp:40-44`). `options_ignored` shows it.

### Fairness

- `WriteBenchmark` and `CyclicRemove`: weak fairness of the next step. One thread that
  blocks on nothing but a sleep of bounded length and calls that return.
- `JellyWrite`: the loop calls `Update` again and again and it returns
  (`WF(UpdateReturns)`); between calls it may `Set`, so that the timer's part of `Update` is
  only enabled again and again: its strong fairness is the timer expiring every 500 ms. The
  strong fairness of `FlushWAL(w)` is a promise of jelly's advisor, not of this repository:
  `RequestsReleased` shows what the backend makes of it. The
  destructor, once begun, finishes (`WF(DestroyMembers)`).
- `Termination` needs no bound on what `Set` costs: `pending` only falls while the
  loop catches up, and every iteration sleeps, so the clock reaches `endTime`. It does
  need every call to return.

### Mutants

Each property has, in `PROJECT.json`, a mutant of the definition it guards - a
dropped reset, a `min` for a `max`, a destructor without its first line - which makes
TLC find it violated. The mutants stand next to what they mutate.

## 4. What is proved

Every invariant and every action or refinement property that a run checks is also a theorem,
for all constants that satisfy the named assumptions; TLC evaluates those in every run.
`ConfigAssumption` excludes the undefined configurations; `ClockAssumption` gives the clock, the
counters and the timers a positive unit; `DurationAssumption` says that there is a longest
`Set` and a longest other step, whatever they are; `SizeAssumption`, `ArgumentAssumption` and
`StatsAssumption` give widths and units; `SeqAssumption`, `NoneAssumption`,
`ProcessAssumption` and `FlushAssumption` that sequence numbers are numbers, that
"no value" is none of the values, and that the timers of the backends have a positive period.

**`WriteBenchmarkProofs`** - `TypeCorrect`, `RateNeverExceeded`
(`NeverAheadOfRate`), `ReportIsHonest` (`ReportedRateHonest`), `SteadyRate`
(`DriftBounded`), `IterationsStayShort` (`IterationBounded`), `MemoryIsSampled` (`MemorySampled`).
Issuing a write keeps `Accounted` (writes issued and owed)
unless `numWrites` wraps, which only lowers it, and accounting adds
`rate * (truncated, wrapped interval)`. For the printed rate that has to be compared with
whole microseconds, not with ticks: the invariant `PaceInv` says that
`Accounted` is at most the rate times the *truncated* time, since truncated
intervals add up to no more than the truncated total. `SteadyRate` is a bound from the
other side and needs that every accounted interval but the first contains a sleep
(`Slept`), so that the fraction lost to truncation is spread over it (`DriftInv`).
`IterationBounded` speaks of the loop head only. `IterInv` follows an iteration through its
steps: while the writes are made, the time since the loop head and the time that the writes
still owed will take are bounded *together*, since each write moves its cost from the second to the
first. All times in it are multiplied by `Headroom`, the ticks of a second left when the writes of a second are
made, so that the bound, a quotient, becomes a product. `Late` is the same argument for any
deadline: if it had not passed when the writes were made, it is behind by no more than the
steps since, and by an iteration at the most (`LateByAnIteration`). The bounds of the
three backends rest on it. `MemoryInv` says that until the first sample `statsTimer`
keeps its first deadline and every iteration that was polled began before it.

**`SQLiteBlobNodeProofs`** - `TypeCorrect`, `BeginAndCommitPair`
(`TransactionsPair`), `NewestBlobIsKept` (`LatestBlobWins`) and
`NodeImplementsStore`: `Spec => ImplementsBlobStore`. The inductive invariant
`NodeInv` adds that `batching` equals `inTransaction`, without which a COMMIT
might fail, that the file is the table when no transaction is open (`InStep`), and
that it is older within one (`FileLagsBehind`), without which a flush is not a
`Persist`.

**`JellyWriteProofs`** - `TypeCorrect`, `NodeRequestsAreOwned`
(`NoDanglingRequest`) and `BackendImplementsStore`: `Spec => ImplementsBlobStore`.
`NoDanglingRequest` needs that each address is in one place of the node only and
nowhere once completed (`OnePlace`): otherwise the release of a completed request would
leave a second reference. The refinement needs `HistoryInv`: what is accepted
was set, what is pending is what the table holds or older, the files lag behind
the table. With it a flush of any WAL, in any order, is a `Persist`. The central
lemma, `SetProcessed`, says that a queued `Set` changes the eventual content exactly when its
version is newer; it takes the earliest queued request that would contradict it
(`LeastNumber`) in place of an induction over the queue.

**`RocksDBBlobNodeProofs`** - `TypeCorrect`, `AlwaysOpens` (`OpensWhateverWasLeft`), `OneKeyTorn`
(`TornAtMostOnce`) and `NodeImplementsStore` (`TwoPutStoreUntilReadFails`), for logs of any
length. The properties speak of the last `Put` of a key, the invariant `NodeInv` of the log's
order only: blobs and numbers alternate (`Alternating`), each pair is of one item that
was set (`InPairs`), and its number exceeds all those of the same key before it
unless a `Get` has failed. Each of these survives the loss of a tail, which the properties by
themselves do not. `Between` says where a running `Set` is. The lemma `Pairing` then
relates the last blob and the last number of a key: there is neither, or they are
neighbours, or the blob is the last record of the log - and that can be so for one key
only. With that `RowIsWhole` and `RowIsTorn` say what Gets find of any prefix of the log, and
`NumbersGrow` that a longer prefix has no older numbers: together they make a sync, wherever it ends, a
`Persist` of the abstract store.

**`SQLiteBenchProofs`** - `NoStaleWrite` (`StaleOnlyAfterWrap`), `CrashLeavesPrefix`
(`FileIsPrefix`, claimed only while no uint32_t counter has wrapped), `LossIsBounded` (`LossWindow`). A step of the program is a step of the loop
(`LoopSteps`), so the invariants of the loop hold of the program; the invariant of the node is
taken over through its lemmas, one per operation. `Numbered` then ties the two together: until
`numWrites` wraps, what was set is numbered below it, and what is durable are the writes below *some*
number. `FlushesInTime` says that while a transaction is open the timer is due within a
period of its first `Set`, and that this deadline is never later than `Late` allows.

**`RocksDBBenchProofs`** - `PrefixAndOneBlobIsLeft` (`PrefixButOneBlob`), `CountedBytesArePut`
(`LogicalBytesArePut`), `LossIsBounded` (`LossWindow`). Until `numWrites` wraps, the number of a
write and its place in the log determine each other (`InPlace`): write *s* has its two `Put`s at 2*s* + 1
and 2*s* + 2. That makes every prefix of the log a prefix of the run and, if it is odd, the next write's blob
(`WritesAreThere`, `NumberIsNewest`, `BlobIsNewest`); it makes `Stale` false of every `Set`,
and so makes a failed `Get` harmless. `FlushesInTime` is as above, with a deadline that moves by a period and an
iteration for each failed `FlushWAL` (`FailureMovesDeadline`). It has to count a `Set` between its two `Put`s as
not synced even when RocksDB has just synced the first one on its own: otherwise the second `Put`
would open a new window with an old `dirtySince`. `BlobBytes` is recursive; since the
induction theorems of the library cannot be used, that it is a sum is proved with a least counterexample
(`TotalExists`, `TotalUnique`, `BytesOfAppend`).

**`JellyBenchProofs`** - `NoStaleRequest` (`OutdatedOnlyAfterWrap`), `WritesAreHandedOver`
(`HandedOverInTime`), `RequestsAreReleased` (`ReleasedInTime`), `CpuIsWithinElapsed`
(`CpuWithinElapsed`). `NumbersGrow` says that the numbers in the queue grow from front to back, above
the table and below `numWrites`; nothing in the queue can then be outdated, also not by what is queued
before it. The times need more than for SQLite, because the housekeeping of an `Update` completes requests after
the timer was looked at: `ReleasesInTime` says that no period that began with a waiting request
has passed while housekeeping lasts, so that a request which completes there has a
full period before it. The last section is about `ProcessStats`: `StatsInv` keeps the processor times that
`startStats` was taken from and says that what was used since fits into `Threads` times the time since;
`ReportWithinElapsed` adds what rounding the two readings and the elapsed time can contribute.

**`AlgorithmProofs`**, on the scan - `ScanTypeCorrect`, `NothingLost` (`UncompletedKept`) and
`NothingLeft` (`CompletedReleased`), for vectors of any length that `size_t` can index. `ScanInv`
adds that no entry before the index is completed, which moving the last entry *to* the
index and then staying there keeps. `EachTurnScansOne` is the measure that `ScanEnds` rests on: every turn
leaves one request less to look at, and the scan returns when none is left.
On the command line - `TypeCorrect`, `RefusesMalformed` (`RefusesExactlyMalformed`) and
`LastCounts` (`LastValueCounts`), for lines of any length, any texts and any `atoi`.
`ParseInv` says that while the loop runs `i` is odd, that names and values take
turns before `i` (`TakeTurns`) and that every option has the value of the last name before `i` that
names it (`OptionAsked`, `JellyAsked`). That `i` is odd is what makes a line of odd length fail at its
last name. `LastIsMax` turns the last name before the end into the `Max` of the property.

### What the proofs changed in the models

- `IterationBounded` and the time bounds of the three backends compared products of `Headroom` without asking
  that it be positive. TLC's constants have a `Set` that is fast enough; with one that is
  not, `Headroom` is negative and the comparison fails, or holds, for no reason. The condition that the prose always had is now
  in the formula (`WithinIterations`).
- The bounds name the longest `Set` and step, which exist only if durations are bounded:
  `DurationAssumption`.
- The benchmarks did not say that "no value" differs from times and versions, which their histories rely on.

### Model-checked only

Liveness (`Termination`, `RequestsReleased`, `ScanEnds`) and anything about `ENABLED` are beyond the
prover. Everything else that a passing run checks is proved.

## 5. What is not modelled

- `m_logicalWriteBytes` of the Jelly backend, which only the report reads (SQLite's and RocksDB's are modelled).
- The last batch of an SQLite run that ends normally: the destructor does not commit it (`Close`), no
  document says that it should, and no property is about it.
- `ProcessMonitor`, except for the processor times of its `times()` branch: the memory
  reading is a sample from a constant set, the write counters of `/proc/<pid>/io` are
  differences of the same two readings and influence nothing else, the parsing of `/proc` is
  I/O of the operating system. The Windows branches are not modelled.
- `GetDiskSpaceUsed` of the backends: reads only; a sample, except where it throws (RocksDB).
- jelly, SQLite and RocksDB themselves: external, modelled from the calls made. What is assumed of
  RocksDB is listed with `RocksDBBlobNode` above: a `Put` reaches the operating system before it
  returns, `FlushWAL(true)` syncs all of it, recovery yields a prefix.
- Configurations in which the program is undefined: a key count of 0 divides by zero, an
  empty blob cache or an inverted size range is undefined in
  `uniform_int_distribution` and trips the assertion of `GetRandomBlob`. `CommandLine` lets such values
  through, as the code does; `ConfigAssumption` keeps them out of the loop.
- The vendored SQLite headers (`src/sqlite/*.h`, 13599 of the repository's lines) and the
  build files: declarations, no behaviour of this program. They are why the
  mapped lines are a small share of the repository; of the program's own 1250 lines they are about half,
  and the rest is class declarations, includes, logging and the cases listed here.

## 6. Plan

Done: all modules of section 2 and the proofs of section 4. What is left, in order:

1. For `Termination` and `RequestsReleased` what `EachTurnScansOne` is for `ScanEnds`: the
   measures that every step lowers, which need no fairness.
2. That the programs on SQLite and jelly implement `BlobStore`, and the one on RocksDB
   `TwoPutStore` with failed Gets too, until `numWrites` wraps, from
   the refinements of the nodes and the numbers invariants of the programs.
