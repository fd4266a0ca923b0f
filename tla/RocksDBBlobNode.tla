--------------------------- MODULE RocksDBBlobNode ---------------------------
(***************************************************************************)
(* RocksDBBlobNode (RocksDBBlobNode.cpp): blobs in the default column      *)
(* family of a RocksDB database, their sequence numbers in a second one,   *)
(* "seq".  Set reads the number, and then makes two separate Puts.  The    *)
(* constructor deletes the directory, creates the database with options of *)
(* its own, adds the family, closes the database and opens it again.  Any  *)
(* error of RocksDB aborts the process (JELLY_ALWAYS_ASSERT), except that  *)
(* an error of Get is taken for "no number" and one of FlushWAL for        *)
(* success.                                                                *)
(*                                                                         *)
(* RocksDB itself is modelled by what the calls made here rely on: the     *)
(* families that an Open needs and refuses; Puts that append to one log    *)
(* for both families, which the operating system holds, so that the end of *)
(* the process loses nothing; a part of the log that is synced, which any  *)
(* background flush may extend at any time; and a crash of the machine,    *)
(* which leaves that part.                                                 *)
(***************************************************************************)
EXTENDS Integers, Sequences, SequencesExt

CONSTANTS
  Key, Blob, SeqNo,    \* what a caller may pass to Set
  None,                \* no value, no item
  MaxSets,             \* bound: accepted writes of one run
  Compression,         \* m_rocksDBCompression
  DefaultCompression   \* compression of a default ColumnFamilyOptions

ASSUME SeqAssumption == SeqNo \subseteq Nat /\ MaxSets \in Nat

Version == [seq : SeqNo, blob : Blob]

Item == Key \X Version

ASSUME NoneAssumption == None \notin Blob \cup SeqNo \cup Version \cup Item

Family == {"default", "seq"}

VARIABLES
  pc,           \* what the process does next, see TypeOK
  failure,      \* what the last assertion was about
  families,     \* column families of the database on disk, {} without one
  compression,  \* of the files that an open database writes for the blobs
  log,          \* the Puts, in their order
  synced,       \* how many of them a crash of the machine leaves
  item,         \* the arguments of the Set that came last
  readFailed,   \* history: a Get has failed since the directory was deleted
  written       \* history: every item whose two Puts were made

nodeVars == <<pc, failure, families, compression, log, synced, item,
              readFailed, written>>

Init ==
  /\ pc = "off"
  /\ failure = "none"
  /\ families = {}
  /\ compression = None
  /\ log = << >>
  /\ synced = 0
  /\ item = None
  /\ readFailed = FALSE
  /\ written = {}

-----------------------------------------------------------------------------
(* RocksDB *)

\* The last of the first n Puts that was to key k of family f: its index, or 0.
LastPut(f, k, n) ==
  SelectLastInSeq(SubSeq(log, 1, n), LAMBDA p : p.family = f /\ p.key = k)

\* What a Get of key k in family f finds after the first n Puts.
Row(f, k, n) ==
  LET i == LastPut(f, k, n) IN IF i = 0 THEN None ELSE log[i].value

Opened(options) == compression' = options

\* The process is gone, and with it the open database.
Gone ==
  /\ compression' = None
  /\ UNCHANGED <<families, log, synced, item, readFailed, written>>

Abort(reason) ==
  /\ pc' = "off"
  /\ failure' = reason
  /\ Gone

\* The operating system or a flush of RocksDB's own syncs more of the log.
BackgroundSync ==
  /\ synced < Len(log)
  /\ synced' \in synced + 1 .. Len(log)
  /\ UNCHANGED <<pc, failure, families, compression, log, item, readFailed,
                 written>>

MachineCrash ==
  /\ pc' = "off"
  /\ failure' = "none"
  /\ compression' = None
  /\ log' = SubSeq(log, 1, synced)
  /\ UNCHANGED <<families, synced, item, readFailed, written>>

-----------------------------------------------------------------------------
(* The constructor *)

\* std::filesystem::remove_all("rocksdb")
\* Mutant of RemoveAll: the directory of an earlier run is kept.
RemoveNothing ==
  /\ pc = "off"
  /\ pc' = "create"
  /\ failure' = "none"
  /\ log' = << >>
  /\ synced' = 0
  /\ item' = None
  /\ readFailed' = FALSE
  /\ written' = {}
  /\ UNCHANGED <<families, compression>>

RemoveAll ==
  /\ pc = "off"
  /\ pc' = "create"
  /\ failure' = "none"
  /\ families' = {}
  /\ log' = << >>
  /\ synced' = 0
  /\ item' = None
  /\ readFailed' = FALSE
  /\ written' = {}
  /\ UNCHANGED compression

\* The process ends before all files are deleted: what is left may still be a database.
RemoveInterrupted ==
  /\ pc = "off"
  /\ failure' = "none"
  /\ families' \in {{}, families}
  /\ log' = << >>
  /\ synced' = 0
  /\ item' = None
  /\ readFailed' = FALSE
  /\ written' = {}
  /\ UNCHANGED <<pc, compression>>

\* create_if_missing, error_if_exists
CreateDatabase ==
  /\ pc = "create"
  /\ families = {}
  /\ pc' = "family"
  /\ families' = {"default"}
  /\ Opened(Compression)
  /\ UNCHANGED <<failure, log, synced, item, readFailed, written>>

CreateColumnFamily ==
  /\ pc = "family"
  /\ "seq" \notin families
  /\ pc' = "delete"
  /\ families' = families \cup {"seq"}
  /\ UNCHANGED <<failure, compression, log, synced, item, readFailed, written>>

\* DestroyColumnFamilyHandle, delete tempDB
DeleteTempDB ==
  /\ pc = "delete"
  /\ pc' = "open"
  /\ compression' = None
  /\ UNCHANGED <<failure, families, log, synced, item, readFailed, written>>

(***************************************************************************)
(* The second Open has to name every family there is.  It takes a          *)
(* DBOptions and the options of each family from its descriptor, so of the *)
(* Options it is given the compression is not looked at.                   *)
(***************************************************************************)
\* m_columnFamilyDescriptors
Descriptors == {"default", "seq"}

OpenDatabase ==
  /\ pc = "open"
  /\ families = Descriptors
  /\ pc' = "ready"
  /\ Opened(DefaultCompression)
  /\ UNCHANGED <<failure, families, log, synced, item, readFailed, written>>

(***************************************************************************)
(* What the next step of the constructor may fail of: a database where     *)
(* there must be none, a family that is there, missing or unnamed, or any  *)
(* other error of RocksDB.                                                 *)
(***************************************************************************)
OpenFailure ==
  {"engine"}
    \cup {r \in {"exists"} : pc = "create" /\ families # {}}
    \cup {r \in {"family"} : \/ pc = "family" /\ "seq" \in families
                             \/ pc = "open" /\ families # Descriptors}

OpenAborts ==
  /\ pc \in {"create", "family", "delete", "open"}
  /\ \E reason \in OpenFailure : Abort(reason)

-----------------------------------------------------------------------------
(* Set, Flush, GetDiskSpaceUsed and the destructor *)

\* The two Puts that store version v of key k.
\* Mutants of Puts: both through m_columnFamilyHandles[0]; the number first.
PutsOneFamily(k, v) ==
  <<[family |-> "default", key |-> k, value |-> v.blob],
    [family |-> "default", key |-> k, value |-> v.seq]>>

PutsNumberFirst(k, v) ==
  <<[family |-> "seq", key |-> k, value |-> v.seq],
    [family |-> "default", key |-> k, value |-> v.blob]>>

Puts(k, v) ==
  <<[family |-> "default", key |-> k, value |-> v.blob],
    [family |-> "seq", key |-> k, value |-> v.seq]>>

Put(p) ==
  /\ log' = Append(log, p)
  /\ UNCHANGED <<failure, families, compression, synced>>

\* Mutant of Stale: an equal number is taken for newer.
StrictlyStale(seqValue, s) == seqValue # None /\ seqValue > s

Stale(seqValue, s) == seqValue # None /\ seqValue >= s

\* The number that Get finds; an error that is not NotFound looks like absence.
ExistingSeq(k) == Row("seq", k, Len(log))

\* Set up to its first Put, when the number read is not newer or none was read.
SetBlob(k, v) ==
  /\ pc = "ready"
  /\ Len(log) < 2 * MaxSets
  /\ \/ ~Stale(ExistingSeq(k), v.seq) /\ UNCHANGED readFailed
     \/ readFailed' = TRUE
  /\ Put(Puts(k, v)[1])
  /\ item' = <<k, v>>
  /\ pc' = "put"
  /\ UNCHANGED written

SetSeq ==
  /\ pc = "put"
  /\ Put(Puts(item[1], item[2])[2])
  /\ written' = written \cup {item}
  /\ pc' = "ready"
  /\ UNCHANGED <<item, readFailed>>

\* Set returns early.
SetStale(k, v) ==
  /\ pc = "ready"
  /\ Stale(ExistingSeq(k), v.seq)
  /\ UNCHANGED nodeVars

SetAborts ==
  /\ pc \in {"ready", "put"}
  /\ Abort("engine")

Flush ==
  /\ pc = "ready"
  /\ synced' = Len(log)
  /\ UNCHANGED <<pc, failure, families, compression, log, item, readFailed,
                 written>>

\* FlushWAL(true) returns an error and nobody looks at it.
FlushFails ==
  /\ pc = "ready"
  /\ UNCHANGED nodeVars

\* file_size() throws for a file that RocksDB has deleted meanwhile.
GetDiskSpaceUsedThrows ==
  /\ pc = "ready"
  /\ Abort("vanished")

\* The destructor destroys the handles and the database; or the process is killed.
Close ==
  /\ pc = "ready"
  /\ Abort("none")

Kill ==
  /\ pc # "off"
  /\ Abort("none")

Next ==
  \/ RemoveAll
  \/ RemoveInterrupted
  \/ CreateDatabase
  \/ CreateColumnFamily
  \/ DeleteTempDB
  \/ OpenDatabase
  \/ OpenAborts
  \/ \E k \in Key, v \in Version : SetBlob(k, v) \/ SetStale(k, v)
  \/ SetSeq
  \/ SetAborts
  \/ Flush
  \/ FlushFails
  \/ GetDiskSpaceUsedThrows
  \/ Close
  \/ Kill
  \/ BackgroundSync
  \/ MachineCrash

Spec == Init /\ [][Next]_nodeVars
-----------------------------------------------------------------------------
(***************************************************************************)
(* Properties                                                              *)
(***************************************************************************)
PutRecord == [family : {"default"}, key : Key, value : Blob]
               \cup [family : {"seq"}, key : Key, value : SeqNo]

\* Blobs are put into the one family and numbers into the other.
TypeOK ==
  /\ pc \in {"off", "create", "family", "delete", "open", "ready", "put"}
  /\ failure \in {"none", "exists", "family", "engine", "vanished"}
  /\ families \subseteq Family
  /\ compression \in {None, Compression, DefaultCompression}
  /\ log \in Seq(PutRecord)
  /\ synced \in 0 .. Len(log)
  /\ item \in Item \cup {None}
  /\ readFailed \in BOOLEAN
  /\ written \subseteq Item

(***************************************************************************)
(* The constructor gets the database it needs from whatever an earlier     *)
(* run left, at whichever of its own steps that run was killed: no Open    *)
(* fails because a database is there or a family is missing or unnamed.    *)
(***************************************************************************)
OpensWhateverWasLeft == failure \notin {"exists", "family"}

\* Key k has the blob and the number of one item, or neither, after n Puts.
Whole(k, n) ==
  \/ LastPut("default", k, n) = 0 /\ LastPut("seq", k, n) = 0
  \/ \E v \in Version :
       /\ <<k, v>> \in written \cup {item}
       /\ Row("default", k, n) = v.blob
       /\ Row("seq", k, n) = v.seq

(***************************************************************************)
(* Whatever a crash of the process or of the machine leaves, at most one   *)
(* key's blob and number do not belong together, and then the blob is the  *)
(* newer one: a number never stands for a blob that was lost, for which a  *)
(* later write of that blob would be taken for stale.                      *)
(***************************************************************************)
TornAtMostOnce ==
  \A n \in synced .. Len(log) :
    /\ \A j, k \in Key : Whole(j, n) \/ Whole(k, n) \/ j = k
    /\ \A k \in Key : Whole(k, n) \/
         \E v \in Version :
           /\ <<k, v>> \in written \cup {item}
           /\ Row("default", k, n) = v.blob
           /\ \/ Row("seq", k, n) = None
              \/ Row("seq", k, n) < v.seq
              \/ readFailed

(***************************************************************************)
(* README: "Compression is disabled.", and -rocksdb_compression says which *)
(* one is used otherwise: an open node compresses blobs as configured.     *)
(***************************************************************************)
CompressionAsConfigured == pc \in {"ready", "put"} => compression = Compression

\* What Gets of both families find for each key after the first n Puts.
Stored(n) ==
  [k \in Key |-> [seq |-> Row("seq", k, n), blob |-> Row("default", k, n)]]

Store == INSTANCE TwoPutStore
           WITH store <- Stored(Len(log)), durable <- Stored(synced)

(***************************************************************************)
(* Until a Get fails the node is a TwoPutStore.  Its store is what Gets    *)
(* find, its durable copy what they would find after a crash of the        *)
(* machine, and that is torn for one key when the crash comes between the  *)
(* two Puts of a Set or the log was synced up to there.                    *)
(***************************************************************************)
TwoPutStoreUntilReadFails ==
  Store!Init /\ [][readFailed' \/ Store!Next]_(Store!storeVars)
=============================================================================
