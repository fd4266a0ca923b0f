----------------------------- MODULE TwoPutStore -----------------------------
(***************************************************************************)
(* What a storage engine gives instead of a BlobStore if it stores a blob  *)
(* and its sequence number one after the other, with nothing that makes    *)
(* them one: what a reader finds for a key, and what a crash leaves of it, *)
(* may be a torn row, the blob of a newer version under the number of an   *)
(* older one or under none.  At any time that is so for one key at most.   *)
(***************************************************************************)
EXTENDS Integers

CONSTANTS
  Key,
  Blob,
  SeqNo,    \* numbers; the modules that instantiate this one assume so
  None      \* no number, no blob, no item

Version == [seq : SeqNo, blob : Blob]

VARIABLES
  store,    \* what a reader finds for each key
  durable,  \* what a reader would find after a crash
  item,     \* the key and the version set last
  written   \* history: every (key, version) set since the store was created

storeVars == <<store, durable, item, written>>

Row == [seq : SeqNo \cup {None}, blob : Blob \cup {None}]

Nothing == [seq |-> None, blob |-> None]

Empty == [k \in Key |-> Nothing]

\* Number s gives way to number t.
Below(s, t) == t # None /\ (s = None \/ s < t)

\* The row of key k is that of one version, or there is none.
Whole(row, k) == row = Nothing \/ <<k, row>> \in written

\* The row of key k has the number of one version and the blob of a newer one.
Torn(row, k) ==
  /\ row.seq = None \/ \E v \in Version : <<k, v>> \in written /\ v.seq = row.seq
  /\ \E v \in Version :
       /\ <<k, v>> \in written \cup {item}
       /\ v.blob = row.blob
       /\ Below(row.seq, v.seq)

Init ==
  /\ store = Empty
  /\ durable = Empty
  /\ item = None
  /\ written = {}

\* The blob of a newer version replaces that of the older one.
SetBlob(k, v) ==
  /\ \A j \in Key : Whole(store[j], j)
  /\ Below(store[k].seq, v.seq)
  /\ store' = [store EXCEPT ![k].blob = v.blob]
  /\ item' = <<k, v>>
  /\ UNCHANGED <<durable, written>>

\* The number follows, and with it the version is set.
SetSeq(k, v) ==
  /\ item = <<k, v>>
  /\ Below(store[k].seq, v.seq)
  /\ store' = [store EXCEPT ![k].seq = v.seq]
  /\ store'[k] = v
  /\ written' = written \cup {item}
  /\ UNCHANGED <<durable, item>>

(***************************************************************************)
(* The durable copy catches up, for all keys or for some of them, with     *)
(* versions that were set, in their order, and for one key perhaps with    *)
(* the blob only.                                                          *)
(***************************************************************************)
Persist ==
  /\ durable' \in [Key -> Row]
  /\ \A k \in Key :
       /\ Whole(durable'[k], k) \/ Torn(durable'[k], k)
       /\ durable'[k].seq = durable[k].seq \/ Below(durable[k].seq, durable'[k].seq)
       /\ durable'[k].seq = store[k].seq \/ Below(durable'[k].seq, store[k].seq)
  /\ \A j, k \in Key : Whole(durable'[j], j) \/ Whole(durable'[k], k) \/ j = k
  /\ UNCHANGED <<store, item, written>>

\* The process ends, in whatever way: what was not durable is gone.
Lose ==
  /\ store' = durable
  /\ UNCHANGED <<durable, item, written>>

\* A backend is constructed: it deletes whatever an earlier run left.
Create ==
  /\ store' = Empty
  /\ durable' = Empty
  /\ item' = None
  /\ written' = {}

Next ==
  \/ \E k \in Key, v \in Version : SetBlob(k, v) \/ SetSeq(k, v)
  \/ Persist
  \/ Lose
  \/ Create

Spec == Init /\ [][Next]_storeVars
=============================================================================
