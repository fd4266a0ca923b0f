------------------------------ MODULE BlobStore ------------------------------
(***************************************************************************)
(* What the benchmark relies on a storage engine for, whichever of the     *)
(* three IWriteBackend implementations is in use: a table of versioned     *)
(* blobs in which a newer sequence number wins, and a durable copy of it   *)
(* that lags behind but never holds anything that was not set.  The        *)
(* detailed modules of the engines are shown to implement this one.        *)
(***************************************************************************)
EXTENDS Integers

CONSTANTS
  Key,
  Blob,
  SeqNo,    \* numbers; the modules that instantiate this one assume so
  None    \* not a version

Version == [seq : SeqNo, blob : Blob]

VARIABLES
  store,    \* what the running process has set
  durable,  \* what a crash would leave
  written   \* history: every (key, version) set since the store was created

storeVars == <<store, durable, written>>

Empty == [k \in Key |-> None]

\* Version v gives way to version w.
Older(v, w) == w # None /\ (v = None \/ v.seq < w.seq)

Init ==
  /\ store = Empty
  /\ durable = Empty
  /\ written = {}

Set(k, v) ==
  /\ Older(store[k], v)
  /\ store' = [store EXCEPT ![k] = v]
  /\ written' = written \cup {<<k, v>>}
  /\ UNCHANGED durable

(***************************************************************************)
(* The durable copy catches up, for all keys or for some of them, with     *)
(* versions that were set, in their order.                                 *)
(***************************************************************************)
Persist ==
  /\ \A k \in Key :
       \/ durable'[k] = durable[k]
       \/ /\ Older(durable[k], durable'[k])
          /\ <<k, durable'[k]>> \in written
          /\ durable'[k] = store[k] \/ Older(durable'[k], store[k])
  /\ durable' \in [Key -> Version \cup {None}]
  /\ UNCHANGED <<store, written>>

\* The process ends, in whatever way: what was not durable is gone.
Lose ==
  /\ store' = durable
  /\ UNCHANGED <<durable, written>>

\* A backend is constructed: it deletes whatever an earlier run left.
Create ==
  /\ store' = Empty
  /\ durable' = Empty
  /\ written' = {}

Next ==
  \/ \E k \in Key, v \in Version : Set(k, v)
  \/ Persist
  \/ Lose
  \/ Create

Spec == Init /\ [][Next]_storeVars
=============================================================================
