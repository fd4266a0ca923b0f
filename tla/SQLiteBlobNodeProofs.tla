------------------------- MODULE SQLiteBlobNodeProofs -------------------------
(***************************************************************************)
(* Proofs about SQLiteBlobNode, for any sets of keys, blobs and sequence   *)
(* numbers and any sequence of calls, errors, kills and restarts.          *)
(***************************************************************************)
EXTENDS SQLiteBlobNode, TLAPS

USE SeqAssumption, NoneAssumption DEF Version, Table

(***************************************************************************)
(* The inductive invariant.  None of the properties is inductive alone:    *)
(* which of BEGIN and COMMIT is legal depends on m_batching agreeing with  *)
(* SQLite, and what a commit or a rollback leaves depends on the table of  *)
(* the connection being an extension of the file's, equal to it outside of *)
(* a transaction.                                                          *)
(***************************************************************************)
InStep ==
  /\ batching = inTransaction
  /\ ~inTransaction => working = committed
  /\ process = "running" /\ ~inTransaction => flushed = written
  /\ process # "running" => ~inTransaction

FileLagsBehind ==
  \A k \in Key : committed[k] = working[k] \/ Store!Older(committed[k], working[k])

NodeInv ==
  /\ TypeOK
  /\ InStep
  /\ TransactionsPair
  /\ FileLagsBehind
  /\ LatestBlobWins

-----------------------------------------------------------------------------
(* Initial states *)

LEMMA EmptyTable ==
  /\ Empty \in Table
  /\ \A k \in Key : Empty[k] = None /\ IsLatest(Empty[k], {}, k)
BY DEF Empty, IsLatest

LEMMA InitInv == Init => NodeInv
<1> SUFFICES ASSUME Init PROVE NodeInv
  OBVIOUS
<1>1. TypeOK
  BY EmptyTable DEF Init, TypeOK
<1>2. InStep /\ TransactionsPair /\ FileLagsBehind
  BY DEF Init, InStep, TransactionsPair, FileLagsBehind
<1>3. LatestBlobWins
  BY EmptyTable DEF Init, LatestBlobWins
<1> QED BY <1>1, <1>2, <1>3 DEF NodeInv

-----------------------------------------------------------------------------
(* The constructor *)

\* It does not depend on what it finds.
LEMMA OpenInv == ASSUME Open \/ OpenAborts PROVE NodeInv'
<1>1. /\ Removed
      /\ process' \in {"off", "running", "failed"}
      /\ failure' \in {"none", "engine"}
  BY DEF Open, OpenAborts
<1>2. TypeOK'
  BY <1>1, EmptyTable DEF Removed, TypeOK
<1>3. InStep' /\ TransactionsPair' /\ FileLagsBehind'
  BY <1>1 DEF Removed, InStep, TransactionsPair, FileLagsBehind
<1>4. LatestBlobWins'
  BY <1>1, EmptyTable DEF Removed, LatestBlobWins
<1> QED BY <1>2, <1>3, <1>4 DEF NodeInv

-----------------------------------------------------------------------------
(* The end of the process *)

\* Whatever ends the process, the file is all that is left.
LEMMA DisconnectedInv ==
  ASSUME NodeInv, Disconnected, process' \in {"off", "failed"},
         failure' \in {"none", "remove", "constraint", "engine"}
  PROVE  NodeInv'
<1>1. TypeOK'
  BY DEF NodeInv, TypeOK, Disconnected
<1>2. InStep'
  BY DEF InStep, Disconnected
<1>3. TransactionsPair'
  BY DEF TransactionsPair
<1>4. FileLagsBehind'
  BY DEF FileLagsBehind, Disconnected
<1>5. LatestBlobWins'
  BY DEF NodeInv, LatestBlobWins, Disconnected
<1> QED BY <1>1, <1>2, <1>3, <1>4, <1>5 DEF NodeInv

\* No assertion can fail on BEGIN or COMMIT: m_batching agrees with SQLite.
LEMMA AbortsAreNotOurs ==
  ASSUME NodeInv,
         \/ \E k \in Key, s \in SeqNo, b \in Blob : SetAborts(k, s, b)
         \/ FlushAborts
  PROVE  Abort("constraint") \/ Abort("engine")
BY DEF NodeInv, InStep, SetAborts, FlushAborts, BeginFails, CommitFails

LEMMA EndInv ==
  ASSUME NodeInv,
         \/ \E k \in Key, s \in SeqNo, b \in Blob : SetAborts(k, s, b)
         \/ FlushAborts
         \/ RemoveThrows
         \/ Close
         \/ Crash
  PROVE  NodeInv' /\ Disconnected
<1>1. CASE Abort("constraint") \/ Abort("engine") \/ RemoveThrows
  <2>1. /\ Disconnected /\ process' = "failed"
        /\ failure' \in {"remove", "constraint", "engine"}
    BY <1>1 DEF Abort, RemoveThrows
  <2> QED BY <2>1, DisconnectedInv
<1>2. CASE Close \/ Crash
  <2>1. Disconnected /\ process' = "off" /\ failure' = failure
    BY <1>2 DEF Close, Crash
  <2>2. failure \in {"none", "remove", "constraint", "engine"}
    BY DEF NodeInv, TypeOK, TransactionsPair
  <2> QED BY <2>1, <2>2, DisconnectedInv
<1> QED BY <1>1, <1>2, AbortsAreNotOurs

-----------------------------------------------------------------------------
(* Set *)

\* What Set does in a state the node can be in.
LEMMA SetEffect ==
  ASSUME NodeInv, NEW k \in Key, NEW s \in SeqNo, NEW b \in Blob, Set(k, s, b)
  PROVE  LET v == [seq |-> s, blob |-> b]
         IN  /\ v \in Version
             /\ Store!Older(working[k], v)
             /\ working' = [working EXCEPT ![k] = v]
             /\ written' = written \cup {<<k, v>>}
             /\ inTransaction' /\ batching'
             /\ UNCHANGED <<process, failure, committed, flushed>>
<1>1. inTransaction'
  BY DEF Set, NodeInv, InStep
<1>2. working[k] = None \/ s > working[k].seq
  BY DEF Set, ConstraintFails, Upserted
<1>3. Upserted(working[k], s, b) = [seq |-> s, blob |-> b]
  BY <1>2 DEF Upserted
<1>4. working[k] \in Version \cup {None}
  BY DEF NodeInv, TypeOK
<1>5. Store!Older(working[k], [seq |-> s, blob |-> b])
  BY <1>2, <1>4 DEF Store!Older
<1> QED BY <1>1, <1>3, <1>5 DEF Set

LEMMA SetInv ==
  ASSUME NodeInv, NEW k \in Key, NEW s \in SeqNo, NEW b \in Blob, Set(k, s, b)
  PROVE  NodeInv'
<1> DEFINE v == [seq |-> s, blob |-> b]
<1>1. /\ v \in Version /\ v # None /\ v.seq = s /\ s \in Nat
      /\ Store!Older(working[k], v)
      /\ working' = [working EXCEPT ![k] = v]
      /\ written' = written \cup {<<k, v>>}
      /\ inTransaction' = TRUE /\ batching' = TRUE
      /\ UNCHANGED <<process, failure, committed, flushed>>
      /\ process = "running"
  <2>1. v \in Version /\ v # None /\ v.seq = s /\ s \in Nat
    OBVIOUS
  <2>2. inTransaction' \in BOOLEAN /\ batching' \in BOOLEAN /\ process = "running"
    BY DEF Set
  <2> QED BY <2>1, <2>2, SetEffect
<1> HIDE DEF v
<1>2. /\ committed \in Table /\ working \in Table
      /\ written \subseteq Key \X Version /\ flushed \subseteq written
  BY DEF NodeInv, TypeOK
<1>3. TypeOK'
  BY <1>1, <1>2 DEF NodeInv, TypeOK
<1>4. InStep'
  BY <1>1 DEF InStep
<1>5. TransactionsPair'
  BY <1>1 DEF NodeInv, TransactionsPair
<1>6. FileLagsBehind'
  <2> SUFFICES ASSUME NEW j \in Key
               PROVE  committed[j] = working'[j] \/ Store!Older(committed[j], working'[j])
    BY <1>1 DEF FileLagsBehind
  <2>1. committed[j] = working[j] \/ Store!Older(committed[j], working[j])
    BY DEF NodeInv, FileLagsBehind
  <2>2. CASE j = k
    BY <1>1, <1>2, <2>1, <2>2 DEF Store!Older
  <2>3. CASE j # k
    BY <1>1, <1>2, <2>1, <2>3
  <2> QED BY <2>2, <2>3
<1>7. LatestBlobWins'
  <2> SUFFICES ASSUME NEW j \in Key
               PROVE  IsLatest(working'[j], written', j)
    BY <1>1 DEF NodeInv, LatestBlobWins
  <2>1. IsLatest(working[j], written, j)
    BY <1>1 DEF NodeInv, LatestBlobWins
  <2>2. CASE j = k
    <3>1. working'[k] = v /\ <<k, v>> \in written'
      BY <1>1, <1>2
    <3>2. ASSUME NEW u \in Version, <<k, u>> \in written' PROVE u.seq <= v.seq
      <4>1. CASE u = v
        BY <1>1, <4>1
      <4>2. CASE <<k, u>> \in written
        <5>1. <<k, working[k]>> \in written /\ u.seq <= working[k].seq
          BY <2>1, <2>2, <4>2 DEF IsLatest
        <5>2. working[k] \in Version
          BY <1>2, <5>1
        <5> QED BY <1>1, <5>1, <5>2 DEF Store!Older
      <4> QED BY <1>1, <3>2, <4>1, <4>2
    <3> QED BY <1>1, <2>2, <3>1, <3>2 DEF IsLatest
  <2>3. CASE j # k
    <3>1. working'[j] = working[j]
      BY <1>1, <1>2, <2>3
    <3>2. \A u : <<j, u>> \in written' <=> <<j, u>> \in written
      BY <1>1, <2>3
    <3> QED BY <2>1, <3>1, <3>2 DEF IsLatest
  <2> QED BY <2>2, <2>3
<1> QED BY <1>3, <1>4, <1>5, <1>6, <1>7 DEF NodeInv

-----------------------------------------------------------------------------
(* Flush *)

\* After Flush the file holds what the connection sees, whether or not a
\* batch was open.
LEMMA FlushEffect ==
  ASSUME NodeInv, Flush
  PROVE  /\ committed' = working /\ working' = working
         /\ flushed' = written /\ written' = written
         /\ inTransaction' = FALSE /\ batching' = FALSE
         /\ process' = "running" /\ failure' = failure
<1>1. CASE batching
  BY <1>1 DEF Flush, NodeInv, InStep
<1>2. CASE ~batching
  <2>1. ~inTransaction /\ working = committed /\ flushed = written
    BY <1>2 DEF NodeInv, InStep, Flush
  <2>2. inTransaction' = FALSE
    BY <1>2, <2>1 DEF Flush
  <2> QED BY <1>2, <2>1, <2>2 DEF Flush
<1> QED BY <1>1, <1>2

LEMMA FlushInv == NodeInv /\ Flush => NodeInv'
<1> SUFFICES ASSUME NodeInv, Flush PROVE NodeInv'
  OBVIOUS
<1>1. TypeOK'
  BY FlushEffect DEF NodeInv, TypeOK
<1>2. InStep' /\ FileLagsBehind'
  BY FlushEffect DEF InStep, FileLagsBehind
<1>3. TransactionsPair'
  BY FlushEffect DEF NodeInv, TransactionsPair
<1>4. LatestBlobWins'
  <2>1. process = "running"
    BY DEF Flush
  <2> QED BY <2>1, FlushEffect DEF NodeInv, LatestBlobWins
<1> QED BY <1>1, <1>2, <1>3, <1>4 DEF NodeInv

-----------------------------------------------------------------------------
(* The invariant *)

LEMMA NextInv == NodeInv /\ [Next]_nodeVars => NodeInv'
<1> SUFFICES ASSUME NodeInv, [Next]_nodeVars PROVE NodeInv'
  OBVIOUS
<1>1. CASE Open \/ OpenAborts
  BY <1>1, OpenInv
<1>2. CASE \E k \in Key, s \in SeqNo, b \in Blob : Set(k, s, b)
  BY <1>2, SetInv
<1>3. CASE Flush
  BY <1>3, FlushInv
<1>4. CASE \/ \E k \in Key, s \in SeqNo, b \in Blob : SetAborts(k, s, b)
           \/ FlushAborts \/ RemoveThrows \/ Close \/ Crash
  BY <1>4, EndInv
<1>5. CASE UNCHANGED nodeVars
  BY <1>5 DEF nodeVars, NodeInv, TypeOK, InStep, TransactionsPair,
              FileLagsBehind, LatestBlobWins
<1> QED BY <1>1, <1>2, <1>3, <1>4, <1>5 DEF Next

THEOREM NodeInvariant == Spec => []NodeInv
BY InitInv, NextInv, PTL DEF Spec

(***************************************************************************)
(* Every row that is ever stored has a blob, and the history is one.       *)
(***************************************************************************)
THEOREM TypeCorrect == Spec => []TypeOK
<1>1. NodeInv => TypeOK
  BY DEF NodeInv
<1> QED BY <1>1, NodeInvariant, PTL

(***************************************************************************)
(* No BEGIN and no COMMIT is ever issued in the wrong state: the process   *)
(* ends for a stale sequence number or an error of SQLite's own, or not at *)
(* all.                                                                    *)
(***************************************************************************)
THEOREM BeginAndCommitPair == Spec => []TransactionsPair
<1>1. NodeInv => TransactionsPair
  BY DEF NodeInv
<1> QED BY <1>1, NodeInvariant, PTL

(***************************************************************************)
(* The connection's table and the file hold exactly the newest blobs.      *)
(***************************************************************************)
THEOREM NewestBlobIsKept == Spec => []LatestBlobWins
<1>1. NodeInv => LatestBlobWins
  BY DEF NodeInv
<1> QED BY <1>1, NodeInvariant, PTL

-----------------------------------------------------------------------------
(* The node implements the abstract store *)

LEMMA SetIsSet ==
  ASSUME NodeInv, NEW k \in Key, NEW s \in SeqNo, NEW b \in Blob, Set(k, s, b)
  PROVE  Store!Next
<1> DEFINE v == [seq |-> s, blob |-> b]
<1>1. v \in Store!Version
  BY DEF Store!Version
<1>2. Store!Set(k, v)
  BY SetEffect DEF Store!Set
<1> QED BY <1>1, <1>2 DEF Store!Next

LEMMA FlushIsPersist ==
  ASSUME NodeInv, Flush
  PROVE  Store!Next
<1>1. working \in Table /\ process = "running"
  BY DEF NodeInv, TypeOK, Flush
<1>2. ASSUME NEW k \in Key
      PROVE  \/ committed'[k] = committed[k]
             \/ /\ Store!Older(committed[k], committed'[k])
                /\ <<k, committed'[k]>> \in written
                /\ committed'[k] = working[k]
  <2>1. committed'[k] = working[k]
    BY FlushEffect
  <2>2. committed[k] = working[k] \/ Store!Older(committed[k], working[k])
    BY DEF NodeInv, FileLagsBehind
  <2>3. working[k] # None => <<k, working[k]>> \in written
    BY <1>1 DEF NodeInv, LatestBlobWins, IsLatest
  <2> QED BY <2>1, <2>2, <2>3 DEF Store!Older
<1>3. committed' \in [Key -> Store!Version \cup {None}]
  BY <1>1, FlushEffect DEF Store!Version
<1>4. Store!Persist
  BY <1>2, <1>3, FlushEffect DEF Store!Persist
<1> QED BY <1>4 DEF Store!Next

LEMMA OpenIsCreate == ASSUME Open \/ OpenAborts PROVE Store!Next
<1>1. Store!Create
  BY DEF Open, OpenAborts, Removed, Empty, Store!Create, Store!Empty
<1> QED BY <1>1 DEF Store!Next

LEMMA EndIsLose == ASSUME Disconnected PROVE Store!Next
<1>1. Store!Lose
  BY DEF Disconnected, Store!Lose
<1> QED BY <1>1 DEF Store!Next

(***************************************************************************)
(* Every behaviour of the node is one of the abstract store: Set adds a    *)
(* newer version, Flush makes all of them durable at once, the end of the  *)
(* process falls back to what is durable, and the constructor starts from  *)
(* an empty store, or from what was durable if it cannot delete the file.  *)
(***************************************************************************)
THEOREM NodeImplementsStore == Spec => ImplementsBlobStore
<1>1. Init => Store!Init
  BY DEF Init, Empty, Store!Init, Store!Empty
<1>2. ASSUME NodeInv, [Next]_nodeVars PROVE [Store!Next]_Store!storeVars
  <2>1. CASE Open \/ OpenAborts
    BY <2>1, OpenIsCreate
  <2>2. CASE \E k \in Key, s \in SeqNo, b \in Blob : Set(k, s, b)
    BY <1>2, <2>2, SetIsSet
  <2>3. CASE Flush
    BY <1>2, <2>3, FlushIsPersist
  <2>4. CASE \/ \E k \in Key, s \in SeqNo, b \in Blob : SetAborts(k, s, b)
             \/ FlushAborts \/ RemoveThrows \/ Close \/ Crash
    BY <1>2, <2>4, EndInv, EndIsLose
  <2>5. CASE UNCHANGED nodeVars
    BY <2>5 DEF nodeVars, Store!storeVars
  <2> QED BY <1>2, <2>1, <2>2, <2>3, <2>4, <2>5 DEF Next
<1> QED BY <1>1, <1>2, NodeInvariant, PTL DEF Spec, ImplementsBlobStore, Store!Spec
=============================================================================
