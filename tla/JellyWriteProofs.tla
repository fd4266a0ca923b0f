--------------------------- MODULE JellyWriteProofs ---------------------------
(***************************************************************************)
(* Proofs about JellyWrite, for any number of keys, blobs, requests and    *)
(* concurrent WALs: the node never holds the address of a released         *)
(* request, and the backend implements BlobStore.                          *)
(***************************************************************************)
EXTENDS JellyWrite, WellFoundedInduction, TLAPS

USE SeqAssumption, NoneAssumption

-----------------------------------------------------------------------------
(* Least and greatest numbers *)

\* Every set of naturals that is not empty has a least element.
LEMMA LeastNumber ==
  ASSUME NEW S \in SUBSET Nat, S # {}
  PROVE  \E m \in S : \A n \in S : m <= n
<1> DEFINE R == OpToRel(<, Nat)
<1>1. IsWellFoundedOn(R, Nat)
  BY NatLessThanWellFounded
<1>2. R = {ss \in Nat \X Nat : ss[1] < ss[2]}
  BY DEF OpToRel
<1> HIDE DEF R
<1>3. PICK m \in S : \A n \in S : ~(<<n, m>> \in R)
  BY <1>1, WFMin
<1>4. \A n \in S : ~(n < m)
  BY <1>2, <1>3
<1>5. \A n \in S : m \in Nat /\ n \in Nat
  OBVIOUS
<1> QED BY <1>4, <1>5

\* Every set of sequence numbers that is not empty has a greatest element.
LEMMA GreatestSeqNo ==
  ASSUME NEW S \in SUBSET SeqNo, S # {}
  PROVE  \E m \in S : \A n \in S : n <= m
<1> DEFINE T == {MaxSeq - n : n \in S}
<1>1. \A n \in S : MaxSeq - n \in T /\ MaxSeq - n \in Nat /\ n \in 0 .. MaxSeq
  BY DEF SeqNo
<1>2. T \in SUBSET Nat /\ T # {}
  BY <1>1
<1>3. PICK t \in T : \A u \in T : t <= u
  BY <1>2, LeastNumber
<1>4. PICK m \in S : t = MaxSeq - m
  OBVIOUS
<1>5. \A n \in S : MaxSeq - m <= MaxSeq - n
  BY <1>1, <1>3, <1>4
<1> HIDE DEF T
<1> QED BY <1>1, <1>5

-----------------------------------------------------------------------------
(* The newest version *)

\* The versions that the requests of R set for k.
VersionsOf(R, k) == {fields[r][2] : r \in {q \in R : fields[q][1] = k}}

\* Newest is the given version if none is newer, otherwise the greatest.
LEMMA NewestEffect ==
  ASSUME NEW v \in Version \cup {None}, NEW R, NEW k,
         VersionsOf(R, k) \subseteq Version
  PROVE  /\ Newest(v, R, k) \in Version \cup {None}
         /\ \/ /\ Newest(v, R, k) = v
               /\ \A x \in VersionsOf(R, k) : ~Older(v, x)
            \/ /\ Newest(v, R, k) \in VersionsOf(R, k)
               /\ Older(v, Newest(v, R, k))
               /\ \A x \in VersionsOf(R, k) : x.seq <= Newest(v, R, k).seq
<1> DEFINE newer == {w \in VersionsOf(R, k) \cup {v} : w # None /\ Older(v, w)}
<1>0. Newest(v, R, k) = IF newer = {} THEN v
                        ELSE CHOOSE w \in newer : \A x \in newer : x.seq <= w.seq
  BY DEF Newest, VersionsOf
<1>1. \A x \in Version : x # None /\ x.seq \in SeqNo /\ x.seq \in Nat
  BY DEF Version, SeqNo
<1>2. \A x : x \in newer <=> x \in VersionsOf(R, k) /\ Older(v, x)
  BY <1>1 DEF Older
<1> HIDE DEF newer
<1>3. CASE newer = {}
  BY <1>0, <1>2, <1>3
<1>4. CASE newer # {}
  <2> DEFINE S == {x.seq : x \in newer}
  <2>1. S \in SUBSET SeqNo /\ S # {}
    BY <1>1, <1>2, <1>4
  <2>2. PICK m \in S : \A n \in S : n <= m
    BY <2>1, GreatestSeqNo
  <2>3. PICK w \in newer : w.seq = m
    OBVIOUS
  <2>4. \A x \in newer : x.seq <= w.seq
    BY <2>2, <2>3
  <2>5. /\ Newest(v, R, k) \in newer
        /\ \A x \in newer : x.seq <= Newest(v, R, k).seq
    BY <1>0, <1>4, <2>3, <2>4
  <2> DEFINE new == Newest(v, R, k)
  <2>6. new \in VersionsOf(R, k) /\ Older(v, new) /\ new \in Version
    BY <2>5, <1>2
  <2>7. \A x \in newer : x.seq <= new.seq
    BY <2>5
  <2> HIDE DEF new
  <2>8. ASSUME NEW x \in VersionsOf(R, k) PROVE x.seq <= new.seq
    <3>1. CASE x \in newer
      BY <3>1, <2>7
    <3>2. CASE x \notin newer
      <4>1. v # None /\ ~(v.seq < x.seq) /\ v.seq < new.seq
        BY <3>2, <1>2, <2>6 DEF Older
      <4> QED BY <4>1, <1>1, <2>6
    <3> QED BY <3>1, <3>2
  <2> QED BY <2>6, <2>8 DEF new
<1> QED BY <1>3, <1>4

-----------------------------------------------------------------------------
(***************************************************************************)
(* Each request the node knows is owned by the backend and is in one place *)
(* of the node only.  The second half makes the first inductive: when a    *)
(* request completes, and is released, the node must not have it anywhere  *)
(* else.                                                                   *)
(***************************************************************************)
QueuedOnce == \A i, j \in 1 .. Len(queue) : queue[i] = queue[j] => i = j

OnePlace ==
  /\ QueuedOnce
  /\ \A w \in WAL : ToSet(queue) \cap pending[w] = {}
  /\ \A w, x \in WAL : w # x => pending[w] \cap pending[x] = {}
  /\ completed \cap Waiting = {}

OwnInv == TypeOK /\ NoDanglingRequest /\ OnePlace

LEMMA QueueElements ==
  ASSUME OwnInv
  PROVE  /\ queue \in Seq(Request) /\ Len(queue) \in Nat
         /\ ToSet(queue) = {queue[j] : j \in 1 .. Len(queue)}
         /\ \A j \in 1 .. Len(queue) : queue[j] \in ToSet(queue)
BY DEF OwnInv, TypeOK, ToSet

\* What the node works on is the address of an item.
LEMMA WaitingIsItem ==
  ASSUME OwnInv, NEW r \in Waiting
  PROVE  /\ r \in Request /\ r \in m_requests /\ fields[r] \in Item
         /\ fields[r][1] \in Key /\ fields[r][2] \in Version
         /\ fields[r] = <<fields[r][1], fields[r][2]>>
<1>1. r \in m_requests /\ m_requests \subseteq Request /\ fields[r] # None
  BY DEF OwnInv, TypeOK, NoDanglingRequest
<1>2. fields[r] \in Item
  BY <1>1 DEF OwnInv, TypeOK
<1> QED BY <1>1, <1>2 DEF Item

LEMMA WaitingVersions ==
  ASSUME OwnInv, NEW R \in SUBSET Waiting, NEW k
  PROVE  VersionsOf(R, k) \subseteq Version
BY WaitingIsItem DEF VersionsOf

LEMMA ProcessedIsTable == OwnInv => Processed \in Table
<1> SUFFICES ASSUME OwnInv, NEW k \in Key
             PROVE  Newest(table[k], ToSet(queue) \ Outdated, k)
                      \in Version \cup {None}
  BY DEF Processed, Table
<1>1. ToSet(queue) \ Outdated \in SUBSET Waiting
  BY DEF Waiting
<1>2. table[k] \in Version \cup {None}
  BY DEF OwnInv, TypeOK, Table
<1> QED BY <1>1, <1>2, WaitingVersions, NewestEffect

-----------------------------------------------------------------------------
(* No dangling request *)

LEMMA OwnInit == Init => OwnInv
<1> SUFFICES ASSUME Init PROVE OwnInv
  OBVIOUS
<1>1. queue \in Seq(Request) /\ Len(queue) = 0 /\ ToSet(queue) = {}
  BY DEF Init, ToSet
<1>2. Waiting = {}
  BY <1>1 DEF Init, Waiting
<1>3. TypeOK
  BY <1>1 DEF Init, TypeOK, Table, Empty
<1>4. OnePlace
  BY <1>1, <1>2 DEF Init, OnePlace, QueuedOnce
<1> QED BY <1>2, <1>3, <1>4 DEF OwnInv, NoDanglingRequest

\* Steps that leave the requests and the node's lists as they are.
LEMMA OwnUnchanged ==
  ASSUME OwnInv, UNCHANGED <<m_requests, fields, queue, pending, completed>>,
         pc' \in {"off", "ready", "housekeeping", "closing"},
         table' \in Table, durable' \in Table, written' \subseteq Item
  PROVE  OwnInv'
<1>1. TypeOK'
  BY DEF OwnInv, TypeOK, Table
<1>2. Waiting' = Waiting
  BY DEF Waiting
<1> QED BY <1>1, <1>2 DEF OwnInv, NoDanglingRequest, OnePlace, QueuedOnce

\* Steps after which the node has nothing.
LEMMA OwnGone ==
  ASSUME OwnInv, NodeGone,
         pc' \in {"off", "closing"},
         \/ Released(m_requests) /\ completed' = {}
         \/ UNCHANGED <<m_requests, fields, completed>>
  PROVE  OwnInv'
<1>1. queue' \in Seq(Request) /\ Len(queue') = 0 /\ ToSet(queue') = {}
  BY DEF NodeGone, ToSet
<1>2. Waiting' = {}
  BY <1>1 DEF Waiting, NodeGone
<1>3. /\ m_requests' \subseteq Request
      /\ fields' \in [Request -> Item \cup {None}]
      /\ \A r \in Request : r \in m_requests' <=> fields'[r] # None
      /\ completed' \subseteq m_requests'
  BY DEF OwnInv, TypeOK, Released
<1>4. TypeOK'
  BY <1>1, <1>3 DEF OwnInv, TypeOK, NodeGone, Table
<1>5. OnePlace'
  BY <1>1, <1>2 DEF OnePlace, QueuedOnce, NodeGone
<1> QED BY <1>2, <1>4, <1>5 DEF OwnInv, NoDanglingRequest

\* What Set does to the request it has chosen and to the queue.
SetAt(k, v, r) ==
  /\ r \in Request \ m_requests
  /\ fields' = [fields EXCEPT ![r] = <<k, v>>]
  /\ queue' = Append(queue, r)
  /\ m_requests' = m_requests \cup {r}

LEMMA Appended ==
  ASSUME OwnInv, NEW r \in Request \ m_requests, queue' = Append(queue, r)
  PROVE  /\ Len(queue') = Len(queue) + 1 /\ queue' \in Seq(Request)
         /\ \A j \in 1 .. Len(queue) : queue'[j] = queue[j] /\ queue[j] # r
         /\ queue'[Len(queue) + 1] = r
         /\ ToSet(queue') = ToSet(queue) \cup {r}
<1>1. /\ Len(queue') = Len(queue) + 1 /\ queue' \in Seq(Request)
      /\ \A j \in 1 .. Len(queue) : queue'[j] = queue[j]
      /\ queue'[Len(queue) + 1] = r
  BY QueueElements
<1>2. \A j \in 1 .. Len(queue) : queue[j] # r
  BY QueueElements DEF OwnInv, NoDanglingRequest, Waiting
<1>3. ToSet(queue') = {queue'[j] : j \in 1 .. Len(queue) + 1}
  BY <1>1 DEF ToSet
<1>4. 1 .. Len(queue) + 1 = (1 .. Len(queue)) \cup {Len(queue) + 1}
  BY QueueElements
<1>5. ToSet(queue') = ToSet(queue) \cup {r}
  BY <1>1, <1>3, <1>4, QueueElements
<1> QED BY <1>1, <1>2, <1>5

LEMMA OwnSet ==
  ASSUME OwnInv, NEW k \in Key, NEW v \in Version, Set(k, v)
  PROVE  OwnInv'
<1>1. PICK r : SetAt(k, v, r)
  BY DEF Set, SetAt
<1>2. /\ r \in Request \ m_requests /\ queue' = Append(queue, r)
      /\ m_requests' = m_requests \cup {r} /\ <<k, v>> \in Item
  BY <1>1 DEF SetAt, Item
<1>3. Waiting' = Waiting \cup {r}
  BY <1>2, Appended DEF Set, Waiting
<1>4. TypeOK'
  <2>1. fields' \in [Request -> Item \cup {None}]
    BY <1>1, <1>2 DEF SetAt, OwnInv, TypeOK
  <2>2. \A q \in Request : q \in m_requests' <=> fields'[q] # None
    BY <1>1, <1>2 DEF SetAt, OwnInv, TypeOK
  <2>3. written' \subseteq Item
    BY <1>2 DEF Set, OwnInv, TypeOK
  <2> QED BY <1>2, <2>1, <2>2, <2>3, Appended DEF Set, OwnInv, TypeOK, Table
<1>5. NoDanglingRequest'
  BY <1>2, <1>3 DEF OwnInv, NoDanglingRequest
<1>6. OnePlace'
  <2>1. QueuedOnce'
    BY <1>2, Appended, QueueElements DEF QueuedOnce, OwnInv, OnePlace
  <2>2. r \notin Waiting /\ r \notin completed
    BY <1>2 DEF OwnInv, NoDanglingRequest, TypeOK
  <2>3. \A w \in WAL : ToSet(queue') \cap pending'[w] = {}
    BY <1>2, <2>2, Appended DEF Set, OwnInv, OnePlace, Waiting
  <2> QED BY <1>3, <2>1, <2>2, <2>3 DEF Set, OwnInv, OnePlace
<1> QED BY <1>4, <1>5, <1>6 DEF OwnInv

LEMMA OwnUpdateExpired == ASSUME OwnInv, UpdateExpired PROVE OwnInv'
<1>1. PICK wal \in [ToSet(queue) \ Outdated -> WAL] :
        pending' = [w \in WAL |-> pending[w]
                                    \cup {r \in DOMAIN wal : wal[r] = w}]
  BY DEF UpdateExpired, ProcessRequests
<1>2. /\ queue' = << >> /\ Len(queue') = 0 /\ queue' \in Seq(Request)
      /\ ToSet(queue') = {}
  BY DEF UpdateExpired, ProcessRequests, ToSet
<1>3. Outdated \subseteq ToSet(queue)
  BY QueueElements DEF Outdated
<1>4. /\ m_requests' = m_requests \ (completed \cup Outdated)
      /\ completed' = {}
      /\ fields' = [r \in Request |-> IF r \in completed \cup Outdated
                                        THEN None ELSE fields[r]]
  BY DEF UpdateExpired, UpdateRequests, Released
<1>5. \A w \in WAL : /\ pending'[w] \subseteq pending[w] \cup (ToSet(queue) \ Outdated)
                     /\ pending[w] \subseteq Waiting
  BY <1>1 DEF Waiting
<1>6. Waiting' \subseteq Waiting \ Outdated
  <2>1. \A w \in WAL : pending[w] \cap Outdated = {}
    BY <1>3 DEF OwnInv, OnePlace
  <2> QED BY <1>2, <1>5, <2>1 DEF Waiting
<1>7. NoDanglingRequest'
  BY <1>4, <1>6 DEF OwnInv, NoDanglingRequest, OnePlace
<1>8. TypeOK'
  <2>1. /\ m_requests' \subseteq Request
        /\ fields' \in [Request -> Item \cup {None}]
        /\ \A r \in Request : r \in m_requests' <=> fields'[r] # None
    BY <1>4 DEF OwnInv, TypeOK
  <2>2. pending' \in [WAL -> SUBSET Request]
    <3>1. \A w \in WAL : pending'[w] \subseteq Request
      BY <1>5, WaitingIsItem DEF Waiting
    <3> QED BY <1>1, <3>1
  <2>3. table' \in Table /\ durable' \in Table
    BY ProcessedIsTable DEF UpdateExpired, ProcessRequests, OwnInv, TypeOK, Table
  <2> QED BY <1>2, <1>4, <2>1, <2>2, <2>3 DEF UpdateExpired, OwnInv, TypeOK
<1>9. OnePlace'
  <2>1. QueuedOnce'
    BY <1>2 DEF QueuedOnce
  <2>2. ASSUME NEW w \in WAL, NEW x \in WAL, w # x
        PROVE  pending'[w] \cap pending'[x] = {}
    <3>1. /\ pending'[w] = pending[w] \cup {r \in DOMAIN wal : wal[r] = w}
          /\ pending'[x] = pending[x] \cup {r \in DOMAIN wal : wal[r] = x}
          /\ DOMAIN wal \subseteq ToSet(queue)
      BY <1>1
    <3>2. /\ pending[w] \cap pending[x] = {}
          /\ ToSet(queue) \cap pending[w] = {} /\ ToSet(queue) \cap pending[x] = {}
      BY <2>2 DEF OwnInv, OnePlace
    <3> QED BY <2>2, <3>1, <3>2
  <2> QED BY <1>2, <1>4, <2>1, <2>2 DEF OnePlace
<1> QED BY <1>7, <1>8, <1>9 DEF OwnInv

LEMMA OwnFlushWAL == ASSUME OwnInv, NEW w \in WAL, FlushWAL(w) PROVE OwnInv'
<1>1. /\ pending' = [pending EXCEPT ![w] = {}]
      /\ completed' = completed \cup pending[w]
      /\ UNCHANGED <<queue, table, pc, m_requests, fields, written>>
      /\ durable' = [k \in Key |-> Newest(durable[k], pending[w], k)]
  BY DEF FlushWAL, FlushPendingWAL
<1>2. /\ pending' \in [WAL -> SUBSET Request] /\ pending'[w] = {}
      /\ \A x \in WAL : x # w => pending'[x] = pending[x]
  BY <1>1 DEF OwnInv, TypeOK
<1>3. Waiting' = Waiting \ pending[w]
  BY <1>1, <1>2 DEF OwnInv, OnePlace, Waiting
<1>4. pending[w] \in SUBSET Waiting
  BY DEF Waiting
<1>5. durable' \in Table
  <2>1. ASSUME NEW k \in Key
        PROVE  Newest(durable[k], pending[w], k) \in Version \cup {None}
    BY <1>4, WaitingVersions, NewestEffect DEF OwnInv, TypeOK, Table
  <2> QED BY <1>1, <2>1 DEF Table
<1>6. TypeOK'
  BY <1>1, <1>2, <1>4, <1>5 DEF OwnInv, TypeOK, NoDanglingRequest, Table
<1>7. NoDanglingRequest'
  BY <1>1, <1>3 DEF OwnInv, NoDanglingRequest
<1>8. OnePlace'
  BY <1>1, <1>2, <1>3 DEF OwnInv, OnePlace, QueuedOnce
<1> QED BY <1>6, <1>7, <1>8 DEF OwnInv

LEMMA OwnNext == OwnInv /\ [Next]_jellyVars => OwnInv'
<1> SUFFICES ASSUME OwnInv, [Next]_jellyVars PROVE OwnInv'
  OBVIOUS
<1>0. /\ table \in Table /\ durable \in Table /\ written \subseteq Item
      /\ Empty \in Table
      /\ pc \in {"off", "ready", "housekeeping", "closing"}
  BY DEF OwnInv, TypeOK, Table, Empty
<1>1. CASE Open
  BY <1>0, <1>1, OwnUnchanged DEF Open
<1>2. CASE \E k \in Key, v \in Version : Set(k, v)
  BY <1>2, OwnSet
<1>3. CASE UpdateExpired
  BY <1>3, OwnUpdateExpired
<1>4. CASE \E w \in WAL : FlushWAL(w)
  BY <1>4, OwnFlushWAL
<1>5. CASE UpdateEarly \/ FlushStore \/ UpdateReturns
  BY <1>0, <1>5, OwnUnchanged DEF UpdateEarly, FlushStore, UpdateReturns
<1>6. CASE RewriteFiles \/ UNCHANGED jellyVars
  BY <1>0, <1>6, OwnUnchanged DEF RewriteFiles, jellyVars
<1>7. CASE Close \/ DestroyMembers \/ Crash
  BY <1>7, OwnGone DEF Close, DestroyMembers, Crash
<1> QED BY <1>1, <1>2, <1>3, <1>4, <1>5, <1>6, <1>7 DEF Next

THEOREM OwnInvariant == Spec => []OwnInv
BY OwnInit, OwnNext, PTL DEF Spec

(***************************************************************************)
(* Every reachable state of the backend and its node is type correct.      *)
(***************************************************************************)
THEOREM TypeCorrect == Spec => []TypeOK
<1>1. OwnInv => TypeOK
  BY DEF OwnInv
<1> QED BY <1>1, OwnInvariant, PTL

(***************************************************************************)
(* The node never works on a request that the backend has destroyed.       *)
(***************************************************************************)
THEOREM NodeRequestsAreOwned == Spec => []NoDanglingRequest
<1>1. OwnInv => NoDanglingRequest
  BY DEF OwnInv
<1> QED BY <1>1, OwnInvariant, PTL

-----------------------------------------------------------------------------
(* What ProcessRequests makes of the queue *)

\* The newest of a version and of the versions in V.
NewestOf(v, V) ==
  LET newer == {w \in V \cup {v} : w # None /\ Older(v, w)}
  IN  IF newer = {} THEN v
      ELSE CHOOSE w \in newer : \A x \in newer : x.seq <= w.seq

LEMMA NewestIsNewestOf ==
  \A v, R, k : Newest(v, R, k) = NewestOf(v, VersionsOf(R, k))
BY DEF Newest, NewestOf, VersionsOf

\* A version that is newer than all the others is the newest.
LEMMA NewestOfAdded ==
  ASSUME NEW v \in Version \cup {None}, NEW V \in SUBSET Version,
         NEW x \in Version, Older(v, x), \A y \in V : y.seq < x.seq
  PROVE  NewestOf(v, V \cup {x}) = x
<1> DEFINE newer == {w \in (V \cup {x}) \cup {v} : w # None /\ Older(v, w)}
<1>1. \A y \in Version : y # None /\ y.seq \in Nat
  BY DEF Version, SeqNo
<1>2. x \in newer /\ \A y \in newer : y \in V \cup {x}
  BY <1>1 DEF Older
<1>3. \A y \in newer : y.seq <= x.seq /\ y.seq \in Nat
  BY <1>1, <1>2
<1>4. \A y \in newer : y # x => y.seq < x.seq
  BY <1>2
<1> HIDE DEF newer
<1>5. ASSUME NEW w \in newer, \A y \in newer : y.seq <= w.seq PROVE w = x
  BY <1>1, <1>2, <1>3, <1>4, <1>5
<1>6. (CHOOSE w \in newer : \A y \in newer : y.seq <= w.seq) = x
  BY <1>2, <1>3, <1>5
<1> QED BY <1>2, <1>6 DEF NewestOf, newer

\* The versions for k that the queue will add to the table.
Accepted(k) ==
  {fields[queue[j]][2] :
     j \in {l \in 1 .. Len(queue) : ~OutdatedAt(l) /\ fields[queue[l]][1] = k}}

\* Since no address is queued twice, outdated entries are outdated addresses.
LEMMA AcceptedAddresses ==
  ASSUME OwnInv
  PROVE  /\ \A j \in 1 .. Len(queue) : queue[j] \in Outdated <=> OutdatedAt(j)
         /\ \A k : VersionsOf(ToSet(queue) \ Outdated, k) = Accepted(k)
<1>1. \A j \in 1 .. Len(queue) : queue[j] \in Outdated <=> OutdatedAt(j)
  BY DEF Outdated, OwnInv, OnePlace, QueuedOnce
<1>2. ToSet(queue) \ Outdated
        = {queue[j] : j \in {l \in 1 .. Len(queue) : ~OutdatedAt(l)}}
  BY <1>1, QueueElements
<1>3. ASSUME NEW k PROVE VersionsOf(ToSet(queue) \ Outdated, k) = Accepted(k)
  BY <1>2 DEF VersionsOf, Accepted
<1> QED BY <1>1, <1>3

ProcessedFacts ==
  \A k \in Key : /\ Processed[k] = NewestOf(table[k], Accepted(k))
                 /\ Accepted(k) \subseteq Version
                 /\ table[k] \in Version \cup {None}

LEMMA ProcessedIs == OwnInv => ProcessedFacts
<1> SUFFICES ASSUME OwnInv, NEW k \in Key
             PROVE  /\ Processed[k] = NewestOf(table[k], Accepted(k))
                    /\ Accepted(k) \subseteq Version
                    /\ table[k] \in Version \cup {None}
  BY DEF ProcessedFacts
<1>1. ToSet(queue) \ Outdated \in SUBSET Waiting
  BY DEF Waiting
<1>2. Accepted(k) \subseteq Version
  BY <1>1, WaitingVersions, AcceptedAddresses
<1>3. Processed[k] = Newest(table[k], ToSet(queue) \ Outdated, k)
  BY DEF Processed
<1> QED BY <1>2, <1>3, NewestIsNewestOf, AcceptedAddresses DEF OwnInv, TypeOK, Table

(***************************************************************************)
(* The table after ProcessRequests is not older than the table before, nor *)
(* than any queued version, and what is new in it was accepted.            *)
(***************************************************************************)
LEMMA ProcessedEffect ==
  ASSUME OwnInv, NEW k \in Key
  PROVE  /\ Processed[k] \in Version \cup {None}
         /\ Processed[k] = table[k] \/ Store!Older(table[k], Processed[k])
         /\ Processed[k] # table[k] =>
              \E j \in 1 .. Len(queue) :
                ~OutdatedAt(j) /\ fields[queue[j]] = <<k, Processed[k]>>
         /\ \A j \in 1 .. Len(queue) :
              fields[queue[j]][1] = k => ~Older(Processed[k], fields[queue[j]][2])
<1> DEFINE p == Processed[k]
           Ver(j) == fields[queue[j]][2]
           Mine == {j \in 1 .. Len(queue) : fields[queue[j]][1] = k}
<1>1. /\ p \in Version \cup {None}
      /\ \/ p = table[k] /\ \A x \in Accepted(k) : ~Older(table[k], x)
         \/ /\ p \in Accepted(k) /\ Older(table[k], p)
            /\ \A x \in Accepted(k) : x.seq <= p.seq
  <2> DEFINE R == ToSet(queue) \ Outdated
  <2>1. p = Newest(table[k], R, k)
    BY DEF Processed
  <2>2. VersionsOf(R, k) = Accepted(k)
    BY AcceptedAddresses
  <2>3. VersionsOf(R, k) \subseteq Version /\ table[k] \in Version \cup {None}
    BY <2>2, ProcessedIs DEF ProcessedFacts
  <2> HIDE DEF p, R
  <2>4. /\ Newest(table[k], R, k) \in Version \cup {None}
        /\ \/ /\ Newest(table[k], R, k) = table[k]
              /\ \A x \in VersionsOf(R, k) : ~Older(table[k], x)
           \/ /\ Newest(table[k], R, k) \in VersionsOf(R, k)
              /\ Older(table[k], Newest(table[k], R, k))
              /\ \A x \in VersionsOf(R, k) : x.seq <= Newest(table[k], R, k).seq
    BY <2>3, NewestEffect
  <2> QED BY <2>1, <2>2, <2>4
<1>2. /\ \A y \in Version : y # None /\ y.seq \in Nat
      /\ Accepted(k) \subseteq Version /\ table[k] \in Version \cup {None}
  BY ProcessedIs DEF ProcessedFacts, Version, SeqNo
<1>3. \A j \in 1 .. Len(queue) : /\ Ver(j) \in Version
                                 /\ fields[queue[j]] = <<fields[queue[j]][1], Ver(j)>>
  BY QueueElements, WaitingIsItem DEF Waiting
<1>4. p = table[k] \/ Store!Older(table[k], p)
  BY <1>1, <1>2 DEF Older, Store!Older
<1>5. ASSUME p # table[k]
      PROVE  \E j \in 1 .. Len(queue) :
               ~OutdatedAt(j) /\ fields[queue[j]] = <<k, p>>
  BY <1>1, <1>3, <1>5 DEF Accepted
<1>6. ASSUME NEW j \in 1 .. Len(queue), fields[queue[j]][1] = k
      PROVE  ~Older(p, Ver(j))
  <2> DEFINE Bad == {l \in Mine : Older(p, Ver(l))}
  <2>1. SUFFICES ASSUME Bad # {} PROVE FALSE
    BY <1>6
  <2>2. Bad \in SUBSET Nat
    OBVIOUS
  <2> HIDE DEF Bad
  <2>3. PICK m \in Bad : \A l \in Bad : m <= l
    BY <2>1, <2>2, LeastNumber
  <2>4. m \in 1 .. Len(queue) /\ fields[queue[m]][1] = k /\ Older(p, Ver(m))
    BY DEF Bad
  <2>5. CASE ~OutdatedAt(m)
    <3>1. Ver(m) \in Accepted(k)
      BY <2>4, <2>5 DEF Accepted
    <3>2. Ver(m) \in Version /\ Older(p, Ver(m))
      BY <1>3, <2>4
    <3> HIDE DEF Ver, p
    <3> QED BY <1>1, <1>2, <3>1, <3>2 DEF Older
  <2>6. CASE ~Older(table[k], Ver(m))
    <3>1. Ver(m) \in Version /\ Older(p, Ver(m))
      BY <1>3, <2>4
    <3> HIDE DEF Ver, p
    <3> QED BY <1>2, <1>1, <1>4, <2>6, <3>1 DEF Older, Store!Older
  <2>7. CASE \E i \in 1 .. m - 1 : /\ fields[queue[i]][1] = k
                                   /\ ~Older(Ver(i), Ver(m))
    <3>1. PICK i \in 1 .. m - 1 : /\ fields[queue[i]][1] = k
                                  /\ ~Older(Ver(i), Ver(m))
      BY <2>7
    <3>2. i \in 1 .. Len(queue) /\ i < m
      BY <2>4, QueueElements
    <3>3. Ver(i) \in Version /\ Ver(m) \in Version
      BY <1>3, <2>4, <3>2
    <3>4. i \notin Bad
      BY <2>2, <2>3, <3>2
    <3>5. ~Older(p, Ver(i))
      BY <3>1, <3>2, <3>4 DEF Bad
    <3> HIDE DEF Ver, p
    <3> QED BY <1>1, <1>2, <2>4, <3>1, <3>3, <3>5 DEF Older
  <2> QED BY <2>4, <2>5, <2>6, <2>7 DEF OutdatedAt
<1> QED BY <1>1, <1>4, <1>5, <1>6

-----------------------------------------------------------------------------
(* What Set does to the content of the store *)

\* Whether a queued request is outdated does not depend on those behind it.
LEMMA SetKeepsOutdated ==
  ASSUME OwnInv, NEW k \in Key, NEW v \in Version, Set(k, v)
  PROVE  /\ Len(queue') = Len(queue) + 1 /\ Len(queue) \in Nat
         /\ \A j \in 1 .. Len(queue) : /\ fields'[queue'[j]] = fields[queue[j]]
                                       /\ OutdatedAt(j)' <=> OutdatedAt(j)
         /\ fields'[queue'[Len(queue) + 1]] = <<k, v>>
         /\ \A n : n = Len(queue) + 1 => (OutdatedAt(n)' <=> ~Older(Processed[k], v))
<1>1. PICK r : SetAt(k, v, r)
  BY DEF Set, SetAt
<1>2. /\ r \in Request \ m_requests /\ queue' = Append(queue, r)
      /\ fields' = [fields EXCEPT ![r] = <<k, v>>]
      /\ fields \in [Request -> Item \cup {None}]
      /\ table' = table
  BY <1>1 DEF SetAt, Set, OwnInv, TypeOK
<1>3. /\ Len(queue') = Len(queue) + 1 /\ Len(queue) \in Nat
      /\ \A j \in 1 .. Len(queue) : /\ queue'[j] = queue[j] /\ queue[j] # r
                                    /\ queue[j] \in Request
      /\ queue'[Len(queue) + 1] = r
  BY <1>2, Appended, QueueElements
<1>4. /\ \A j \in 1 .. Len(queue) : fields'[queue'[j]] = fields[queue[j]]
      /\ fields'[queue'[Len(queue) + 1]] = <<k, v>>
  BY <1>2, <1>3
<1>5. ASSUME NEW j \in 1 .. Len(queue)
      PROVE  OutdatedAt(j)' <=> OutdatedAt(j)
  <2>1. \A i \in 1 .. j - 1 : i \in 1 .. Len(queue)
    BY <1>3
  <2> QED BY <1>2, <1>4, <2>1 DEF OutdatedAt, Older
<1>6. ASSUME NEW n \in Nat, n = Len(queue) + 1
      PROVE  OutdatedAt(n)'
               <=> \/ ~Older(table[k], v)
                   \/ \E i \in 1 .. Len(queue) :
                        /\ fields[queue[i]][1] = k
                        /\ ~Older(fields[queue[i]][2], v)
  <2>1. 1 .. n - 1 = 1 .. Len(queue)
    BY <1>3, <1>6
  <2>2. fields'[queue'[n]] = <<k, v>>
    BY <1>4, <1>6
  <2>3. OutdatedAt(n)'
          <=> \/ ~Older(table'[fields'[queue'[n]][1]], fields'[queue'[n]][2])
              \/ \E i \in 1 .. n - 1 :
                   /\ fields'[queue'[i]][1] = fields'[queue'[n]][1]
                   /\ ~Older(fields'[queue'[i]][2], fields'[queue'[n]][2])
    BY DEF OutdatedAt, Older
  <2>4. fields'[queue'[n]][1] = k /\ fields'[queue'[n]][2] = v
    BY <2>2
  <2>5. \A i \in 1 .. n - 1 : fields'[queue'[i]] = fields[queue[i]]
    BY <1>4, <2>1
  <2>6. ASSUME NEW i \in 1 .. n - 1
        PROVE  /\ fields'[queue'[i]][1] = fields[queue[i]][1]
               /\ fields'[queue'[i]][2] = fields[queue[i]][2]
    BY <2>5
  <2>7. OutdatedAt(n)'
          <=> \/ ~Older(table[k], v)
              \/ \E i \in 1 .. n - 1 : /\ fields[queue[i]][1] = k
                                      /\ ~Older(fields[queue[i]][2], v)
    BY <1>2, <2>3, <2>4, <2>6 DEF Older
  <2> QED BY <2>1, <2>7
<1>7. ASSUME NEW i \in 1 .. Len(queue)
      PROVE  fields[queue[i]][2] \in Version
  BY QueueElements, WaitingIsItem DEF Waiting
<1>8. /\ Processed[k] \in Version \cup {None} /\ table[k] \in Version \cup {None}
      /\ \A y \in Version : y # None /\ y.seq \in Nat
  BY ProcessedEffect DEF OwnInv, TypeOK, Table, Version, SeqNo
<1>9. ASSUME Older(Processed[k], v)
      PROVE  /\ Older(table[k], v)
             /\ \A i \in 1 .. Len(queue) :
                  fields[queue[i]][1] = k => Older(fields[queue[i]][2], v)
  <2>1. Older(table[k], v)
    BY <1>8, <1>9, ProcessedEffect DEF Older, Store!Older
  <2>2. ASSUME NEW i \in 1 .. Len(queue), fields[queue[i]][1] = k
        PROVE  Older(fields[queue[i]][2], v)
    <3>1. ~Older(Processed[k], fields[queue[i]][2])
      BY <2>2, ProcessedEffect
    <3> QED BY <3>1, <1>7, <1>8, <1>9 DEF Older
  <2> QED BY <2>1, <2>2
<1>10. ASSUME Older(table[k], v),
              \A i \in 1 .. Len(queue) :
                fields[queue[i]][1] = k => Older(fields[queue[i]][2], v)
       PROVE  Older(Processed[k], v)
  <2>1. CASE Processed[k] = table[k]
    BY <1>10, <2>1
  <2>2. CASE Processed[k] # table[k]
    <3>1. PICK j \in 1 .. Len(queue) : fields[queue[j]] = <<k, Processed[k]>>
      BY <2>2, ProcessedEffect
    <3> QED BY <1>10, <3>1
  <2> QED BY <2>1, <2>2
<1>11. ASSUME NEW n, n = Len(queue) + 1
       PROVE  OutdatedAt(n)' <=> ~Older(Processed[k], v)
  BY <1>3, <1>6, <1>9, <1>10, <1>11
<1> QED BY <1>3, <1>4, <1>5, <1>11

(***************************************************************************)
(* A Set whose version is newer than the store's puts it there, any other  *)
(* Set leaves the store as it is.                                          *)
(***************************************************************************)
LEMMA SetProcessed ==
  ASSUME OwnInv, NEW k \in Key, NEW v \in Version, Set(k, v)
  PROVE  Processed' = IF Older(Processed[k], v)
                        THEN [Processed EXCEPT ![k] = v]
                        ELSE Processed
<1> DEFINE n == Len(queue) + 1
<1>1. /\ Len(queue') = n /\ n \in Nat /\ 1 .. n = (1 .. Len(queue)) \cup {n}
      /\ \A j \in 1 .. Len(queue) : /\ fields'[queue'[j]] = fields[queue[j]]
                                    /\ OutdatedAt(j)' <=> OutdatedAt(j)
      /\ fields'[queue'[n]] = <<k, v>>
  BY SetKeepsOutdated
<1>2. \A m : m = n => (OutdatedAt(m)' <=> ~Older(Processed[k], v))
  BY SetKeepsOutdated
<1>3. OwnInv'
  BY OwnSet
<1>4. ProcessedFacts'
  BY <1>3, ProcessedIs, PTL
<1>5. \A q \in Key : Processed'[q] = NewestOf(table'[q], Accepted(q)')
  BY <1>4 DEF ProcessedFacts, NewestOf, Older
<1>6. \A q \in Key : /\ Processed[q] = NewestOf(table[q], Accepted(q))
                     /\ Accepted(q) \subseteq Version
                     /\ table[q] \in Version \cup {None}
  BY ProcessedIs DEF ProcessedFacts
<1>7. table' = table
  BY DEF Set
<1>8. ASSUME NEW q \in Key
      PROVE  Accepted(q)' = IF q = k /\ Older(Processed[k], v)
                              THEN Accepted(q) \cup {v} ELSE Accepted(q)
  <2> DEFINE I == {l \in 1 .. Len(queue) : ~OutdatedAt(l) /\ fields[queue[l]][1] = q}
             J == {l \in 1 .. n : ~OutdatedAt(l)' /\ fields'[queue'[l]][1] = q}
  <2>1. Accepted(q) = {fields[queue[j]][2] : j \in I}
    BY DEF Accepted
  <2>2. Accepted(q)' = {fields'[queue'[j]][2] : j \in J}
    BY <1>1 DEF Accepted
  <2>3. J = IF q = k /\ Older(Processed[k], v) THEN I \cup {n} ELSE I
    BY <1>1, <1>2
  <2>4. \A j \in I : fields'[queue'[j]] = fields[queue[j]]
    BY <1>1
  <2>5. fields'[queue'[n]][2] = v
    BY <1>1
  <2> HIDE DEF I, J, n
  <2> QED BY <2>1, <2>2, <2>3, <2>4, <2>5
<1>9. Processed = [q \in Key |-> Processed[q]] /\ Processed' = [q \in Key |-> Processed'[q]]
  BY DEF Processed
<1>10. CASE ~Older(Processed[k], v)
  <2>1. \A q \in Key : Processed'[q] = Processed[q]
    BY <1>5, <1>6, <1>7, <1>8, <1>10
  <2> QED BY <1>9, <1>10, <2>1
<1>11. CASE Older(Processed[k], v)
  <2>1. \A q \in Key : q # k => Processed'[q] = Processed[q]
    BY <1>5, <1>6, <1>7, <1>8
  <2>2. /\ Older(table[k], v)
        /\ \A y \in Accepted(k) : y.seq < v.seq
    <3>1. /\ Processed[k] \in Version \cup {None}
          /\ \A y \in Version : y # None /\ y.seq \in Nat
      BY ProcessedEffect DEF Version, SeqNo
    <3>2. Older(table[k], v)
      BY <1>6, <1>11, <3>1, ProcessedEffect DEF Older, Store!Older
    <3>3. ASSUME NEW y \in Accepted(k) PROVE y.seq < v.seq
      <4>1. ~Older(Processed[k], y)
        BY ProcessedEffect DEF Accepted
      <4> QED BY <1>6, <1>11, <3>1, <4>1 DEF Older
    <3> QED BY <3>2, <3>3
  <2>3. NewestOf(table[k], Accepted(k) \cup {v}) = v
    BY <1>6, <2>2, NewestOfAdded
  <2>4. Processed'[k] = v
    BY <1>5, <1>7, <1>8, <1>11, <2>3
  <2> QED BY <1>9, <1>11, <2>1, <2>4
<1> QED BY <1>10, <1>11

-----------------------------------------------------------------------------
(***************************************************************************)
(* What the node works on was set, and is what the table holds or older:   *)
(* flushing a WAL then never takes the files past the table, in whatever   *)
(* order the WALs are flushed.                                             *)
(***************************************************************************)
AcceptedWritten ==
  \A j \in 1 .. Len(queue) : OutdatedAt(j) \/ fields[queue[j]] \in written

KnownToTable(r) ==
  LET k == fields[r][1]
      v == fields[r][2]
  IN  /\ fields[r] \in written
      /\ v = table[k] \/ Store!Older(v, table[k])

PendingKnown == \A w \in WAL : \A r \in pending[w] : KnownToTable(r)

FilesLagBehind ==
  \A k \in Key : /\ durable[k] = table[k] \/ Store!Older(durable[k], table[k])
                 /\ table[k] # None => <<k, table[k]>> \in written
                 /\ durable[k] # None => <<k, durable[k]>> \in written

\* Without a node nothing is queued or pending.
NothingWithoutNode ==
  pc \in {"off", "closing"} =>
    Len(queue) = 0 /\ \A w \in WAL : pending[w] = {}

HistoryInv ==
  AcceptedWritten /\ PendingKnown /\ FilesLagBehind /\ NothingWithoutNode

JellyInv == OwnInv /\ HistoryInv

LEMMA VersionFacts ==
  /\ \A x \in Version : x # None /\ x.seq \in Nat
  /\ None \notin Version
BY DEF Version, SeqNo

\* Being older is transitive on versions.
LEMMA OlderTransitive ==
  ASSUME NEW x \in Version \cup {None}, NEW y \in Version \cup {None},
         NEW z \in Version \cup {None},
         x = y \/ Store!Older(x, y), y = z \/ Store!Older(y, z)
  PROVE  x = z \/ Store!Older(x, z)
BY VersionFacts DEF Store!Older

\* After ProcessRequests the table knows what it has accepted.
LEMMA AcceptedIsKnown ==
  ASSUME OwnInv, NEW j \in 1 .. Len(queue), ~OutdatedAt(j)
  PROVE  LET k == fields[queue[j]][1]
             v == fields[queue[j]][2]
         IN  v = Processed[k] \/ Store!Older(v, Processed[k])
<1> DEFINE k == fields[queue[j]][1]
           v == fields[queue[j]][2]
           p == Processed[k]
<1>1. k \in Key /\ v \in Version
  BY QueueElements, WaitingIsItem DEF Waiting
<1>2. /\ p \in Version \cup {None} /\ ~Older(p, v) /\ Older(table[k], v)
      /\ table[k] \in Version \cup {None}
  BY <1>1, ProcessedEffect DEF OutdatedAt, OwnInv, TypeOK, Table
<1>3. CASE p = table[k]
  BY <1>2, <1>3
<1>4. CASE p # table[k]
  <2>1. PICK i \in 1 .. Len(queue) :
          ~OutdatedAt(i) /\ fields[queue[i]] = <<k, p>>
    BY <1>1, <1>4, ProcessedEffect
  <2>2. fields[queue[i]][1] = k /\ fields[queue[i]][2] = p
    BY <2>1
  <2>3. p \in Version
    BY <2>2, QueueElements, WaitingIsItem DEF Waiting
  <2>4. i \in Nat /\ j \in Nat
    OBVIOUS
  <2>5. CASE i = j
    BY <2>2, <2>5
  <2>6. CASE i < j
    <3>1. i \in 1 .. j - 1
      BY <2>4, <2>6
    <3>2. Older(p, v)
      BY <2>2, <3>1 DEF OutdatedAt
    <3> QED BY <1>2, <3>2
  <2>7. CASE j < i
    <3>1. j \in 1 .. i - 1
      BY <2>4, <2>7
    <3>2. Older(v, p)
      BY <2>1, <2>2, <3>1 DEF OutdatedAt
    <3> QED BY <3>2, <2>3, <1>1, VersionFacts DEF Older, Store!Older
  <2> QED BY <2>4, <2>5, <2>6, <2>7
<1> QED BY <1>3, <1>4

LEMMA JellyInit == Init => JellyInv
<1> SUFFICES ASSUME Init PROVE JellyInv
  OBVIOUS
<1>1. OwnInv
  BY OwnInit
<1>2. Len(queue) = 0
  BY DEF Init
<1>3. AcceptedWritten
  BY <1>2 DEF AcceptedWritten
<1>4. PendingKnown /\ FilesLagBehind /\ NothingWithoutNode
  BY DEF Init, PendingKnown, FilesLagBehind, NothingWithoutNode, Empty
<1> QED BY <1>1, <1>3, <1>4 DEF JellyInv, HistoryInv

\* Steps after which the node has nothing.
LEMMA JellyGone ==
  ASSUME JellyInv, Close \/ DestroyMembers \/ Crash
  PROVE  HistoryInv'
<1>1. NodeGone
  BY DEF Close, DestroyMembers, Crash
<1>2. Len(queue') = 0 /\ \A w \in WAL : pending'[w] = {}
  BY <1>1 DEF NodeGone
<1>3. AcceptedWritten' /\ PendingKnown' /\ NothingWithoutNode'
  BY <1>2 DEF AcceptedWritten, PendingKnown, NothingWithoutNode
<1>4. FilesLagBehind'
  BY <1>1 DEF NodeGone, JellyInv, HistoryInv, FilesLagBehind
<1> QED BY <1>3, <1>4 DEF HistoryInv

LEMMA JellyOpen == ASSUME JellyInv, Open PROVE HistoryInv'
<1>1. /\ Len(queue') = 0 /\ \A w \in WAL : pending'[w] = {}
      /\ \A k \in Key : table'[k] = None /\ durable'[k] = None
  BY DEF JellyInv, HistoryInv, NothingWithoutNode, Open, Empty
<1> QED BY <1>1 DEF HistoryInv, AcceptedWritten, PendingKnown, FilesLagBehind,
                    NothingWithoutNode

LEMMA JellySet ==
  ASSUME JellyInv, NEW k \in Key, NEW v \in Version, Set(k, v)
  PROVE  HistoryInv'
<1>1. OwnInv
  BY DEF JellyInv
<1>2. /\ written' = IF Older(Processed[k], v) THEN written \cup {<<k, v>>}
                                              ELSE written
      /\ UNCHANGED <<pending, table, durable>>
  BY DEF Set
<1>3. AcceptedWritten'
  <2> DEFINE n == Len(queue) + 1
  <2>1. /\ Len(queue') = n /\ n \in Nat /\ 1 .. n = (1 .. Len(queue)) \cup {n}
        /\ \A j \in 1 .. Len(queue) : /\ fields'[queue'[j]] = fields[queue[j]]
                                      /\ OutdatedAt(j)' <=> OutdatedAt(j)
        /\ fields'[queue'[n]] = <<k, v>>
    BY <1>1, SetKeepsOutdated
  <2>2. \A m : m = n => (OutdatedAt(m)' <=> ~Older(Processed[k], v))
    BY <1>1, SetKeepsOutdated
  <2>3. ASSUME NEW j \in 1 .. n
        PROVE  OutdatedAt(j)' \/ fields'[queue'[j]] \in written'
    <3>1. CASE j = n
      BY <1>2, <2>1, <2>2, <3>1
    <3>2. CASE j \in 1 .. Len(queue)
      BY <1>2, <2>1, <3>2 DEF JellyInv, HistoryInv, AcceptedWritten
    <3> QED BY <2>1, <3>1, <3>2
  <2> QED BY <2>1, <2>3 DEF AcceptedWritten
<1>4. PendingKnown'
  <2>1. ASSUME NEW w \in WAL, NEW r \in pending[w] PROVE fields'[r] = fields[r]
    <3>1. PICK q : SetAt(k, v, q)
      BY DEF Set, SetAt
    <3>2. r # q /\ r \in Request
      BY <1>1, <3>1, WaitingIsItem DEF SetAt, Waiting
    <3> QED BY <1>1, <3>1, <3>2 DEF SetAt, OwnInv, TypeOK
  <2> QED BY <1>2, <2>1 DEF JellyInv, HistoryInv, PendingKnown, KnownToTable
<1>5. FilesLagBehind'
  BY <1>2 DEF JellyInv, HistoryInv, FilesLagBehind
<1>6. NothingWithoutNode'
  BY DEF Set, NothingWithoutNode
<1> QED BY <1>3, <1>4, <1>5, <1>6 DEF HistoryInv

LEMMA JellyUpdateExpired ==
  ASSUME JellyInv, UpdateExpired
  PROVE  HistoryInv'
<1>1. OwnInv
  BY DEF JellyInv
<1>2. /\ Len(queue') = 0 /\ table' = Processed
      /\ UNCHANGED <<durable, written>>
      /\ fields' = [r \in Request |-> IF r \in completed \cup Outdated
                                        THEN None ELSE fields[r]]
  BY DEF UpdateExpired, ProcessRequests, UpdateRequests, Released
<1>3. PICK wal \in [ToSet(queue) \ Outdated -> WAL] :
        pending' = [w \in WAL |-> pending[w]
                                    \cup {r \in DOMAIN wal : wal[r] = w}]
  BY DEF UpdateExpired, ProcessRequests
<1>4. \A k \in Key : /\ table[k] \in Version \cup {None}
                     /\ durable[k] \in Version \cup {None}
                     /\ Processed[k] \in Version \cup {None}
                     /\ Processed[k] = table[k] \/ Store!Older(table[k], Processed[k])
  BY <1>1, ProcessedEffect DEF OwnInv, TypeOK, Table
<1>5. PendingKnown'
  <2> SUFFICES ASSUME NEW w \in WAL, NEW r \in pending'[w]
               PROVE  KnownToTable(r)'
    BY DEF PendingKnown
  <2>1. r \in Waiting /\ r \notin completed /\ r \notin Outdated
    <3>1. CASE r \in pending[w]
      <4>1. Outdated \subseteq ToSet(queue)
        BY <1>1, QueueElements DEF Outdated
      <4> QED BY <1>1, <3>1, <4>1 DEF OwnInv, OnePlace, Waiting
    <3>2. CASE r \in ToSet(queue) \ Outdated
      BY <1>1, <3>2 DEF OwnInv, OnePlace, Waiting
    <3> QED BY <1>3, <3>1, <3>2
  <2>2. /\ fields'[r] = fields[r] /\ fields[r][1] \in Key
        /\ fields[r][2] \in Version
    BY <1>1, <1>2, <2>1, WaitingIsItem
  <2>3. CASE r \in pending[w]
    <3>1. KnownToTable(r)
      BY <2>3 DEF JellyInv, HistoryInv, PendingKnown
    <3> QED BY <1>2, <1>4, <2>2, <3>1, OlderTransitive DEF KnownToTable
  <2>4. CASE r \in ToSet(queue) \ Outdated
    <3>1. PICK j \in 1 .. Len(queue) : r = queue[j]
      BY <1>1, <2>4, QueueElements
    <3>2. ~OutdatedAt(j)
      BY <1>1, <2>1, <3>1, AcceptedAddresses
    <3>3. fields[r] \in written
      BY <3>1, <3>2 DEF JellyInv, HistoryInv, AcceptedWritten
    <3> QED BY <1>1, <1>2, <2>2, <3>1, <3>2, <3>3, AcceptedIsKnown DEF KnownToTable
  <2> QED BY <1>3, <2>3, <2>4
<1>6. FilesLagBehind'
  <2> SUFFICES ASSUME NEW k \in Key
               PROVE  /\ \/ durable[k] = Processed[k]
                         \/ Store!Older(durable[k], Processed[k])
                      /\ Processed[k] # None => <<k, Processed[k]>> \in written
                      /\ durable[k] # None => <<k, durable[k]>> \in written
    BY <1>2 DEF FilesLagBehind
  <2>1. Processed[k] # table[k] => <<k, Processed[k]>> \in written
    BY <1>1, ProcessedEffect DEF JellyInv, HistoryInv, AcceptedWritten
  <2> QED BY <1>4, <2>1, OlderTransitive DEF JellyInv, HistoryInv, FilesLagBehind
<1>7. AcceptedWritten' /\ NothingWithoutNode'
  BY <1>2 DEF AcceptedWritten, NothingWithoutNode, UpdateExpired
<1> QED BY <1>5, <1>6, <1>7 DEF HistoryInv

\* What a flush of one WAL adds to the files.
LEMMA FlushWALEffect ==
  ASSUME JellyInv, NEW w \in WAL, FlushWAL(w), NEW k \in Key
  PROVE  /\ durable'[k] \in Version \cup {None}
         /\ \/ durable'[k] = durable[k]
            \/ /\ Store!Older(durable[k], durable'[k])
               /\ <<k, durable'[k]>> \in written
         /\ durable'[k] = table[k] \/ Store!Older(durable'[k], table[k])
<1> DEFINE d == Newest(durable[k], pending[w], k)
<1>1. durable'[k] = d
  BY DEF FlushWAL, FlushPendingWAL
<1>2. OwnInv /\ durable[k] \in Version \cup {None}
  BY DEF JellyInv, OwnInv, TypeOK, Table
<1>3. VersionsOf(pending[w], k) \subseteq Version
  BY <1>2, WaitingVersions DEF Waiting
<1>4. /\ d \in Version \cup {None}
      /\ \/ d = durable[k]
         \/ d \in VersionsOf(pending[w], k) /\ Older(durable[k], d)
  BY <1>2, <1>3, NewestEffect
<1> HIDE DEF d
<1>5. CASE d = durable[k]
  <2>1. durable[k] = table[k] \/ Store!Older(durable[k], table[k])
    BY DEF JellyInv, HistoryInv, FilesLagBehind
  <2>2. durable'[k] = durable[k]
    BY <1>1, <1>5
  <2> QED BY <1>2, <2>1, <2>2
<1>6. CASE d \in VersionsOf(pending[w], k) /\ Older(durable[k], d)
  <2>1. PICK r \in pending[w] : fields[r][1] = k /\ fields[r][2] = d
    BY <1>6 DEF VersionsOf
  <2>2. fields[r] = <<k, d>>
    BY <1>2, <2>1, WaitingIsItem DEF Waiting
  <2>3. KnownToTable(r)
    BY DEF JellyInv, HistoryInv, PendingKnown
  <2>4. d # None
    BY <1>3, <1>6, VersionFacts
  <2> QED BY <1>1, <1>4, <1>6, <2>1, <2>2, <2>3, <2>4
            DEF KnownToTable, Older, Store!Older
<1> QED BY <1>4, <1>5, <1>6

LEMMA JellyFlushWAL ==
  ASSUME JellyInv, NEW w \in WAL, FlushWAL(w)
  PROVE  HistoryInv'
<1>1. /\ UNCHANGED <<fields, queue, table, written>>
      /\ pending' = [pending EXCEPT ![w] = {}]
  BY DEF FlushWAL, FlushPendingWAL
<1>2. \A x \in WAL : pending'[x] \subseteq pending[x]
  BY <1>1 DEF JellyInv, OwnInv, TypeOK
<1>3. AcceptedWritten'
  BY <1>1 DEF JellyInv, HistoryInv, AcceptedWritten, OutdatedAt
<1>4. PendingKnown'
  BY <1>1, <1>2 DEF JellyInv, HistoryInv, PendingKnown, KnownToTable
<1>5. FilesLagBehind'
  BY <1>1, FlushWALEffect DEF JellyInv, HistoryInv, FilesLagBehind
<1>6. NothingWithoutNode'
  BY DEF FlushWAL, NothingWithoutNode
<1> QED BY <1>3, <1>4, <1>5, <1>6 DEF HistoryInv

\* Steps that change the program counter or make the table durable.
LEMMA JellyOther ==
  ASSUME JellyInv, UNCHANGED <<fields, queue, pending, table, written>>,
         UNCHANGED durable \/ durable' = table,
         pc' = pc \/ pc' \in {"ready", "housekeeping"}
  PROVE  HistoryInv'
<1>1. AcceptedWritten' /\ PendingKnown'
  BY DEF JellyInv, HistoryInv, AcceptedWritten, OutdatedAt, PendingKnown,
         KnownToTable
<1>2. FilesLagBehind' /\ NothingWithoutNode'
  BY DEF JellyInv, HistoryInv, FilesLagBehind, NothingWithoutNode
<1> QED BY <1>1, <1>2 DEF HistoryInv

LEMMA JellyNext == JellyInv /\ [Next]_jellyVars => JellyInv'
<1> SUFFICES ASSUME JellyInv, [Next]_jellyVars PROVE HistoryInv'
  BY OwnNext DEF JellyInv
<1>1. CASE Open
  BY <1>1, JellyOpen
<1>2. CASE \E k \in Key, v \in Version : Set(k, v)
  BY <1>2, JellySet
<1>3. CASE UpdateExpired
  BY <1>3, JellyUpdateExpired
<1>4. CASE \E w \in WAL : FlushWAL(w)
  BY <1>4, JellyFlushWAL
<1>5. CASE UpdateEarly \/ FlushStore \/ UpdateReturns
  BY <1>5, JellyOther DEF UpdateEarly, FlushStore, UpdateReturns
<1>6. CASE RewriteFiles \/ UNCHANGED jellyVars
  BY <1>6, JellyOther DEF RewriteFiles, jellyVars
<1>7. CASE Close \/ DestroyMembers \/ Crash
  BY <1>7, JellyGone
<1> QED BY <1>1, <1>2, <1>3, <1>4, <1>5, <1>6, <1>7 DEF Next

THEOREM JellyInvariant == Spec => []JellyInv
BY JellyInit, JellyNext, PTL DEF Spec

-----------------------------------------------------------------------------
(* The backend implements the abstract store *)

NothingQueued == Len(queue) = 0

ContentIsTable == Processed = [q \in Key |-> table[q]]

LEMMA ProcessedOfEmpty == OwnInv /\ NothingQueued => ContentIsTable
<1> SUFFICES ASSUME OwnInv, Len(queue) = 0
             PROVE  Processed = [q \in Key |-> table[q]]
  BY DEF NothingQueued, ContentIsTable
<1>1. ASSUME NEW q \in Key PROVE Newest(table[q], ToSet(queue) \ Outdated, q) = table[q]
  <2>1. VersionsOf(ToSet(queue) \ Outdated, q) = {}
    BY QueueElements DEF VersionsOf
  <2>2. table[q] \in Version \cup {None}
    BY DEF OwnInv, TypeOK, Table
  <2> QED BY <2>1, <2>2, NewestEffect
<1> QED BY <1>1 DEF Processed

LEMMA OpenIsCreate == ASSUME JellyInv, Open PROVE Store!Create
<1>1. OwnInv' /\ NothingQueued' /\ table' = Empty
  BY JellyNext DEF NothingQueued, Open, JellyInv, HistoryInv, NothingWithoutNode, Next
<1>2. ContentIsTable'
  BY <1>1, ProcessedOfEmpty, PTL
<1>3. Processed' = Store!Empty
  BY <1>1, <1>2 DEF ContentIsTable, Empty, Store!Empty
<1> QED BY <1>3 DEF Open, Empty, Store!Empty, Store!Create

LEMMA SetIsSet ==
  ASSUME JellyInv, NEW k \in Key, NEW v \in Version, Set(k, v)
  PROVE  Store!Set(k, v) \/ UNCHANGED Store!storeVars
<1>1. /\ Processed' = IF Older(Processed[k], v)
                        THEN [Processed EXCEPT ![k] = v] ELSE Processed
      /\ UNCHANGED durable
      /\ written' = IF Older(Processed[k], v) THEN written \cup {<<k, v>>}
                                              ELSE written
  BY SetProcessed DEF Set, JellyInv
<1>2. CASE Older(Processed[k], v)
  BY <1>1, <1>2, VersionFacts DEF Older, Store!Older, Store!Set
<1>3. CASE ~Older(Processed[k], v)
  BY <1>1, <1>3 DEF Store!storeVars
<1> QED BY <1>2, <1>3

\* ProcessRequests moves content from the queue to the table, no more.
LEMMA UpdateIsStutter ==
  ASSUME JellyInv, UpdateExpired
  PROVE  UNCHANGED Store!storeVars
<1>1. OwnInv' /\ NothingQueued' /\ table' = Processed
  BY OwnUpdateExpired DEF NothingQueued, UpdateExpired, ProcessRequests, JellyInv
<1>2. ContentIsTable'
  BY <1>1, ProcessedOfEmpty, PTL
<1>3. Processed' = Processed
  BY <1>1, <1>2 DEF ContentIsTable, Processed
<1> QED BY <1>3 DEF UpdateExpired, Store!storeVars

\* A step that leaves the node's lists alone does not change the content.
LEMMA ContentUnchanged ==
  ASSUME UNCHANGED <<fields, queue, table>>
  PROVE  Processed' = Processed
<1>1. Outdated' = Outdated
  BY DEF Outdated, OutdatedAt
<1>2. \A k : Newest(table[k], ToSet(queue) \ Outdated, k)'
               = Newest(table[k], ToSet(queue) \ Outdated, k)
  BY <1>1 DEF Newest
<1> QED BY <1>2 DEF Processed

(***************************************************************************)
(* The files catch up with the table, which is the content or older.       *)
(***************************************************************************)
LEMMA FlushIsPersist ==
  ASSUME JellyInv, FlushStore \/ \E w \in WAL : FlushWAL(w)
  PROVE  Store!Persist
<1>1. /\ Processed' = Processed /\ written' = written
      /\ OwnInv' /\ durable' \in Table
  BY ContentUnchanged, JellyNext
     DEF FlushStore, FlushWAL, FlushPendingWAL, Next, JellyInv, OwnInv, TypeOK, Table
<1>2. ASSUME NEW k \in Key
      PROVE  \/ durable'[k] = durable[k]
             \/ /\ Store!Older(durable[k], durable'[k])
                /\ <<k, durable'[k]>> \in written
                /\ \/ durable'[k] = Processed[k]
                   \/ Store!Older(durable'[k], Processed[k])
  <2>1. /\ table[k] \in Version \cup {None} /\ durable'[k] \in Version \cup {None}
        /\ Processed[k] \in Version \cup {None}
        /\ Processed[k] = table[k] \/ Store!Older(table[k], Processed[k])
    BY <1>1, ProcessedEffect DEF JellyInv, OwnInv, TypeOK, Table
  <2>2. /\ \/ durable'[k] = durable[k]
           \/ /\ Store!Older(durable[k], durable'[k])
              /\ <<k, durable'[k]>> \in written
        /\ durable'[k] = table[k] \/ Store!Older(durable'[k], table[k])
    <3>1. CASE FlushStore
      BY <3>1 DEF FlushStore, JellyInv, HistoryInv, FilesLagBehind, Store!Older
    <3>2. CASE \E w \in WAL : FlushWAL(w)
      BY <3>2, FlushWALEffect
    <3> QED BY <3>1, <3>2
  <2> QED BY <2>1, <2>2, OlderTransitive
<1> QED BY <1>1, <1>2 DEF Store!Persist, Store!Version, Version, Table

LEMMA EndIsLose ==
  ASSUME JellyInv, Close \/ DestroyMembers \/ Crash
  PROVE  Store!Lose
<1>1. OwnInv' /\ NodeGone
  BY JellyNext DEF Next, JellyInv, Close, DestroyMembers, Crash
<1>2. NothingQueued' /\ table' = durable /\ UNCHANGED <<durable, written>>
  BY <1>1 DEF NodeGone, NothingQueued
<1>3. ContentIsTable'
  BY <1>1, <1>2, ProcessedOfEmpty, PTL
<1>4. durable = [q \in Key |-> durable[q]]
  BY DEF JellyInv, OwnInv, TypeOK, Table
<1> QED BY <1>2, <1>3, <1>4 DEF ContentIsTable, Store!Lose

(***************************************************************************)
(* Every behaviour of the backend is one of the abstract store: requests   *)
(* that complete out of order, WALs that are flushed in any order, kills   *)
(* and restarts included, the newest version of a key wins and the files   *)
(* never hold anything newer than, or not in, what was set.                *)
(***************************************************************************)
THEOREM BackendImplementsStore == Spec => ImplementsBlobStore
<1>1. Init => Store!Init
  <2> SUFFICES ASSUME Init PROVE Store!Init
    OBVIOUS
  <2>1. OwnInv /\ Len(queue) = 0 /\ table = Empty
    BY OwnInit DEF Init
  <2>2. Processed = Store!Empty
    BY <2>1, ProcessedOfEmpty
       DEF NothingQueued, ContentIsTable, Empty, Store!Empty
  <2> QED BY <2>2 DEF Init, Empty, Store!Empty, Store!Init
<1>2. ASSUME JellyInv, [Next]_jellyVars PROVE [Store!Next]_Store!storeVars
  <2>1. CASE Open
    BY <1>2, <2>1, OpenIsCreate DEF Store!Next
  <2>2. CASE \E k \in Key, v \in Version : Set(k, v)
    BY <1>2, <2>2, SetIsSet DEF Store!Next, Store!Version, Version
  <2>3. CASE UpdateExpired
    BY <1>2, <2>3, UpdateIsStutter
  <2>4. CASE FlushStore \/ \E w \in WAL : FlushWAL(w)
    BY <1>2, <2>4, FlushIsPersist DEF Store!Next
  <2>5. CASE \/ UpdateEarly \/ UpdateReturns \/ RewriteFiles
             \/ UNCHANGED jellyVars
    BY <2>5, ContentUnchanged
       DEF UpdateEarly, UpdateReturns, RewriteFiles, jellyVars, Store!storeVars
  <2>6. CASE Close \/ DestroyMembers \/ Crash
    BY <1>2, <2>6, EndIsLose DEF Store!Next
  <2> QED BY <1>2, <2>1, <2>2, <2>3, <2>4, <2>5, <2>6 DEF Next
<1> QED BY <1>1, <1>2, JellyInvariant, PTL DEF Spec, ImplementsBlobStore, Store!Spec
=============================================================================
