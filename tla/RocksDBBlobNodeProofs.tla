------------------------ MODULE RocksDBBlobNodeProofs ------------------------
(***************************************************************************)
(* Proofs about RocksDBBlobNode, for any keys, blobs and numbers and a log *)
(* of any length.                                                          *)
(***************************************************************************)
EXTENDS RocksDBBlobNode, SequenceTheorems, WellFoundedInduction, TLAPS

USE SeqAssumption, NoneAssumption

-----------------------------------------------------------------------------
(***************************************************************************)
(* Looking up the log                                                      *)
(***************************************************************************)
\* A set of numbers up to n that is not empty has a maximum.
LEMMA MaxOfSome ==
  ASSUME NEW n \in Nat, NEW S \in SUBSET (1 .. n), S # {}
  PROVE  Max(S) \in S /\ \A j \in S : j <= Max(S)
<1> DEFINE R == OpToRel(<, Nat)
           T == {n - j : j \in S}
<1>1. IsWellFoundedOn(R, Nat) /\ R = {p \in Nat \X Nat : p[1] < p[2]}
  BY NatLessThanWellFounded DEF OpToRel
<1>2. /\ \A j \in S : n - j \in T /\ n - j \in Nat /\ j \in 1 .. n
      /\ T \in SUBSET Nat /\ T # {}
  <2>1. \A j \in S : n - j \in T
    OBVIOUS
  <2>2. \A j \in S : n - j \in Nat /\ j \in 1 .. n
    OBVIOUS
  <2>3. T \in SUBSET Nat
    BY <2>2
  <2>4. T # {}
    BY <2>1
  <2> QED BY <2>1, <2>2, <2>3, <2>4
<1> HIDE DEF R
<1>3. PICK t \in T : \A u \in T : ~(<<u, t>> \in R)
  BY <1>1, <1>2, WFMin
<1>4. PICK m \in S : t = n - m
  OBVIOUS
<1>5. \A j \in S : ~(n - j < n - m)
  BY <1>1, <1>2, <1>3, <1>4
<1>6. \A j \in S : m >= j
  BY <1>2, <1>5
<1>7. Max(S) \in S /\ \A j \in S : Max(S) >= j
  BY <1>6 DEF Max
<1> QED BY <1>2, <1>7

\* The log s has a Put to key k of family f at i.
IsPut(s, f, k, i) == s[i].family = f /\ s[i].key = k

\* LastPut and Row, of any log.
LastIn(s, f, k, n) ==
  SelectLastInSeq(SubSeq(s, 1, n), LAMBDA p : p.family = f /\ p.key = k)

RowIn(s, f, k, n) ==
  LET i == LastIn(s, f, k, n) IN IF i = 0 THEN None ELSE s[i].value

LEMMA LookUps ==
  /\ \A f, k, n : LastPut(f, k, n) = LastIn(log, f, k, n)
  /\ \A f, k, n : Row(f, k, n) = RowIn(log, f, k, n)
  /\ \A f, k, n : LastPut(f, k, n)' = LastIn(log', f, k, n)
  /\ \A f, k, n : Row(f, k, n)' = RowIn(log', f, k, n)
<1>1. \A f, k, n : LastPut(f, k, n) = LastIn(log, f, k, n)
  BY Zenon DEF LastPut, LastIn, SelectLastInSeq
<1>2. \A f, k, n : LastPut(f, k, n)' = LastIn(log', f, k, n)
  BY Zenon DEF LastPut, LastIn, SelectLastInSeq
<1>3. \A f, k, n : Row(f, k, n) = RowIn(log, f, k, n)
  BY <1>1, Zenon DEF Row, RowIn
<1>4. \A f, k, n : Row(f, k, n)' = RowIn(log', f, k, n)
  BY <1>2, Zenon DEF Row, RowIn
<1> QED BY <1>1, <1>2, <1>3, <1>4

\* LastIn is the greatest of the first n indexes with such a Put, or 0.
LEMMA LastInIs ==
  ASSUME NEW s \in Seq(PutRecord), NEW n \in 0 .. Len(s), NEW f, NEW k
  PROVE  /\ LastIn(s, f, k, n) \in 0 .. n
         /\ LastIn(s, f, k, n) # 0 => IsPut(s, f, k, LastIn(s, f, k, n))
         /\ \A i \in 1 .. n : IsPut(s, f, k, i) => i <= LastIn(s, f, k, n)
<1> DEFINE t == SubSeq(s, 1, n)
           I == {i \in 1 .. n : IsPut(s, f, k, i)}
<1>1. Len(t) = n /\ \A i \in 1 .. n : t[i] = s[i]
  OBVIOUS
<1>2. {i \in 1 .. Len(t) : t[i].family = f /\ t[i].key = k} = I
  BY <1>1 DEF IsPut
<1>3. LastIn(s, f, k, n) = IF I # {} THEN Max(I) ELSE 0
  BY <1>2, Zenon DEF LastIn, SelectLastInSeq
<1>4. n \in Nat /\ I \in SUBSET (1 .. n)
  OBVIOUS
<1> HIDE DEF t
<1>5. CASE I = {}
  BY <1>3, <1>4, <1>5
<1>6. CASE I # {}
  <2> DEFINE m == Max(I)
  <2>1. m \in I /\ \A j \in I : j <= m
    BY <1>4, <1>6, MaxOfSome
  <2>2. LastIn(s, f, k, n) = m
    BY <1>3, <1>6
  <2> HIDE DEF m
  <2> QED BY <1>4, <2>1, <2>2
<1> QED BY <1>5, <1>6

\* Logs that agree on the first n Puts have the same last ones.
LEMMA LastInAgrees ==
  ASSUME NEW s \in Seq(PutRecord), NEW t \in Seq(PutRecord),
         NEW n \in 0 .. Len(s), n <= Len(t), \A i \in 1 .. n : s[i] = t[i],
         NEW f, NEW k
  PROVE  /\ LastIn(s, f, k, n) = LastIn(t, f, k, n)
         /\ RowIn(s, f, k, n) = RowIn(t, f, k, n)
<1>1. SubSeq(s, 1, n) = SubSeq(t, 1, n)
  OBVIOUS
<1>2. LastIn(s, f, k, n) = LastIn(t, f, k, n)
  BY <1>1, Zenon DEF LastIn
<1>3. LastIn(s, f, k, n) \in 0 .. n
  BY LastInIs
<1> QED BY <1>2, <1>3 DEF RowIn

-----------------------------------------------------------------------------
(***************************************************************************)
(* The inductive invariant.  Which Put belongs to which is a matter of     *)
(* order only, so it says that blobs and numbers alternate in the log,     *)
(* that each pair is of one item, and that each number is greater than     *)
(* those of the same key before it, unless a Get has failed.  A machine's  *)
(* crash may end the log between the two, but then no Set follows.         *)
(***************************************************************************)
\* What the constructor has made of the directory.
Opening ==
  /\ pc = "create" => families = {}
  /\ pc = "family" => families = {"default"}
  /\ pc \in {"delete", "open", "ready", "put"} => families = Descriptors
  /\ pc \in {"create", "family", "delete", "open"} => log = << >>

Alternating ==
  /\ log # << >> => log[1].family = "default"
  /\ \A i \in 1 .. Len(log) - 1 :
       IF log[i].family = "default"
       THEN log[i + 1].family = "seq" /\ log[i + 1].key = log[i].key
       ELSE log[i + 1].family = "default"

\* Each number of key k among the first n Puts is less than s.
Exceeds(s, k, n) ==
  \A j \in 1 .. n : IsPut(log, "seq", k, j) => log[j].value < s

\* The blob put at i is that of version v, as is the number after it.
BlobOf(i, v) ==
  /\ log[i].value = v.blob
  /\ <<log[i].key, v>> \in written \cup {item}
  /\ i < Len(log) => /\ log[i + 1].value = v.seq
                     /\ <<log[i].key, v>> \in written
  /\ readFailed \/ Exceeds(v.seq, log[i].key, i)

InPairs ==
  \A i \in 1 .. Len(log) :
    log[i].family = "default" => \E v \in Version : BlobOf(i, v)

Between ==
  /\ pc = "ready" /\ log # << >> => log[Len(log)].family = "seq"
  /\ pc = "put" => /\ item \in Item
                   /\ log # << >>
                   /\ log[Len(log)] = Puts(item[1], item[2])[1]
                   /\ BlobOf(Len(log), item[2])

NodeInv ==
  /\ TypeOK
  /\ OpensWhateverWasLeft
  /\ Opening
  /\ Alternating
  /\ InPairs
  /\ Between

-----------------------------------------------------------------------------
(* Consequences of the invariant *)

LEMMA PutTypes ==
  /\ \A p \in PutRecord :
       /\ p.family \in {"default", "seq"} /\ p.key \in Key /\ p.value # None
       /\ p.family = "default" => p.value \in Blob
       /\ p.family = "seq" => p.value \in SeqNo /\ p.value \in Nat
  /\ \A k \in Key, v \in Version :
       /\ v.seq \in SeqNo /\ v.seq \in Nat /\ v.blob \in Blob
       /\ Puts(k, v) = <<[family |-> "default", key |-> k, value |-> v.blob],
                         [family |-> "seq", key |-> k, value |-> v.seq]>>
       /\ Puts(k, v)[1] \in PutRecord /\ Puts(k, v)[2] \in PutRecord
<1>1. ASSUME NEW p \in PutRecord
      PROVE  /\ p.family \in {"default", "seq"} /\ p.key \in Key /\ p.value # None
             /\ p.family = "default" => p.value \in Blob
             /\ p.family = "seq" => p.value \in SeqNo /\ p.value \in Nat
  <2>1. CASE p \in [family : {"default"}, key : Key, value : Blob]
    BY <2>1
  <2>2. CASE p \in [family : {"seq"}, key : Key, value : SeqNo]
    BY <2>2
  <2> QED BY <2>1, <2>2 DEF PutRecord
<1>2. ASSUME NEW k \in Key, NEW v \in Version
      PROVE  /\ v.seq \in SeqNo /\ v.seq \in Nat /\ v.blob \in Blob
             /\ Puts(k, v)[1] \in PutRecord /\ Puts(k, v)[2] \in PutRecord
  BY DEF Version, Puts, PutRecord
<1> QED BY <1>1, <1>2 DEF Puts

\* A number follows the blob of the same key.
LEMMA NumberFollowsBlob ==
  ASSUME NodeInv, NEW i \in 1 .. Len(log), log[i].family = "seq"
  PROVE  /\ i > 1
         /\ log[i - 1].family = "default" /\ log[i - 1].key = log[i].key
<1>1. log \in Seq(PutRecord) /\ Alternating
  BY DEF NodeInv, TypeOK
<1>2. i > 1
  BY <1>1 DEF Alternating
<1>3. i - 1 \in 1 .. Len(log) - 1 /\ i - 1 + 1 = i
  BY <1>1, <1>2
<1>4. log[i - 1].family \in {"default", "seq"}
  BY <1>1, <1>3, PutTypes
<1> QED BY <1>1, <1>2, <1>3, <1>4 DEF Alternating

\* The version of which the number is put at i.
LEMMA NumberOf ==
  ASSUME NodeInv, NEW i \in 1 .. Len(log), log[i].family = "seq"
  PROVE  LET v == [seq |-> log[i].value, blob |-> log[i - 1].value]
         IN  /\ v \in Version
             /\ <<log[i].key, v>> \in written
             /\ readFailed \/ Exceeds(log[i].value, log[i].key, i - 1)
<1>1. log \in Seq(PutRecord) /\ InPairs
  BY DEF NodeInv, TypeOK
<1>2. /\ i - 1 \in 1 .. Len(log) /\ i - 1 < Len(log) /\ i - 1 + 1 = i
      /\ log[i - 1].family = "default" /\ log[i - 1].key = log[i].key
  BY <1>1, NumberFollowsBlob
<1>3. PICK v \in Version : BlobOf(i - 1, v)
  BY <1>1, <1>2 DEF InPairs
<1>4. /\ v.seq = log[i].value /\ v.blob = log[i - 1].value
      /\ <<log[i].key, v>> \in written
      /\ readFailed \/ Exceeds(v.seq, log[i].key, i - 1)
  BY <1>2, <1>3 DEF BlobOf
<1>5. v = [seq |-> log[i].value, blob |-> log[i - 1].value]
  BY <1>4 DEF Version
<1> QED BY <1>4, <1>5

-----------------------------------------------------------------------------
(* Initial states and steps that put nothing *)

LEMMA EmptyLog == << >> \in Seq(PutRecord) /\ Len(<< >>) = 0
OBVIOUS

LEMMA InitInv == Init => NodeInv
<1> SUFFICES ASSUME Init PROVE NodeInv
  OBVIOUS
<1>1. TypeOK
  <2>1. log \in Seq(PutRecord) /\ synced \in 0 .. Len(log)
    BY EmptyLog DEF Init
  <2> QED BY <2>1 DEF Init, TypeOK
<1>2. OpensWhateverWasLeft /\ Opening
  BY DEF Init, OpensWhateverWasLeft, Opening
<1>3. Alternating /\ InPairs /\ Between
  BY DEF Init, Alternating, InPairs, Between
<1> QED BY <1>1, <1>2, <1>3 DEF NodeInv

\* The invariant says of synced only that it is within the log.
LEMMA SameLogInv ==
  ASSUME NodeInv, UNCHANGED <<log, item, readFailed, written>>,
         pc' \in {"off", "create", "family", "delete", "open", "ready"},
         failure' \in {"none", "engine", "vanished"},
         families' \subseteq Family,
         compression' \in {None, Compression, DefaultCompression},
         synced' \in 0 .. Len(log),
         Opening', pc' = "ready" => pc = "ready" \/ log = << >>
  PROVE  NodeInv'
<1>1. TypeOK'
  BY DEF NodeInv, TypeOK
<1>2. OpensWhateverWasLeft'
  BY DEF OpensWhateverWasLeft
<1>3. Alternating' /\ Between'
  BY DEF NodeInv, Alternating, Between
<1>4. InPairs'
  <2>1. log' = log /\ item' = item /\ readFailed' = readFailed /\ written' = written
    OBVIOUS
  <2>2. \A i \in 1 .. Len(log), v \in Version : BlobOf(i, v) => BlobOf(i, v)'
    BY <2>1 DEF BlobOf, Exceeds, IsPut
  <2> QED BY <2>1, <2>2 DEF NodeInv, InPairs
<1> QED BY <1>1, <1>2, <1>3, <1>4 DEF NodeInv

\* The constructor deletes what there was.
LEMMA EmptyLogInv ==
  ASSUME NodeInv, RemoveAll \/ RemoveInterrupted
  PROVE  NodeInv'
<1>1. TypeOK'
  <2>1. /\ pc' \in {"off", "create"} /\ failure' = "none"
        /\ families' \in {{}, families} /\ compression' = compression
        /\ log' = << >> /\ synced' = 0 /\ item' = None
        /\ readFailed' = FALSE /\ written' = {}
    BY DEF NodeInv, TypeOK, RemoveAll, RemoveInterrupted
  <2>2. families' \subseteq Family /\ log' \in Seq(PutRecord)
        /\ synced' \in 0 .. Len(log')
    BY <2>1, EmptyLog DEF NodeInv, TypeOK
  <2> QED BY <2>1, <2>2 DEF NodeInv, TypeOK
<1>2. OpensWhateverWasLeft' /\ Opening'
  BY DEF OpensWhateverWasLeft, Opening, RemoveAll, RemoveInterrupted
<1>3. log' = << >> /\ pc' \in {"off", "create"}
  BY DEF RemoveAll, RemoveInterrupted
<1>4. Alternating' /\ InPairs' /\ Between'
  BY <1>3 DEF Alternating, InPairs, Between
<1> QED BY <1>1, <1>2, <1>4 DEF NodeInv

LEMMA OpeningInv ==
  ASSUME NodeInv,
         CreateDatabase \/ CreateColumnFamily \/ DeleteTempDB \/ OpenDatabase
  PROVE  NodeInv'
<1>1. TypeOK /\ Opening /\ OpensWhateverWasLeft
  BY DEF NodeInv
<1>2. /\ UNCHANGED <<log, item, readFailed, written, synced, failure>>
      /\ pc \in {"create", "family", "delete", "open"}
      /\ pc' \in {"family", "delete", "open", "ready"}
      /\ compression' \in {compression, None, Compression, DefaultCompression}
  BY Zenon DEF CreateDatabase, CreateColumnFamily, DeleteTempDB, OpenDatabase,
               Opened
<1>3. families' \subseteq Family /\ Opening'
  BY <1>1 DEF TypeOK, CreateDatabase, CreateColumnFamily, DeleteTempDB,
              OpenDatabase, Opening, Family, Descriptors
<1>4. failure' \in {"none", "engine", "vanished"} /\ synced' \in 0 .. Len(log)
  BY <1>1, <1>2 DEF TypeOK, OpensWhateverWasLeft
<1>5. compression' \in {None, Compression, DefaultCompression} /\ log = << >>
  BY <1>1, <1>2 DEF TypeOK, Opening
<1> QED BY <1>2, <1>3, <1>4, <1>5, SameLogInv

\* No Open finds a database that is in its way, or a family that is missing.
LEMMA EndOfProcess ==
  ASSUME NodeInv,
         OpenAborts \/ SetAborts \/ GetDiskSpaceUsedThrows \/ Close \/ Kill
  PROVE  Abort("engine") \/ Abort("vanished") \/ Abort("none")
<1>1. OpenAborts => Abort("engine")
  <2>1. pc \in {"create", "family", "delete", "open"} => OpenFailure = {"engine"}
    BY DEF NodeInv, Opening, Descriptors, OpenFailure
  <2> QED BY <2>1 DEF OpenAborts
<1> QED BY <1>1 DEF SetAborts, GetDiskSpaceUsedThrows, Close, Kill

LEMMA EndInv ==
  ASSUME NodeInv, Abort("engine") \/ Abort("vanished") \/ Abort("none")
  PROVE  NodeInv'
<1>1. /\ pc' = "off" /\ failure' \in {"none", "engine", "vanished"}
      /\ compression' = None
      /\ UNCHANGED <<families, log, synced, item, readFailed, written>>
  BY DEF Abort, Gone
<1>2. Opening'
  BY <1>1 DEF Opening
<1> QED BY <1>1, <1>2, SameLogInv DEF NodeInv, TypeOK

LEMMA SyncInv ==
  ASSUME NodeInv, Flush \/ BackgroundSync
  PROVE  NodeInv'
<1>1. /\ UNCHANGED <<pc, failure, families, compression, log, item, readFailed,
                     written>>
      /\ synced' \in 0 .. Len(log)
  BY DEF NodeInv, TypeOK, Flush, BackgroundSync
<1>2. TypeOK'
  BY <1>1 DEF NodeInv, TypeOK
<1>3. OpensWhateverWasLeft' /\ Opening' /\ Alternating' /\ Between'
  BY <1>1 DEF NodeInv, OpensWhateverWasLeft, Opening, Alternating, Between,
              BlobOf, Exceeds, IsPut
<1>4. InPairs'
  BY <1>1 DEF NodeInv, InPairs, BlobOf, Exceeds, IsPut
<1> QED BY <1>2, <1>3, <1>4 DEF NodeInv

-----------------------------------------------------------------------------
(* A crash of the machine *)

LEMMA CrashEffect ==
  ASSUME NodeInv, MachineCrash
  PROVE  /\ log' \in Seq(PutRecord) /\ Len(log') = synced
         /\ synced \in 0 .. Len(log)
         /\ \A i \in 1 .. synced : log'[i] = log[i]
<1>1. log \in Seq(PutRecord) /\ synced \in 0 .. Len(log)
  BY DEF NodeInv, TypeOK
<1> QED BY <1>1 DEF MachineCrash

LEMMA CrashInv ==
  ASSUME NodeInv, MachineCrash
  PROVE  NodeInv'
<1>1. /\ pc' = "off" /\ failure' = "none" /\ compression' = None
      /\ UNCHANGED <<families, synced, item, readFailed, written>>
  BY DEF MachineCrash
<1>2. /\ log' \in Seq(PutRecord) /\ Len(log') = synced
      /\ synced \in 0 .. Len(log)
      /\ \A i \in 1 .. synced : log'[i] = log[i]
  BY CrashEffect
<1>3. TypeOK'
  BY <1>1, <1>2 DEF NodeInv, TypeOK
<1>4. OpensWhateverWasLeft' /\ Opening' /\ Between'
  BY <1>1 DEF OpensWhateverWasLeft, Opening, Between
<1>5. log \in Seq(PutRecord) /\ Alternating /\ InPairs
  BY DEF NodeInv, TypeOK
<1>6. Alternating'
  <2>1. log' # << >> => log'[1].family = "default"
    BY <1>2, <1>5 DEF Alternating
  <2>2. ASSUME NEW i \in 1 .. Len(log') - 1
        PROVE  IF log'[i].family = "default"
               THEN log'[i + 1].family = "seq" /\ log'[i + 1].key = log'[i].key
               ELSE log'[i + 1].family = "default"
    <3>1. i \in 1 .. Len(log) - 1 /\ log'[i] = log[i] /\ log'[i + 1] = log[i + 1]
      BY <1>2, <1>5
    <3> QED BY <1>5, <3>1 DEF Alternating
  <2> QED BY <2>1, <2>2 DEF Alternating
<1>7. InPairs'
  <2> SUFFICES ASSUME NEW i \in 1 .. Len(log'), log'[i].family = "default"
               PROVE  \E v \in Version : BlobOf(i, v)'
    BY DEF InPairs
  <2>1. i \in 1 .. Len(log) /\ log'[i] = log[i]
    BY <1>2, <1>5
  <2>2. PICK v \in Version : BlobOf(i, v)
    BY <1>5, <2>1 DEF InPairs
  <2>3. i < Len(log') => i < Len(log) /\ log'[i + 1] = log[i + 1]
    BY <1>2, <1>5
  <2>4. Exceeds(v.seq, log[i].key, i) => Exceeds(v.seq, log[i].key, i)'
    <3>1. \A j \in 1 .. i : log'[j] = log[j]
      BY <1>2, <2>1
    <3> QED BY <2>1, <3>1 DEF Exceeds, IsPut
  <2> QED BY <1>1, <2>1, <2>2, <2>3, <2>4 DEF BlobOf
<1> QED BY <1>3, <1>4, <1>6, <1>7 DEF NodeInv

-----------------------------------------------------------------------------
(* The two Puts of Set *)

LEMMA PutEffect ==
  ASSUME NodeInv, NEW p \in PutRecord, Put(p)
  PROVE  /\ log' \in Seq(PutRecord) /\ Len(log) \in Nat
         /\ Len(log') = Len(log) + 1
         /\ \A i \in 1 .. Len(log) : log'[i] = log[i]
         /\ log'[Len(log) + 1] = p
         /\ UNCHANGED <<failure, families, compression, synced>>
         /\ synced' \in 0 .. Len(log')
<1>1. log \in Seq(PutRecord) /\ synced \in 0 .. Len(log)
  BY DEF NodeInv, TypeOK
<1>2. log' = Append(log, p) /\ UNCHANGED <<failure, families, compression, synced>>
  BY DEF Put
<1> QED BY <1>1, <1>2

LEMMA PutAlternates ==
  ASSUME NodeInv, NEW p \in PutRecord, Put(p),
         log = << >> => p.family = "default",
         log # << >> => IF log[Len(log)].family = "default"
                        THEN p.family = "seq" /\ p.key = log[Len(log)].key
                        ELSE p.family = "default"
  PROVE  Alternating'
<1>1. log \in Seq(PutRecord) /\ Alternating
  BY DEF NodeInv, TypeOK
<1>2. /\ log' \in Seq(PutRecord) /\ Len(log) \in Nat
      /\ Len(log') = Len(log) + 1
      /\ \A i \in 1 .. Len(log) : log'[i] = log[i]
      /\ log'[Len(log) + 1] = p
  BY PutEffect
<1>3. log' # << >> => log'[1].family = "default"
  <2>1. CASE log = << >>
    BY <1>2, <2>1
  <2>2. CASE log # << >>
    BY <1>1, <1>2, <2>2 DEF Alternating
  <2> QED BY <2>1, <2>2
<1>4. ASSUME NEW i \in 1 .. Len(log') - 1
      PROVE  IF log'[i].family = "default"
             THEN log'[i + 1].family = "seq" /\ log'[i + 1].key = log'[i].key
             ELSE log'[i + 1].family = "default"
  <2>1. CASE i = Len(log)
    <3>1. log # << >> /\ log'[i] = log[Len(log)] /\ log'[i + 1] = p
      BY <1>1, <1>2, <2>1
    <3> QED BY <3>1
  <2>2. CASE i # Len(log)
    <3>1. i \in 1 .. Len(log) - 1 /\ log'[i] = log[i] /\ log'[i + 1] = log[i + 1]
      BY <1>1, <1>2, <2>2
    <3> QED BY <1>1, <3>1 DEF Alternating
  <2> QED BY <2>1, <2>2
<1> QED BY <1>3, <1>4 DEF Alternating

\* The number that Get finds is the greatest of the key's.
LEMMA NotStale ==
  ASSUME NodeInv, NEW k \in Key, NEW s \in SeqNo, ~Stale(ExistingSeq(k), s)
  PROVE  readFailed \/ Exceeds(s, k, Len(log))
<1> DEFINE n == Len(log)
           q == LastIn(log, "seq", k, n)
<1> SUFFICES ASSUME ~readFailed, NEW j \in 1 .. n, IsPut(log, "seq", k, j)
             PROVE  log[j].value < s
  BY DEF Exceeds
<1>1. log \in Seq(PutRecord) /\ n \in 0 .. Len(log)
  BY DEF NodeInv, TypeOK
<1> HIDE DEF n
<1>2. q \in 0 .. n /\ j <= q /\ (q # 0 => IsPut(log, "seq", k, q))
  BY <1>1, LastInIs
<1>3. q # 0 /\ IsPut(log, "seq", k, q) /\ q \in 1 .. Len(log)
  BY <1>1, <1>2
<1>4. ExistingSeq(k) = log[q].value
  BY <1>3, LookUps DEF ExistingSeq, RowIn, n
<1> HIDE DEF q
<1>5. log[q].value \in Nat /\ log[q].value # None /\ log[j].value \in Nat
  BY <1>1, <1>3, PutTypes DEF IsPut
<1>6. log[q].value < s
  <2>1. ~(log[q].value >= s)
    BY <1>4, <1>5, Zenon DEF Stale
  <2>2. s \in Nat
    OBVIOUS
  <2> QED BY <1>5, <2>1, <2>2
<1>7. Exceeds(log[q].value, k, q - 1)
  BY <1>3, NumberOf DEF IsPut
<1>8. j # q => log[j].value < log[q].value
  BY <1>2, <1>3, <1>7 DEF Exceeds
<1> QED BY <1>5, <1>6, <1>8

LEMMA SetBlobInv ==
  ASSUME NodeInv, NEW k \in Key, NEW v \in Version, SetBlob(k, v)
  PROVE  NodeInv'
<1> DEFINE p == Puts(k, v)[1]
<1>0. PICK n \in Nat : n = Len(log)
  BY DEF NodeInv, TypeOK
<1>1. /\ p \in PutRecord /\ p.family = "default" /\ p.key = k /\ p.value = v.blob
      /\ v.seq \in SeqNo
  BY PutTypes
<1> HIDE DEF p
<1>2. pc = "ready" /\ pc' = "put" /\ item' = <<k, v>> /\ written' = written
  BY DEF SetBlob
<1>3. Put(p)
  BY DEF SetBlob, p
<1>4. \/ readFailed' = TRUE
      \/ readFailed' = readFailed /\ ~Stale(ExistingSeq(k), v.seq)
  BY Zenon DEF SetBlob
<1>5. /\ log' \in Seq(PutRecord) /\ n \in Nat /\ Len(log') = n + 1
      /\ \A i \in 1 .. n : log'[i] = log[i]
      /\ log'[n + 1] = p
      /\ UNCHANGED <<failure, families, compression, synced>>
      /\ synced' \in 0 .. Len(log')
  BY <1>0, <1>1, <1>3, PutEffect
<1>6. /\ TypeOK /\ log \in Seq(PutRecord) /\ InPairs /\ Opening
      /\ OpensWhateverWasLeft /\ (log # << >> => log[n].family = "seq")
  BY <1>0, <1>2 DEF NodeInv, TypeOK, Between
<1>7. TypeOK'
  <2>1. item' \in Item /\ readFailed' \in BOOLEAN
    BY <1>2, <1>4, <1>6 DEF Item, TypeOK
  <2> QED BY <1>2, <1>5, <1>6, <2>1 DEF TypeOK
<1>8. OpensWhateverWasLeft' /\ Opening'
  BY <1>2, <1>5, <1>6 DEF OpensWhateverWasLeft, Opening
<1>9. Alternating'
  BY <1>0, <1>1, <1>3, <1>6, PutAlternates
<1>10. readFailed' \/ Exceeds(v.seq, k, n)
  <2>1. ASSUME ~Stale(ExistingSeq(k), v.seq)
        PROVE  readFailed \/ Exceeds(v.seq, k, n)
    BY <1>0, <1>1, <2>1, NotStale
  <2>2. CASE readFailed' = TRUE
    BY <2>2
  <2>3. CASE readFailed' = readFailed /\ ~Stale(ExistingSeq(k), v.seq)
    BY <2>1, <2>3
  <2> QED BY <1>4, <2>2, <2>3, Zenon
<1>11. BlobOf(n + 1, v)'
  <2>1. readFailed' \/ Exceeds(v.seq, k, n + 1)'
    <3>1. \A j \in 1 .. n + 1 : IsPut(log, "seq", k, j)'
                                  => j \in 1 .. n /\ IsPut(log, "seq", k, j)
      BY <1>1, <1>5 DEF IsPut
    <3> QED BY <1>5, <1>10, <3>1 DEF Exceeds
  <2> QED BY <1>1, <1>2, <1>5, <2>1 DEF BlobOf
<1>12. InPairs'
  <2> SUFFICES ASSUME NEW i \in 1 .. Len(log'), log'[i].family = "default",
                      i # n + 1
               PROVE  \E w \in Version : BlobOf(i, w)'
    BY <1>1, <1>11, <1>5 DEF InPairs
  <2>1. i \in 1 .. n /\ log'[i] = log[i] /\ log # << >>
    BY <1>0, <1>5, <1>6
  <2>2. i < n /\ i + 1 \in 1 .. n /\ log'[i + 1] = log[i + 1]
    BY <1>5, <1>6, <2>1
  <2>3. PICK w \in Version : BlobOf(i, w)
    BY <1>0, <1>6, <2>1 DEF InPairs
  <2>4. Exceeds(w.seq, log[i].key, i) => Exceeds(w.seq, log[i].key, i)'
    <3>1. \A j \in 1 .. i : log'[j] = log[j]
      BY <1>5, <2>2
    <3> QED BY <2>1, <3>1 DEF Exceeds, IsPut
  <2>5. readFailed => readFailed'
    BY <1>4
  <2>6. BlobOf(i, w)'
    BY <1>0, <1>2, <2>1, <2>2, <2>3, <2>4, <2>5 DEF BlobOf
  <2> QED BY <2>6
<1>13. Between'
  <2>1. item' \in Item /\ item'[1] = k /\ item'[2] = v /\ log' # << >>
    BY <1>2, <1>5 DEF Item
  <2> QED BY <1>2, <1>5, <1>11, <2>1 DEF Between, p, Puts
<1> QED BY <1>7, <1>8, <1>9, <1>12, <1>13 DEF NodeInv

LEMMA SetSeqInv ==
  ASSUME NodeInv, SetSeq
  PROVE  NodeInv'
<1>0. PICK n \in Nat : n = Len(log)
  BY DEF NodeInv, TypeOK
<1>1. PICK k \in Key, v \in Version : item = <<k, v>>
  BY DEF NodeInv, Between, SetSeq, Item
<1> DEFINE p == Puts(k, v)[2]
<1>2. /\ p \in PutRecord /\ p.family = "seq" /\ p.key = k /\ p.value = v.seq
      /\ Puts(k, v)[1].family = "default" /\ Puts(k, v)[1].key = k
  BY PutTypes
<1>3. /\ pc = "put" /\ pc' = "ready" /\ Put(p)
      /\ written' = written \cup {item} /\ item' = item /\ readFailed' = readFailed
  BY <1>1 DEF SetSeq
<1>4. /\ TypeOK /\ log \in Seq(PutRecord) /\ InPairs /\ Opening
      /\ OpensWhateverWasLeft /\ item \in Item /\ n \in 1 .. Len(log)
      /\ log[n] = Puts(k, v)[1] /\ BlobOf(n, v)
  BY <1>0, <1>1, <1>3 DEF NodeInv, TypeOK, Between
<1>5. log[n].family = "default" /\ log[n].key = k
  BY <1>2, <1>4
<1> HIDE DEF p
<1>6. /\ log' \in Seq(PutRecord) /\ Len(log') = n + 1
      /\ \A i \in 1 .. n : log'[i] = log[i]
      /\ log'[n + 1] = p
      /\ UNCHANGED <<failure, families, compression, synced>>
      /\ synced' \in 0 .. Len(log')
  BY <1>0, <1>2, <1>3, PutEffect
<1>7. TypeOK'
  <2>1. written' \subseteq Item
    BY <1>3, <1>4 DEF TypeOK
  <2> QED BY <1>3, <1>4, <1>6, <2>1 DEF TypeOK
<1>8. OpensWhateverWasLeft' /\ Opening'
  BY <1>3, <1>4, <1>6 DEF OpensWhateverWasLeft, Opening
<1>9. Alternating'
  BY <1>0, <1>2, <1>3, <1>4, <1>5, PutAlternates
<1>10. ASSUME NEW i \in 1 .. n, NEW w \in Version, BlobOf(i, w), i = n => w = v
       PROVE  BlobOf(i, w)'
  <2>1. log'[i] = log[i] /\ i \in Int
    BY <1>6
  <2>2. Exceeds(w.seq, log[i].key, i) => Exceeds(w.seq, log[i].key, i)'
    <3>1. \A j \in 1 .. i : log'[j] = log[j]
      BY <1>0, <1>6
    <3> QED BY <2>1, <3>1 DEF Exceeds, IsPut
  <2>3. log'[i + 1].value = w.seq /\ <<log[i].key, w>> \in written'
    <3>1. CASE i = n
      BY <1>1, <1>2, <1>3, <1>5, <1>6, <1>10, <3>1
    <3>2. CASE i # n
      <4>1. i < Len(log) /\ log'[i + 1] = log[i + 1]
        BY <1>0, <1>6, <3>2
      <4> QED BY <1>3, <1>10, <4>1 DEF BlobOf
    <3> QED BY <3>1, <3>2
  <2> QED BY <1>3, <1>10, <2>1, <2>2, <2>3 DEF BlobOf
<1>11. InPairs'
  <2> SUFFICES ASSUME NEW i \in 1 .. Len(log'), log'[i].family = "default"
               PROVE  \E w \in Version : BlobOf(i, w)'
    BY DEF InPairs
  <2>1. i \in 1 .. n /\ log'[i] = log[i]
    BY <1>2, <1>6
  <2>2. PICK w \in Version : BlobOf(i, w) /\ (i = n => w = v)
    BY <1>0, <1>4, <2>1 DEF InPairs
  <2>3. BlobOf(i, w)'
    BY <1>10, <2>1, <2>2
  <2> QED BY <2>3
<1>12. Between'
  BY <1>0, <1>2, <1>3, <1>6 DEF Between
<1> QED BY <1>7, <1>8, <1>9, <1>11, <1>12 DEF NodeInv

-----------------------------------------------------------------------------
(* Any step *)

LEMMA StepInv == NodeInv /\ [Next]_nodeVars => NodeInv'
<1> SUFFICES ASSUME NodeInv, [Next]_nodeVars PROVE NodeInv'
  OBVIOUS
<1>1. CASE RemoveAll \/ RemoveInterrupted
  BY <1>1, EmptyLogInv
<1>2. CASE CreateDatabase \/ CreateColumnFamily \/ DeleteTempDB \/ OpenDatabase
  BY <1>2, OpeningInv
<1>3. CASE OpenAborts \/ SetAborts \/ GetDiskSpaceUsedThrows \/ Close \/ Kill
  BY <1>3, EndOfProcess, EndInv
<1>4. ASSUME NEW k \in Key, NEW v \in Version, SetBlob(k, v)
      PROVE  NodeInv'
  BY <1>4, SetBlobInv
<1>5. CASE SetSeq
  BY <1>5, SetSeqInv
<1>6. CASE Flush \/ BackgroundSync
  BY <1>6, SyncInv
<1>7. CASE MachineCrash
  BY <1>7, CrashInv
<1>8. CASE UNCHANGED nodeVars
  <2>1. /\ pc' = pc /\ failure' = failure /\ families' = families
        /\ compression' = compression /\ log' = log /\ synced' = synced
        /\ item' = item /\ readFailed' = readFailed /\ written' = written
    BY <1>8 DEF nodeVars
  <2>2. TypeOK' /\ OpensWhateverWasLeft' /\ Opening' /\ Alternating'
    BY <2>1 DEF NodeInv, TypeOK, OpensWhateverWasLeft, Opening, Alternating
  <2>3. \A i, v : BlobOf(i, v)' <=> BlobOf(i, v)
    BY <2>1 DEF BlobOf, Exceeds, IsPut
  <2>4. InPairs' /\ Between'
    BY <2>1, <2>3 DEF NodeInv, InPairs, Between
  <2> QED BY <2>2, <2>4 DEF NodeInv
<1> QED
  BY <1>1, <1>2, <1>3, <1>4, <1>5, <1>6, <1>7, <1>8
     DEF Next, SetStale, FlushFails

LEMMA InvAlways == Spec => []NodeInv
<1> QED BY InitInv, StepInv, PTL DEF Spec

-----------------------------------------------------------------------------
(* The theorems about states *)

\* Blobs and numbers never get into each other's column family.
THEOREM TypeCorrect == Spec => []TypeOK
<1>1. NodeInv => TypeOK
  BY DEF NodeInv
<1> QED BY <1>1, InvAlways, PTL

(***************************************************************************)
(* The constructor opens the database at every run, whatever was left by   *)
(* the one before and wherever in the constructor that one ended.          *)
(***************************************************************************)
THEOREM AlwaysOpens == Spec => []OpensWhateverWasLeft
<1>1. NodeInv => OpensWhateverWasLeft
  BY DEF NodeInv
<1> QED BY <1>1, InvAlways, PTL

-----------------------------------------------------------------------------
(* Which keys are torn *)

\* The last blob and the last number of a key are a pair, or the blob is the last Put.
LEMMA Pairing ==
  ASSUME NodeInv, NEW n \in 0 .. Len(log), NEW k \in Key
  PROVE  LET d == LastIn(log, "default", k, n)
             q == LastIn(log, "seq", k, n)
         IN  \/ d = 0 /\ q = 0
             \/ q \in 2 .. n /\ d = q - 1
             \/ n >= 1 /\ d = n /\ q < n /\ IsPut(log, "default", k, n)
<1> DEFINE d == LastIn(log, "default", k, n)
           q == LastIn(log, "seq", k, n)
<1>1. log \in Seq(PutRecord) /\ Alternating
  BY DEF NodeInv, TypeOK
<1>2. /\ d \in 0 .. n /\ (d # 0 => IsPut(log, "default", k, d))
      /\ \A i \in 1 .. n : IsPut(log, "default", k, i) => i <= d
  BY <1>1, LastInIs
<1>3. /\ q \in 0 .. n /\ (q # 0 => IsPut(log, "seq", k, q))
      /\ \A i \in 1 .. n : IsPut(log, "seq", k, i) => i <= q
  BY <1>1, LastInIs
<1> HIDE DEF d, q
<1>4. d # 0 /\ d < n => d + 1 <= q
  <2> SUFFICES ASSUME d # 0, d < n PROVE d + 1 <= q
    OBVIOUS
  <2>1. d \in 1 .. Len(log) - 1 /\ d + 1 \in 1 .. n /\ IsPut(log, "default", k, d)
    BY <1>1, <1>2
  <2>2. IsPut(log, "seq", k, d + 1)
    BY <1>1, <2>1 DEF Alternating, IsPut
  <2> QED BY <1>3, <2>1, <2>2
<1>5. q # 0 => q \in 2 .. n /\ q - 1 <= d /\ d # q
  <2> SUFFICES ASSUME q # 0 PROVE q \in 2 .. n /\ q - 1 <= d /\ d # q
    OBVIOUS
  <2>1. q \in 1 .. Len(log) /\ IsPut(log, "seq", k, q)
    BY <1>1, <1>3
  <2>2. q > 1 /\ IsPut(log, "default", k, q - 1)
    BY <2>1, NumberFollowsBlob DEF IsPut
  <2>3. d # q
    BY <1>2, <2>1 DEF IsPut
  <2> QED BY <1>2, <1>3, <2>1, <2>2, <2>3
<1>6. \/ d = 0 /\ q = 0
      \/ q \in 2 .. n /\ d = q - 1
      \/ n >= 1 /\ d = n /\ q < n /\ IsPut(log, "default", k, n)
  BY <1>2, <1>3, <1>4, <1>5
<1> QED BY <1>6 DEF d, q

\* What Pairing means for a key whose last number follows its last blob.
LEMMA PairIsWhole ==
  ASSUME NodeInv, NEW n \in 0 .. Len(log), NEW k \in Key,
         ~(n >= 1 /\ IsPut(log, "default", k, n))
  PROVE  Whole(k, n)
<1> DEFINE d == LastIn(log, "default", k, n)
           q == LastIn(log, "seq", k, n)
<1>1. log \in Seq(PutRecord)
  BY DEF NodeInv, TypeOK
<1>2. \/ d = 0 /\ q = 0
      \/ q \in 2 .. n /\ d = q - 1
  BY Pairing
<1>3. q # 0 => IsPut(log, "seq", k, q)
  BY <1>1, LastInIs
<1>4. /\ LastPut("default", k, n) = d /\ LastPut("seq", k, n) = q
      /\ Row("default", k, n) = IF d = 0 THEN None ELSE log[d].value
      /\ Row("seq", k, n) = IF q = 0 THEN None ELSE log[q].value
  BY LookUps DEF RowIn
<1> HIDE DEF d, q
<1>5. CASE d = 0 /\ q = 0
  BY <1>4, <1>5 DEF Whole
<1>6. CASE q \in 2 .. n /\ d = q - 1
  <2> DEFINE v == [seq |-> log[q].value, blob |-> log[q - 1].value]
  <2>1. q \in 1 .. Len(log) /\ log[q].family = "seq" /\ log[q].key = k
    BY <1>1, <1>3, <1>6 DEF IsPut
  <2>2. v \in Version /\ <<k, v>> \in written
    BY <2>1, NumberOf
  <2>3. Row("default", k, n) = v.blob /\ Row("seq", k, n) = v.seq
    BY <1>1, <1>4, <1>6
  <2> HIDE DEF v
  <2> QED BY <2>2, <2>3 DEF Whole
<1> QED BY <1>2, <1>5, <1>6

LEMMA TornIsNewest ==
  ASSUME NodeInv, NEW n \in 0 .. Len(log), NEW k \in Key,
         n >= 1, IsPut(log, "default", k, n)
  PROVE  \E v \in Version :
           /\ <<k, v>> \in written \cup {item}
           /\ Row("default", k, n) = v.blob
           /\ \/ Row("seq", k, n) = None
              \/ Row("seq", k, n) < v.seq
              \/ readFailed
<1> DEFINE d == LastIn(log, "default", k, n)
           q == LastIn(log, "seq", k, n)
<1>1. log \in Seq(PutRecord) /\ InPairs /\ n \in 1 .. Len(log)
  BY DEF NodeInv, TypeOK
<1>2. PICK v \in Version : BlobOf(n, v)
  BY <1>1 DEF InPairs, IsPut
<1>3. d \in 0 .. n /\ \A i \in 1 .. n : IsPut(log, "default", k, i) => i <= d
  BY <1>1, LastInIs
<1>4. q \in 0 .. n /\ (q # 0 => IsPut(log, "seq", k, q))
  BY <1>1, LastInIs
<1>5. /\ Row("default", k, n) = IF d = 0 THEN None ELSE log[d].value
      /\ Row("seq", k, n) = IF q = 0 THEN None ELSE log[q].value
  BY LookUps DEF RowIn
<1> HIDE DEF d, q
<1>6. Row("default", k, n) = v.blob /\ <<k, v>> \in written \cup {item}
  <2>1. d = n
    BY <1>1, <1>3
  <2> QED BY <1>1, <1>2, <1>5, <2>1 DEF BlobOf, IsPut
<1>7. \/ Row("seq", k, n) = None
      \/ Row("seq", k, n) < v.seq
      \/ readFailed
  <2> SUFFICES ASSUME q # 0, ~readFailed PROVE log[q].value < v.seq
    BY <1>5
  <2>1. q \in 1 .. n /\ IsPut(log, "seq", k, q)
    BY <1>1, <1>4
  <2>2. Exceeds(v.seq, k, n)
    BY <1>2 DEF BlobOf, IsPut
  <2> QED BY <2>1, <2>2 DEF Exceeds
<1> QED BY <1>6, <1>7

(***************************************************************************)
(* However much of the log is left, at most the key of its last Put has a  *)
(* blob without its number, and that blob is the key's newest.             *)
(***************************************************************************)
THEOREM OneKeyTorn == Spec => []TornAtMostOnce
<1>1. NodeInv => TornAtMostOnce
  <2> SUFFICES ASSUME NodeInv, NEW n \in synced .. Len(log)
               PROVE  /\ \A j, k \in Key : Whole(j, n) \/ Whole(k, n) \/ j = k
                      /\ \A k \in Key : Whole(k, n) \/
                           \E v \in Version :
                             /\ <<k, v>> \in written \cup {item}
                             /\ Row("default", k, n) = v.blob
                             /\ \/ Row("seq", k, n) = None
                                \/ Row("seq", k, n) < v.seq
                                \/ readFailed
    BY DEF TornAtMostOnce
  <2>1. n \in 0 .. Len(log)
    BY DEF NodeInv, TypeOK
  <2>2. \A k \in Key : Whole(k, n) \/ (n >= 1 /\ IsPut(log, "default", k, n))
    BY <2>1, PairIsWhole
  <2>3. \A j, k \in Key : Whole(j, n) \/ Whole(k, n) \/ j = k
    BY <2>2 DEF IsPut
  <2> QED BY <2>1, <2>2, <2>3, TornIsNewest
<1> QED BY <1>1, InvAlways, PTL

-----------------------------------------------------------------------------
(* The store that the log stands for *)

\* Stored, of any log.
StoredIn(s, n) ==
  [k \in Key |-> [seq |-> RowIn(s, "seq", k, n), blob |-> RowIn(s, "default", k, n)]]

LEMMA StoredLookUps ==
  /\ \A n : Stored(n) = StoredIn(log, n)
  /\ Stored(Len(log))' = StoredIn(log', Len(log'))
  /\ Stored(synced)' = StoredIn(log', synced')
<1>1. \A n : Stored(n) = StoredIn(log, n)
  BY LookUps, Zenon DEF Stored, StoredIn
<1>2. Stored(Len(log))' = StoredIn(log', Len(log'))
  BY LookUps, Zenon DEF Stored, StoredIn
<1>3. Stored(synced)' = StoredIn(log', synced')
  BY LookUps, Zenon DEF Stored, StoredIn
<1> QED BY <1>1, <1>2, <1>3

LEMMA NothingStored ==
  ASSUME NEW s \in Seq(PutRecord)
  PROVE  StoredIn(s, 0) = Store!Empty
<1>1. \A f, k : RowIn(s, f, k, 0) = None
  <2> TAKE f, k
  <2>1. LastIn(s, f, k, 0) \in 0 .. 0
    BY LastInIs
  <2> QED BY <2>1 DEF RowIn
<1> QED BY <1>1 DEF StoredIn, Store!Empty, Store!Nothing

\* Another log with the same first n Puts stands for the same store.
LEMMA StoredKept ==
  ASSUME NEW s \in Seq(PutRecord), NEW t \in Seq(PutRecord), NEW n \in 0 .. Len(s),
         n <= Len(t), \A i \in 1 .. n : t[i] = s[i]
  PROVE  StoredIn(t, n) = StoredIn(s, n)
<1>1. \A f, k : RowIn(t, f, k, n) = RowIn(s, f, k, n)
  BY LastInAgrees
<1> QED BY <1>1, Zenon DEF StoredIn

\* One Put more is the last one of its own key and family only.
LEMMA RowNext ==
  ASSUME NEW s \in Seq(PutRecord), NEW n \in Nat, n + 1 <= Len(s), NEW f, NEW k
  PROVE  RowIn(s, f, k, n + 1) =
           IF IsPut(s, f, k, n + 1) THEN s[n + 1].value ELSE RowIn(s, f, k, n)
<1> DEFINE i == LastIn(s, f, k, n)
           j == LastIn(s, f, k, n + 1)
<1>1. /\ i \in 0 .. n /\ (i # 0 => IsPut(s, f, k, i))
      /\ \A m \in 1 .. n : IsPut(s, f, k, m) => m <= i
  BY LastInIs
<1>2. /\ j \in 0 .. n + 1 /\ (j # 0 => IsPut(s, f, k, j))
      /\ \A m \in 1 .. n + 1 : IsPut(s, f, k, m) => m <= j
  BY LastInIs
<1> HIDE DEF i, j
<1>3. j = IF IsPut(s, f, k, n + 1) THEN n + 1 ELSE i
  BY <1>1, <1>2
<1>4. n + 1 # 0
  OBVIOUS
<1> QED BY <1>3, <1>4 DEF RowIn, i, j

\* What a Put does to the store.
LEMMA PutStored ==
  ASSUME NodeInv, NEW p \in PutRecord, Put(p)
  PROVE  /\ Stored(synced)' = Stored(synced)
         /\ Stored(Len(log))' =
              [j \in Key |->
                 [seq  |-> IF p.family = "seq" /\ p.key = j
                           THEN p.value ELSE Stored(Len(log))[j].seq,
                  blob |-> IF p.family = "default" /\ p.key = j
                           THEN p.value ELSE Stored(Len(log))[j].blob]]
<1>0. PICK n \in Nat : n = Len(log)
  BY DEF NodeInv, TypeOK
<1>1. /\ log \in Seq(PutRecord) /\ log' \in Seq(PutRecord) /\ Len(log') = n + 1
      /\ \A i \in 1 .. n : log'[i] = log[i]
      /\ log'[n + 1] = p /\ synced' = synced /\ synced \in 0 .. n
  BY <1>0, PutEffect DEF NodeInv, TypeOK
<1>2. StoredIn(log', n) = StoredIn(log, n)
  BY <1>0, <1>1, StoredKept
<1>3. StoredIn(log', synced) = StoredIn(log, synced)
  <2>1. synced \in 0 .. Len(log) /\ synced <= Len(log')
    BY <1>0, <1>1
  <2>2. \A i \in 1 .. synced : log'[i] = log[i]
    BY <1>0, <1>1
  <2> QED BY <1>1, <2>1, <2>2, StoredKept
<1>4. \A f, j : RowIn(log', f, j, n + 1) =
                  IF p.family = f /\ p.key = j THEN p.value ELSE RowIn(log', f, j, n)
  <2> TAKE f, j
  <2>1. n + 1 <= Len(log')
    BY <1>1
  <2>2. RowIn(log', f, j, n + 1) =
          IF IsPut(log', f, j, n + 1) THEN log'[n + 1].value ELSE RowIn(log', f, j, n)
    <3>1. PICK t \in Seq(PutRecord) : t = log'
      BY <1>1
    <3>2. n + 1 <= Len(t)
      BY <2>1, <3>1
    <3>3. RowIn(t, f, j, n + 1) =
            IF IsPut(t, f, j, n + 1) THEN t[n + 1].value ELSE RowIn(t, f, j, n)
      BY <3>2, RowNext
    <3> QED BY <3>1, <3>3
  <2> QED BY <1>1, <2>2 DEF IsPut
<1>5. \A j \in Key : /\ RowIn(log', "seq", j, n) = StoredIn(log, n)[j].seq
                     /\ RowIn(log', "default", j, n) = StoredIn(log, n)[j].blob
  <2> TAKE j \in Key
  <2>1. StoredIn(log', n)[j] = [seq |-> RowIn(log', "seq", j, n),
                                blob |-> RowIn(log', "default", j, n)]
    BY DEF StoredIn
  <2> QED BY <1>2, <2>1
<1>6. StoredIn(log', n + 1) =
        [j \in Key |->
           [seq  |-> IF p.family = "seq" /\ p.key = j
                     THEN p.value ELSE StoredIn(log, n)[j].seq,
            blob |-> IF p.family = "default" /\ p.key = j
                     THEN p.value ELSE StoredIn(log, n)[j].blob]]
  <2> DEFINE s == StoredIn(log, n)
  <2>1. \A j \in Key :
          /\ RowIn(log', "seq", j, n + 1) =
               IF p.family = "seq" /\ p.key = j THEN p.value ELSE s[j].seq
          /\ RowIn(log', "default", j, n + 1) =
               IF p.family = "default" /\ p.key = j THEN p.value ELSE s[j].blob
    BY <1>4, <1>5
  <2> HIDE DEF s
  <2>2. StoredIn(log', n + 1) =
          [j \in Key |->
             [seq  |-> IF p.family = "seq" /\ p.key = j THEN p.value ELSE s[j].seq,
              blob |-> IF p.family = "default" /\ p.key = j
                       THEN p.value ELSE s[j].blob]]
    BY <2>1 DEF StoredIn
  <2> QED BY <2>2 DEF s
<1>7. /\ Stored(Len(log)) = StoredIn(log, n) /\ Stored(Len(log))' = StoredIn(log', n + 1)
      /\ Stored(synced) = StoredIn(log, synced) /\ Stored(synced)' = StoredIn(log', synced)
  BY <1>0, <1>1, StoredLookUps
<1> QED BY <1>3, <1>6, <1>7

\* The row of a key is that of one version, or the last Put is its blob.
LEMMA RowIsWhole ==
  ASSUME NodeInv, NEW n \in 0 .. Len(log), NEW k \in Key,
         ~(n >= 1 /\ IsPut(log, "default", k, n))
  PROVE  Store!Whole(Stored(n)[k], k)
<1> DEFINE d == LastIn(log, "default", k, n)
           q == LastIn(log, "seq", k, n)
<1>1. log \in Seq(PutRecord)
  BY DEF NodeInv, TypeOK
<1>2. \/ d = 0 /\ q = 0
      \/ q \in 2 .. n /\ d = q - 1
  BY Pairing
<1>3. q # 0 => IsPut(log, "seq", k, q)
  BY <1>1, LastInIs
<1>4. Stored(n)[k] = [seq  |-> IF q = 0 THEN None ELSE log[q].value,
                      blob |-> IF d = 0 THEN None ELSE log[d].value]
  BY StoredLookUps DEF StoredIn, RowIn
<1> HIDE DEF d, q
<1>5. CASE d = 0 /\ q = 0
  BY <1>4, <1>5 DEF Store!Whole, Store!Nothing
<1>6. CASE q \in 2 .. n /\ d = q - 1
  <2>1. q \in 1 .. Len(log) /\ log[q].family = "seq" /\ log[q].key = k
    BY <1>1, <1>3, <1>6 DEF IsPut
  <2>2. <<k, [seq |-> log[q].value, blob |-> log[q - 1].value]>> \in written
    BY <2>1, NumberOf
  <2>3. Stored(n)[k] = [seq |-> log[q].value, blob |-> log[q - 1].value]
    BY <1>1, <1>4, <1>6
  <2> QED BY <2>2, <2>3 DEF Store!Whole
<1> QED BY <1>2, <1>5, <1>6

\* Its number is one that was set, if there is one.
LEMMA NumberIsWritten ==
  ASSUME NodeInv, NEW n \in 0 .. Len(log), NEW k \in Key
  PROVE  LET s == Stored(n)[k].seq
         IN  \/ s = None
             \/ /\ s \in SeqNo /\ s # None
                /\ \E v \in Version : <<k, v>> \in written /\ v.seq = s
<1> DEFINE q == LastIn(log, "seq", k, n)
           s == Stored(n)[k].seq
<1>1. log \in Seq(PutRecord)
  BY DEF NodeInv, TypeOK
<1>2. q \in 0 .. n /\ (q # 0 => IsPut(log, "seq", k, q))
  BY <1>1, LastInIs
<1>3. s = IF q = 0 THEN None ELSE log[q].value
  BY StoredLookUps DEF StoredIn, RowIn
<1> HIDE DEF q, s
<1>4. CASE q = 0
  BY <1>3, <1>4 DEF s
<1>5. CASE q # 0
  <2>1. q \in 1 .. Len(log) /\ log[q].family = "seq" /\ log[q].key = k
    BY <1>1, <1>2, <1>5 DEF IsPut
  <2>2. log[q] \in PutRecord
    BY <1>1, <2>1
  <2>3. s = log[q].value /\ s \in SeqNo /\ s # None
    BY <1>3, <1>5, <2>1, <2>2, PutTypes
  <2> DEFINE v == [seq |-> log[q].value, blob |-> log[q - 1].value]
  <2>4. v \in Version /\ <<k, v>> \in written /\ v.seq = s
    BY <2>1, <2>3, NumberOf
  <2> HIDE DEF v
  <2> QED BY <2>3, <2>4 DEF s
<1> QED BY <1>4, <1>5

\* Otherwise it has that number, and the blob of a newer version.
LEMMA RowIsTorn ==
  ASSUME NodeInv, ~readFailed, NEW n \in 0 .. Len(log), NEW k \in Key,
         n >= 1, IsPut(log, "default", k, n)
  PROVE  Store!Torn(Stored(n)[k], k)
<1> DEFINE row == Stored(n)[k]
<1>1. row = [seq |-> Row("seq", k, n), blob |-> Row("default", k, n)]
  BY DEF Stored
<1>2. PICK v \in Version : /\ <<k, v>> \in written \cup {item}
                           /\ row.blob = v.blob
                           /\ row.seq = None \/ row.seq < v.seq
  BY <1>1, TornIsNewest
<1>3. \/ row.seq = None
      \/ \E w \in Version : <<k, w>> \in written /\ w.seq = row.seq
  BY NumberIsWritten
<1> HIDE DEF row
<1>4. v.seq # None /\ v \in Store!Version
  BY PutTypes DEF Store!Version, Version
<1>5. \/ row.seq = None
      \/ \E w \in Store!Version : <<k, w>> \in written /\ w.seq = row.seq
  BY <1>3, Zenon DEF Store!Version, Version
<1> QED BY <1>2, <1>4, <1>5 DEF Store!Torn, Store!Below, row

\* All rows are rows, and all but one key's are whole.
LEMMA RowsAreTorn ==
  ASSUME NodeInv, ~readFailed, NEW n \in 0 .. Len(log)
  PROVE  /\ Stored(n) \in [Key -> Store!Row]
         /\ \A k \in Key : Store!Whole(Stored(n)[k], k) \/ Store!Torn(Stored(n)[k], k)
         /\ \A j, k \in Key : \/ Store!Whole(Stored(n)[j], j)
                              \/ Store!Whole(Stored(n)[k], k)
                              \/ j = k
<1>1. \A k \in Key : \/ Store!Whole(Stored(n)[k], k)
                   \/ (n >= 1 /\ IsPut(log, "default", k, n))
  BY RowIsWhole
<1>2. \A k \in Key : Store!Whole(Stored(n)[k], k) \/ Store!Torn(Stored(n)[k], k)
  BY <1>1, RowIsTorn
<1>3. \A j, k \in Key : \/ Store!Whole(Stored(n)[j], j)
                        \/ Store!Whole(Stored(n)[k], k)
                        \/ j = k
  BY <1>1 DEF IsPut
<1>4. Stored(n) \in [Key -> Store!Row]
  <2>1. log \in Seq(PutRecord) /\ Stored(n) = StoredIn(log, n)
    BY StoredLookUps DEF NodeInv, TypeOK
  <2>2. ASSUME NEW k \in Key
        PROVE  RowIn(log, "seq", k, n) \in SeqNo \cup {None}
    BY <2>1, NumberIsWritten DEF StoredIn
  <2>3. ASSUME NEW k \in Key
        PROVE  RowIn(log, "default", k, n) \in Blob \cup {None}
    <3> DEFINE d == LastIn(log, "default", k, n)
    <3>1. d \in 0 .. n /\ (d # 0 => IsPut(log, "default", k, d))
      BY <2>1, LastInIs
    <3>2. RowIn(log, "default", k, n) = IF d = 0 THEN None ELSE log[d].value
      BY DEF RowIn
    <3> HIDE DEF d
    <3>3. d # 0 => log[d] \in PutRecord /\ log[d].family = "default"
      BY <2>1, <3>1 DEF IsPut
    <3> QED BY <3>2, <3>3, PutTypes
  <2> QED BY <2>1, <2>2, <2>3 DEF StoredIn, Store!Row
<1> QED BY <1>2, <1>3, <1>4

\* More of the log never has a smaller number.
LEMMA NumbersGrow ==
  ASSUME NodeInv, ~readFailed, NEW m \in 0 .. Len(log), NEW n \in m .. Len(log),
         NEW k \in Key
  PROVE  LET s == Stored(m)[k].seq
             t == Stored(n)[k].seq
         IN  s = t \/ Store!Below(s, t)
<1>1. log \in Seq(PutRecord) /\ n \in 0 .. Len(log)
  BY DEF NodeInv, TypeOK
<1> DEFINE i == LastIn(log, "seq", k, m)
           j == LastIn(log, "seq", k, n)
           s == Stored(m)[k].seq
           t == Stored(n)[k].seq
<1>2. i \in 0 .. m /\ (i # 0 => IsPut(log, "seq", k, i))
  BY <1>1, LastInIs
<1>3. /\ j \in 0 .. n /\ (j # 0 => IsPut(log, "seq", k, j))
      /\ \A l \in 1 .. n : IsPut(log, "seq", k, l) => l <= j
  BY <1>1, LastInIs
<1>4. /\ s = IF i = 0 THEN None ELSE log[i].value
      /\ t = IF j = 0 THEN None ELSE log[j].value
  BY StoredLookUps DEF StoredIn, RowIn
<1> HIDE DEF i, j, s, t
<1>5. ASSUME i = j PROVE s = t
  BY <1>4, <1>5
<1>6. ASSUME i # j PROVE Store!Below(s, t)
  <2>1. j # 0 /\ i < j /\ j \in 1 .. Len(log) /\ IsPut(log, "seq", k, j)
    BY <1>1, <1>2, <1>3, <1>6
  <2>2. log[j].value # None
    <3>1. log[j] \in PutRecord
      BY <1>1, <2>1
    <3> QED BY <3>1, PutTypes
  <2>3. i # 0 => log[i].value < log[j].value
    <3>1. Exceeds(log[j].value, k, j - 1)
      BY <2>1, NumberOf DEF IsPut
    <3> QED BY <1>2, <2>1, <3>1 DEF Exceeds
  <2> QED BY <1>4, <2>1, <2>2, <2>3 DEF Store!Below
<1> QED BY <1>5, <1>6 DEF s, t

-----------------------------------------------------------------------------
(* Each step of the node is one of the store, or none, until a Get fails *)

LEMMA InitIsInit == Init => Store!Init
<1> SUFFICES ASSUME Init PROVE Store!Init
  OBVIOUS
<1>1. log = << >> /\ synced = 0 /\ Len(log) = 0 /\ written = {} /\ item = None
  BY EmptyLog DEF Init
<1>2. Stored(Len(log)) = Store!Empty /\ Stored(synced) = Store!Empty
  BY <1>1, EmptyLog, NothingStored, StoredLookUps
<1> QED BY <1>1, <1>2 DEF Store!Init

LEMMA RemoveIsCreate ==
  ASSUME RemoveAll \/ RemoveInterrupted
  PROVE  Store!Next
<1>1. log' = << >> /\ synced' = 0 /\ Len(log') = 0 /\ written' = {} /\ item' = None
  BY EmptyLog DEF RemoveAll, RemoveInterrupted
<1>2. Stored(Len(log))' = Store!Empty /\ Stored(synced)' = Store!Empty
  BY <1>1, EmptyLog, NothingStored, StoredLookUps
<1>3. Store!Create
  BY <1>1, <1>2 DEF Store!Create
<1> QED BY <1>3 DEF Store!Next

LEMMA SameLogIsStutter ==
  ASSUME UNCHANGED <<log, synced, item, written>>
  PROVE  UNCHANGED Store!storeVars
<1>1. log' = log /\ synced' = synced /\ item' = item /\ written' = written
  OBVIOUS
<1>2. /\ Stored(Len(log))' = Stored(Len(log))
      /\ Stored(synced)' = Stored(synced)
  BY <1>1, StoredLookUps
<1> QED BY <1>1, <1>2 DEF Store!storeVars

LEMMA CrashIsLose ==
  ASSUME NodeInv, MachineCrash
  PROVE  Store!Next
<1>1. /\ log \in Seq(PutRecord) /\ log' \in Seq(PutRecord) /\ Len(log') = synced
      /\ synced \in 0 .. Len(log)
      /\ \A i \in 1 .. synced : log'[i] = log[i]
  BY CrashEffect DEF NodeInv, TypeOK
<1>2. synced' = synced /\ item' = item /\ written' = written
  BY DEF MachineCrash
<1>3. StoredIn(log', synced) = StoredIn(log, synced)
  BY <1>1, StoredKept
<1>4. Stored(Len(log))' = Stored(synced) /\ Stored(synced)' = Stored(synced)
  BY <1>1, <1>2, <1>3, StoredLookUps
<1>5. Store!Lose
  BY <1>2, <1>4 DEF Store!Lose
<1> QED BY <1>5 DEF Store!Next

LEMMA SyncIsPersist ==
  ASSUME NodeInv, ~readFailed, Flush \/ BackgroundSync
  PROVE  Store!Next
<1>1. log \in Seq(PutRecord) /\ synced \in 0 .. Len(log)
  BY DEF NodeInv, TypeOK
<1>2. log' = log /\ item' = item /\ written' = written
  BY DEF Flush, BackgroundSync
<1>3. PICK n \in synced .. Len(log) : n = synced'
  BY <1>1 DEF Flush, BackgroundSync
<1>4. n \in 0 .. Len(log) /\ Len(log) \in n .. Len(log)
  BY <1>1
<1>5. Stored(Len(log))' = Stored(Len(log)) /\ Stored(synced)' = Stored(n)
  BY <1>2, <1>3, StoredLookUps
<1>6. /\ Stored(n) \in [Key -> Store!Row]
      /\ \A k \in Key : Store!Whole(Stored(n)[k], k) \/ Store!Torn(Stored(n)[k], k)
      /\ \A j, k \in Key : \/ Store!Whole(Stored(n)[j], j)
                           \/ Store!Whole(Stored(n)[k], k)
                           \/ j = k
  BY <1>4, RowsAreTorn
<1>7. \A k \in Key :
        /\ \/ Stored(n)[k].seq = Stored(synced)[k].seq
           \/ Store!Below(Stored(synced)[k].seq, Stored(n)[k].seq)
        /\ \/ Stored(n)[k].seq = Stored(Len(log))[k].seq
           \/ Store!Below(Stored(n)[k].seq, Stored(Len(log))[k].seq)
  BY <1>1, <1>4, NumbersGrow
<1>8. Store!Persist
  BY <1>2, <1>5, <1>6, <1>7 DEF Store!Persist
<1> QED BY <1>8 DEF Store!Next

\* Between two Sets no key is torn, so the first Put tears the one it is for.
LEMMA SetBlobIsSetBlob ==
  ASSUME NodeInv, NEW k \in Key, NEW v \in Version, SetBlob(k, v), ~readFailed'
  PROVE  Store!Next
<1> DEFINE p == Puts(k, v)[1]
           s == Stored(Len(log))
<1>1. p \in PutRecord /\ p.family = "default" /\ p.key = k /\ p.value = v.blob
  BY PutTypes
<1> HIDE DEF p
<1>2. /\ Put(p) /\ pc = "ready" /\ item' = <<k, v>> /\ written' = written
      /\ ~Stale(ExistingSeq(k), v.seq)
  BY DEF SetBlob, p
<1>3. \A j \in Key : Store!Whole(s[j], j)
  <2> TAKE j \in Key
  <2>1. Len(log) \in 0 .. Len(log) /\ (Len(log) >= 1 => log[Len(log)].family = "seq")
    BY <1>2 DEF NodeInv, TypeOK, Between
  <2> QED BY <2>1, RowIsWhole DEF IsPut
<1>4. s = [j \in Key |-> [seq |-> s[j].seq, blob |-> s[j].blob]]
  BY DEF Stored
<1>5. Stored(synced)' = Stored(synced) /\ Stored(Len(log))' = [s EXCEPT ![k].blob = v.blob]
  <2>1. /\ Stored(synced)' = Stored(synced)
        /\ Stored(Len(log))' =
             [j \in Key |-> [seq |-> s[j].seq, blob |-> IF k = j THEN v.blob ELSE s[j].blob]]
    BY <1>1, <1>2, PutStored
  <2> HIDE DEF s
  <2> QED BY <1>4, <2>1
<1>6. Store!Below(s[k].seq, v.seq)
  <2>1. s[k].seq = ExistingSeq(k)
    BY DEF Stored, ExistingSeq
  <2>2. Len(log) \in 0 .. Len(log)
    BY DEF NodeInv, TypeOK
  <2>3. s[k].seq = None \/ (s[k].seq \in SeqNo /\ s[k].seq # None)
    BY <2>2, NumberIsWritten
  <2>4. v.seq \in Nat /\ v.seq # None
    BY PutTypes
  <2>5. ASSUME NEW e, e = None \/ (e \in SeqNo /\ e # None), ~Stale(e, v.seq)
        PROVE  Store!Below(e, v.seq)
    <3>1. CASE e = None
      BY <2>4, <3>1 DEF Store!Below
    <3>2. CASE e \in Nat /\ e # None
      <4>1. ~(e >= v.seq)
        BY <2>5, <3>2, Zenon DEF Stale
      <4> QED BY <2>4, <3>2, <4>1 DEF Store!Below
    <3> QED BY <2>5, <3>1, <3>2
  <2> QED BY <1>2, <2>1, <2>3, <2>5
<1>7. Store!SetBlob(k, v)
  BY <1>2, <1>3, <1>5, <1>6 DEF Store!SetBlob
<1>8. v \in Store!Version
  BY DEF Store!Version, Version
<1> QED BY <1>7, <1>8 DEF Store!Next

LEMMA SetSeqIsSetSeq ==
  ASSUME NodeInv, SetSeq, ~readFailed
  PROVE  Store!Next
<1>1. PICK k \in Key, v \in Version : item = <<k, v>>
  BY DEF NodeInv, Between, SetSeq, Item
<1> DEFINE p == Puts(k, v)[2]
           s == Stored(Len(log))
<1>2. /\ p \in PutRecord /\ p.family = "seq" /\ p.key = k /\ p.value = v.seq
      /\ Puts(k, v)[1].family = "default" /\ Puts(k, v)[1].key = k
      /\ Puts(k, v)[1].value = v.blob
      /\ v.seq \in Nat /\ v.seq # None
  BY PutTypes
<1>3. Put(p) /\ written' = written \cup {item} /\ item' = item
  BY <1>1 DEF SetSeq
<1> HIDE DEF p
<1>4. PICK n \in Nat : n = Len(log)
  BY DEF NodeInv, TypeOK
<1>5. /\ log \in Seq(PutRecord) /\ n \in 1 .. Len(log) /\ log[n] = Puts(k, v)[1]
      /\ BlobOf(n, v)
  BY <1>1, <1>2, <1>4 DEF NodeInv, TypeOK, SetSeq, Between
<1>6. s = [j \in Key |-> [seq |-> s[j].seq, blob |-> s[j].blob]]
  BY DEF Stored
<1>7. Stored(synced)' = Stored(synced) /\ Stored(Len(log))' = [s EXCEPT ![k].seq = v.seq]
  <2>1. /\ Stored(synced)' = Stored(synced)
        /\ Stored(Len(log))' =
             [j \in Key |-> [seq |-> IF k = j THEN v.seq ELSE s[j].seq, blob |-> s[j].blob]]
    BY <1>2, <1>3, PutStored
  <2> HIDE DEF s
  <2> QED BY <1>6, <2>1
<1>8. s[k].blob = v.blob
  <2>1. s[k].blob = RowIn(log, "default", k, n)
    BY <1>4, LookUps DEF Stored
  <2>2. LastIn(log, "default", k, n) = n
    <3> DEFINE d == LastIn(log, "default", k, n)
    <3>1. d \in 0 .. n /\ \A i \in 1 .. n : IsPut(log, "default", k, i) => i <= d
      BY <1>4, <1>5, LastInIs
    <3> HIDE DEF d
    <3>2. d = n
      BY <1>2, <1>5, <3>1 DEF IsPut
    <3> QED BY <3>2 DEF d
  <2>3. n # 0 /\ log[n].value = v.blob
    BY <1>2, <1>5
  <2> QED BY <2>1, <2>2, <2>3 DEF RowIn
<1>9. Store!Below(s[k].seq, v.seq)
  <2> DEFINE q == LastIn(log, "seq", k, n)
  <2>1. q \in 0 .. n /\ (q # 0 => IsPut(log, "seq", k, q))
    BY <1>4, <1>5, LastInIs
  <2>2. s[k].seq = IF q = 0 THEN None ELSE log[q].value
    BY <1>4, LookUps DEF Stored, RowIn
  <2> HIDE DEF q, s
  <2>3. Exceeds(v.seq, k, n)
    BY <1>2, <1>5 DEF BlobOf
  <2>4. q # 0 => log[q].value < v.seq
    BY <2>1, <2>3 DEF Exceeds
  <2> QED BY <1>2, <2>2, <2>4 DEF Store!Below
<1>10. Stored(Len(log))'[k] = v
  <2> HIDE DEF s
  <2>1. Stored(Len(log))'[k] = [seq |-> v.seq, blob |-> v.blob]
    BY <1>6, <1>7, <1>8
  <2> QED BY <2>1 DEF Version
<1>11. Store!SetSeq(k, v)
  BY <1>1, <1>3, <1>7, <1>9, <1>10 DEF Store!SetSeq
<1>12. v \in Store!Version
  BY DEF Store!Version, Version
<1> QED BY <1>11, <1>12 DEF Store!Next

(***************************************************************************)
(* As long as no Get has failed, the node is a TwoPutStore, whatever is    *)
(* synced when and wherever the process or the machine goes down: a blob   *)
(* replaces an older one only, its number follows with the next Put of     *)
(* all, and what a crash leaves has for each key a version that was set,   *)
(* or for one key a newer blob under the number before.                    *)
(***************************************************************************)
THEOREM NodeImplementsStore == Spec => TwoPutStoreUntilReadFails
<1>1. ASSUME NodeInv, [Next]_nodeVars
      PROVE  [readFailed' \/ Store!Next]_(Store!storeVars)
  <2> SUFFICES ASSUME ~readFailed' PROVE Store!Next \/ UNCHANGED Store!storeVars
    BY Zenon
  <2>1. CASE RemoveAll \/ RemoveInterrupted
    BY <2>1, RemoveIsCreate
  <2>2. CASE \/ CreateDatabase \/ CreateColumnFamily \/ DeleteTempDB
             \/ OpenDatabase \/ UNCHANGED nodeVars
    <3>1. UNCHANGED <<log, synced, item, written>>
      BY <2>2 DEF CreateDatabase, CreateColumnFamily, DeleteTempDB, OpenDatabase,
                  nodeVars
    <3> QED BY <3>1, SameLogIsStutter
  <2>3. CASE OpenAborts \/ SetAborts \/ GetDiskSpaceUsedThrows \/ Close \/ Kill
    <3>1. UNCHANGED <<log, synced, item, written>>
      BY <1>1, <2>3, EndOfProcess DEF Abort, Gone
    <3> QED BY <3>1, SameLogIsStutter
  <2>4. ASSUME NEW k \in Key, NEW v \in Version, SetBlob(k, v)
        PROVE  Store!Next
    BY <1>1, <2>4, SetBlobIsSetBlob
  <2>5. CASE SetSeq
    <3>1. ~readFailed
      BY <2>5 DEF SetSeq
    <3> QED BY <1>1, <2>5, <3>1, SetSeqIsSetSeq
  <2>6. CASE Flush \/ BackgroundSync
    <3>1. ~readFailed
      BY <2>6 DEF Flush, BackgroundSync
    <3> QED BY <1>1, <2>6, <3>1, SyncIsPersist
  <2>7. CASE MachineCrash
    BY <1>1, <2>7, CrashIsLose
  <2> QED
    BY <1>1, <2>1, <2>2, <2>3, <2>4, <2>5, <2>6, <2>7
       DEF Next, SetStale, FlushFails
<1> QED
  BY <1>1, InitIsInit, InvAlways, PTL DEF Spec, TwoPutStoreUntilReadFails
=============================================================================
