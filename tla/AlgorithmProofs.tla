--------------------------- MODULE AlgorithmProofs ---------------------------
(***************************************************************************)
(* Proofs about the two algorithms of the program that run on their own:   *)
(* CyclicRemove, for vectors of any length that size_t holds, and          *)
(* CommandLine, for lines of any length over any texts, any atoi and any   *)
(* widths of the fields.                                                   *)
(***************************************************************************)
EXTENDS CommandLine, CyclicRemove, SequenceTheorems, TLAPS

USE SizeAssumption

(***************************************************************************)
(* Vectors                                                                 *)
(***************************************************************************)
\* The two ways to say that a sequence is a vector of the program.
LEMMA VectorIsSeq ==
  ASSUME NEW s
  PROVE  s \in Vector <=> /\ s \in Seq(Request)
                          /\ Len(s) <= MaxRequests
                          /\ Distinct(s)
<1>1. ASSUME s \in Vector
      PROVE  s \in Seq(Request) /\ Len(s) <= MaxRequests /\ Distinct(s)
  <2>1. PICK n \in 0 .. MaxRequests : s \in [1 .. n -> Request] /\ Distinct(s)
    BY <1>1 DEF Vector
  <2>2. s \in Seq(Request) /\ Len(s) = n
    BY <2>1
  <2> QED BY <2>1, <2>2
<1>2. ASSUME s \in Seq(Request), Len(s) <= MaxRequests, Distinct(s)
      PROVE  s \in Vector
  <2>1. Len(s) \in 0 .. MaxRequests /\ s \in [1 .. Len(s) -> Request]
    BY <1>2
  <2>2. s \in {t \in [1 .. Len(s) -> Request] : Distinct(t)}
    BY <1>2, <2>1
  <2> DEFINE n == Len(s)
  <2>3. n \in 0 .. MaxRequests /\ s \in {t \in [1 .. n -> Request] : Distinct(t)}
    BY <2>1, <2>2
  <2> HIDE DEF n
  <2> QED BY <2>3, Zenon DEF Vector
<1> QED BY <1>1, <1>2

\* pop_back drops the last entry and nothing else.
LEMMA PopBackEffect ==
  ASSUME NEW s \in Seq(Request), Len(s) > 0
  PROVE  /\ PopBack(s) \in Seq(Request)
         /\ Len(PopBack(s)) = Len(s) - 1
         /\ \A j \in 1 .. Len(s) - 1 : PopBack(s)[j] = s[j]
<1> DEFINE n == Len(s) - 1
<1>1. n \in Nat /\ n = Len(s) - 1 /\ \A j \in 1 .. n : s[j] \in Request
  OBVIOUS
<1>2. PopBack(s) = SubSeq(s, 1, n)
  BY DEF PopBack
<1> HIDE DEF n
<1>3. /\ SubSeq(s, 1, n) \in Seq(Request)
      /\ Len(SubSeq(s, 1, n)) = IF 1 <= n THEN n - 1 + 1 ELSE 0
      /\ \A j \in 1 .. n - 1 + 1 : SubSeq(s, 1, n)[j] = s[1 + j - 1]
  BY <1>1, SubSeqProperties
<1>4. \A j \in 1 .. n : SubSeq(s, 1, n)[j] = s[j]
  BY <1>1, <1>3
<1>5. Len(SubSeq(s, 1, n)) = n
  BY <1>1, <1>3
<1>6. 1 .. Len(s) - 1 = 1 .. n
  BY <1>1
<1> QED BY <1>1, <1>2, <1>3, <1>4, <1>5, <1>6

(***************************************************************************)
(* Removal takes the entry at the index out; the entries before it stay    *)
(* where they are.                                                         *)
(***************************************************************************)
LEMMA RemovedEffect ==
  ASSUME m_requests \in Vector, index \in Nat, index < Len(m_requests)
  PROVE  /\ Removed \in Vector
         /\ Len(Removed) = Len(m_requests) - 1
         /\ \A j \in 1 .. index : Removed[j] = m_requests[j]
         /\ Elements(Removed) = Elements(m_requests) \ {req}
<1> DEFINE n == Len(m_requests)
           last == m_requests[n]
<1>1. /\ m_requests \in Seq(Request) /\ n <= MaxRequests /\ n \in Nat
      /\ \A j, l \in 1 .. n : m_requests[j] = m_requests[l] => j = l
      /\ index + 1 \in 1 .. n /\ n > 0
  BY VectorIsSeq DEF Distinct
<1>2. CASE index + 1 < n
  <2> DEFINE moved == [m_requests EXCEPT ![index + 1] = last]
  <2>1. /\ moved \in Seq(Request) /\ Len(moved) = n /\ Len(moved) > 0
        /\ \A j \in 1 .. n : moved[j] = IF j = index + 1 THEN last ELSE m_requests[j]
    BY <1>1
  <2>2. Removed = PopBack(moved)
    BY <1>2 DEF Removed
  <2> HIDE DEF moved
  <2>3. /\ Removed \in Seq(Request) /\ Len(Removed) = n - 1
        /\ \A j \in 1 .. n - 1 : Removed[j] = IF j = index + 1 THEN last ELSE m_requests[j]
    BY <1>1, <2>1, <2>2, PopBackEffect
  <2>4. Distinct(Removed)
    <3> SUFFICES ASSUME NEW j \in 1 .. n - 1, NEW l \in 1 .. n - 1,
                        Removed[j] = Removed[l]
                 PROVE  j = l
      BY <2>3 DEF Distinct
    <3>1. CASE j # index + 1 /\ l # index + 1
      BY <1>1, <2>3, <3>1
    <3>2. CASE j = index + 1 /\ l # index + 1
      <4>1. m_requests[n] = m_requests[l] /\ n \in 1 .. n /\ l \in 1 .. n /\ l # n
        BY <1>1, <2>3, <3>2
      <4> QED BY <1>1, <4>1
    <3>3. CASE j # index + 1 /\ l = index + 1
      <4>1. m_requests[j] = m_requests[n] /\ n \in 1 .. n /\ j \in 1 .. n /\ j # n
        BY <1>1, <2>3, <3>3
      <4> QED BY <1>1, <4>1
    <3> QED BY <3>1, <3>2, <3>3
  <2>5. Removed \in Vector
    BY <1>1, <2>3, <2>4, VectorIsSeq
  <2>6. ASSUME NEW r \in Elements(Removed) PROVE r \in Elements(m_requests) \ {req}
    <3>1. PICK j \in 1 .. n - 1 : r = Removed[j]
      BY <2>3 DEF Elements
    <3>2. CASE j = index + 1
      BY <1>1, <1>2, <2>3, <3>1, <3>2 DEF Elements, req
    <3>3. CASE j # index + 1
      BY <1>1, <2>3, <3>1, <3>3 DEF Elements, req
    <3> QED BY <3>2, <3>3
  <2>7. ASSUME NEW r \in Elements(m_requests) \ {req} PROVE r \in Elements(Removed)
    <3>1. PICK j \in 1 .. n : r = m_requests[j] /\ j # index + 1
      BY DEF Elements, req
    <3>2. CASE j = n
      <4>1. index + 1 \in 1 .. Len(Removed) /\ Removed[index + 1] = r
        BY <1>1, <1>2, <2>3, <3>1, <3>2
      <4> QED BY <4>1 DEF Elements
    <3>3. CASE j # n
      <4>1. j \in 1 .. Len(Removed) /\ Removed[j] = r
        BY <1>1, <2>3, <3>1, <3>3
      <4> QED BY <4>1 DEF Elements
    <3> QED BY <3>2, <3>3
  <2> QED BY <1>1, <1>2, <2>3, <2>5, <2>6, <2>7
<1>3. CASE index + 1 >= n
  <2>1. index + 1 = n
    BY <1>1, <1>3
  <2>2. Removed = PopBack(m_requests)
    BY <1>1, <2>1 DEF Removed
  <2>3. /\ Removed \in Seq(Request) /\ Len(Removed) = n - 1
        /\ \A j \in 1 .. n - 1 : Removed[j] = m_requests[j]
    BY <1>1, <2>2, PopBackEffect
  <2>4. Distinct(Removed)
    BY <1>1, <2>3 DEF Distinct
  <2>5. Removed \in Vector
    BY <1>1, <2>3, <2>4, VectorIsSeq
  <2>6. Elements(Removed) = Elements(m_requests) \ {req}
    BY <1>1, <2>1, <2>3 DEF Elements, req
  <2> QED BY <1>1, <2>1, <2>3, <2>5, <2>6
<1> QED BY <1>1, <1>2, <1>3

\* The decrement below zero is undone by the increment.
LEMMA IndexStays ==
  ASSUME index \in Nat, index < SizeModulus
  PROVE  IndexAfterRemoval = index
BY DEF IndexAfterRemoval

-----------------------------------------------------------------------------
(***************************************************************************)
(* The loop invariant: what is before the index has been found to be       *)
(* uncompleted.                                                            *)
(***************************************************************************)
ScanInv ==
  /\ ScanTypeOK
  /\ UncompletedKept
  /\ \A j \in 1 .. index : m_requests[j] \notin completed
  /\ ~scanning => index >= Len(m_requests)

LEMMA ScanInitInv == ScanInit => ScanInv
<1> SUFFICES ASSUME ScanInit PROVE ScanInv
  OBVIOUS
<1>1. m_requests \in Seq(Request) /\ Len(m_requests) \in Nat
  BY VectorIsSeq DEF ScanInit
<1> QED BY <1>1 DEF ScanInit, ScanInv, ScanTypeOK, UncompletedKept

LEMMA ScanNextInv == ScanInv /\ [ScanNext]_scanVars => ScanInv'
<1> SUFFICES ASSUME ScanInv, [ScanNext]_scanVars PROVE ScanInv'
  OBVIOUS
<1>1. /\ m_requests \in Seq(Request) /\ Len(m_requests) \in Nat
      /\ Len(m_requests) <= MaxRequests /\ index \in Nat
      /\ m_requests \in Vector /\ index <= Len(m_requests) /\ index < SizeModulus
  BY VectorIsSeq DEF ScanInv, ScanTypeOK
<1>2. CASE Remove
  <2>1. /\ m_requests' = Removed /\ index' = index /\ req \in completed
        /\ index < Len(m_requests) /\ scanning /\ scanning' = scanning
        /\ completed' = completed /\ initial' = initial
    BY <1>1, <1>2, IndexStays DEF Remove
  <2>2. /\ Removed \in Vector /\ Len(Removed) = Len(m_requests) - 1
        /\ \A j \in 1 .. index : Removed[j] = m_requests[j]
        /\ Elements(Removed) = Elements(m_requests) \ {req}
    BY <1>1, <2>1, RemovedEffect
  <2>3. ScanTypeOK'
    BY <1>1, <2>1, <2>2 DEF ScanInv, ScanTypeOK
  <2>4. UncompletedKept'
    <3>1. Elements(m_requests') = Elements(m_requests) \ {req}
      BY <2>1, <2>2
    <3>2. Elements(initial') = Elements(initial)
      BY <2>1
    <3> QED BY <2>1, <3>1, <3>2 DEF ScanInv, UncompletedKept
  <2>5. \A j \in 1 .. index' : m_requests'[j] \notin completed'
    BY <1>1, <2>1, <2>2 DEF ScanInv
  <2> QED BY <2>1, <2>3, <2>4, <2>5 DEF ScanInv
<1>3. CASE Keep
  <2>1. /\ UNCHANGED <<m_requests, completed, initial, scanning>> /\ scanning
        /\ index < Len(m_requests) /\ req \notin completed
    BY <1>3 DEF Keep
  <2>2. index' = index + 1
    BY <1>1, <1>3, <2>1 DEF Keep
  <2>3. ScanTypeOK'
    BY <1>1, <2>1, <2>2 DEF ScanInv, ScanTypeOK
  <2>4. UncompletedKept'
    BY <2>1 DEF ScanInv, UncompletedKept
  <2>5. \A j \in 1 .. index' : m_requests'[j] \notin completed'
    BY <1>1, <2>1, <2>2 DEF ScanInv, req
  <2> QED BY <2>1, <2>3, <2>4, <2>5 DEF ScanInv
<1>4. CASE Return
  BY <1>4 DEF Return, ScanInv, ScanTypeOK, UncompletedKept
<1>5. CASE UNCHANGED scanVars
  BY <1>5 DEF scanVars, ScanInv, ScanTypeOK, UncompletedKept
<1> QED BY <1>2, <1>3, <1>4, <1>5 DEF ScanNext

THEOREM ScanInvariant == ScanSpec => []ScanInv
BY ScanInitInv, ScanNextInv, PTL DEF ScanSpec

(***************************************************************************)
(* At every turn of the scan the vector holds requests, each at one index, *)
(* and the index is in range or just past the end: the decrement below     *)
(* zero never shows.                                                       *)
(***************************************************************************)
THEOREM ScanTypeCorrect == ScanSpec => []ScanTypeOK
<1>1. ScanInv => ScanTypeOK
  BY DEF ScanInv
<1> QED BY <1>1, ScanInvariant, PTL

(***************************************************************************)
(* Every turn of the scan, removals included, leaves one request less to   *)
(* look at, and the loop goes on for as long as there is one: the scan     *)
(* takes as many turns as there were requests.  What ScanEnds rests on,    *)
(* apart from the turns being taken.                                       *)
(***************************************************************************)
Unscanned == Len(m_requests) - index

THEOREM EachTurnScansOne ==
  ScanSpec => [][IF scanning' THEN Unscanned > 0 /\ Unscanned' = Unscanned - 1
                 ELSE Unscanned = 0]_scanVars
<1> DEFINE Turn == IF scanning' THEN Unscanned > 0 /\ Unscanned' = Unscanned - 1
                   ELSE Unscanned = 0
<1>1. ASSUME ScanInv, [ScanNext]_scanVars PROVE [Turn]_scanVars
  <2>1. /\ Len(m_requests) \in Nat /\ index \in Nat /\ m_requests \in Vector
        /\ index <= Len(m_requests) /\ index < SizeModulus /\ index + 1 <= MaxRequests + 1
    BY <1>1, VectorIsSeq DEF ScanInv, ScanTypeOK
  <2>2. CASE Remove
    <3>1. index < Len(m_requests) /\ index' = index /\ m_requests' = Removed /\ scanning'
      BY <2>1, <2>2, IndexStays DEF Remove
    <3>2. Len(m_requests') = Len(m_requests) - 1
      BY <2>1, <3>1, RemovedEffect
    <3> QED BY <2>1, <3>1, <3>2 DEF Unscanned
  <2>3. CASE Keep
    <3>1. index < Len(m_requests) /\ m_requests' = m_requests /\ scanning'
      BY <2>3 DEF Keep
    <3>2. index' = index + 1
      BY <2>1, <2>3 DEF Keep
    <3> QED BY <2>1, <3>1, <3>2 DEF Unscanned
  <2>4. CASE Return
    BY <2>1, <2>4 DEF Return, Unscanned
  <2> QED BY <1>1, <2>2, <2>3, <2>4 DEF ScanNext
<1> QED BY <1>1, ScanInvariant, PTL DEF ScanSpec

(***************************************************************************)
(* The scan never destroys a request that is not completed.                *)
(***************************************************************************)
THEOREM NothingLost == ScanSpec => []UncompletedKept
<1>1. ScanInv => UncompletedKept
  BY DEF ScanInv
<1> QED BY <1>1, ScanInvariant, PTL

(***************************************************************************)
(* When the scan ends, no completed request is left.                       *)
(***************************************************************************)
THEOREM NothingLeft == ScanSpec => []CompletedReleased
<1>1. ASSUME ScanInv PROVE CompletedReleased
  <2>1. m_requests \in Seq(Request) /\ Len(m_requests) \in Nat /\ index \in Nat
    BY <1>1, VectorIsSeq DEF ScanInv, ScanTypeOK
  <2> QED BY <1>1, <2>1 DEF ScanInv, CompletedReleased, Elements
<1> QED BY <1>1, ScanInvariant, PTL

-----------------------------------------------------------------------------
\* A function that is given one more value of its range.
LEMMA ExceptType ==
  ASSUME NEW D, NEW S, NEW g \in [D -> S], NEW a, NEW v \in S
  PROVE  [g EXCEPT ![a] = v] \in [D -> S]
OBVIOUS

USE ArgumentAssumption

-----------------------------------------------------------------------------
(***************************************************************************)
(* The inductive invariant: up to i names and values take turns, and every *)
(* option has the value of the last name before i that names it.           *)
(***************************************************************************)
\* The line names t at n, which is before j.
NamedAt(t, n, j) ==
  n \in 1 .. j - 1 /\ n % 2 = 1 /\ args[n].text = t

\* m is the last place before j that names t, 0 if there is none.
LastNamed(t, m, j) ==
  /\ m = 0 \/ NamedAt(t, m, j)
  /\ \A n : NamedAt(t, n, j) => n <= m

TakeTurns(j) == \A n \in 1 .. j - 1 : args[n].dash <=> n % 2 = 1

OptionAsked(o) ==
  \E m \in Nat :
    /\ LastNamed(o, m, i)
    /\ config[o] = IF m = 0 THEN Defaults[o] ELSE Converted(o, args[m + 1].text)

JellyAsked(t) ==
  \E m \in Nat :
    /\ LastNamed(t, m, i)
    /\ jellyConfig[t] = IF m = 0 THEN None ELSE args[m + 1].text

ParseInv ==
  /\ TypeOK
  /\ pc \in {"parse", "override"} =>
       /\ i % 2 = 1
       /\ TakeTurns(i)
       /\ \A o \in Option : OptionAsked(o)
       /\ \A t \in JellyName : JellyAsked(t)
  /\ pc = "override" => i = Len(args) + 1
  /\ pc = "create" => config["write_backend"] = "jelly"
  /\ pc = "failed" => ~WellFormed

-----------------------------------------------------------------------------
(* Types *)

LEMMA ConvertedType ==
  ASSUME NEW o \in Option, NEW text \in Text
  PROVE  /\ o \in SizeOption => Converted(o, text) \in 0 .. SizeT - 1
         /\ o = "write_run_seconds" => Converted(o, text) \in 0 .. Uint32 - 1
         /\ o \in TextOption => Converted(o, text) \in Text
<1>1. atoi[text] % SizeT \in 0 .. SizeT - 1 /\ atoi[text] % Uint32 \in 0 .. Uint32 - 1
  OBVIOUS
<1> QED BY <1>1 DEF Converted, Option, SizeOption, TextOption

LEMMA DefaultsDomain == DOMAIN Defaults = Option
BY DEF Defaults

LEMMA DefaultSizes == \A o \in SizeOption : Defaults[o] \in 0 .. SizeT - 1
<1>1. \A o \in SizeOption : Defaults[o] \in {1000, 5000, 10000, 15000}
  BY DEF Defaults, Option, SizeOption
<1>2. {1000, 5000, 10000, 15000} \subseteq 0 .. SizeT - 1
  OBVIOUS
<1> QED BY <1>1, <1>2

LEMMA DefaultSeconds == Defaults["write_run_seconds"] \in 0 .. Uint32 - 1
BY DEF Defaults, Option

LEMMA DefaultTexts == \A o \in TextOption : Defaults[o] \in Text \cup {"none", "jelly"}
BY DEF Defaults, Option, TextOption

\* The fields of Config.
ConfigOK ==
  /\ DOMAIN config = Option
  /\ \A o \in SizeOption : config[o] \in 0 .. SizeT - 1
  /\ config["write_run_seconds"] \in 0 .. Uint32 - 1
  /\ \A o \in TextOption : config[o] \in Text \cup {"none", "jelly"}

\* A name that is followed by a value, and whatever is done with the two.
LEMMA NameAndValue ==
  ASSUME TypeOK, Parsing, HasValue
  PROVE  /\ i \in 1 .. Len(args) /\ i + 1 \in 1 .. Len(args) /\ Len(args) \in Nat
         /\ args[i].text \in Text /\ args[i + 1].text \in Text
         /\ args[i].dash \in BOOLEAN /\ ~args[i + 1].dash
<1>1. args \in Seq(Argument) /\ i \in 1 .. Len(args) + 1
  BY DEF TypeOK
<1>2. i \in 1 .. Len(args) /\ i + 1 \in 1 .. Len(args) /\ Len(args) \in Nat
  BY <1>1 DEF Parsing, HasValue
<1>3. args[i] \in Argument /\ args[i + 1] \in Argument
  BY <1>1, <1>2
<1> QED BY <1>2, <1>3 DEF HasValue, Argument

LEMMA SetOptionConfig ==
  ASSUME TypeOK, SetOption
  PROVE  ConfigOK'
<1> DEFINE o == args[i].text
           value == Converted(o, args[i + 1].text)
<1>1. o \in Option /\ args[i + 1].text \in Text /\ o \in Text
  BY NameAndValue DEF SetOption
<1>2. config' = [config EXCEPT ![o] = value]
  BY DEF SetOption
<1>3. /\ o \in SizeOption => value \in 0 .. SizeT - 1
      /\ o = "write_run_seconds" => value \in 0 .. Uint32 - 1
      /\ o \in TextOption => value \in Text
  BY <1>1, ConvertedType
<1>4. ConfigOK
  BY DEF TypeOK, ConfigOK
<1> HIDE DEF o, value
<1>5. \A p \in Option : config'[p] = IF p = o THEN value ELSE config[p]
  BY <1>2, <1>4 DEF ConfigOK
<1>6. DOMAIN config' = Option
  BY <1>2, <1>4 DEF ConfigOK
<1>7. "write_run_seconds" \in Option /\ SizeOption \subseteq Option /\ TextOption \subseteq Option
  BY DEF Option
<1> QED BY <1>3, <1>4, <1>5, <1>6, <1>7 DEF ConfigOK

LEMMA OverrideConfig ==
  ASSUME TypeOK, Override
  PROVE  /\ ConfigOK' /\ config'["write_backend"] = "jelly"
         /\ jellyConfig' \in [JellyName -> Text \cup {"none", "0", None}]
<1>1. SizeOption \cup TextOption \cup {"write_run_seconds"} = Option
  BY DEF Option
<1>2. ConfigOK /\ jellyConfig \in [JellyName -> Text \cup {"none", "0", None}]
  BY DEF TypeOK, ConfigOK
<1>3. /\ config' = [config EXCEPT !["write_backend"] = "jelly",
                                  !["rocksdb_compression"] = "none",
                                  !["write_rate"] = 10000]
      /\ jellyConfig' = [jellyConfig EXCEPT !["compression_method"] = "none",
                                            !["max_resident_blob_size"] = "0"]
  BY DEF Override
<1>4. DOMAIN config' = Option
  BY <1>2, <1>3 DEF ConfigOK
<1>5. \A o \in Option :
        config'[o] = CASE o = "write_backend" -> "jelly"
                       [] o = "rocksdb_compression" -> "none"
                       [] o = "write_rate" -> 10000
                       [] OTHER -> config[o]
  BY <1>2, <1>3 DEF ConfigOK
<1>6. 10000 \in 0 .. SizeT - 1
  OBVIOUS
<1>7. \A o \in SizeOption : config'[o] \in 0 .. SizeT - 1
  BY <1>1, <1>2, <1>5, <1>6 DEF ConfigOK, SizeOption
<1>8. /\ config'["write_run_seconds"] = config["write_run_seconds"]
      /\ config'["write_backend"] = "jelly" /\ config'["rocksdb_compression"] = "none"
  BY <1>1, <1>5 DEF TextOption
<1>9. jellyConfig' \in [JellyName -> Text \cup {"none", "0", None}]
  <2> DEFINE S == Text \cup {"none", "0", None}
             f == [jellyConfig EXCEPT !["compression_method"] = "none"]
  <2>1. "none" \in S /\ "0" \in S
    OBVIOUS
  <2> HIDE DEF S
  <2>2. f \in [JellyName -> S]
    BY <1>2, <2>1, ExceptType DEF S
  <2>3. jellyConfig' = [f EXCEPT !["max_resident_blob_size"] = "0"]
    BY <1>3
  <2> HIDE DEF f
  <2>4. jellyConfig' \in [JellyName -> S]
    BY <2>1, <2>2, <2>3, ExceptType
  <2> QED BY <2>4 DEF S
<1> QED BY <1>2, <1>4, <1>7, <1>8, <1>9 DEF ConfigOK, TextOption

-----------------------------------------------------------------------------
(* Initial states *)

LEMMA InitInv == Init => ParseInv
<1> SUFFICES ASSUME Init PROVE ParseInv
  OBVIOUS
<1>1. /\ pc = "parse" /\ i = 1 /\ config = Defaults
      /\ jellyConfig = [t \in JellyName |-> None]
  BY DEF Init
<1>2. args \in Seq(Argument) /\ Len(args) \in Nat
  BY DEF Init
<1>3. ConfigOK
  BY <1>1, DefaultsDomain, DefaultSizes, DefaultSeconds, DefaultTexts DEF ConfigOK
<1>4. jellyConfig \in [JellyName -> Text \cup {"none", "0", None}]
  BY <1>1
<1>5. TypeOK
  BY <1>1, <1>2, <1>3, <1>4 DEF TypeOK, ConfigOK
<1>6. \A t : LastNamed(t, 0, i)
  BY <1>1 DEF LastNamed, NamedAt
<1>7. i % 2 = 1 /\ TakeTurns(i)
  BY <1>1 DEF TakeTurns
<1>8. \A o \in Option : OptionAsked(o)
  BY <1>1, <1>6 DEF OptionAsked
<1>9. \A t \in JellyName : JellyAsked(t)
  BY <1>1, <1>6 DEF JellyAsked
<1> QED BY <1>1, <1>5, <1>7, <1>8, <1>9 DEF ParseInv

-----------------------------------------------------------------------------
(* The parser *)

\* The two arguments at i take turns; the name is the last of its text.
LEMMA TwoMore ==
  ASSUME ParseInv, Parsing, HasValue, args[i].dash
  PROVE  /\ i \in Nat /\ i + 2 \in 1 .. Len(args) + 1 /\ (i + 2) % 2 = 1
         /\ TakeTurns(i + 2)
         /\ LastNamed(args[i].text, i, i + 2)
         /\ \A t, m : LastNamed(t, m, i) /\ t # args[i].text => LastNamed(t, m, i + 2)
<1>1. /\ i \in 1 .. Len(args) /\ i + 1 \in 1 .. Len(args) /\ Len(args) \in Nat
      /\ args[i].dash /\ ~args[i + 1].dash
  BY NameAndValue DEF ParseInv
<1>2. i % 2 = 1 /\ TakeTurns(i)
  BY DEF ParseInv, Parsing
<1>3. (i + 2) % 2 = 1 /\ (i + 1) % 2 = 0
  BY <1>1, <1>2
<1>4. \A n \in 1 .. i + 2 - 1 : n \in 1 .. i - 1 \/ n = i \/ n = i + 1
  BY <1>1
<1>5. TakeTurns(i + 2)
  BY <1>1, <1>2, <1>3, <1>4 DEF TakeTurns
<1>6. \A t, n : NamedAt(t, n, i + 2) <=>
                NamedAt(t, n, i) \/ (n = i /\ t = args[i].text)
  BY <1>1, <1>2, <1>3, <1>4 DEF NamedAt
<1>7. LastNamed(args[i].text, i, i + 2)
  <2>1. \A n : NamedAt(args[i].text, n, i) => n <= i
    BY <1>1 DEF NamedAt
  <2> QED BY <1>1, <1>6, <2>1 DEF LastNamed
<1>8. \A t, m : LastNamed(t, m, i) /\ t # args[i].text => LastNamed(t, m, i + 2)
  BY <1>6 DEF LastNamed
<1> QED BY <1>1, <1>3, <1>5, <1>7, <1>8

LEMMA SetOptionInv == ASSUME ParseInv, SetOption PROVE ParseInv'
<1> DEFINE o == args[i].text
<1>1. /\ pc = "parse" /\ pc' = "parse" /\ args' = args /\ i' = i + 2
      /\ jellyConfig' = jellyConfig
      /\ config' = [config EXCEPT ![o] = Converted(o, args[i + 1].text)]
      /\ Parsing /\ HasValue /\ args[i].dash /\ o \in Option
  BY DEF SetOption, Parsing
<1>2. /\ TypeOK
      /\ \A p \in Option : OptionAsked(p)
      /\ \A t \in JellyName : JellyAsked(t)
  BY <1>1 DEF ParseInv
<1>3. /\ i \in Nat /\ i + 2 \in 1 .. Len(args) + 1 /\ (i + 2) % 2 = 1
      /\ TakeTurns(i + 2)
      /\ LastNamed(o, i, i + 2)
      /\ \A t, m : LastNamed(t, m, i) /\ t # o => LastNamed(t, m, i + 2)
  BY <1>1, TwoMore
<1>4. i # 0 /\ DOMAIN config = Option
  BY <1>2 DEF TypeOK
<1>5. TypeOK'
  <2>1. ConfigOK'
    BY <1>2, SetOptionConfig
  <2> QED BY <1>1, <1>2, <1>3, <2>1 DEF TypeOK, ConfigOK
<1>6. /\ \A t, m : LastNamed(t, m, i)' <=> LastNamed(t, m, i + 2)
      /\ TakeTurns(i)' <=> TakeTurns(i + 2)
  BY <1>1 DEF LastNamed, NamedAt, TakeTurns
<1> HIDE DEF o
<1>7. ASSUME NEW p \in Option PROVE OptionAsked(p)'
  <2>1. CASE p = o
    <3>1. config'[p] = Converted(o, args'[i + 1].text)
      BY <1>1, <1>4, <2>1
    <3>2. PICK n \in Nat : n = i
      BY <1>3
    <3>3. LastNamed(p, n, i)' /\ n # 0
      BY <1>3, <1>4, <1>6, <2>1, <3>2
    <3>4. config'[p] = Converted(p, args'[n + 1].text)
      BY <2>1, <3>1, <3>2
    <3> QED BY <3>2, <3>3, <3>4 DEF OptionAsked
  <2>2. CASE p # o
    <3>1. config'[p] = config[p]
      BY <1>1, <1>4, <2>2
    <3>2. PICK m \in Nat :
            /\ LastNamed(p, m, i)
            /\ config[p] = IF m = 0 THEN Defaults[p]
                           ELSE Converted(p, args[m + 1].text)
      BY <1>2 DEF OptionAsked
    <3>3. LastNamed(p, m, i)'
      BY <1>3, <1>6, <2>2, <3>2
    <3> QED BY <1>1, <3>1, <3>2, <3>3 DEF OptionAsked
  <2> QED BY <2>1, <2>2
<1>8. ASSUME NEW t \in JellyName PROVE JellyAsked(t)'
  <2>1. PICK m \in Nat :
          /\ LastNamed(t, m, i)
          /\ jellyConfig[t] = IF m = 0 THEN None ELSE args[m + 1].text
    BY <1>2 DEF JellyAsked
  <2>2. t # o
    BY <1>1 DEF JellyName, Option, SizeOption, TextOption
  <2>3. LastNamed(t, m, i)'
    BY <1>3, <1>6, <2>1, <2>2
  <2> QED BY <1>1, <2>1, <2>3 DEF JellyAsked
<1> QED BY <1>1, <1>3, <1>5, <1>6, <1>7, <1>8 DEF ParseInv

LEMMA SetJellyOptionInv == ASSUME ParseInv, SetJellyOption PROVE ParseInv'
<1> DEFINE o == args[i].text
<1>1. /\ pc = "parse" /\ pc' = "parse" /\ args' = args /\ i' = i + 2
      /\ config' = config
      /\ jellyConfig' = [jellyConfig EXCEPT ![o] = args[i + 1].text]
      /\ Parsing /\ HasValue /\ args[i].dash /\ o \notin Option
  BY DEF SetJellyOption, Parsing
<1>2. /\ TypeOK
      /\ \A p \in Option : OptionAsked(p)
      /\ \A t \in JellyName : JellyAsked(t)
  BY <1>1 DEF ParseInv
<1>3. /\ i \in Nat /\ i + 2 \in 1 .. Len(args) + 1 /\ (i + 2) % 2 = 1
      /\ TakeTurns(i + 2)
      /\ LastNamed(o, i, i + 2)
      /\ \A t, m : LastNamed(t, m, i) /\ t # o => LastNamed(t, m, i + 2)
  BY <1>1, TwoMore
<1>4. i # 0 /\ jellyConfig \in [JellyName -> Text \cup {"none", "0", None}]
  BY <1>2 DEF TypeOK
<1>5. o \in JellyName /\ args[i + 1].text \in Text
  BY <1>1, <1>2, NameAndValue DEF JellyName
<1>6. TypeOK'
  <2>1. jellyConfig' \in [JellyName -> Text \cup {"none", "0", None}]
    BY <1>1, <1>4, <1>5
  <2> QED BY <1>1, <1>2, <1>3, <2>1 DEF TypeOK
<1>7. /\ \A t, m : LastNamed(t, m, i)' <=> LastNamed(t, m, i + 2)
      /\ TakeTurns(i)' <=> TakeTurns(i + 2)
  BY <1>1 DEF LastNamed, NamedAt, TakeTurns
<1> HIDE DEF o
<1>8. ASSUME NEW t \in JellyName PROVE JellyAsked(t)'
  <2>1. CASE t = o
    <3>1. jellyConfig'[t] = args'[i + 1].text
      BY <1>1, <1>4, <2>1
    <3>2. PICK n \in Nat : n = i
      BY <1>3
    <3>3. LastNamed(t, n, i)' /\ n # 0
      BY <1>3, <1>4, <1>7, <2>1, <3>2
    <3>4. jellyConfig'[t] = args'[n + 1].text
      BY <3>1, <3>2
    <3> QED BY <3>2, <3>3, <3>4 DEF JellyAsked
  <2>2. CASE t # o
    <3>1. jellyConfig'[t] = jellyConfig[t]
      BY <1>1, <1>4, <2>2
    <3>2. PICK m \in Nat :
            /\ LastNamed(t, m, i)
            /\ jellyConfig[t] = IF m = 0 THEN None ELSE args[m + 1].text
      BY <1>2 DEF JellyAsked
    <3>3. LastNamed(t, m, i)'
      BY <1>3, <1>7, <2>2, <3>2
    <3> QED BY <1>1, <3>1, <3>2, <3>3 DEF JellyAsked
  <2> QED BY <2>1, <2>2
<1>9. ASSUME NEW p \in Option PROVE OptionAsked(p)'
  <2>1. PICK m \in Nat :
          /\ LastNamed(p, m, i)
          /\ config[p] = IF m = 0 THEN Defaults[p]
                         ELSE Converted(p, args[m + 1].text)
    BY <1>2 DEF OptionAsked
  <2>2. LastNamed(p, m, i)'
    BY <1>1, <1>3, <1>7, <2>1
  <2> QED BY <1>1, <2>1, <2>2 DEF OptionAsked
<1> QED BY <1>1, <1>3, <1>6, <1>7, <1>8, <1>9 DEF ParseInv

LEMMA SyntaxErrorInv == ASSUME ParseInv, SyntaxError PROVE ParseInv'
<1>1. /\ pc = "parse" /\ pc' = "failed"
      /\ args' = args /\ i' = i /\ config' = config /\ jellyConfig' = jellyConfig
      /\ i <= Len(args) /\ (~args[i].dash \/ ~HasValue)
  BY DEF SyntaxError, Parsing
<1>2. /\ TypeOK /\ i % 2 = 1
      /\ args \in Seq(Argument) /\ i \in 1 .. Len(args) + 1
  BY <1>1 DEF ParseInv, TypeOK
<1>3. TypeOK'
  BY <1>1, <1>2 DEF TypeOK
<1>4. ~WellFormed
  <2> SUFFICES ASSUME WellFormed PROVE FALSE
    OBVIOUS
  <2>1. i \in DOMAIN args /\ Len(args) % 2 = 0 /\ Len(args) \in Nat
    BY <1>1, <1>2 DEF WellFormed
  <2>2. args[i].dash /\ ~HasValue
    BY <1>1, <1>2, <2>1 DEF WellFormed
  <2>3. i # Len(args) /\ (i + 1) % 2 = 0
    BY <1>2, <2>1
  <2>4. i + 1 <= Len(args) /\ i + 1 \in DOMAIN args
    BY <1>1, <1>2, <2>1, <2>3
  <2>5. (i + 1) % 2 # 1
    BY <1>2, <2>3
  <2> QED BY <2>2, <2>4, <2>5 DEF WellFormed, HasValue
<1>5. ~WellFormed'
  BY <1>1, <1>4 DEF WellFormed
<1> QED BY <1>1, <1>3, <1>5 DEF ParseInv

LEMMA EndOfLineInv == ASSUME ParseInv, EndOfLine PROVE ParseInv'
<1>1. /\ pc = "parse" /\ pc' = "override" /\ i > Len(args)
      /\ args' = args /\ i' = i /\ config' = config /\ jellyConfig' = jellyConfig
  BY DEF EndOfLine
<1>2. /\ TypeOK /\ i % 2 = 1 /\ TakeTurns(i)
      /\ \A p \in Option : OptionAsked(p)
      /\ \A t \in JellyName : JellyAsked(t)
  BY <1>1 DEF ParseInv
<1>3. TypeOK' /\ i' = Len(args') + 1
  BY <1>1, <1>2 DEF TypeOK
<1>4. TakeTurns(i)'
  BY <1>1, <1>2 DEF TakeTurns
<1>5. \A p \in Option : OptionAsked(p)'
  BY <1>1, <1>2 DEF OptionAsked, LastNamed, NamedAt
<1>6. \A t \in JellyName : JellyAsked(t)'
  <2>1. \A t, m : LastNamed(t, m, i)' <=> LastNamed(t, m, i)
    BY <1>1 DEF LastNamed, NamedAt
  <2> QED BY <1>1, <1>2, <2>1 DEF JellyAsked
<1> QED BY <1>1, <1>2, <1>3, <1>4, <1>5, <1>6 DEF ParseInv

-----------------------------------------------------------------------------
(* main *)

LEMMA OverrideInv == ASSUME ParseInv, Override PROVE ParseInv'
<1>1. TypeOK /\ pc' = "create" /\ args' = args /\ i' = i
  BY DEF ParseInv, Override
<1>2. /\ ConfigOK' /\ config'["write_backend"] = "jelly"
      /\ jellyConfig' \in [JellyName -> Text \cup {"none", "0", None}]
  BY <1>1, OverrideConfig
<1>3. TypeOK'
  BY <1>1, <1>2 DEF TypeOK, ConfigOK
<1> QED BY <1>1, <1>2, <1>3 DEF ParseInv

LEMMA CreateBackendInv == ASSUME ParseInv, CreateBackend PROVE ParseInv'
<1>1. /\ TypeOK /\ config["write_backend"] = "jelly"
      /\ args' = args /\ i' = i /\ config' = config /\ jellyConfig' = jellyConfig
  BY DEF ParseInv, CreateBackend
<1>2. pc' = "benchmark"
  BY <1>1 DEF CreateBackend
<1>3. TypeOK'
  BY <1>1, <1>2 DEF TypeOK
<1> QED BY <1>2, <1>3 DEF ParseInv

LEMMA StutterInv == ASSUME ParseInv, UNCHANGED vars PROVE ParseInv'
BY DEF ParseInv, TypeOK, TakeTurns, OptionAsked, JellyAsked, LastNamed, NamedAt,
       WellFormed, vars

LEMMA StepInv == ParseInv /\ [Next]_vars => ParseInv'
<1> SUFFICES ASSUME ParseInv, [Next]_vars PROVE ParseInv'
  OBVIOUS
<1>1. CASE SetOption      BY <1>1, SetOptionInv
<1>2. CASE SetJellyOption BY <1>2, SetJellyOptionInv
<1>3. CASE SyntaxError    BY <1>3, SyntaxErrorInv
<1>4. CASE EndOfLine      BY <1>4, EndOfLineInv
<1>5. CASE Override       BY <1>5, OverrideInv
<1>6. CASE CreateBackend  BY <1>6, CreateBackendInv
<1>7. CASE UNCHANGED vars BY <1>7, StutterInv
<1> QED BY <1>1, <1>2, <1>3, <1>4, <1>5, <1>6, <1>7 DEF Next

LEMMA InvAlways == Spec => []ParseInv
BY InitInv, StepInv, PTL DEF Spec

-----------------------------------------------------------------------------
(* What the invariant says of a parsed line *)

\* The line has been read to its end, name by name.
LEMMA ReadToTheEnd ==
  ASSUME ParseInv, pc = "override"
  PROVE  /\ i = Len(args) + 1 /\ i % 2 = 1 /\ TakeTurns(i)
         /\ args \in Seq(Argument) /\ Len(args) \in Nat
         /\ DOMAIN args = 1 .. i - 1
BY DEF ParseInv, TypeOK

LEMMA ParsedWellFormed == ASSUME ParseInv, pc = "override" PROVE WellFormed
<1>1. Len(args) % 2 = 0
  BY ReadToTheEnd
<1> QED BY <1>1, ReadToTheEnd DEF WellFormed, TakeTurns

\* The maximum of a set that has one.
LEMMA MaxIs ==
  ASSUME NEW S, NEW m \in S, S \subseteq Nat, \A n \in S : n <= m
  PROVE  Max(S) = m
<1> DEFINE P(x) == x \in S /\ \A y \in S : x >= y
<1>1. P(m)
  OBVIOUS
<1>2. ASSUME NEW x, P(x) PROVE x = m
  <2>1. x \in Nat /\ m \in Nat /\ x >= m /\ x <= m
    BY <1>2
  <2> QED BY <2>1
<1>3. P(m) /\ \A x : P(x) => x = m
  BY <1>1, <1>2
<1>4. Max(S) = CHOOSE x : P(x)
  BY DEF Max
<1> HIDE DEF P
<1>5. P(CHOOSE x : P(x))
  BY <1>3
<1> QED BY <1>3, <1>4, <1>5

\* The last place that names t is the maximum of those that do.
LEMMA LastIsMax ==
  ASSUME ParseInv, pc = "override", NEW t, NEW m \in Nat, LastNamed(t, m, i)
  PROVE  IF m = 0 THEN Given(t) = {} ELSE Given(t) # {} /\ Max(Given(t)) = m
<1>1. \A n : n \in Given(t) <=> NamedAt(t, n, i)
  BY ReadToTheEnd DEF Given, NamedAt
<1>2. Given(t) \subseteq Nat \ {0}
  BY ReadToTheEnd DEF Given
<1>3. \A n \in Given(t) : n <= m
  BY <1>1 DEF LastNamed
<1>4. CASE m = 0
  BY <1>2, <1>3, <1>4
<1>5. CASE m # 0
  <2>1. m \in Given(t)
    BY <1>1, <1>5 DEF LastNamed
  <2>2. Max(Given(t)) = m
    BY <1>2, <1>3, <2>1, MaxIs
  <2> QED BY <1>5, <2>1, <2>2
<1> QED BY <1>4, <1>5

LEMMA ParsedAsAsked == ASSUME ParseInv, pc = "override" PROVE LastValueCounts
<1>1. ASSUME NEW o \in Option PROVE config[o] = Asked(o)
  <2>1. PICK m \in Nat :
          /\ LastNamed(o, m, i)
          /\ config[o] = IF m = 0 THEN Defaults[o]
                         ELSE Converted(o, args[m + 1].text)
    BY DEF ParseInv, OptionAsked
  <2>2. IF m = 0 THEN Given(o) = {} ELSE Given(o) # {} /\ Max(Given(o)) = m
    BY <2>1, LastIsMax
  <2> QED BY <2>1, <2>2 DEF Asked
<1>2. ASSUME NEW t \in JellyName
      PROVE  jellyConfig[t] = IF Given(t) = {} THEN None
                              ELSE args[Max(Given(t)) + 1].text
  <2>1. PICK m \in Nat :
          /\ LastNamed(t, m, i)
          /\ jellyConfig[t] = IF m = 0 THEN None ELSE args[m + 1].text
    BY DEF ParseInv, JellyAsked
  <2>2. IF m = 0 THEN Given(t) = {} ELSE Given(t) # {} /\ Max(Given(t)) = m
    BY <2>1, LastIsMax
  <2> QED BY <2>1, <2>2
<1> QED BY <1>1, <1>2 DEF LastValueCounts

-----------------------------------------------------------------------------
\* Every field of Config holds a value of its type, whatever the line says:
\* the conversions and main's own settings (Config.h, Main.cpp) stay in range.
THEOREM TypeCorrect == Spec => []TypeOK
<1>1. ParseInv => TypeOK
  BY DEF ParseInv
<1> QED BY <1>1, InvAlways, PTL

\* InitFromCommandLine refuses exactly the lines in which names and values do
\* not take turns, however long the line is.
THEOREM RefusesMalformed == Spec => []RefusesExactlyMalformed
<1>1. ParseInv => RefusesExactlyMalformed
  BY ParsedWellFormed DEF ParseInv, RefusesExactlyMalformed
<1> QED BY <1>1, InvAlways, PTL

\* After InitFromCommandLine every option, and every name that goes to jelly,
\* has the value that the line gives it last, or its default.
THEOREM LastCounts == Spec => []LastValueCounts
<1>1. ParseInv => LastValueCounts
  BY ParsedAsAsked DEF LastValueCounts
<1> QED BY <1>1, InvAlways, PTL
=============================================================================
