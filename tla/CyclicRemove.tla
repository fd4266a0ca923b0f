----------------------------- MODULE CyclicRemove -----------------------------
(***************************************************************************)
(* JellyWrite::_UpdateRequests (Write/Jelly/JellyWrite.cpp): one scan over *)
(* m_requests that drops every completed request by moving the last one    *)
(* into its place.  The index is a size_t that is decremented after each   *)
(* removal, from 0 as well, and incremented by the loop.  Each step is one *)
(* turn of the loop.                                                       *)
(***************************************************************************)
EXTENDS Integers, Sequences

CONSTANTS
  Request,      \* requests, each owned by one entry of the vector
  MaxRequests,  \* the longest vector considered
  SizeModulus   \* 2^64, the modulus of size_t

ASSUME SizeAssumption ==
  /\ MaxRequests \in Nat
  /\ SizeModulus \in Nat
  /\ MaxRequests + 1 < SizeModulus

VARIABLES
  m_requests,  \* the vector
  index,       \* the index, i in the code
  completed,   \* the requests whose IsCompleted() is true
  initial,     \* history: the vector as it was at the start
  scanning     \* the loop has not ended

scanVars == <<m_requests, index, completed, initial, scanning>>

Elements(s) == {s[j] : j \in 1 .. Len(s)}

Distinct(s) == \A j, l \in 1 .. Len(s) : s[j] = s[l] => j = l

Vector == UNION {{s \in [1 .. n -> Request] : Distinct(s)} : n \in 0 .. MaxRequests}

ScanInit ==
  /\ m_requests \in Vector
  /\ index = 0
  /\ completed \in SUBSET Request
  /\ initial = m_requests
  /\ scanning = TRUE

req == m_requests[index + 1]

PopBack(s) == SubSeq(s, 1, Len(s) - 1)

\* Mutants of Removed: the last request is dropped instead of moved; it is
\* moved, but its old entry is not popped.
RemovedLast == PopBack(m_requests)
RemovedNotPopped == [m_requests EXCEPT ![index + 1] = m_requests[Len(m_requests)]]

\* The vector without the entry at the index.
Removed ==
  IF index + 1 < Len(m_requests)
    THEN PopBack([m_requests EXCEPT ![index + 1] = m_requests[Len(m_requests)]])
    ELSE PopBack(m_requests)

\* The index after a removal, the decrement and the increment of the loop.
\* Mutant of IndexAfterRemoval: a decrement that stops at 0.
IndexSaturated == (IF index = 0 THEN 0 ELSE index - 1) + 1

IndexAfterRemoval == (((index - 1) % SizeModulus) + 1) % SizeModulus

Remove ==
  /\ scanning
  /\ index < Len(m_requests)
  /\ req \in completed
  /\ m_requests' = Removed
  /\ index' = IndexAfterRemoval
  /\ UNCHANGED <<completed, initial, scanning>>

\* Mutant of Keep: the decrement has slipped out of the if.
KeepDecrements ==
  /\ scanning
  /\ index < Len(m_requests)
  /\ req \notin completed
  /\ index' = IndexAfterRemoval
  /\ UNCHANGED <<m_requests, completed, initial, scanning>>

Keep ==
  /\ scanning
  /\ index < Len(m_requests)
  /\ req \notin completed
  /\ index' = (index + 1) % SizeModulus
  /\ UNCHANGED <<m_requests, completed, initial, scanning>>

Return ==
  /\ scanning
  /\ index >= Len(m_requests)
  /\ scanning' = FALSE
  /\ UNCHANGED <<m_requests, index, completed, initial>>

ScanNext == Remove \/ Keep \/ Return

ScanSpec == ScanInit /\ [][ScanNext]_scanVars

\* The scan runs to its end: nothing in it blocks.
FairScanSpec == ScanSpec /\ WF_scanVars(ScanNext)
-----------------------------------------------------------------------------
(***************************************************************************)
(* Properties                                                              *)
(***************************************************************************)
\* The vector holds requests, each at one index, and the index is in range
\* or just past the end.
ScanTypeOK ==
  /\ m_requests \in Vector
  /\ index \in 0 .. Len(m_requests)
  /\ completed \subseteq Request
  /\ initial \in Vector
  /\ scanning \in BOOLEAN

(***************************************************************************)
(* No request that the node still works on is destroyed, at any point of   *)
(* the scan: an entry that leaves the vector is a completed one.           *)
(***************************************************************************)
UncompletedKept ==
  /\ Elements(initial) \ completed \subseteq Elements(m_requests)
  /\ Elements(m_requests) \subseteq Elements(initial)

\* The scan releases every completed request, the ones it moved included.
CompletedReleased == ~scanning => Elements(m_requests) \cap completed = {}

\* The scan ends, although a removal takes the index back.
ScanEnds == <>~scanning
=============================================================================
