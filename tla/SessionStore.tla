--------------------------- MODULE SessionStore ---------------------------
(***************************************************************************)
(* blob_session_store: the byte counter that all sessions share, at the    *)
(* granularity of its atomic instructions.                                 *)
(*                                                                         *)
(* reserve and remove are called with the mutex of ONE session held, so a  *)
(* session has at most one call in the store; calls of different sessions  *)
(* interleave at every atomic instruction.  reserve is a load followed by  *)
(* a compare-and-exchange loop; a failed exchange also reloads, and the    *)
(* test against the quota that follows uses thread-local values, so it is  *)
(* part of the same step.  remove is one fetch_sub.                        *)
(*                                                                         *)
(* held is not in the store: it is the sum of the sizes that the callers   *)
(* keep in their blob entries, which is what the counter is meant to be.   *)
(***************************************************************************)
EXTENDS ByteCount, Integers

CONSTANTS
    Sessions,  \* the sessions that share the store
    quota_,    \* the limit in bytes, 0 for none
    Word,      \* the number of values of std::size_t
    MaxChunk,  \* the largest chunk: the limit gRPC puts on one message
    MaxHeld    \* bound of the model: bytes that one session may hold

ASSUME QuotaAssumption == quota_ \in Nat
ASSUME ChunkAssumption == MaxChunk \in Nat
\* current + size is computed in std::size_t: the quota test is meaningless
\* when a chunk on top of a full store wraps around.
ASSUME NoWrapAssumption == Word \in Nat /\ quota_ + MaxChunk < Word
ASSUME BoundAssumption == MaxHeld \in Nat

VARIABLES
    current_size_,  \* the atomic counter
    pc,             \* pc[s]: the next instruction of s's call, or "idle"
    size,           \* size[s]: the argument of the call
    current,        \* current[s]: the local variable of reserve
    result,         \* result[s]: what the last call of reserve returned
    held            \* held[s]: bytes in the entries of s

vars == <<current_size_, pc, size, current, result, held>>

TypeOK ==
    /\ current_size_ \in 0..Word - 1
    /\ pc \in [Sessions -> {"idle", "load", "cas"}]
    /\ size \in [Sessions -> 0..MaxChunk]
    /\ current \in [Sessions -> 0..Word - 1]
    /\ result \in [Sessions -> {"none", "granted", "refused"}]
    /\ held \in [Sessions -> Nat]

\* Unsigned arithmetic of std::size_t.
Plus(a, b) == IF a + b < Word THEN a + b ELSE a + b - Word
Minus(a, b) == IF b <= a THEN a - b ELSE a + Word - b

Init ==
    /\ current_size_ = 0
    /\ pc = [s \in Sessions |-> "idle"]
    /\ size = [s \in Sessions |-> 0]
    /\ current = [s \in Sessions |-> 0]
    /\ result = [s \in Sessions |-> "none"]
    /\ held = [s \in Sessions |-> 0]

-----------------------------------------------------------------------------
\* reserve(n) is called.
StartReserve(s, n) ==
    /\ pc[s] = "idle"
    /\ held[s] + n <= MaxHeld
    /\ pc' = [pc EXCEPT ![s] = "load"]
    /\ size' = [size EXCEPT ![s] = n]
    /\ result' = [result EXCEPT ![s] = "none"]
    /\ UNCHANGED <<current_size_, current, held>>

\* reserve returns true; the caller adds the size to its entry before it
\* releases the session's mutex.
Granted(s) ==
    /\ pc' = [pc EXCEPT ![s] = "idle"]
    /\ result' = [result EXCEPT ![s] = "granted"]
    /\ held' = [held EXCEPT ![s] = @ + size[s]]

\* Mutant of Fits: the size of the request is left out.
FitsAlready(s, v) == v <= quota_

Fits(s, v) == Plus(v, size[s]) <= quota_

Refused(s) ==
    /\ pc' = [pc EXCEPT ![s] = "idle"]
    /\ result' = [result EXCEPT ![s] = "refused"]

\* The head of the loop, with the counter's value v just read by s.
Test(s, v) ==
    /\ current' = [current EXCEPT ![s] = v]
    /\ \/ Fits(s, v) /\ pc' = [pc EXCEPT ![s] = "cas"] /\ UNCHANGED result
       \/ ~Fits(s, v) /\ Refused(s)

\* A quota of zero: nothing is read and nothing is counted.
Unlimited(s) ==
    /\ pc[s] = "load"
    /\ quota_ = 0
    /\ Granted(s)
    /\ UNCHANGED <<current_size_, size, current>>

\* Mutant of Load: a quota of zero is a limit like any other.
LoadAlways(s) ==
    /\ pc[s] = "load"
    /\ Test(s, current_size_)
    /\ UNCHANGED <<current_size_, size, held>>

Load(s) ==
    /\ pc[s] = "load"
    /\ quota_ # 0
    /\ Test(s, current_size_)
    /\ UNCHANGED <<current_size_, size, held>>

\* Mutant of Expected: a store, without the comparison.
ExpectedAlways(s) == TRUE

Expected(s) == current_size_ = current[s]

CasSucceeds(s) ==
    /\ pc[s] = "cas"
    /\ Expected(s)
    /\ current_size_' = Plus(current[s], size[s])
    /\ Granted(s)
    /\ UNCHANGED <<size, current>>

\* Mutants of Retry: contention is reported as a full store; the value found is
\* not kept, so the exchange fails again.
RefuseOnContention(s) == Refused(s) /\ UNCHANGED current
RetryWithoutReload(s) == UNCHANGED <<pc, result, current>>

\* compare_exchange_strong stores the value it found in current.
Retry(s) == Test(s, current_size_)

CasFails(s) ==
    /\ pc[s] = "cas"
    /\ ~Expected(s)
    /\ Retry(s)
    /\ UNCHANGED <<current_size_, size, held>>

CountDown(n) ==
    current_size_' = IF quota_ # 0 THEN Minus(current_size_, n) ELSE current_size_

\* Mutant of Remove: the last request is given back in place of the entry.
RemoveLastRequest(s, n) ==
    /\ pc[s] = "idle"
    /\ held' = [held EXCEPT ![s] = @ - size[s]]
    /\ CountDown(size[s])
    /\ UNCHANGED <<pc, size, current, result>>

\* remove(n): n is the size of an entry that the caller erases.
Remove(s, n) ==
    /\ pc[s] = "idle"
    /\ held' = [held EXCEPT ![s] = @ - n]
    /\ CountDown(n)
    /\ UNCHANGED <<pc, size, current, result>>

Step(s) == Unlimited(s) \/ Load(s) \/ CasSucceeds(s) \/ CasFails(s)

Next == \E s \in Sessions :
    \/ \E n \in 0..MaxChunk : StartReserve(s, n)
    \/ Step(s)
    \/ \E n \in 1..held[s] : Remove(s, n)

Spec == Init /\ [][Next]_vars

\* A thread in reserve is scheduled; nothing obliges it to win the exchange.
FairSpec == Spec /\ \A s \in Sessions : WF_vars(Step(s))

-----------------------------------------------------------------------------
\* The counter is the sum of what the sessions hold: no interleaving of the
\* exchange loop with other reservations and removals loses an update or
\* counts one twice; without a quota the counter is not used at all.
AccountingExact == current_size_ = IF quota_ = 0 THEN 0 ELSE Total(held)

\* The sessions together never hold more than the quota, however stale the
\* value that a reservation tested.
QuotaRespected == quota_ # 0 => Total(held) <= quota_

\* The refinement: every reservation takes effect, or is refused, in one
\* step, and rightly so at that step.
Abstract == INSTANCE QuotaCounter WITH
    Owners <- Sessions,
    Quota <- quota_,
    MaxRequest <- MaxChunk,
    used <- current_size_,
    asking <- [s \in Sessions |-> pc[s] # "idle"],
    request <- size,
    answer <- result

ReservesAtomically == Abstract!QSpec

\* The exchange loop is lock-free: a reservation that loops forever does so
\* only because the counter changes forever, that is, because others progress.
LockFree == \A s \in Sessions :
    <>[](pc[s] # "idle") => []<><<current_size_' # current_size_>>_vars
=============================================================================
