------------------------------ MODULE LLMGateway ------------------------------
(***************************************************************************)
(* One LLMGateway shared by several threads.  Calls with one fingerprint   *)
(* take turns under a lock of LLMSingleFlight, whose registry creates the  *)
(* lock for the first user and drops it after the last; a turn reads the   *)
(* DuckDB cache, asks the provider on a miss, writes the answer to the     *)
(* cache and records the call.  Cache failures are retried and then        *)
(* degraded, never allowed to discard an answer the provider was paid for. *)
(***************************************************************************)
EXTENDS Integers, FiniteSets

CONSTANTS
  Threads,
  Keys,              \* request fingerprints
  Locks,             \* identities of Lock objects
  ReadMaxRetries,    \* LLMCacheReliabilityPolicy.read_max_retries
  WriteMaxRetries,   \* LLMCacheReliabilityPolicy.write_max_retries
  MaxRetries,        \* max_retries of the provider settings
  MaxCalls,          \* bound: how many calls are made
  MaxFaults          \* bound: how many requests and queries fail

ASSUME GatewayAssumption ==
  /\ IsFiniteSet(Threads)
  /\ Keys \subseteq Nat \ {0} /\ Locks \subseteq Nat \ {0}
  /\ ReadMaxRetries \in 0..2 /\ WriteMaxRetries \in 0..2 /\ MaxRetries \in Nat
  /\ MaxCalls \in Nat /\ MaxFaults \in Nat

VARIABLES
  registry,   \* _locks: the lock and the users of each fingerprint
  holder,     \* the thread that holds each lock
  pc, key, lock, tries,  \* of each thread; tries is the retry_count of its loop
  cache,      \* DuckDB table llm_cache: what a read of the key finds
  answered,   \* how often the provider gave a valid answer for the key (history)
  degraded,   \* how often its cache reads and writes were degraded (history)
  calls,      \* how many calls were made
  faults      \* how many requests and queries have failed

lockVars   == <<registry, holder>>
threadVars == <<pc, key, lock, tries>>
countVars  == <<answered, degraded>>
vars == <<lockVars, threadVars, cache, countVars, calls, faults>>

\* A row of an earlier version may be unreadable, or fail today's validators.
Rows == {"none", "valid", "corrupt", "outdated"}

NoEntry == [lock |-> 0, users |-> 0]

NoThread == {}

Turn   == {"reading", "invoking", "writing", "recording", "releasing"}
Inside == Turn \union {"waiting", "leaving"}

Init ==
  /\ registry = [k \in Keys |-> NoEntry]
  /\ holder = [l \in Locks |-> NoThread]
  /\ pc = [t \in Threads |-> "idle"]
  /\ key = [t \in Threads |-> 0] /\ lock = [t \in Threads |-> 0]
  /\ tries = [t \in Threads |-> 0]
  /\ cache \in [Keys -> Rows]
  /\ answered = [k \in Keys |-> 0] /\ degraded = [k \in Keys |-> 0]
  /\ calls = 0 /\ faults = 0

Fault == faults < MaxFaults /\ faults' = faults + 1

At(t, from) == pc[t] = from
Goto(t, to) == pc' = [pc EXCEPT ![t] = to] /\ tries' = [tries EXCEPT ![t] = 0]

\* One more round of a retry loop, or what happens when it gives up.
Retry(t, max, GiveUp) ==
  IF tries[t] < max
  THEN /\ tries' = [tries EXCEPT ![t] = @ + 1]
       /\ UNCHANGED <<pc, degraded>>
  ELSE GiveUp

Degrade(t) == degraded' = [degraded EXCEPT ![key[t]] = @ + 1]

-------------------------------------------------------------------------------
(* LLMSingleFlight.coordinate                                                *)

InUse == {registry[k].lock : k \in Keys} \union {lock[t] : t \in Threads}

\* Lock(): an object nobody has; which one does not matter.
IsNew(l) == l \notin InUse /\ \A m \in Locks \ InUse : l <= m

LockFor(k, l) ==
  IF registry[k].users = 0 THEN IsNew(l) ELSE l = registry[k].lock

\* Mutant of Register: a thread that finds an entry does not count itself.
RegisterUncounted(t, k) ==
  /\ At(t, "idle") /\ calls < MaxCalls
  /\ calls' = calls + 1
  /\ \E l \in Locks :
       /\ LockFor(k, l)
       /\ registry' = [registry EXCEPT ![k] = [lock |-> l, users |-> 1]]
       /\ lock' = [lock EXCEPT ![t] = l]
  /\ key' = [key EXCEPT ![t] = k]
  /\ Goto(t, "waiting")
  /\ UNCHANGED <<holder, cache, countVars, faults>>

\* A call begins: under the guard, the thread enters itself as a user of the lock.
Register(t, k) ==
  /\ At(t, "idle") /\ calls < MaxCalls
  /\ calls' = calls + 1
  /\ \E l \in Locks :
       /\ LockFor(k, l)
       /\ registry' = [registry EXCEPT ![k] = [lock |-> l, users |-> @.users + 1]]
       /\ lock' = [lock EXCEPT ![t] = l]
  /\ key' = [key EXCEPT ![t] = k]
  /\ Goto(t, "waiting")
  /\ UNCHANGED <<holder, cache, countVars, faults>>

\* lock.acquire() returns.
Acquire(t) ==
  /\ At(t, "waiting") /\ holder[lock[t]] = NoThread
  /\ holder' = [holder EXCEPT ![lock[t]] = {t}]
  /\ Goto(t, "reading")
  /\ UNCHANGED <<registry, key, lock, cache, countVars, calls, faults>>

\* The finally block, whether the turn returned or raised.
Release(t) ==
  /\ At(t, "releasing")
  /\ holder' = [holder EXCEPT ![lock[t]] = NoThread]
  /\ Goto(t, "leaving")
  /\ UNCHANGED <<registry, key, lock, cache, countVars, calls, faults>>

OneUserLess(entry) ==
  IF entry.users = 1 THEN NoEntry
  ELSE [lock |-> entry.lock, users |-> entry.users - 1]

\* Mutant of Deregister: the first thread to leave drops the lock.
DeregisterFirst(t) ==
  /\ At(t, "leaving")
  /\ registry' = [registry EXCEPT ![key[t]] = NoEntry]
  /\ key' = [key EXCEPT ![t] = 0] /\ lock' = [lock EXCEPT ![t] = 0]
  /\ Goto(t, "idle")
  /\ UNCHANGED <<holder, cache, countVars, calls, faults>>

\* Under the guard again, the last user drops the lock; the call is over.
Deregister(t) ==
  /\ At(t, "leaving")
  /\ registry' = [registry EXCEPT ![key[t]] = OneUserLess(@)]
  /\ key' = [key EXCEPT ![t] = 0] /\ lock' = [lock EXCEPT ![t] = 0]
  /\ Goto(t, "idle")
  /\ UNCHANGED <<holder, cache, countVars, calls, faults>>

-------------------------------------------------------------------------------
(* LLMGateway._invoke_json_coordinated                                       *)

\* What a read leads to.  A row that cannot be decoded or validated ends the call
\* with an error, without the provider and without removing the row.
AfterRead == [none |-> "invoking", valid |-> "recording",
              corrupt |-> "releasing", outdated |-> "releasing"]

Read(t) ==
  /\ At(t, "reading")
  /\ Goto(t, AfterRead[cache[key[t]]])
  /\ UNCHANGED <<lockVars, key, lock, cache, countVars, calls, faults>>

\* The read raises TransientRepositoryError: again, or a degraded miss.
ReadTransient(t) ==
  /\ At(t, "reading")
  /\ Fault
  /\ Retry(t, ReadMaxRetries, Goto(t, "invoking") /\ Degrade(t))
  /\ UNCHANGED <<lockVars, key, lock, cache, answered, calls>>

\* Mutant of ReadFails: the error leaves without releasing the lock.
ReadFailsHolding(t) ==
  /\ At(t, "reading")
  /\ Fault
  /\ Goto(t, "leaving")
  /\ UNCHANGED <<lockVars, key, lock, cache, countVars, calls>>

\* Any other RepositoryError: LLMCacheError.
ReadFails(t) ==
  /\ At(t, "reading")
  /\ Fault
  /\ Goto(t, "releasing")
  /\ UNCHANGED <<lockVars, key, lock, cache, countVars, calls>>

\* The provider answers and the content passes the response model.
Invoke(t) ==
  /\ At(t, "invoking")
  /\ answered' = [answered EXCEPT ![key[t]] = @ + 1]
  /\ Goto(t, "writing")
  /\ UNCHANGED <<lockVars, key, lock, cache, degraded, calls, faults>>

\* A retryable transport or API error: again, or the mapped provider error.
InvokeTransient(t) ==
  /\ At(t, "invoking")
  /\ Fault
  /\ Retry(t, MaxRetries, Goto(t, "releasing") /\ UNCHANGED degraded)
  /\ UNCHANGED <<lockVars, key, lock, cache, answered, calls>>

\* Any other error, or content that the response model rejects.
InvokeFails(t) ==
  /\ At(t, "invoking")
  /\ Fault
  /\ Goto(t, "releasing")
  /\ UNCHANGED <<lockVars, key, lock, cache, countVars, calls>>

\* Mutant of Write: the answer is not stored.
WriteSkipped(t) ==
  /\ At(t, "writing")
  /\ Goto(t, "recording")
  /\ UNCHANGED <<lockVars, key, lock, cache, countVars, calls, faults>>

\* The validated content replaces the row of the key.
Write(t) ==
  /\ At(t, "writing")
  /\ cache' = [cache EXCEPT ![key[t]] = "valid"]
  /\ Goto(t, "recording")
  /\ UNCHANGED <<lockVars, key, lock, countVars, calls, faults>>

\* Again, or the answer goes to the caller without being stored.
WriteTransient(t) ==
  /\ At(t, "writing")
  /\ Fault
  /\ Retry(t, WriteMaxRetries, Goto(t, "recording") /\ Degrade(t))
  /\ UNCHANGED <<lockVars, key, lock, cache, answered, calls>>

\* Any other RepositoryError is degraded at once.
WriteFails(t) ==
  /\ At(t, "writing")
  /\ Fault
  /\ Goto(t, "recording") /\ Degrade(t)
  /\ UNCHANGED <<lockVars, key, lock, cache, answered, calls>>

\* The metadata sink accepts the record and the call returns its content, or it
\* raises and the call raises LLMMetadataError.
Record(t) ==
  /\ At(t, "recording")
  /\ Goto(t, "releasing")
  /\ UNCHANGED <<lockVars, key, lock, cache, countVars, calls, faults>>

-------------------------------------------------------------------------------
Step(t) ==
  \/ Acquire(t) \/ Release(t) \/ Deregister(t)
  \/ Read(t) \/ ReadTransient(t) \/ ReadFails(t)
  \/ Invoke(t) \/ InvokeTransient(t) \/ InvokeFails(t)
  \/ Write(t) \/ WriteTransient(t) \/ WriteFails(t) \/ Record(t)

Next == \E t \in Threads : Step(t) \/ \E k \in Keys : Register(t, k)

Spec == Init /\ [][Next]_vars

\* Threads are scheduled, requests time out and retries are bounded.
LiveSpec == Spec /\ \A t \in Threads : WF_vars(Step(t))

-------------------------------------------------------------------------------
(* Properties                                                                *)

\* Types, and where the key and the lock of a thread are set.
TypeOK ==
  /\ registry \in [Keys -> [lock : Locks \union {0}, users : Nat]]
  /\ holder \in [Locks -> SUBSET Threads]
  /\ pc \in [Threads -> Inside \union {"idle"}]
  /\ key \in [Threads -> Keys \union {0}]
  /\ lock \in [Threads -> Locks \union {0}]
  /\ \A t \in Threads : /\ pc[t] \in Inside <=> key[t] \in Keys
                        /\ pc[t] \in Inside <=> lock[t] \in Locks
  /\ tries \in [Threads -> Nat]
  /\ cache \in [Keys -> Rows]
  /\ answered \in [Keys -> Nat] /\ degraded \in [Keys -> Nat]
  /\ calls \in 0..MaxCalls /\ faults \in 0..MaxFaults

\* At most one thread executes a fingerprint, although its lock is created and
\* dropped while others arrive, wait and leave.
OneTurnPerKey ==
  \A t, u \in Threads :
    pc[t] \in Turn /\ pc[u] \in Turn /\ key[t] = key[u] => t = u

Users(k) == {t \in Threads : key[t] = k}

\* The registry counts the threads of each fingerprint, hands all of them the one
\* lock, keeps no entry for a fingerprint without threads, and never gives one
\* lock to two fingerprints.
RegistryIsExact ==
  /\ \A k \in Keys :
       /\ registry[k].users = Cardinality(Users(k))
       /\ \A t \in Users(k) : lock[t] = registry[k].lock
       /\ registry[k].users = 0 => registry[k] = NoEntry
  /\ \A j, k \in Keys : registry[j].lock = registry[k].lock /\ registry[j] # NoEntry
                          => j = k

\* The provider answers a fingerprint once, and once more for every degraded cache
\* access of it: neither concurrent nor later calls repeat a paid request.
AnsweredOnce ==
  \A k \in Keys : answered[k] <= 1 + degraded[k]

\* Every call returns or raises, and so does every call that waits behind it.
EveryCallReturns ==
  \A t \in Threads : pc[t] = "waiting" ~> pc[t] = "idle"
===============================================================================
