-------------------------- MODULE LLMGateway_proofs --------------------------
(***************************************************************************)
(* Proofs about LLMGateway for every set of threads, fingerprints and      *)
(* locks, every retry policy and any number of calls and failures.         *)
(***************************************************************************)
EXTENDS LLMGateway, FiniteSetTheorems, TLAPS

-------------------------------------------------------------------------------
(* Types                                                                     *)

LEMMA InitTypeOK == Init => TypeOK
  BY GatewayAssumption DEF Init, TypeOK, NoEntry, NoThread, Rows, Inside, Turn

\* The steps a thread takes while it holds the lock change neither the lock nor
\* the registry, and leave the thread in its turn.
TurnStep(t) ==
  \/ Read(t) \/ ReadTransient(t) \/ ReadFails(t)
  \/ Invoke(t) \/ InvokeTransient(t) \/ InvokeFails(t)
  \/ Write(t) \/ WriteTransient(t) \/ WriteFails(t) \/ Record(t)

LEMMA TurnSteps ==
  ASSUME TypeOK, NEW t \in Threads, TurnStep(t)
  PROVE  /\ UNCHANGED <<lockVars, key, lock, calls>>
         /\ pc[t] \in Turn
         /\ \E to \in Turn : pc' = [pc EXCEPT ![t] = to]
<1> key[t] \in Keys
  BY DEF TypeOK, TurnStep, Read, ReadTransient, ReadFails, Invoke, InvokeTransient,
     InvokeFails, Write, WriteTransient, WriteFails, Record, At, Inside, Turn
<1> cache[key[t]] \in Rows
  BY DEF TypeOK
<1> pc = [pc EXCEPT ![t] = pc[t]]
  BY DEF TypeOK
<1>1. CASE Read(t)
  <2>1. AfterRead[cache[key[t]]] \in Turn
    BY DEF AfterRead, Rows, Turn
  <2>2. QED
    BY <1>1, <2>1 DEF Read, Goto, At, Turn
<1>2. CASE ReadTransient(t)
  BY <1>2 DEF ReadTransient, Retry, Goto, At, Turn
<1>3. CASE ReadFails(t)
  BY <1>3 DEF ReadFails, Goto, At, Turn
<1>4. CASE Invoke(t)
  BY <1>4 DEF Invoke, Goto, At, Turn
<1>5. CASE InvokeTransient(t)
  BY <1>5 DEF InvokeTransient, Retry, Goto, At, Turn
<1>6. CASE InvokeFails(t)
  BY <1>6 DEF InvokeFails, Goto, At, Turn
<1>7. CASE Write(t)
  BY <1>7 DEF Write, Goto, At, Turn
<1>8. CASE WriteTransient(t)
  BY <1>8 DEF WriteTransient, Retry, Goto, At, Turn
<1>9. CASE WriteFails(t)
  BY <1>9 DEF WriteFails, Goto, At, Turn
<1>10. CASE Record(t)
  BY <1>10 DEF Record, Goto, At, Turn
<1>11. QED
  BY <1>1, <1>2, <1>3, <1>4, <1>5, <1>6, <1>7, <1>8, <1>9, <1>10 DEF TurnStep

\* What a turn does to the counters, the cache and the retry counts is well typed.
LEMMA TurnCountTypes ==
  ASSUME TypeOK, NEW t \in Threads, TurnStep(t)
  PROVE  /\ tries' \in [Threads -> Nat]
         /\ cache' \in [Keys -> Rows]
         /\ answered' \in [Keys -> Nat] /\ degraded' \in [Keys -> Nat]
         /\ faults' \in 0..MaxFaults
<1>0. key[t] \in Keys
  BY TurnSteps DEF TypeOK, Inside
<1>a. /\ [answered EXCEPT ![key[t]] = @ + 1] \in [Keys -> Nat]
      /\ [degraded EXCEPT ![key[t]] = @ + 1] \in [Keys -> Nat]
  BY <1>0 DEF TypeOK
<1> USE GatewayAssumption DEF TypeOK, Goto, countVars
<1>1. CASE Read(t)
  BY <1>1 DEF Read
<1>2. CASE ReadTransient(t)
  BY <1>2, <1>a DEF ReadTransient, Retry, Degrade, Fault
<1>3. CASE ReadFails(t)
  BY <1>3 DEF ReadFails, Fault
<1>4. CASE Invoke(t)
  BY <1>4, <1>a DEF Invoke
<1>5. CASE InvokeTransient(t)
  BY <1>5 DEF InvokeTransient, Retry, Fault
<1>6. CASE InvokeFails(t)
  BY <1>6 DEF InvokeFails, Fault
<1>7. CASE Write(t)
  BY <1>7 DEF Write, Rows
<1>8. CASE WriteTransient(t)
  BY <1>8, <1>a DEF WriteTransient, Retry, Degrade, Fault
<1>9. CASE WriteFails(t)
  BY <1>9, <1>a DEF WriteFails, Degrade, Fault
<1>10. CASE Record(t)
  BY <1>10 DEF Record
<1>11. QED
  BY <1>1, <1>2, <1>3, <1>4, <1>5, <1>6, <1>7, <1>8, <1>9, <1>10 DEF TurnStep

LEMMA NextCases ==
  ASSUME [Next]_vars
  PROVE  \/ \E t \in Threads, k \in Keys : Register(t, k)
         \/ \E t \in Threads : Acquire(t) \/ Release(t) \/ Deregister(t) \/ TurnStep(t)
         \/ UNCHANGED vars
  BY DEF Next, Step, TurnStep

\* The sets of users are finite, and a thread with a fingerprint is one of its
\* users, so that the registry has an entry for it.
LEMMA UsersFinite == \A k : IsFiniteSet(Users(k))
  BY GatewayAssumption, FS_Subset, \A k : Users(k) \in SUBSET Threads DEF Users

LEMMA UserIsCounted ==
  ASSUME RegistryIsExact, NEW t \in Threads, key[t] \in Keys
  PROVE  /\ registry[key[t]].users \in Nat \ {0}
         /\ lock[t] = registry[key[t]].lock
<1>1. t \in Users(key[t])
  BY DEF Users
<1>2. Cardinality(Users(key[t])) \in Nat \ {0}
  BY <1>1, UsersFinite, FS_EmptySet, FS_CardinalityType
<1>3. QED
  BY <1>1, <1>2 DEF RegistryIsExact

\* The count of users cannot be decremented below zero only because the registry
\* is exact.
LEMMA NextTypeOK == TypeOK /\ RegistryIsExact /\ [Next]_vars => TypeOK'
<1> SUFFICES ASSUME TypeOK, RegistryIsExact, [Next]_vars PROVE TypeOK'
  OBVIOUS
<1> USE GatewayAssumption
<1>1. ASSUME NEW t \in Threads, NEW k \in Keys, Register(t, k) PROVE TypeOK'
  <2>1. PICK l \in Locks :
          /\ registry' = [registry EXCEPT ![k] = [lock |-> l, users |-> @.users + 1]]
          /\ lock' = [lock EXCEPT ![t] = l]
    BY <1>1 DEF Register
  <2>2. registry' \in [Keys -> [lock : Locks \union {0}, users : Nat]]
    BY <2>1 DEF TypeOK
  <2>3. QED
    BY <1>1, <2>1, <2>2 DEF TypeOK, Register, Goto, At, Inside, Turn, countVars
<1>2. ASSUME NEW t \in Threads, Acquire(t) PROVE TypeOK'
  BY <1>2 DEF TypeOK, Acquire, Goto, At, Inside, Turn, countVars
<1>3. ASSUME NEW t \in Threads, Release(t) PROVE TypeOK'
  BY <1>3 DEF TypeOK, Release, Goto, At, Inside, Turn, countVars, NoThread
<1>4. ASSUME NEW t \in Threads, Deregister(t) PROVE TypeOK'
  <2>0. key[t] \in Keys
    BY <1>4 DEF TypeOK, Deregister, At, Inside
  <2>1. registry[key[t]] \in [lock : Locks \union {0}, users : Nat]
    BY <2>0 DEF TypeOK
  <2>2. OneUserLess(registry[key[t]]) \in [lock : Locks \union {0}, users : Nat]
    <3>1. registry[key[t]].users - 1 \in Nat
      BY <2>0, UserIsCounted
    <3>2. QED
      BY <2>1, <3>1 DEF NoEntry, OneUserLess
  <2>3. registry' \in [Keys -> [lock : Locks \union {0}, users : Nat]]
    BY <1>4, <2>2 DEF TypeOK, Deregister
  <2>4. QED
    BY <1>4, <2>3 DEF TypeOK, Deregister, Goto, At, Inside, Turn, countVars
<1>5. ASSUME NEW t \in Threads, TurnStep(t) PROVE TypeOK'
  BY <1>5, TurnSteps, TurnCountTypes DEF TypeOK, Inside, lockVars
<1>6. CASE UNCHANGED vars
  BY <1>6 DEF TypeOK, vars, lockVars, threadVars, countVars
<1>7. QED
  BY <1>1, <1>2, <1>3, <1>4, <1>5, <1>6, NextCases

-------------------------------------------------------------------------------
(* The inductive invariant                                                   *)
(*                                                                           *)
(* That turns exclude each other follows from two facts: threads of one      *)
(* fingerprint have one lock, for which the registry must be exact while     *)
(* threads arrive and leave, and a thread in its turn is the holder.  That   *)
(* the provider is asked once follows from a third: an answer is paid for by *)
(* a degraded access, or it is the one that is stored or about to be.        *)

HolderIsExact == \A t \in Threads : pc[t] \in Turn => holder[lock[t]] = {t}

\* The key has an answer that is stored or that its thread is about to store.
Kept(k) == cache[k] = "valid" \/ \E t \in Users(k) : pc[t] = "writing"

AnswersArePaid ==
  /\ \A k \in Keys : answered[k] <= degraded[k] + (IF Kept(k) THEN 1 ELSE 0)
  /\ \A t \in Threads : pc[t] = "invoking" => answered[key[t]] <= degraded[key[t]]

IInv == TypeOK /\ RegistryIsExact /\ HolderIsExact /\ AnswersArePaid

LEMMA TurnsExclude == TypeOK /\ RegistryIsExact /\ HolderIsExact => OneTurnPerKey
<1> SUFFICES ASSUME TypeOK, RegistryIsExact, HolderIsExact,
                    NEW t \in Threads, NEW u \in Threads,
                    pc[t] \in Turn, pc[u] \in Turn, key[t] = key[u]
             PROVE  t = u
  BY DEF OneTurnPerKey
<1>1. key[t] \in Keys
  BY DEF TypeOK, Inside
<1>2. lock[t] = lock[u]
  BY <1>1, UserIsCounted
<1>3. QED
  BY <1>2 DEF HolderIsExact

LEMMA PaidIsBounded == TypeOK /\ AnswersArePaid => AnsweredOnce
  BY DEF TypeOK, AnswersArePaid, AnsweredOnce

LEMMA InitIInv == Init => IInv
<1> SUFFICES ASSUME Init PROVE IInv
  OBVIOUS
<1>1. TypeOK
  BY InitTypeOK
<1>2. \A k \in Keys : Users(k) = {}
  BY GatewayAssumption DEF Init, Users
<1>3. RegistryIsExact
  BY <1>2, FS_EmptySet DEF Init, RegistryIsExact, NoEntry
<1>4. HolderIsExact /\ AnswersArePaid
  BY <1>2 DEF Init, HolderIsExact, AnswersArePaid, Turn
<1>5. QED
  BY <1>1, <1>3, <1>4 DEF IInv

-------------------------------------------------------------------------------
(* The registry                                                              *)

LEMMA RegistryStep ==
  ASSUME TypeOK, RegistryIsExact, [Next]_vars
  PROVE  RegistryIsExact'
<1> USE GatewayAssumption
<1>1. ASSUME NEW t \in Threads, NEW k \in Keys, Register(t, k)
      PROVE  RegistryIsExact'
  <2>1. PICK l \in Locks :
          /\ LockFor(k, l)
          /\ registry' = [registry EXCEPT ![k] = [lock |-> l, users |-> @.users + 1]]
          /\ lock' = [lock EXCEPT ![t] = l]
    BY <1>1 DEF Register
  <2>2. key[t] \notin Keys /\ key' = [key EXCEPT ![t] = k]
    BY <1>1 DEF Register, At, TypeOK, Inside, Turn
  <2>3. t \notin Users(k) /\ Users(k)' = Users(k) \union {t}
    BY <2>2 DEF TypeOK, Users
  <2>4. \A j \in Keys \ {k} : Users(j)' = Users(j) /\ registry'[j] = registry[j]
    BY <2>1, <2>2 DEF TypeOK, Users
  <2>5. Cardinality(Users(k)') = Cardinality(Users(k)) + 1
    BY <2>3, UsersFinite, FS_AddElement
  <2>6. registry'[k].users = Cardinality(Users(k)') /\ registry'[k].lock = l
    BY <2>1, <2>5 DEF RegistryIsExact, TypeOK
  <2>7. \A u \in Users(k)' : lock'[u] = l
    <3>1. registry[k].users = 0 => Users(k) = {}
      BY UsersFinite, FS_EmptySet DEF RegistryIsExact
    <3>2. \A u \in Users(k) : lock[u] = l
      BY <2>1, <3>1 DEF RegistryIsExact, LockFor
    <3>3. QED
      BY <2>1, <2>3, <3>2 DEF TypeOK, Users
  <2>8. \A j \in Keys \ {k} : registry[j].lock # l
    <3>1. CASE registry[k].users = 0
      BY <2>1, <3>1 DEF LockFor, IsNew, InUse
    <3>2. CASE registry[k].users # 0
      BY <2>1, <3>2 DEF LockFor, RegistryIsExact, NoEntry
    <3>3. QED
      BY <3>1, <3>2
  <2>9. \A j \in Keys \ {k} : \A u \in Users(j)' : lock'[u] = registry'[j].lock
    <3>1. \A j \in Keys : t \notin Users(j)
      BY <2>2 DEF Users
    <3>2. QED
      BY <2>1, <2>4, <3>1 DEF RegistryIsExact, TypeOK, Users
  <2>10. registry[k].users \in Nat
    BY DEF TypeOK
  <2>11. registry'[k] # NoEntry /\ registry'[k].users # 0
    BY <2>1, <2>10 DEF NoEntry, TypeOK
  <2>12. \A j \in Keys :
           /\ registry'[j].users = Cardinality(Users(j)')
           /\ \A u \in Users(j)' : lock'[u] = registry'[j].lock
           /\ registry'[j].users = 0 => registry'[j] = NoEntry
    BY <2>4, <2>6, <2>7, <2>9, <2>11 DEF RegistryIsExact
  <2>13. \A i, j \in Keys : registry'[i].lock = registry'[j].lock /\ registry'[i] # NoEntry
                              => i = j
    BY <2>4, <2>6, <2>8 DEF RegistryIsExact
  <2>14. QED
    BY <2>12, <2>13 DEF RegistryIsExact
<1>2. ASSUME NEW t \in Threads, Deregister(t)
      PROVE  RegistryIsExact'
  <2>1. PICK k \in Keys : k = key[t] /\ t \in Users(k)
    BY <1>2 DEF Deregister, At, TypeOK, Inside, Users
  <2>2. /\ registry' = [registry EXCEPT ![k] = OneUserLess(@)]
        /\ key' = [key EXCEPT ![t] = 0] /\ lock' = [lock EXCEPT ![t] = 0]
    BY <1>2, <2>1 DEF Deregister
  <2>3. Users(k)' = Users(k) \ {t}
    BY <2>1, <2>2 DEF TypeOK, Users
  <2>4. \A j \in Keys \ {k} : Users(j)' = Users(j) /\ registry'[j] = registry[j]
    BY <2>1, <2>2 DEF TypeOK, Users
  <2>5. Cardinality(Users(k)') = Cardinality(Users(k)) - 1
    BY <2>1, <2>3, UsersFinite, FS_RemoveElement
  <2>6. registry[k].users = Cardinality(Users(k)) /\ registry[k].users \in Nat
    BY <2>1 DEF RegistryIsExact, TypeOK
  <2>7. /\ registry'[k].users = Cardinality(Users(k)')
        /\ registry'[k].users = 0 => registry'[k] = NoEntry
        /\ registry'[k] # NoEntry => registry'[k].lock = registry[k].lock
    BY <2>1, <2>2, <2>5, <2>6 DEF OneUserLess, NoEntry, TypeOK
  <2>8. \A u \in Users(k)' : lock'[u] = registry'[k].lock
    <3>1. SUFFICES ASSUME NEW u \in Users(k)' PROVE lock'[u] = registry'[k].lock
      OBVIOUS
    <3>2. registry'[k] # NoEntry
      <4>1. Cardinality(Users(k)') # 0
        <5>1. IsFiniteSet(Users(k)')
          BY <2>3, UsersFinite, FS_RemoveElement
        <5>2. QED
          BY <3>1, <5>1, FS_EmptySet
      <4>2. QED
        BY <2>7, <4>1 DEF NoEntry
    <3>3. u \in Users(k) /\ u # t /\ u \in Threads
      BY <2>3 DEF Users
    <3>4. QED
      BY <2>1, <2>2, <2>7, <3>2, <3>3 DEF RegistryIsExact, TypeOK
  <2>9. \A j \in Keys \ {k} : \A u \in Users(j)' : lock'[u] = registry'[j].lock
    <3>1. \A j \in Keys \ {k} : t \notin Users(j)
      BY <2>1 DEF Users
    <3>2. QED
      BY <2>2, <2>4, <3>1 DEF RegistryIsExact, TypeOK, Users
  <2>10. \A j \in Keys :
           /\ registry'[j].users = Cardinality(Users(j)')
           /\ \A u \in Users(j)' : lock'[u] = registry'[j].lock
           /\ registry'[j].users = 0 => registry'[j] = NoEntry
    BY <2>4, <2>7, <2>8, <2>9 DEF RegistryIsExact
  <2>11. \A j \in Keys : registry'[j] # NoEntry =>
           registry'[j].lock = registry[j].lock /\ registry[j] # NoEntry
    <3>1. registry[k] # NoEntry
      BY <2>1, UserIsCounted DEF NoEntry, Users
    <3>2. QED
      BY <2>4, <2>7, <3>1
  <2>12. \A i, j \in Keys : registry'[i].lock = registry'[j].lock /\ registry'[i] # NoEntry
                              => i = j
    <3>1. \A j \in Keys : registry[j] # NoEntry => registry[j].lock \in Locks
      <4>1. SUFFICES ASSUME NEW j \in Keys, registry[j] # NoEntry
                     PROVE  registry[j].lock \in Locks
        OBVIOUS
      <4>2. PICK u : u \in Users(j)
        BY <4>1, UsersFinite, FS_EmptySet DEF RegistryIsExact
      <4>3. QED
        BY <4>2 DEF RegistryIsExact, TypeOK, Users
    <3>2. \A j \in Keys : registry'[j] = NoEntry \/ registry'[j].lock = registry[j].lock
      BY <2>11
    <3>3. \A j \in Keys : NoEntry.lock = 0 /\ 0 \notin Locks
      BY DEF NoEntry
    <3>4. QED
      BY <2>11, <3>1, <3>2, <3>3 DEF RegistryIsExact
  <2>13. QED
    BY <2>10, <2>12 DEF RegistryIsExact
<1>3. ASSUME UNCHANGED <<registry, key, lock>> PROVE RegistryIsExact'
  BY <1>3 DEF RegistryIsExact, Users
<1>4. QED
  BY <1>1, <1>2, <1>3, NextCases, TurnSteps
     DEF Acquire, Release, vars, lockVars, threadVars

-------------------------------------------------------------------------------
(* The lock                                                                  *)

LEMMA HolderStep ==
  ASSUME TypeOK, RegistryIsExact, HolderIsExact, [Next]_vars
  PROVE  HolderIsExact'
<1> USE DEF HolderIsExact
<1>1. ASSUME NEW t \in Threads, NEW k \in Keys, Register(t, k) PROVE HolderIsExact'
  BY <1>1 DEF Register, Goto, TypeOK, Turn
<1>2. ASSUME NEW t \in Threads, Acquire(t) PROVE HolderIsExact'
  <2>1. lock[t] \in Locks
    BY <1>2 DEF Acquire, At, TypeOK, Inside
  <2>2. \A u \in Threads : pc[u] \in Turn => lock[u] # lock[t]
    BY <1>2 DEF Acquire, NoThread
  <2>3. QED
    BY <1>2, <2>1, <2>2 DEF Acquire, Goto, TypeOK
<1>3. ASSUME NEW t \in Threads, Release(t) PROVE HolderIsExact'
  <2>1. pc[t] \in Turn
    BY <1>3 DEF Release, At, Turn
  <2>2. \A u \in Threads : pc[u] \in Turn /\ lock[u] = lock[t] => u = t
    BY <2>1
  <2>3. QED
    BY <1>3, <2>2 DEF Release, Goto, TypeOK, Turn
<1>4. ASSUME NEW t \in Threads, Deregister(t) PROVE HolderIsExact'
  BY <1>4 DEF Deregister, Goto, TypeOK, Turn
<1>5. ASSUME NEW t \in Threads, TurnStep(t) PROVE HolderIsExact'
  BY <1>5, TurnSteps DEF TypeOK, lockVars
<1>6. CASE UNCHANGED vars
  BY <1>6 DEF vars, lockVars, threadVars
<1>7. QED
  BY <1>1, <1>2, <1>3, <1>4, <1>5, <1>6, NextCases

-------------------------------------------------------------------------------
(* The provider                                                              *)

\* A step of t leaves the accounts of every other fingerprint as they are.
LEMMA OtherAccounts ==
  ASSUME TypeOK, NEW t \in Threads, TurnStep(t), NEW k \in Keys, k # key[t]
  PROVE  /\ answered'[k] = answered[k] /\ degraded'[k] = degraded[k]
         /\ Kept(k)' <=> Kept(k)
<1>1. UNCHANGED key /\ \A u \in Users(k) : pc'[u] = pc[u]
  BY TurnSteps DEF TypeOK, Users
<1>2. answered'[k] = answered[k] /\ degraded'[k] = degraded[k] /\ cache'[k] = cache[k]
  BY DEF TurnStep, Read, ReadTransient, ReadFails, Invoke, InvokeTransient, InvokeFails,
     Write, WriteTransient, WriteFails, Record, Retry, Degrade, TypeOK, countVars
<1>3. QED
  BY <1>1, <1>2 DEF Kept, Users

LEMMA AnswerTurnStep ==
  ASSUME IInv, NEW t \in Threads, TurnStep(t)
  PROVE  AnswersArePaid'
<1>1. TypeOK /\ AnswersArePaid /\ OneTurnPerKey
  BY TurnsExclude DEF IInv
<1>2. PICK k \in Keys : k = key[t] /\ t \in Users(k)
  BY <1>1, TurnSteps DEF TypeOK, Inside, Users
<1>3. /\ answered[k] \in Nat /\ degraded[k] \in Nat
      /\ answered[k] <= degraded[k] + (IF Kept(k) THEN 1 ELSE 0)
      /\ pc[t] = "invoking" => answered[k] <= degraded[k]
  BY <1>1, <1>2 DEF TypeOK, AnswersArePaid
<1>4. /\ UNCHANGED key /\ Users(k)' = Users(k)
      /\ \A u \in Threads : u # t => pc'[u] = pc[u]
      /\ pc'[t] \in Turn
  BY <1>1, TurnSteps DEF TypeOK, Users
<1>5. \A u \in Users(k) : u # t => pc[u] \notin Turn
  BY <1>1, <1>2, TurnSteps DEF OneTurnPerKey, Users
<1>6. /\ Kept(k)  <=> cache[k] = "valid" \/ pc[t] = "writing"
      /\ Kept(k)' <=> cache'[k] = "valid" \/ pc'[t] = "writing"
  <2>1. \A u \in Users(k) : u # t => pc[u] # "writing" /\ pc'[u] # "writing"
    BY <1>4, <1>5 DEF Turn, Users
  <2>2. QED
    BY <1>2, <1>4, <2>1 DEF Kept
<1>7. /\ answered'[k] <= degraded'[k] + (IF Kept(k)' THEN 1 ELSE 0)
      /\ pc'[t] = "invoking" => answered'[k] <= degraded'[k]
  <2> USE <1>2, <1>3, <1>6 DEF Goto, At
  <2> pc' = [pc EXCEPT ![t] = pc'[t]] /\ t \in DOMAIN pc /\ DOMAIN cache = Keys
      /\ DOMAIN answered = Keys /\ DOMAIN degraded = Keys
    BY <1>1, TurnSteps DEF TypeOK
  <2>1. CASE Read(t)
    <3>1. pc'[t] = "invoking" => cache[k] = "none"
      <4>1. cache[k] \in Rows
        BY <1>1 DEF TypeOK
      <4>2. pc'[t] = AfterRead[cache[k]]
        BY <2>1 DEF Read
      <4>3. QED
        BY <4>1, <4>2 DEF Rows, AfterRead
    <3>2. pc[t] # "writing" /\ UNCHANGED <<cache, answered, degraded>>
      BY <2>1 DEF Read, countVars
    <3>3. QED
      BY <3>1, <3>2
  <2>2. CASE ReadTransient(t)
    BY <2>2 DEF ReadTransient, Retry, Degrade
  <2>3. CASE ReadFails(t)
    BY <2>3 DEF ReadFails, countVars
  <2>4. CASE Invoke(t)
    BY <2>4 DEF Invoke
  <2>5. CASE InvokeTransient(t)
    BY <2>5 DEF InvokeTransient, Retry
  <2>6. CASE InvokeFails(t)
    BY <2>6 DEF InvokeFails, countVars
  <2>7. CASE Write(t)
    BY <2>7 DEF Write, countVars
  <2>8. CASE WriteTransient(t)
    BY <2>8 DEF WriteTransient, Retry, Degrade
  <2>9. CASE WriteFails(t)
    BY <2>9 DEF WriteFails, Degrade
  <2>10. CASE Record(t)
    BY <2>10 DEF Record, countVars
  <2>11. QED
    BY <2>1, <2>2, <2>3, <2>4, <2>5, <2>6, <2>7, <2>8, <2>9, <2>10 DEF TurnStep
<1>8. ASSUME NEW j \in Keys, j # k
      PROVE  answered'[j] <= degraded'[j] + (IF Kept(j)' THEN 1 ELSE 0)
  BY <1>1, <1>2, <1>8, OtherAccounts DEF AnswersArePaid
<1>9. ASSUME NEW u \in Threads, pc'[u] = "invoking"
      PROVE  answered'[key'[u]] <= degraded'[key'[u]]
  <2>1. CASE u = t
    BY <1>2, <1>4, <1>7, <1>9, <2>1
  <2>2. CASE u # t
    <3>1. pc[u] = "invoking" /\ pc[u] \in Turn
      BY <1>4, <1>9, <2>2 DEF Turn
    <3>2. key[u] \in Keys /\ key[u] # k
      BY <1>1, <1>5, <2>2, <3>1 DEF TypeOK, Inside, Users
    <3>3. QED
      BY <1>1, <1>2, <1>4, <3>1, <3>2, OtherAccounts DEF AnswersArePaid
  <2>3. QED
    BY <2>1, <2>2
<1>10. QED
  BY <1>7, <1>8, <1>9 DEF AnswersArePaid

\* Steps outside a turn: the accounts and the threads that invoke or write stay.
LEMMA AnswerOtherStep ==
  ASSUME TypeOK, AnswersArePaid, UNCHANGED <<cache, countVars>>,
         \A u \in Threads : pc'[u] = "invoking" => pc[u] = "invoking" /\ key'[u] = key[u],
         \A u \in Threads : pc[u] = "writing" => pc'[u] = "writing" /\ key'[u] = key[u]
  PROVE  AnswersArePaid'
<1>1. \A k \in Keys : Kept(k) => Kept(k)'
  BY DEF Kept, Users
<1>2. ASSUME NEW k \in Keys
      PROVE  answered'[k] <= degraded'[k] + (IF Kept(k)' THEN 1 ELSE 0)
  <2>1. answered[k] \in Nat /\ degraded[k] \in Nat
    BY DEF TypeOK
  <2>2. QED
    BY <1>1, <2>1 DEF AnswersArePaid, countVars
<1>3. QED
  BY <1>2 DEF AnswersArePaid, countVars

LEMMA NextIInv == IInv /\ [Next]_vars => IInv'
<1> SUFFICES ASSUME IInv, [Next]_vars PROVE IInv'
  OBVIOUS
<1>0. TypeOK /\ RegistryIsExact /\ HolderIsExact /\ AnswersArePaid
  BY DEF IInv
<1>1. TypeOK' /\ RegistryIsExact' /\ HolderIsExact'
  BY <1>0, NextTypeOK, RegistryStep, HolderStep
<1>2. AnswersArePaid'
  <2>1. ASSUME NEW t \in Threads, NEW k \in Keys, Register(t, k) PROVE AnswersArePaid'
    BY <1>0, <2>1, AnswerOtherStep DEF Register, Goto, At, TypeOK
  <2>2. ASSUME NEW t \in Threads, Acquire(t) \/ Release(t) \/ Deregister(t)
        PROVE  AnswersArePaid'
    BY <1>0, <2>2, AnswerOtherStep DEF Acquire, Release, Deregister, Goto, At, TypeOK
  <2>3. ASSUME NEW t \in Threads, TurnStep(t) PROVE AnswersArePaid'
    BY <2>3, AnswerTurnStep
  <2>4. CASE UNCHANGED vars
    BY <1>0, <2>4, AnswerOtherStep DEF vars, threadVars
  <2>5. QED
    BY <2>1, <2>2, <2>3, <2>4, NextCases
<1>3. QED
  BY <1>1, <1>2 DEF IInv

-------------------------------------------------------------------------------
(* The results                                                               *)

LEMMA IInvHolds == Spec => []IInv
  BY InitIInv, NextIInv, PTL DEF Spec

\* Every reachable state is well typed; the counts of users never become negative.
THEOREM TypeCorrect == Spec => []TypeOK
  BY IInvHolds, PTL DEF IInv

\* The registry of locks is exact in every reachable state.
THEOREM RegistryStaysExact == Spec => []RegistryIsExact
  BY IInvHolds, PTL DEF IInv

\* Two calls with one fingerprint never overlap.
THEOREM TurnsNeverOverlap == Spec => []OneTurnPerKey
<1>1. IInv => OneTurnPerKey
  BY TurnsExclude DEF IInv
<1>2. QED
  BY <1>1, IInvHolds, PTL

\* The provider answers a fingerprint at most once more than its cache degraded.
THEOREM AnswersAreNotRepeated == Spec => []AnsweredOnce
<1>1. IInv => AnsweredOnce
  BY PaidIsBounded DEF IInv
<1>2. QED
  BY <1>1, IInvHolds, PTL
==============================================================================
