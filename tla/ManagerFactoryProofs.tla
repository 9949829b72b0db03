-------------------------- MODULE ManagerFactoryProofs ---------------------------
(*****************************************************************************)
(* ManagerFactory for any number of workers, combinations and calls.          *)
(*****************************************************************************)
EXTENDS ManagerFactory, TLAPS

\* Type correctness: the lock has a holder of the workers' or none, and every call
\* of ManagerFor is at one of its steps.
THEOREM TypeCorrect == Spec => []TypeOK
  <1>1. Init => TypeOK
    BY FactoryAssumption DEF Init, TypeOK
  <1>2. TypeOK /\ [Next]_vars => TypeOK'
    <2> SUFFICES ASSUME TypeOK, [Next]_vars PROVE TypeOK'
      OBVIOUS
    <2> USE FactoryAssumption DEF TypeOK
    <2>1. ASSUME NEW w \in Workers, Call(w) PROVE TypeOK'
      BY <2>1 DEF Call
    <2>2. ASSUME NEW w \in Workers, RLock(w) \/ Lookup(w) PROVE TypeOK'
      BY <2>2 DEF RLock, Lookup
    <2>3. ASSUME NEW w \in Workers, Lock(w) \/ Drained(w) PROVE TypeOK'
      BY <2>3 DEF Lock, Drained
    <2>4. ASSUME NEW w \in Workers, Make(w) PROVE TypeOK'
      BY <2>4 DEF Make
    <2>5. CASE UNCHANGED vars
      BY <2>5 DEF vars
    <2> QED BY <2>1, <2>2, <2>3, <2>4, <2>5 DEF Next
  <1> QED BY <1>1, <1>2, PTL DEF Spec

\* A worker in ManagerFor makes a manager only for a combination it has not made
\* one for, because what it made is in the cache since, and it does so alone: the
\* one that makes holds the write lock and nobody holds the read lock.
THEOREM FactoryInvariant == Spec => []FactoryInv
  <1>1. Init => FactoryInv
    BY FactoryAssumption DEF Init, FactoryInv, OncePerWorker
  <1>2. TypeOK /\ FactoryInv /\ [Next]_vars => FactoryInv'
    <2> SUFFICES ASSUME TypeOK, FactoryInv, [Next]_vars PROVE FactoryInv'
      OBVIOUS
    <2> USE FactoryAssumption DEF TypeOK, FactoryInv, OncePerWorker
    <2>1. ASSUME NEW w \in Workers, Call(w) PROVE FactoryInv'
      BY <2>1 DEF Call
    <2>2. ASSUME NEW w \in Workers, RLock(w) PROVE FactoryInv'
      BY <2>2 DEF RLock
    <2>3. ASSUME NEW w \in Workers, Lookup(w) PROVE FactoryInv'
      BY <2>3 DEF Lookup
    <2>4. ASSUME NEW w \in Workers, Lock(w) PROVE FactoryInv'
      BY <2>4 DEF Lock
    <2>5. ASSUME NEW w \in Workers, Drained(w) PROVE FactoryInv'
      BY <2>5 DEF Drained
    <2>6. ASSUME NEW w \in Workers, Make(w) PROVE FactoryInv'
      <3>1. madeBy[w][arg[w]] = 0 /\ writer = w /\ readers = {}
        BY <2>6 DEF Make
      <3>2. /\ madeBy'[w][arg[w]] = 1
            /\ \A v \in Workers, r \in RmIds :
                  (v # w \/ r # arg[w]) => madeBy'[v][r] = madeBy[v][r]
        BY <2>6, <3>1 DEF Make
      <3>3. \A v \in Workers : pc'[v] \in {"drain", "make"} <=> writer' = v
        BY <2>6, <3>1 DEF Make
      <3>4. \A v \in Workers, r \in RmIds : madeBy'[v][r] > 0 => r \in rmCache'
        BY <2>6, <3>2 DEF Make
      <3>5. \A v \in Workers :
                pc'[v] \in {"lock", "drain", "make"} => madeBy'[v][arg'[v]] = 0
        BY <2>6, <3>2 DEF Make
      <3>6. \A v \in Workers, r \in RmIds : madeBy'[v][r] <= 1
        BY <3>1, <3>2
      <3>7. readers' = {v \in Workers : pc'[v] = "read"} /\ readers' = {}
        BY <2>6, <3>1 DEF Make
      <3> QED BY <3>3, <3>4, <3>5, <3>6, <3>7
    <2>7. CASE UNCHANGED vars
      BY <2>7 DEF vars
    <2> QED BY <2>1, <2>2, <2>3, <2>4, <2>5, <2>6, <2>7 DEF Next
  <1> QED BY <1>1, <1>2, TypeCorrect, PTL DEF Spec

\* No worker ever makes two managers for the same combination.
THEOREM BoundedDuplication == Spec => []OncePerWorker
  <1>1. FactoryInv => OncePerWorker
    BY DEF FactoryInv
  <1> QED BY <1>1, FactoryInvariant, PTL

\* With a single worker, the deployed default, the comment of ManagerFor is true.
THEOREM SingleWorkerShares ==
    ASSUME \A v, w \in Workers : v = w
    PROVE  Spec => []OneManagerPerId
  <1>1. TypeOK /\ OncePerWorker => OneManagerPerId
    BY DEF TypeOK, OncePerWorker, OneManagerPerId
  <1> QED BY <1>1, TypeCorrect, BoundedDuplication, PTL

\* Never do all the calls under way wait, however many workers there are: the worker
\* that holds the write lock waits at most for readers, a reader waits for nobody, and
\* with the lock free nobody waits (the read lock is let go before the write lock is
\* asked for, so that no worker is a reader it waits for itself); the safety half of
\* CallsReturn.
THEOREM NoCallsWaitInACircle == Spec => []NoCircle
  <1>1. TypeOK /\ FactoryInv => NoCircle
    <2> SUFFICES ASSUME TypeOK, FactoryInv, NEW w \in Workers, pc[w] # "idle"
                 PROVE  \E v \in Workers : NotWaiting(v)
      BY DEF NoCircle
    <2>1. CASE \E v \in Workers : pc[v] = "read"
      BY <2>1 DEF NotWaiting
    <2>2. CASE writer = NoWorker
      <3>1. pc[w] \in {"lookup", "read", "lock"}
        BY <2>2, FactoryAssumption DEF TypeOK, FactoryInv
      <3> QED BY <2>2, <3>1 DEF NotWaiting
    <2>3. CASE writer \in Workers /\ \A v \in Workers : pc[v] # "read"
      <3>1. readers = {} /\ pc[writer] \in {"drain", "make"}
        BY <2>3 DEF FactoryInv
      <3> QED BY <2>3, <3>1 DEF NotWaiting
    <2> QED BY <2>1, <2>2, <2>3 DEF TypeOK
  <1> QED BY <1>1, TypeCorrect, FactoryInvariant, PTL
=================================================================================
