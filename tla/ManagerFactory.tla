------------------------------ MODULE ManagerFactory ------------------------------
(*****************************************************************************)
(* resourceManagerFactory.ManagerFor: the cache of resource managers shared by *)
(* the reconciler's workers (manager_factory.go, the same for Database and    *)
(* Job).                                                                      *)
(*                                                                           *)
(* A call looks the manager up under the read lock, lets go of it, and on a    *)
(* miss takes the write lock to make one.  Taking a lock and what is done under *)
(* it are steps of their own, so that anything may happen inside and between    *)
(* the two critical sections.                                                 *)
(*****************************************************************************)
EXTENDS Naturals

CONSTANTS
    Workers,   \* the goroutines that call ManagerFor
    RmIds,     \* the account/region/roleARN combinations
    NoWorker,
    MaxCalls   \* bound on the calls made

ASSUME FactoryAssumption ==
    /\ NoWorker \notin Workers
    /\ MaxCalls \in Nat

VARIABLES
    rmCache,   \* the combinations that have a manager in the cache
    pc,        \* each worker: "idle", about to RLock ("lookup"), in the read
               \* section ("read"), about to Lock ("lock"), waiting for the
               \* readers to leave ("drain") or in the write section ("make")
    arg,       \* the combination each worker asks for
    readers,   \* the workers that hold the read lock
    writer,    \* the worker that holds the write lock or waits for the readers
    madeBy,    \* how many managers each worker made for each combination (ghost)
    calls

vars == <<rmCache, pc, arg, readers, writer, madeBy, calls>>

TypeOK ==
    /\ rmCache \subseteq RmIds
    /\ pc \in [Workers -> {"idle", "lookup", "read", "lock", "drain", "make"}]
    /\ arg \in [Workers -> RmIds]
    /\ readers \subseteq Workers
    /\ writer \in Workers \cup {NoWorker}
    /\ madeBy \in [Workers -> [RmIds -> Nat]]
    /\ calls \in 0..MaxCalls

Init ==
    /\ rmCache = {}
    /\ pc = [w \in Workers |-> "idle"]
    /\ arg \in [Workers -> RmIds]
    /\ readers = {}
    /\ writer = NoWorker
    /\ madeBy = [w \in Workers |-> [r \in RmIds |-> 0]]
    /\ calls = 0

Call(w) ==
    /\ pc[w] = "idle"
    /\ calls < MaxCalls
    /\ calls' = calls + 1
    /\ \E r \in RmIds : arg' = [arg EXCEPT ![w] = r]
    /\ pc' = [pc EXCEPT ![w] = "lookup"]
    /\ UNCHANGED <<rmCache, readers, writer, madeBy>>

\* A writer that waits keeps new readers out too.
RLock(w) ==
    /\ pc[w] = "lookup"
    /\ writer = NoWorker
    /\ readers' = readers \cup {w}
    /\ pc' = [pc EXCEPT ![w] = "read"]
    /\ UNCHANGED <<rmCache, arg, writer, madeBy, calls>>

\* Mutant: a miss goes on to the write lock with the read lock in hand.
Lookup_keepsReadLock(w) ==
    /\ pc[w] = "read"
    /\ readers' = IF arg[w] \in rmCache THEN readers \ {w} ELSE readers
    /\ pc' = [pc EXCEPT ![w] = IF arg[w] \in rmCache THEN "idle" ELSE "lock"]
    /\ UNCHANGED <<rmCache, arg, writer, madeBy, calls>>

\* The lookup and RUnlock; on a hit the call returns.
Lookup(w) ==
    /\ pc[w] = "read"
    /\ readers' = readers \ {w}
    /\ pc' = [pc EXCEPT ![w] = IF arg[w] \in rmCache THEN "idle" ELSE "lock"]
    /\ UNCHANGED <<rmCache, arg, writer, madeBy, calls>>

\* Lock keeps other writers and new readers out at once ...
Lock(w) ==
    /\ pc[w] = "lock"
    /\ writer = NoWorker
    /\ writer' = w
    /\ pc' = [pc EXCEPT ![w] = "drain"]
    /\ UNCHANGED <<rmCache, arg, readers, madeBy, calls>>

\* ... and returns when the readers that are in have left.
Drained(w) ==
    /\ pc[w] = "drain"
    /\ readers = {}
    /\ pc' = [pc EXCEPT ![w] = "make"]
    /\ UNCHANGED <<rmCache, arg, readers, writer, madeBy, calls>>

\* Mutants: the write lock is kept; the new manager is not cached, or under a
\* wrong key.
Make_locked(w) ==
    /\ pc[w] = "make"
    /\ rmCache' = rmCache \cup {arg[w]}
    /\ madeBy' = [madeBy EXCEPT ![w][arg[w]] = @ + 1]
    /\ pc' = [pc EXCEPT ![w] = "idle"]
    /\ UNCHANGED <<arg, readers, writer, calls>>
Make_uncached(w) ==
    /\ pc[w] = "make"
    /\ madeBy' = [madeBy EXCEPT ![w][arg[w]] = @ + 1]
    /\ writer' = NoWorker
    /\ pc' = [pc EXCEPT ![w] = "idle"]
    /\ UNCHANGED <<rmCache, arg, readers, calls>>
Make_wrongKey(w) ==
    /\ pc[w] = "make"
    /\ rmCache' = rmCache \cup {w}
    /\ madeBy' = [madeBy EXCEPT ![w][arg[w]] = @ + 1]
    /\ writer' = NoWorker
    /\ pc' = [pc EXCEPT ![w] = "idle"]
    /\ UNCHANGED <<arg, readers, calls>>

\* newResourceManager, which does not fail; the entry is overwritten if another
\* call put one there since the lookup.  The call returns and unlocks.
Make(w) ==
    /\ pc[w] = "make"
    /\ rmCache' = rmCache \cup {arg[w]}
    /\ madeBy' = [madeBy EXCEPT ![w][arg[w]] = @ + 1]
    /\ writer' = NoWorker
    /\ pc' = [pc EXCEPT ![w] = "idle"]
    /\ UNCHANGED <<arg, readers, calls>>

Next ==
    \E w \in Workers :
        Call(w) \/ RLock(w) \/ Lookup(w) \/ Lock(w) \/ Drained(w) \/ Make(w)

Spec == Init /\ [][Next]_vars

\* sync.RWMutex starves neither readers nor writers, and a goroutine that waits for
\* nobody goes on.
FairSpec ==
    /\ Spec
    /\ \A w \in Workers :
          /\ SF_vars(RLock(w) \/ Lock(w))
          /\ WF_vars(Lookup(w) \/ Drained(w) \/ Make(w))

-----------------------------------------------------------------------------
\* "This helps us to avoid creating multiple resource managers for the same
\* account/region/roleARN combination" (ManagerFor).
OneManagerPerId ==
    \A r \in RmIds, v, w \in Workers :
        (madeBy[v][r] > 0 /\ madeBy[w][r] > 0) => v = w /\ madeBy[v][r] = 1

\* What the missing second lookup costs at most: one manager per worker and
\* combination, however often ManagerFor is called.
OncePerWorker == \A w \in Workers, r \in RmIds : madeBy[w][r] <= 1

\* Each lock is held by the workers in its section, and rmCache, a Go map, is read
\* and written by nobody else while it is written; a manager that was made is
\* cached, and a worker that missed has not made one yet (ManagerFor).
FactoryInv ==
    /\ readers = {w \in Workers : pc[w] = "read"}
    /\ \A w \in Workers : pc[w] \in {"drain", "make"} <=> writer = w
    /\ \A w \in Workers : pc[w] = "make" => readers = {}
    /\ \A w \in Workers, r \in RmIds : madeBy[w][r] > 0 => r \in rmCache
    /\ \A w \in Workers : pc[w] \in {"lock", "drain", "make"} => madeBy[w][arg[w]] = 0
    /\ OncePerWorker

\* Worker w is in a call and can take its next step.
NotWaiting(w) ==
    \/ pc[w] \in {"read", "make"}
    \/ pc[w] \in {"lookup", "lock"} /\ writer = NoWorker
    \/ pc[w] = "drain" /\ readers = {}

\* Never do all the calls under way wait, for each other or for themselves: the read
\* lock is let go before the write lock is asked for (RUnlock before Lock).
NoCircle ==
    (\E w \in Workers : pc[w] # "idle") => \E w \in Workers : NotWaiting(w)

\* Every call returns.
CallsReturn == \A w \in Workers : pc[w] # "idle" ~> pc[w] = "idle"
=================================================================================
