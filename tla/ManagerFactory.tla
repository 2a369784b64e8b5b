---------------------------- MODULE ManagerFactory ----------------------------
(***************************************************************************)
(* resourceManagerFactory.ManagerFor: reconcilers on several goroutines    *)
(* ask for the resource manager of an account, region and role.  A map     *)
(* under a read-write lock caches the managers; it is looked up under the  *)
(* read lock and written under the write lock, and nothing looks again in  *)
(* between.                                                                *)
(*                                                                         *)
(* newResourceManager never fails, so a call ends with a manager.  The     *)
(* manager a goroutine makes for an id is named by the two.  The lock is   *)
(* the sync.RWMutex of Go's library: a goroutine that wants to write keeps *)
(* new readers out and waits for those that are in.                        *)
(***************************************************************************)
EXTENDS Naturals

CONSTANTS
    Workers,    \* the goroutines that call ManagerFor
    RmIds,      \* the strings "account/region/role"
    NoManager   \* what the map returns for a key it does not hold

Managers == [maker : Workers, id : RmIds]

ASSUME FactoryAssumption == NoManager \notin Managers

VARIABLES
    pc,       \* where each call is
    wanted,   \* the id it was called for
    found,    \* its local variable rm
    rmCache,  \* the map
    readers,  \* who holds the read lock
    writers   \* who waits for, and who holds, the write lock

vars == <<pc, wanted, found, rmCache, readers, writers>>

Places == {"idle", "rlock", "lookup", "runlock", "announce", "lock", "store", "unlock",
           "return"}

\* Every variable has its type.
TypeOK ==
    /\ pc \in [Workers -> Places]
    /\ wanted \in [Workers -> RmIds]
    /\ found \in [Workers -> Managers \cup {NoManager}]
    /\ rmCache \in [RmIds -> Managers \cup {NoManager}]
    /\ readers \subseteq Workers
    /\ writers \in [Workers -> {"none", "waits", "holds"}]

Init ==
    /\ pc = [w \in Workers |-> "idle"]
    /\ wanted \in [Workers -> RmIds]
    /\ found = [w \in Workers |-> NoManager]
    /\ rmCache = [id \in RmIds |-> NoManager]
    /\ readers = {}
    /\ writers = [w \in Workers |-> "none"]

-----------------------------------------------------------------------------
(* The lock *)

ReadersMayEnter == \A v \in Workers : writers[v] = "none"
WriterMayEnter  == readers = {} /\ \A v \in Workers : writers[v] # "holds"

-----------------------------------------------------------------------------
(* ManagerFor, called by w *)

Call(w) ==
    /\ pc[w] = "idle"
    /\ \E id \in RmIds : wanted' = [wanted EXCEPT ![w] = id]
    /\ pc' = [pc EXCEPT ![w] = "rlock"]
    /\ UNCHANGED <<found, rmCache, readers, writers>>

RLock_Ignored(w) ==
    /\ pc[w] = "rlock"
    /\ readers' = readers \cup {w}
    /\ pc' = [pc EXCEPT ![w] = "lookup"]
    /\ UNCHANGED <<wanted, found, rmCache, writers>>

RLock(w) ==
    /\ pc[w] = "rlock"
    /\ ReadersMayEnter
    /\ readers' = readers \cup {w}
    /\ pc' = [pc EXCEPT ![w] = "lookup"]
    /\ UNCHANGED <<wanted, found, rmCache, writers>>

Lookup(w) ==
    /\ pc[w] = "lookup"
    /\ found' = [found EXCEPT ![w] = rmCache[wanted[w]]]
    /\ pc' = [pc EXCEPT ![w] = "runlock"]
    /\ UNCHANGED <<wanted, rmCache, readers, writers>>

RUnlock_NilReturned(w) ==
    /\ pc[w] = "runlock"
    /\ readers' = readers \ {w}
    /\ pc' = [pc EXCEPT ![w] = "return"]
    /\ UNCHANGED <<wanted, found, rmCache, writers>>

RUnlock_OnlyOnMiss(w) ==
    /\ pc[w] = "runlock"
    /\ readers' = IF found[w] = NoManager THEN readers \ {w} ELSE readers
    /\ pc' = [pc EXCEPT ![w] = IF found[w] = NoManager THEN "announce" ELSE "return"]
    /\ UNCHANGED <<wanted, found, rmCache, writers>>

\* The read lock is released before rm is looked at.
RUnlock(w) ==
    /\ pc[w] = "runlock"
    /\ readers' = readers \ {w}
    /\ pc' = [pc EXCEPT ![w] = IF found[w] = NoManager THEN "announce" ELSE "return"]
    /\ UNCHANGED <<wanted, found, rmCache, writers>>

\* Lock, first half: readers are kept out from here on.
Announce(w) ==
    /\ pc[w] = "announce"
    /\ writers' = [writers EXCEPT ![w] = "waits"]
    /\ pc' = [pc EXCEPT ![w] = "lock"]
    /\ UNCHANGED <<wanted, found, rmCache, readers>>

Lock(w) ==
    /\ pc[w] = "lock"
    /\ WriterMayEnter
    /\ writers' = [writers EXCEPT ![w] = "holds"]
    /\ pc' = [pc EXCEPT ![w] = "store"]
    /\ UNCHANGED <<wanted, found, rmCache, readers>>

\* A new manager replaces whatever the map holds by now.
Store(w) ==
    /\ pc[w] = "store"
    /\ LET rm == [maker |-> w, id |-> wanted[w]]
       IN /\ found' = [found EXCEPT ![w] = rm]
          /\ rmCache' = [rmCache EXCEPT ![wanted[w]] = rm]
    /\ pc' = [pc EXCEPT ![w] = "unlock"]
    /\ UNCHANGED <<wanted, readers, writers>>

Unlock(w) ==
    /\ pc[w] = "unlock"
    /\ writers' = [writers EXCEPT ![w] = "none"]
    /\ pc' = [pc EXCEPT ![w] = "return"]
    /\ UNCHANGED <<wanted, found, rmCache, readers>>

Return(w) ==
    /\ pc[w] = "return"
    /\ found' = [found EXCEPT ![w] = NoManager]
    /\ pc' = [pc EXCEPT ![w] = "idle"]
    /\ UNCHANGED <<wanted, rmCache, readers, writers>>

\* What a call does once it has begun.
Proceed(w) ==
    \/ RLock(w) \/ Lookup(w) \/ RUnlock(w)
    \/ Announce(w) \/ Lock(w) \/ Store(w) \/ Unlock(w)
    \/ Return(w)

Next == \E w \in Workers : Call(w) \/ Proceed(w)

Spec == Init /\ [][Next]_vars

\* A goroutine inside ManagerFor is scheduled; nobody has to call it.
FairSpec == Spec /\ \A w \in Workers : WF_vars(Proceed(w))

-----------------------------------------------------------------------------
(* Properties *)

\* The two locked sections of ManagerFor: the map is never written while another
\* goroutine reads or writes it, which would stop a Go program.
MapNeverRaces ==
    \A w \in Workers : pc[w] = "store" =>
        \A v \in Workers \ {w} : pc[v] \notin {"lookup", "store"}

\* ManagerFor: however the calls interleave, a caller gets a manager, and one
\* made for the account, region and role it asked for.
ManagerFits ==
    \A w \in Workers : pc[w] = "return" =>
        found[w] \in Managers /\ found[w].id = wanted[w]

\* The lock is released on every path: each call of ManagerFor returns.
EveryCallReturns == \A w \in Workers : pc[w] = "rlock" ~> pc[w] = "return"

\* The comment in ManagerFor: the cache avoids a second manager for the same
\* account, region and role.  Two calls that both miss each make one.
OneManagerPerId ==
    \A v, w \in Workers :
        pc[v] = "return" /\ pc[w] = "return" /\ wanted[v] = wanted[w]
            => found[v] = found[w]
=============================================================================
