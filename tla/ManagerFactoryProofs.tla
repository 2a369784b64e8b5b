------------------------- MODULE ManagerFactoryProofs -------------------------
(***************************************************************************)
(* Proofs about ManagerFor, for any number of goroutines and accounts.     *)
(***************************************************************************)
EXTENDS ManagerFactory, TLAPS

\* The lock as the program counters see it: who is a reader, who waits and who
\* holds.  A holder is alone, with no reader.
LockInv ==
    /\ \A w \in Workers : w \in readers <=> pc[w] \in {"lookup", "runlock"}
    /\ \A w \in Workers : writers[w] = "holds" <=> pc[w] \in {"store", "unlock"}
    /\ \A v, w \in Workers : writers[v] = "holds" /\ writers[w] = "holds" => v = w
    /\ \A w \in Workers : writers[w] = "holds" => readers = {}

\* A manager that is cached or held was made for the id it is used for.
FitInv ==
    /\ \A id \in RmIds : rmCache[id] # NoManager => rmCache[id].id = id
    /\ \A w \in Workers : found[w] # NoManager => found[w].id = wanted[w]
    /\ \A w \in Workers : pc[w] \in {"unlock", "return"} => found[w] # NoManager
    /\ \A w \in Workers : pc[w] \in {"idle", "rlock", "lookup"} => found[w] = NoManager

\* A manager carries the fields of the identifier it was made from.
LEMMA ManagerFieldsType ==
    ASSUME NEW w \in Workers, NEW id \in RmIds
    PROVE  /\ [maker |-> w, id |-> id] \in Managers
           /\ [maker |-> w, id |-> id] # NoManager
    BY FactoryAssumption DEF Managers

\* Each step of ManagerFor keeps every variable in its type.
THEOREM TypeCorrect == Spec => []TypeOK
<1>1. Init => TypeOK
    BY DEF Init, TypeOK, Places
<1>2. TypeOK /\ [Next]_vars => TypeOK'
    <2> SUFFICES ASSUME TypeOK, [Next]_vars
                 PROVE  TypeOK'
        OBVIOUS
    <2>1. CASE UNCHANGED vars
        BY <2>1 DEF TypeOK, vars
    <2>2. ASSUME NEW w \in Workers, Call(w) \/ Proceed(w)
          PROVE  TypeOK'
        <3>1. CASE Call(w)
            BY <3>1 DEF Call, TypeOK, Places
        <3>2. CASE RLock(w)
            BY <3>2 DEF RLock, TypeOK, Places
        <3>3. CASE Lookup(w)
            BY <3>3 DEF Lookup, TypeOK, Places
        <3>4. CASE RUnlock(w)
            BY <3>4 DEF RUnlock, TypeOK, Places
        <3>5. CASE Announce(w)
            BY <3>5 DEF Announce, TypeOK, Places
        <3>6. CASE Lock(w)
            BY <3>6 DEF Lock, TypeOK, Places
        <3>7. CASE Store(w)
            BY <3>7, ManagerFieldsType DEF Store, TypeOK, Places
        <3>8. CASE Unlock(w)
            BY <3>8 DEF Unlock, TypeOK, Places
        <3>9. CASE Return(w)
            BY <3>9 DEF Return, TypeOK, Places
        <3> QED
            BY <2>2, <3>1, <3>2, <3>3, <3>4, <3>5, <3>6, <3>7, <3>8, <3>9 DEF Proceed
    <2> QED
        BY <2>1, <2>2 DEF Next
<1> QED
    BY <1>1, <1>2, PTL DEF Spec

\* A writer holds the lock alone, and each goroutine is inside the section its
\* program counter says.
LEMMA LockInvariant == Spec => []LockInv
<1>1. Init => LockInv
    BY DEF Init, LockInv
<1>2. TypeOK /\ LockInv /\ [Next]_vars => LockInv'
    <2> SUFFICES ASSUME TypeOK, LockInv, [Next]_vars
                 PROVE  LockInv'
        OBVIOUS
    <2>1. CASE UNCHANGED vars
        BY <2>1 DEF LockInv, vars
    <2>2. ASSUME NEW w \in Workers, Call(w) \/ Proceed(w)
          PROVE  LockInv'
        <3>1. CASE Call(w)
            BY <3>1 DEF Call, TypeOK, LockInv
        <3>2. CASE RLock(w)
            BY <3>2 DEF RLock, ReadersMayEnter, TypeOK, LockInv
        <3>3. CASE Lookup(w)
            BY <3>3 DEF Lookup, TypeOK, LockInv
        <3>4. CASE RUnlock(w)
            BY <3>4 DEF RUnlock, TypeOK, LockInv
        <3>5. CASE Announce(w)
            BY <3>5 DEF Announce, TypeOK, LockInv
        <3>6. CASE Lock(w)
            BY <3>6 DEF Lock, WriterMayEnter, TypeOK, LockInv
        <3>7. CASE Store(w)
            BY <3>7 DEF Store, TypeOK, LockInv
        <3>8. CASE Unlock(w)
            BY <3>8 DEF Unlock, TypeOK, LockInv
        <3>9. CASE Return(w)
            BY <3>9 DEF Return, TypeOK, LockInv
        <3> QED
            BY <2>2, <3>1, <3>2, <3>3, <3>4, <3>5, <3>6, <3>7, <3>8, <3>9 DEF Proceed
    <2> QED
        BY <2>1, <2>2 DEF Next
<1> QED
    BY <1>1, <1>2, TypeCorrect, PTL DEF Spec

\* The two locked sections of ManagerFor exclude each other, so that the map is
\* never written while another goroutine uses it.
THEOREM MapIsSafe == Spec => []MapNeverRaces
<1>1. LockInv => MapNeverRaces
    BY DEF LockInv, MapNeverRaces
<1> QED
    BY <1>1, LockInvariant, PTL

\* Whatever the interleaving, a call of ManagerFor returns a manager made for the
\* account, region and role it was asked for.
THEOREM ManagersFit == Spec => []ManagerFits
<1>1. Init => FitInv
    BY DEF Init, FitInv
<1>2. TypeOK /\ FitInv /\ [Next]_vars => FitInv'
    <2> SUFFICES ASSUME TypeOK, FitInv, [Next]_vars
                 PROVE  FitInv'
        OBVIOUS
    <2>1. CASE UNCHANGED vars
        BY <2>1 DEF FitInv, vars
    <2>2. ASSUME NEW w \in Workers, Call(w) \/ Proceed(w)
          PROVE  FitInv'
        <3>1. CASE Call(w)
            BY <3>1 DEF Call, TypeOK, FitInv
        <3>2. CASE RLock(w)
            BY <3>2 DEF RLock, TypeOK, FitInv
        <3>3. CASE Lookup(w)
            BY <3>3 DEF Lookup, TypeOK, FitInv
        <3>4. CASE RUnlock(w)
            BY <3>4 DEF RUnlock, TypeOK, FitInv
        <3>5. CASE Announce(w)
            BY <3>5 DEF Announce, TypeOK, FitInv
        <3>6. CASE Lock(w)
            BY <3>6 DEF Lock, TypeOK, FitInv
        <3>7. CASE Store(w)
            BY <3>7, ManagerFieldsType DEF Store, TypeOK, FitInv
        <3>8. CASE Unlock(w)
            BY <3>8 DEF Unlock, TypeOK, FitInv
        <3>9. CASE Return(w)
            BY <3>9 DEF Return, TypeOK, FitInv
        <3> QED
            BY <2>2, <3>1, <3>2, <3>3, <3>4, <3>5, <3>6, <3>7, <3>8, <3>9 DEF Proceed
    <2> QED
        BY <2>1, <2>2 DEF Next
<1>3. TypeOK /\ FitInv => ManagerFits
    BY DEF TypeOK, FitInv, ManagerFits
<1> QED
    BY <1>1, <1>2, <1>3, TypeCorrect, PTL DEF Spec
=============================================================================
