---------------------------- MODULE RWLockProofs ----------------------------
(* The reader/writer lock excludes for any finite number of threads. *)
EXTENDS RWLock, FiniteSetTheorems, TLAPS

Announced == {t \in Threads : pc[t] \in Counted}

(* An announced thread makes the counter non zero: what the two spins on   *)
(* `lock->readers` and the test of rwlock_wrtrylock rely on.               *)
LEMMA ZeroMeansNobody ==
    IInv /\ readers = 0 => \A t \in Threads : pc[t] \notin Counted
<1> SUFFICES ASSUME IInv, readers = 0, NEW t \in Threads, pc[t] \in Counted
             PROVE FALSE
    OBVIOUS
<1>1. IsFiniteSet(Announced)
    BY ThreadsAssumption, FS_Subset DEF Announced
<1>2. Cardinality(Announced) = 0
    BY DEF IInv, CounterExact, Announced
<1>3. Announced = {}
    BY <1>1, <1>2, FS_EmptySet
<1> QED BY <1>3 DEF Announced

(* atomic_inc by a thread that was not announced keeps the counter exact. *)
LEMMA CountOneMore ==
    ASSUME IInv, NEW t \in Threads, NEW to \in Counted,
           pc[t] \notin Counted, pc' = [pc EXCEPT ![t] = to],
           readers' = readers + 1
    PROVE  CounterExact'
<1>1. Announced' = Announced \cup {t}
    BY DEF Announced, IInv, TypeOK
<1>2. t \notin Announced
    BY DEF Announced
<1>3. IsFiniteSet(Announced)
    BY ThreadsAssumption, FS_Subset DEF Announced
<1>4. Cardinality(Announced') = Cardinality(Announced) + 1
    BY <1>1, <1>2, <1>3, FS_AddElement
<1> QED BY <1>4 DEF CounterExact, IInv, Announced

(* atomic_dec by an announced thread keeps the counter exact, and the      *)
(* counter does not wrap.                                                  *)
LEMMA CountOneLess ==
    ASSUME IInv, NEW t \in Threads, NEW to \in Locations \ Counted,
           pc[t] \in Counted, pc' = [pc EXCEPT ![t] = to],
           readers' = readers - 1
    PROVE  CounterExact' /\ readers' \in Nat
<1>1. Announced' = Announced \ {t}
    BY DEF Announced, IInv, TypeOK
<1>2. t \in Announced
    BY DEF Announced
<1>3. IsFiniteSet(Announced)
    BY ThreadsAssumption, FS_Subset DEF Announced
<1>4. Cardinality(Announced') = Cardinality(Announced) - 1
    BY <1>1, <1>2, <1>3, FS_RemoveElement
<1>5. IsFiniteSet(Announced')
    BY <1>1, <1>3, FS_RemoveElement
<1>6. Cardinality(Announced') \in Nat
    BY <1>5, FS_CardinalityType
<1> QED BY <1>4, <1>6 DEF CounterExact, IInv, Announced

(* A step that changes neither the counter nor who is announced. *)
LEMMA CountSame ==
    ASSUME IInv, NEW t \in Threads, NEW to \in Locations,
           pc[t] \in Counted <=> to \in Counted,
           pc' = [pc EXCEPT ![t] = to], readers' = readers
    PROVE  CounterExact'
<1>1. Announced' = Announced
    BY DEF Announced, IInv, TypeOK
<1> QED BY <1>1 DEF CounterExact, IInv, Announced

LEMMA InitIInv == Init => IInv
<1> SUFFICES ASSUME Init PROVE IInv
    OBVIOUS
<1>1. Announced = {}
    BY DEF Init, Announced, Counted
<1>2. CounterExact
    BY <1>1, FS_EmptySet DEF CounterExact, Init, Announced
<1> QED BY <1>2 DEF Init, IInv, TypeOK, LockHeld, WriterAlone, Locations, Holding

(* What a step leaves of the lock's ownership, from the location left and  *)
(* the location reached.                                                   *)
LEMMA StepIInv ==
    ASSUME IInv, NEW t \in Threads, Step(t) PROVE IInv'
<1> USE DEF IInv, TypeOK, LockHeld, WriterAlone, Goto
<1>1. CASE RdlockInc(t)
    <2>1. CounterExact'
        BY <1>1, CountOneMore DEF RdlockInc, Counted
    <2> QED BY <1>1, <2>1 DEF RdlockInc, Locations, Holding
<1>2. CASE RdlockTest(t)
    <2>1. CounterExact'
        BY <1>2, CountSame DEF RdlockTest, Counted, Locations
    <2> QED BY <1>2, <2>1 DEF RdlockTest, Locations, Holding
<1>3. CASE RdlockBack(t)
    <2>1. CounterExact' /\ readers' \in Nat
        BY <1>3, CountOneLess DEF RdlockBack, Counted, Locations
    <2> QED BY <1>3, <2>1 DEF RdlockBack, Locations, Holding
<1>4. CASE RdtrylockInc(t)
    <2>1. CounterExact'
        BY <1>4, CountOneMore DEF RdtrylockInc, Counted
    <2> QED BY <1>4, <2>1 DEF RdtrylockInc, Locations, Holding
<1>5. CASE RdtrylockTest(t)
    <2>1. CounterExact'
        BY <1>5, CountSame DEF RdtrylockTest, Counted, Locations
    <2> QED BY <1>5, <2>1 DEF RdtrylockTest, Locations, Holding
<1>6. CASE RdtrylockBack(t)
    <2>1. CounterExact' /\ readers' \in Nat
        BY <1>6, CountOneLess DEF RdtrylockBack, Counted, Locations
    <2> QED BY <1>6, <2>1 DEF RdtrylockBack, Locations, Holding
<1>7. CASE Rdunlock(t)
    <2>1. CounterExact' /\ readers' \in Nat
        BY <1>7, CountOneLess DEF Rdunlock, Counted, Locations
    <2> QED BY <1>7, <2>1 DEF Rdunlock, Locations, Holding
<1>8. CASE WrlockCall(t)
    <2>1. CounterExact'
        BY <1>8, CountSame DEF WrlockCall, Counted, Locations
    <2> QED BY <1>8, <2>1 DEF WrlockCall, Locations, Holding
<1>9. CASE WrlockXchg(t)
    <2>1. CounterExact'
        BY <1>9, CountSame DEF WrlockXchg, Counted, Locations
    <2> QED BY <1>9, <2>1 DEF WrlockXchg, Locations, Holding
<1>10. CASE WrlockWait(t)
    <2>1. CounterExact'
        BY <1>10, CountSame DEF WrlockWait, Counted, Locations
    <2>2. \A u \in Threads : pc[u] \notin Counted
        BY <1>10, ZeroMeansNobody DEF WrlockWait
    <2> QED BY <1>10, <2>1, <2>2 DEF WrlockWait, Locations, Holding, Counted
<1>11. CASE Wrunlock(t)
    <2>1. CounterExact'
        BY <1>11, CountSame DEF Wrunlock, Counted, Locations
    <2> QED BY <1>11, <2>1 DEF Wrunlock, Locations, Holding
<1>12. CASE WrtrylockLook(t)
    <2>1. CounterExact'
        BY <1>12, CountSame DEF WrtrylockLook, Counted, Locations
    <2> QED BY <1>12, <2>1 DEF WrtrylockLook, Locations, Holding
<1>13. CASE WrtrylockXchg(t)
    <2>1. CounterExact'
        BY <1>13, CountSame DEF WrtrylockXchg, Counted, Locations
    <2> QED BY <1>13, <2>1 DEF WrtrylockXchg, Locations, Holding
<1>14. CASE WrtrylockTest(t)
    <2>1. CounterExact'
        BY <1>14, CountSame DEF WrtrylockTest, Counted, Locations
    <2>2. readers = 0 => \A u \in Threads : pc[u] \notin Counted
        BY ZeroMeansNobody
    <2> QED BY <1>14, <2>1, <2>2 DEF WrtrylockTest, Locations, Holding, Counted
<1>15. CASE UpgradeXchg(t)
    <2>1. CounterExact'
        BY <1>15, CountSame DEF UpgradeXchg, Counted, Locations
    <2> QED BY <1>15, <2>1 DEF UpgradeXchg, Locations, Holding
<1>16. CASE UpgradeDec(t)
    <2>1. CounterExact' /\ readers' \in Nat
        BY <1>16, CountOneLess DEF UpgradeDec, Counted, Locations
    <2> QED BY <1>16, <2>1 DEF UpgradeDec, Locations, Holding
<1>17. CASE UpgradeWait(t)
    <2>1. CounterExact'
        BY <1>17, CountSame DEF UpgradeWait, Counted, Locations
    <2>2. \A u \in Threads : pc[u] \notin Counted
        BY <1>17, ZeroMeansNobody DEF UpgradeWait
    <2> QED BY <1>17, <2>1, <2>2 DEF UpgradeWait, Locations, Holding, Counted
<1> QED
    BY <1>1, <1>2, <1>3, <1>4, <1>5, <1>6, <1>7, <1>8, <1>9, <1>10, <1>11,
       <1>12, <1>13, <1>14, <1>15, <1>16, <1>17 DEF Step

(* The counter of rwlock_t is at every moment the number of threads that   *)
(* announced themselves, and its spin-lock word has one owner.             *)
THEOREM Invariance == Spec => []IInv
<1>1. IInv /\ [Next]_vars => IInv'
    <2> SUFFICES ASSUME IInv, [Next]_vars PROVE IInv'
        OBVIOUS
    <2>1. CASE Next
        BY <2>1, StepIInv DEF Next
    <2>2. CASE UNCHANGED vars
        BY <2>2 DEF vars, IInv, TypeOK, CounterExact, LockHeld, WriterAlone
    <2> QED BY <2>1, <2>2
<1> QED BY InitIInv, <1>1, PTL DEF Spec

(* Whatever the number of threads, a holder for writing is alone. *)
THEOREM LockExcludes == Spec => []Exclusion
<1>1. IInv => Exclusion
    BY DEF IInv, LockHeld, WriterAlone, Exclusion, Holding
<1> QED BY <1>1, Invariance, PTL

(* Whatever the number of threads, no writer slips in between a reader's   *)
(* rdlock and the return of its rwlock_upgrade.                            *)
THEOREM UpgradeIsAtomic == Spec => []UpgradeKeepsWritersOut
<1>1. IInv => UpgradeKeepsWritersOut
    BY DEF IInv, LockHeld, WriterAlone, UpgradeKeepsWritersOut, Holding
<1> QED BY <1>1, Invariance, PTL
=============================================================================
