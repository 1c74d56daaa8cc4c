------------------------------- MODULE RWLock -------------------------------
(***************************************************************************)
(* The reader/writer lock of include/kora/rwlock.h (the naive variant,     *)
(* which is the one compiled) on top of the spin-lock of                   *)
(* include/kora/splock.h.  Threads run on their own processors; each       *)
(* atomic_xchg, atomic_inc, atomic_dec and load of the shared words is one *)
(* step, in program order, as the locked x86 instructions behave.          *)
(***************************************************************************)
EXTENDS Naturals, FiniteSets

CONSTANT Threads
ASSUME ThreadsAssumption == IsFiniteSet(Threads)

VARIABLES
    lock,     \* rwlock_t.lock, a splock_t: 0 free, 1 held
    readers,  \* rwlock_t.readers
    pc        \* where each thread is inside, or between, the calls

vars == <<lock, readers, pc>>

(* A thread is idle, inside one of the calls, or returned from one of them *)
(* holding the lock for reading ("reading") or for writing ("writing").    *)
Locations == {"idle", "rdlock_test", "rdlock_back", "rdlock_spin",
              "rdtry_test", "rdtry_back", "reading",
              "wrlock_xchg", "wrlock_wait", "wrtry_lock", "wrtry_test",
              "upgrade_dec", "upgrade_wait", "writing"}

Counted == {"rdlock_test", "rdlock_back", "rdtry_test", "rdtry_back",
            "reading", "upgrade_dec"}
Holding == {"wrlock_wait", "wrtry_test", "upgrade_dec", "upgrade_wait",
            "writing"}

Goto(t, from, to) == pc[t] = from /\ pc' = [pc EXCEPT ![t] = to]

-----------------------------------------------------------------------------
(* Mutants: the faults the properties below are tried against. *)


(* the announcement not taken back *)
MutRdlockBack(t) == Goto(t, "rdlock_back", "rdlock_spin") /\ UNCHANGED <<lock, readers>>

(* the second look at the readers left out *)
MutWrtrylockTest(t) == Goto(t, "wrtry_test", "writing") /\ UNCHANGED <<lock, readers>>

(* the result of splock_trylock ignored *)
MutUpgradeXchg(t) ==
    /\ Goto(t, "reading", "upgrade_dec")
    /\ lock' = 1
    /\ UNCHANGED readers

-----------------------------------------------------------------------------
(* rwlock_init, and every thread outside the lock. *)
Init ==
    /\ lock = 0
    /\ readers = 0
    /\ pc = [t \in Threads |-> "idle"]

(* rwlock_rdlock: announce the reader, then look at the writer's word.     *)
RdlockInc(t) ==
    /\ pc[t] \in {"idle", "rdlock_spin"}
    /\ pc[t] = "rdlock_spin" => lock = 0
    /\ pc' = [pc EXCEPT ![t] = "rdlock_test"]
    /\ readers' = readers + 1
    /\ UNCHANGED lock

RdlockTest(t) ==
    /\ Goto(t, "rdlock_test", IF lock = 0 THEN "reading" ELSE "rdlock_back")
    /\ UNCHANGED <<lock, readers>>

RdlockBack(t) ==
    /\ Goto(t, "rdlock_back", "rdlock_spin")
    /\ readers' = readers - 1
    /\ UNCHANGED lock

(* rwlock_rdtrylock: the same announcement, without the loop. *)
RdtrylockInc(t) ==
    /\ Goto(t, "idle", "rdtry_test")
    /\ readers' = readers + 1
    /\ UNCHANGED lock

RdtrylockTest(t) ==
    /\ Goto(t, "rdtry_test", IF lock = 0 THEN "reading" ELSE "rdtry_back")
    /\ UNCHANGED <<lock, readers>>

RdtrylockBack(t) ==
    /\ Goto(t, "rdtry_back", "idle")
    /\ readers' = readers - 1
    /\ UNCHANGED lock

Rdunlock(t) ==
    /\ Goto(t, "reading", "idle")
    /\ readers' = readers - 1
    /\ UNCHANGED lock

(* rwlock_wrlock: splock_lock, whose exchange stores 1 whatever it returns, *)
(* then a spin on the readers.                                              *)
WrlockCall(t) ==
    /\ Goto(t, "idle", "wrlock_xchg")
    /\ UNCHANGED <<lock, readers>>

WrlockXchg(t) ==
    /\ Goto(t, "wrlock_xchg", IF lock = 0 THEN "wrlock_wait" ELSE "wrlock_xchg")
    /\ lock' = 1
    /\ UNCHANGED readers

WrlockWait(t) ==
    /\ readers = 0
    /\ Goto(t, "wrlock_wait", "writing")
    /\ UNCHANGED <<lock, readers>>

Wrunlock(t) ==
    /\ Goto(t, "writing", "idle")
    /\ lock' = 0
    /\ UNCHANGED readers

(* rwlock_wrtrylock: look, take the spin-lock, look again. *)
WrtrylockLook(t) ==
    /\ readers = 0
    /\ Goto(t, "idle", "wrtry_lock")
    /\ UNCHANGED <<lock, readers>>

WrtrylockXchg(t) ==
    /\ Goto(t, "wrtry_lock", IF lock = 0 THEN "wrtry_test" ELSE "idle")
    /\ lock' = 1
    /\ UNCHANGED readers

WrtrylockTest(t) ==
    /\ Goto(t, "wrtry_test", IF readers = 0 THEN "writing" ELSE "idle")
    /\ lock' = IF readers = 0 THEN lock ELSE 0
    /\ UNCHANGED readers

(* rwlock_upgrade: a reader that fails to take the spin-lock stays one. *)
UpgradeXchg(t) ==
    /\ Goto(t, "reading", IF lock = 0 THEN "upgrade_dec" ELSE "reading")
    /\ lock' = 1
    /\ UNCHANGED readers

UpgradeDec(t) ==
    /\ Goto(t, "upgrade_dec", "upgrade_wait")
    /\ readers' = readers - 1
    /\ UNCHANGED lock

UpgradeWait(t) ==
    /\ readers = 0
    /\ Goto(t, "upgrade_wait", "writing")
    /\ UNCHANGED <<lock, readers>>

Step(t) ==
    \/ RdlockInc(t) \/ RdlockTest(t) \/ RdlockBack(t)
    \/ RdtrylockInc(t) \/ RdtrylockTest(t) \/ RdtrylockBack(t) \/ Rdunlock(t)
    \/ WrlockCall(t) \/ WrlockXchg(t) \/ WrlockWait(t) \/ Wrunlock(t)
    \/ WrtrylockLook(t) \/ WrtrylockXchg(t) \/ WrtrylockTest(t)
    \/ UpgradeXchg(t) \/ UpgradeDec(t) \/ UpgradeWait(t)

Next == \E t \in Threads : Step(t)

Spec == Init /\ [][Next]_vars

(* A processor keeps executing the call its thread is in, and a holder     *)
(* ends up releasing; nobody is obliged to make a new call.                *)
InCall(t) ==
    \/ RdlockTest(t) \/ RdlockBack(t) \/ RdtrylockTest(t) \/ RdtrylockBack(t)
    \/ RdlockInc(t) /\ pc[t] = "rdlock_spin"
    \/ WrlockXchg(t) \/ WrlockWait(t) \/ WrtrylockXchg(t) \/ WrtrylockTest(t)
    \/ UpgradeDec(t) \/ UpgradeWait(t)

FairSpec ==
    /\ Spec
    /\ \A t \in Threads :
          WF_vars(InCall(t)) /\ WF_vars(Rdunlock(t)) /\ WF_vars(Wrunlock(t))

-----------------------------------------------------------------------------
TypeOK ==
    /\ lock \in {0, 1}
    /\ readers \in Nat
    /\ pc \in [Threads -> Locations]

(* A thread that returned from rwlock_wrlock, a successful wrtrylock or a   *)
(* successful upgrade shares the lock with no reader and no other writer,   *)
(* although neither side ever sees both words at once.                      *)
Exclusion ==
    \A t, u \in Threads :
        t # u /\ pc[t] = "writing" => pc[u] \notin {"reading", "writing"}

(* What a reader saw stays true while rwlock_upgrade turns it into a        *)
(* writer: nobody else writes between its rdlock and its own write.         *)
UpgradeKeepsWritersOut ==
    \A t, u \in Threads :
        t # u /\ pc[t] \in {"reading", "upgrade_dec", "upgrade_wait"}
            => pc[u] # "writing"

(* The inductive strengthening: the counter is the number of announced      *)
(* threads, the spin-lock word is set exactly while one thread holds it.    *)
CounterExact == readers = Cardinality({t \in Threads : pc[t] \in Counted})
LockHeld ==
    /\ lock = 1 <=> \E t \in Threads : pc[t] \in Holding
    /\ \A t, u \in Threads : pc[t] \in Holding /\ pc[u] \in Holding => t = u
WriterAlone ==
    \A t, u \in Threads :
        pc[t] = "writing" => pc[u] \notin {"reading", "upgrade_dec"}
IInv == TypeOK /\ CounterExact /\ LockHeld /\ WriterAlone

=============================================================================
