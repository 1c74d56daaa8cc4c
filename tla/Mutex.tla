------------------------------- MODULE Mutex -------------------------------
(***************************************************************************)
(* The mutex and the condition variable of src/stdc/mtx.c and cnd.c, over  *)
(* the two words they keep and over futexes.  Each access to a word and    *)
(* each futex call is one step.  A futex is the sequence of its sleepers,  *)
(* the latest first, the end futex_requeue wakes (module Futex).           *)
(*                                                                         *)
(* atomic_cmpxchg returns the word it found.  The loop of mtx_timedlock    *)
(* leaves when that is not 0: when the mutex is taken, by another thread   *)
(* or by its own first turn.  The futex_wait below the loop, for which s   *)
(* must be 1 after it, is never reached; only cnd_timedwait sleeps on the  *)
(* mutex.                                                                  *)
(***************************************************************************)
EXTENDS Integers, Sequences, FiniteSets

CONSTANTS Threads,
          Spins,     \* turns of a spin loop (100 and 200 in the code)
          MaxSeq     \* bound on cnd_signal and cnd_broadcast calls

VARIABLES
    value,           \* mutex->value: 0 free, 1 taken, 2 taken and contended
    seq, bound,      \* cond->seq; cond->mtx is set
    mtxq, seqq,      \* the futexes of the two words
    pc, turn, local  \* where a thread is, its turns, the seq it read

vars == <<value, seq, bound, mtxq, seqq, pc, turn, local>>

Goto(t, from, to) == pc[t] = from /\ pc' = [pc EXCEPT ![t] = to]
Wake(S) == [t \in Threads |-> IF t \in S THEN "relock" ELSE pc[t]]
FirstOf(q) == IF q = <<>> THEN {} ELSE {q[1]}

-----------------------------------------------------------------------------
(* mutant: a waiter that takes the mutex as if it were not contended       *)
MutContended == 1

Init ==
    /\ value = 0 /\ seq = 0 /\ bound = FALSE
    /\ mtxq = <<>> /\ seqq = <<>>
    /\ pc = [t \in Threads |-> "idle"]
    /\ turn = [t \in Threads |-> 0] /\ local = [t \in Threads |-> 0]

(* mtx_timedlock, mtx_trylock: one turn of the loop. *)
LockCall(t) ==
    /\ Goto(t, "idle", "lock")
    /\ turn' = [turn EXCEPT ![t] = 0]
    /\ UNCHANGED <<value, seq, bound, mtxq, seqq, local>>

LockTry(t) ==
    /\ value' = IF value = 0 THEN 1 ELSE value
    /\ turn' = [turn EXCEPT ![t] = @ + 1]
    /\ Goto(t, "lock", IF value # 0 \/ turn[t] + 1 = Spins THEN "held" ELSE "lock")
    /\ UNCHANGED <<seq, bound, mtxq, seqq, local>>

(* mtx_unlock, from mtx_unlock itself ("unlock") or in cnd_timedwait       *)
(* ("wait"): the word is tested, then cleared or exchanged; then someone   *)
(* may take it and be told of the contention, or one sleeper is woken.     *)
Unlocks == {"unlock", "wait"}
After(how) == IF how = "unlock" THEN "idle" ELSE "sleep_seq"
At(how, l) == how \o "_" \o l

UnlockTest(t, how) ==
    /\ Goto(t, At(how, "test"), At(how, IF value = 2 THEN "clear" ELSE "xchg"))
    /\ UNCHANGED <<value, seq, bound, mtxq, seqq, turn, local>>

UnlockClear(t, how) ==
    /\ pc[t] \in {At(how, "clear"), At(how, "xchg")}
    /\ value' = 0
    /\ pc' = [pc EXCEPT ![t] = IF @ = At(how, "xchg") /\ value = 1 THEN After(how)
                               ELSE At(how, "spin")]
    /\ turn' = [turn EXCEPT ![t] = 0]
    /\ UNCHANGED <<seq, bound, mtxq, seqq, local>>

PassOn(v) == IF v = 1 THEN 2 ELSE v

UnlockSpin(t, how) ==
    /\ pc[t] = At(how, "spin")
    /\ turn' = [turn EXCEPT ![t] = @ + 1]
    /\ value' = IF value = 0 THEN value ELSE PassOn(value)
    /\ pc' = [pc EXCEPT ![t] = IF value # 0 THEN After(how)
                               ELSE IF turn[t] + 1 = Spins THEN At(how, "wake") ELSE @]
    /\ UNCHANGED <<seq, bound, mtxq, seqq, local>>

UnlockWake(t, how) ==
    /\ pc[t] = At(how, "wake")
    /\ pc' = [Wake(FirstOf(mtxq)) EXCEPT ![t] = After(how)]
    /\ mtxq' = IF mtxq = <<>> THEN mtxq ELSE Tail(mtxq)
    /\ UNCHANGED <<value, seq, bound, seqq, turn, local>>

Unlock(t) == Goto(t, "held", "unlock_test") /\ UNCHANGED <<value, seq, bound, mtxq, seqq, turn, local>>

(* cnd_timedwait: the sequence number, the mutex of the condition, the     *)
(* unlock; then asleep until the number changes or a signal, and the mutex *)
(* taken as contended.                                                     *)
Wait(t) ==
    /\ Goto(t, "held", "wait_test")
    /\ local' = [local EXCEPT ![t] = seq]
    /\ bound' = TRUE
    /\ UNCHANGED <<value, seq, mtxq, seqq, turn>>

SleepSeq(t) ==
    /\ Goto(t, "sleep_seq", IF seq = local[t] THEN "asleep_seq" ELSE "relock")
    /\ seqq' = IF seq = local[t] THEN <<t>> \o seqq ELSE seqq
    /\ UNCHANGED <<value, seq, bound, mtxq, turn, local>>

Contended == 2

Relock(t) ==
    /\ value' = Contended
    /\ Goto(t, "relock", IF value = 0 THEN "held" ELSE "sleep_mtx")
    /\ UNCHANGED <<seq, bound, mtxq, seqq, turn, local>>

SleepMtx(t) ==
    /\ Goto(t, "sleep_mtx", IF value = 2 THEN "asleep_mtx" ELSE "relock")
    /\ mtxq' = IF value = 2 THEN <<t>> \o mtxq ELSE mtxq
    /\ UNCHANGED <<value, seq, bound, seqq, turn, local>>

(* cnd_signal and cnd_broadcast, by a thread that locked the mutex.        *)
Signal(t) ==
    /\ seq < MaxSeq
    /\ Goto(t, "held", "signal")
    /\ seq' = seq + 1
    /\ UNCHANGED <<value, bound, mtxq, seqq, turn, local>>

SignalWake(t) ==
    /\ pc[t] = "signal"
    /\ pc' = [Wake(FirstOf(seqq)) EXCEPT ![t] = "held"]
    /\ seqq' = IF seqq = <<>> THEN seqq ELSE Tail(seqq)
    /\ UNCHANGED <<value, seq, bound, mtxq, turn, local>>

Broadcast(t) ==
    /\ seq < MaxSeq /\ bound
    /\ Goto(t, "held", "broadcast")
    /\ seq' = seq + 1
    /\ UNCHANGED <<value, bound, mtxq, seqq, turn, local>>

(* futex_requeue: one is woken, the others sleep on the mutex.             *)
Reverse(s) == [i \in 1 .. Len(s) |-> s[Len(s) + 1 - i]]
BroadcastRequeue(t) ==
    /\ pc[t] = "broadcast"
    /\ pc' = [u \in Threads |->
                IF u = t THEN "held"
                ELSE IF u \in FirstOf(seqq) THEN "relock"
                ELSE IF \E i \in DOMAIN seqq : seqq[i] = u THEN "asleep_mtx"
                ELSE pc[u]]
    /\ mtxq' = IF seqq = <<>> THEN mtxq ELSE Reverse(Tail(seqq)) \o mtxq
    /\ seqq' = <<>>
    /\ UNCHANGED <<value, seq, bound, turn, local>>

InCall(t) ==
    \/ LockTry(t)
    \/ \E how \in Unlocks : UnlockTest(t, how) \/ UnlockClear(t, how)
                            \/ UnlockSpin(t, how) \/ UnlockWake(t, how)
    \/ SleepSeq(t) \/ Relock(t) \/ SleepMtx(t)
    \/ SignalWake(t) \/ BroadcastRequeue(t)

Next ==
    \E t \in Threads :
        InCall(t) \/ LockCall(t) \/ Unlock(t) \/ Wait(t) \/ Signal(t) \/ Broadcast(t)

Spec == Init /\ [][Next]_vars

-----------------------------------------------------------------------------
(* A thread asleep on the mutex, after cnd_wait was woken or moved there   *)
(* by cnd_broadcast, is never forgotten: the mutex is marked contended, or *)
(* some thread will wake it or take the mutex as contended.                *)
WillWake(u) ==
    \/ pc[u] \in {"relock", "sleep_mtx"}
    \/ \E how \in Unlocks, l \in {"clear", "spin", "wake"} : pc[u] = At(how, l)
SleeperRemembered ==
    mtxq # <<>> => value = 2 \/ \E u \in Threads : WillWake(u)

(* "blocks until locks a mutex": two threads that returned from mtx_lock   *)
(* are not between it and mtx_unlock at the same time.                     *)
MutexExcludes == \A t, u \in Threads : pc[t] = "held" /\ pc[u] = "held" => t = u
=============================================================================
