------------------------------- MODULE Futex -------------------------------
(***************************************************************************)
(* Waiting, src/tasks/clock.c: futexes, timed sleeps and the clock, over   *)
(* the scheduler.  Only the current task steps; a step ends where a        *)
(* spin-lock is released, and Tick, the clock interrupt, comes in between. *)
(* The advent of a waiting task lives on its stack: at most one per task,  *)
(* named by the task.  clock->next_advent starts at 0 and is only lowered, *)
(* so every tick scans the list.                                           *)
(***************************************************************************)
EXTENDS Scheduler, Integers, FiniteSets

CONSTANTS
    Addrs,      \* the words futexes are opened on
    TickLen,    \* the 10000 us of clock_handler
    Timeouts,   \* the timeout arguments; 0 for none
    Counts      \* the pairs <<val, val2>> given to futex_requeue
ASSUME TimeAssumption == TickLen \in Nat \ {0} /\ Timeouts \subseteq Nat
ASSUME CountsAssumption == Counts \subseteq Nat \X Nat

VARIABLES
    word,       \* the word at each address, 0 or 1
    rcu,        \* futex->rcu; 0 when the tree holds no futex for the address
    queue,      \* futex->queue
    tmlist,     \* __clock.list
    until,      \* advent->until - clock->monotonic, or NoTime when until is 0
    registered, \* advent->task is set
    pc,         \* where each task is
    arg         \* the arguments and locals of the call it is in

waitVars == <<word, rcu, queue, tmlist, until, registered>>
vars == <<schedVars, waitVars, pc, arg>>

NoTime == -2
All == Cardinality(Tasks)
NoArg == [addr |-> Null, object |-> Null, val |-> 0, timeout |-> 0,
          val2 |-> 0, addr2 |-> Null]

(* futex_wait: lock, then pause; futex_requeue: lock; sleep_timer: pause. *)
InWait == {"wait_lock", "wait_register", "wait_append", "wait_switch", "wait_paused"}
InSleep == {"sleep_register", "sleep_append", "sleep_switch", "sleep_paused"}
Locations == {"run", "wake", "requeue_lock"} \cup InWait \cup InSleep

Goto(t, l) == pc' = [pc EXCEPT ![t] = l]
Runs(t, l) == fault = "none" /\ current = t /\ pc[t] = l
Min2(i, j) == IF i < j THEN i ELSE j
Without(s, S) == SelectSeq(s, LAMBDA t : t \notin S)
Rev(s) == [i \in 1..Len(s) |-> s[Len(s) + 1 - i]]

-----------------------------------------------------------------------------
(* Mutants. *)

(* a woken advent left in the clock's list *)
MutUnregister(ws) ==
    /\ tmlist' = tmlist
    /\ until' = [t \in Tasks |-> IF t \in Elements(ws) THEN NoTime ELSE until[t]]

(* the clock that never gets nearer to a deadline *)
MutSooner(d) == d

-----------------------------------------------------------------------------
(* Waking an advent (futex_wake_advent, advent_resume_task): out of the    *)
(* futex queue, out of the clock's list when it has a deadline, its task   *)
(* into the run queue.  What goes wrong is what the first faulty one does: *)
(* ll_remove of a node that is in no list, scheduler_add of a NULL task or *)
(* of a task already queued.                                               *)
WakeFault1(u) ==
    IF until[u] # NoTime /\ u \notin Elements(tmlist) THEN "ll_remove"
    ELSE IF ~registered[u] THEN "null_task"
    ELSE IF u \in Elements(schq) THEN "relinked"
    ELSE "none"

WakeFault(ws) ==
    LET bad == {i \in DOMAIN ws : WakeFault1(ws[i]) # "none"}
    IN  IF bad = {} THEN "none"
        ELSE WakeFault1(ws[CHOOSE i \in bad : \A j \in bad : i <= j])

Unregister(ws) ==
    /\ tmlist' = Without(tmlist, Elements(ws))
    /\ until' = [t \in Tasks |-> IF t \in Elements(ws) THEN NoTime ELSE until[t]]

Fail(f) ==
    /\ fault' = f
    /\ UNCHANGED <<current, status, schq, waitVars, pc, arg>>

-----------------------------------------------------------------------------
Init ==
    /\ SchedInit
    /\ word = [a \in Addrs |-> 0]
    /\ rcu = [a \in Addrs |-> 0]
    /\ queue = [a \in Addrs |-> <<>>]
    /\ tmlist = <<>>
    /\ until = [t \in Tasks |-> NoTime]
    /\ registered = [t \in Tasks |-> FALSE]
    /\ pc = [t \in Tasks |-> "run"]
    /\ arg = [t \in Tasks |-> NoArg]

(* futex_wait up to the end of futex_open, and the fresh advent. *)
WaitOpen(t, a, v, timeout) ==
    /\ Runs(t, "run")
    /\ rcu' = [rcu EXCEPT ![a] = @ + 1]
    /\ arg' = [arg EXCEPT ![t] = [NoArg EXCEPT !.addr = a, !.object = a, !.val = v,
                                              !.timeout = timeout]]
    /\ Goto(t, "wait_lock")
    /\ UNCHANGED <<schedVars, word, queue, tmlist, until, registered>>

(* futex_close(a), given the queue q the step leaves there. *)
CloseFault(count, q) == IF count = 1 /\ q # <<>> THEN "count_" ELSE "none"

(* mutant: the word tested before futex_open only *)
MutWaitLock(t) ==
    /\ Runs(t, "wait_lock")
    /\ queue' = [queue EXCEPT ![arg[t].object] = <<t>> \o @]
    /\ Goto(t, "wait_register")
    /\ UNCHANGED <<schedVars, word, rcu, tmlist, until, registered, arg>>

(* The test of the word and the place in the queue, under the futex lock;  *)
(* when the word already changed, close and return.                        *)
WaitLock(t) ==
    LET a == arg[t].object
    IN  /\ Runs(t, "wait_lock")
        /\ IF word[a] = arg[t].val
           THEN /\ queue' = [queue EXCEPT ![a] = <<t>> \o @]
                /\ Goto(t, "wait_register")
                /\ UNCHANGED <<schedVars, word, rcu, tmlist, until, registered, arg>>
           ELSE IF CloseFault(rcu[a], queue[a]) # "none" THEN Fail("count_")
           ELSE /\ rcu' = [rcu EXCEPT ![a] = @ - 1]
                /\ Goto(t, "run")
                /\ arg' = [arg EXCEPT ![t] = NoArg]
                /\ UNCHANGED <<schedVars, word, queue, tmlist, until, registered>>

(* sleep_timer: a fresh advent, straight to the pause. *)
Sleep(t, timeout) ==
    /\ timeout > 0
    /\ Runs(t, "run")
    /\ arg' = [arg EXCEPT ![t] = [NoArg EXCEPT !.timeout = timeout]]
    /\ Goto(t, "sleep_register")
    /\ UNCHANGED <<schedVars, waitVars>>

(* advent_register: task and deadline, before the clock's list is locked. *)
Register(t) ==
    \E s \in {<<"wait_register", "wait_append", "wait_switch">>,
              <<"sleep_register", "sleep_append", "sleep_switch">>} :
        /\ Runs(t, s[1])
        /\ registered' = [registered EXCEPT ![t] = TRUE]
        /\ IF arg[t].timeout > 0
           THEN until' = [until EXCEPT ![t] = arg[t].timeout] /\ Goto(t, s[2])
           ELSE until' = [until EXCEPT ![t] = NoTime] /\ Goto(t, s[3])
        /\ UNCHANGED <<schedVars, word, rcu, queue, tmlist, arg>>

AppendTimer(t) ==
    \E s \in {<<"wait_append", "wait_switch">>, <<"sleep_append", "sleep_switch">>} :
        /\ Runs(t, s[1])
        /\ tmlist' = Append(tmlist, t)
        /\ Goto(t, s[2])
        /\ UNCHANGED <<schedVars, word, rcu, queue, until, registered, arg>>

(* advent_pause_task: scheduler_switch(TS_BLOCKED). *)
Pause(t) ==
    \E s \in {<<"wait_switch", "wait_paused">>, <<"sleep_switch", "sleep_paused">>} :
        /\ Runs(t, s[1])
        /\ Switch(schq, status, "BLOCKED")
        /\ Goto(t, s[2])
        /\ UNCHANGED <<waitVars, arg>>

(* The advent dies with the frame of the call; the next one is zeroed. *)
Return(t) ==
    /\ Goto(t, "run")
    /\ arg' = [arg EXCEPT ![t] = NoArg]
    /\ registered' = [registered EXCEPT ![t] = FALSE]

(* mutant: futex_wait returns without futex_close *)
MutWaitResume(t) ==
    /\ Runs(t, "wait_paused")
    /\ Return(t)
    /\ UNCHANGED <<schedVars, word, rcu, queue, tmlist, until>>

(* futex_wait after the pause: lock the futex the advent now names, check  *)
(* that the node is unlinked (its two links are NULL), close.              *)
WaitResume(t) ==
    LET a == arg[t].object
        linked == t \in Elements(queue[a]) /\ Len(queue[a]) > 1
    IN  /\ Runs(t, "wait_paused")
        /\ IF linked THEN Fail("node_linked")
           ELSE IF CloseFault(rcu[a], queue[a]) # "none" THEN Fail("count_")
           ELSE /\ rcu' = [rcu EXCEPT ![a] = @ - 1]
                /\ Return(t)
                /\ UNCHANGED <<schedVars, word, queue, tmlist, until>>

SleepResume(t) ==
    /\ Runs(t, "sleep_paused")
    /\ Return(t)
    /\ UNCHANGED <<schedVars, word, rcu, queue, tmlist, until>>

(* The client's side of a wait: change the word, then wake every waiter. *)
Store(t, a) ==
    /\ Runs(t, "run")
    /\ word' = [word EXCEPT ![a] = 1 - @]
    /\ arg' = [arg EXCEPT ![t] = [NoArg EXCEPT !.object = a, !.val = All]]
    /\ Goto(t, "wake")
    /\ UNCHANGED <<schedVars, rcu, queue, tmlist, until, registered>>

(* futex_requeue (futex_wake when val2 = 0) up to the end of futex_open. *)
Open(t, a, val, val2, b) ==
    /\ IF rcu[a] = 0
       THEN Goto(t, "run") /\ arg' = [arg EXCEPT ![t] = NoArg] /\ UNCHANGED rcu
       ELSE /\ rcu' = [rcu EXCEPT ![a] = @ + 1]
            /\ arg' = [arg EXCEPT ![t] = [NoArg EXCEPT !.object = a, !.val = val,
                                                      !.val2 = val2, !.addr2 = b]]
            /\ Goto(t, "requeue_lock")
    /\ UNCHANGED <<schedVars, word, queue, tmlist, until, registered>>

RequeueOpen(t, a, val, val2, b) ==
    /\ Runs(t, "run")
    /\ val2 = 0 => b = a    \* addr2 is not used
    /\ val2 # 0 => b # a
    /\ Open(t, a, val, val2, b)

WakeOpen(t, a) == Runs(t, "wake") /\ a = arg[t].object /\ Open(t, a, All, 0, a)

(* mutants: target->rcu++ forgotten; advent->object left to the origin *)
MutMovedUsers(moved) == 0
MutMovedTo(u, b) == [arg[u] EXCEPT !.addr = Null]

(* A waiter that is moved counts for the target and names it; it no longer *)
(* waits for its own word.                                                 *)
MovedUsers(moved) == Len(moved)
MovedTo(u, b) == [arg[u] EXCEPT !.addr = Null, !.object = b]

(* The rest, under the origin's lock: wake the first val waiters, move the *)
(* next val2 to the target, close the target and the origin.               *)
RequeueLock(t) ==
    LET a == arg[t].object
        b == arg[t].addr2
        q == queue[a]
        woken == SubSeq(q, 1, Min2(arg[t].val, Len(q)))
        rest == SubSeq(q, Len(woken) + 1, Len(q))
        moved == SubSeq(rest, 1, Min2(arg[t].val2, Len(rest)))
        left == SubSeq(rest, Len(moved) + 1, Len(rest))
    IN  /\ Runs(t, "requeue_lock")
        /\ IF WakeFault(woken) # "none" THEN Fail(WakeFault(woken))
           ELSE IF CloseFault(rcu[a] - Len(moved), left) # "none" THEN Fail("count_")
           ELSE /\ schq' = Added(woken)
                /\ status' = AddedStatus(woken)
                /\ Unregister(woken)
                /\ queue' = [queue EXCEPT ![a] = left,
                                         ![b] = IF a = b THEN left ELSE Rev(moved) \o @]
                /\ rcu' = [rcu EXCEPT ![a] = @ - Len(moved) - 1, ![b] = @ + MovedUsers(moved)]
                /\ arg' = [u \in Tasks |->
                             IF u = t THEN NoArg
                             ELSE IF u \in Elements(moved) THEN MovedTo(u, b)
                             ELSE arg[u]]
                /\ Goto(t, "run")
                /\ UNCHANGED <<current, fault, word, registered>>

Yield(t) == Runs(t, "run") /\ YieldTask /\ UNCHANGED <<waitVars, pc, arg>>
Stop(t) == Runs(t, "run") /\ StopTask /\ UNCHANGED <<waitVars, pc, arg>>
Start(t, u) == Runs(t, "run") /\ StartTask(u) /\ UNCHANGED <<waitVars, pc, arg>>

(* The clock interrupt: clock_ticks wakes what has expired, in the order   *)
(* of the list, then scheduler_switch(TS_READY).  Deadlines are kept       *)
(* relative to the clock; one that passed stays at -1.                     *)
Sooner(d) == IF d = NoTime THEN NoTime ELSE IF d < TickLen THEN -1 ELSE d - TickLen

(* mutant: a timeout wakes the task and leaves its advent on the futex *)
MutTick ==
    LET expired == SelectSeq(tmlist, LAMBDA t : until[t] < TickLen)
    IN  /\ fault = "none"
        /\ IF WakeFault(expired) # "none" THEN Fail(WakeFault(expired))
           ELSE /\ Switch(Added(expired), AddedStatus(expired), "READY")
                /\ tmlist' = Without(tmlist, Elements(expired))
                /\ until' = [t \in Tasks |->
                               IF t \in Elements(expired) THEN NoTime ELSE Sooner(until[t])]
                /\ UNCHANGED <<word, rcu, queue, registered, pc, arg>>

Tick ==
    LET expired == SelectSeq(tmlist, LAMBDA t : until[t] < TickLen)
    IN  /\ fault = "none"
        /\ IF WakeFault(expired) # "none" THEN Fail(WakeFault(expired))
           ELSE /\ Switch(Added(expired), AddedStatus(expired), "READY")
                /\ tmlist' = Without(tmlist, Elements(expired))
                /\ until' = [t \in Tasks |->
                               IF t \in Elements(expired) THEN NoTime ELSE Sooner(until[t])]
                /\ queue' = [a \in Addrs |-> Without(queue[a], Elements(expired))]
                /\ UNCHANGED <<word, rcu, registered, pc, arg>>

Step(t) ==
    \/ \E a \in Addrs, v \in {0, 1}, timeout \in Timeouts : WaitOpen(t, a, v, timeout)
    \/ WaitLock(t)
    \/ \E timeout \in Timeouts : Sleep(t, timeout)
    \/ Register(t) \/ AppendTimer(t) \/ Pause(t) \/ WaitResume(t) \/ SleepResume(t)
    \/ \E a \in Addrs : Store(t, a)
    \/ \E a, b \in Addrs, c \in Counts : RequeueOpen(t, a, c[1], c[2], b)
    \/ \E a \in Addrs : WakeOpen(t, a)
    \/ RequeueLock(t)
    \/ Yield(t) \/ Stop(t)
    \/ \E u \in Tasks : Start(t, u)

Halted == fault # "none" /\ UNCHANGED vars

Next == Tick \/ (\E t \in Tasks : Step(t)) \/ Halted

Spec == Init /\ [][Next]_vars
FairSpec == Spec /\ WF_vars(Tick)

-----------------------------------------------------------------------------
TypeOK ==
    /\ SchedTypeOK
    /\ word \in [Addrs -> {0, 1}]
    /\ rcu \in [Addrs -> Nat]
    /\ queue \in [Addrs -> Seq(Tasks)]
    /\ tmlist \in Seq(Tasks)
    /\ until \in [Tasks -> Int]
    /\ registered \in [Tasks -> BOOLEAN]
    /\ pc \in [Tasks -> Locations]

(* A futex lives exactly as long as someone uses it: its counter is the    *)
(* number of calls between their futex_open and their futex_close, through *)
(* every move to another futex.                                            *)
Users(a) == {t \in Tasks : pc[t] \in InWait \cup {"requeue_lock"} /\ arg[t].object = a}
FutexAlive == \A a \in Addrs : rcu[a] = Cardinality(Users(a))

(* A task that sleeps on a futex can be found: it is in the queue of the   *)
(* futex its advent names, and no queue holds anything else.               *)
Queued(t) == \/ pc[t] \in InWait \ {"wait_lock", "wait_paused"}
             \/ pc[t] = "wait_paused" /\ status[t] = "BLOCKED"
SleepersFound ==
    fault = "none" => \A a \in Addrs :
        /\ Elements(queue[a]) = {t \in Tasks : Queued(t) /\ arg[t].object = a}
        /\ \A i, j \in DOMAIN queue[a] : queue[a][i] = queue[a][j] => i = j

(* The clock's list holds the registered deadlines, each once, and a       *)
(* blocked task waits for a deadline or for a futex.                       *)
Pending(t) == /\ arg[t].timeout > 0
              /\ \/ pc[t] \in {"wait_switch", "sleep_switch"}
                 \/ pc[t] \in {"wait_paused", "sleep_paused"} /\ status[t] = "BLOCKED"
TimersFound ==
    fault = "none" =>
        /\ Elements(tmlist) = {t \in Tasks : Pending(t)}
        /\ \A i, j \in DOMAIN tmlist : tmlist[i] = tmlist[j] => i = j
        /\ \A t \in Tasks : Pending(t) => until[t] # NoTime
        /\ \A t \in Tasks : status[t] = "BLOCKED" =>
              pc[t] \in {"wait_paused", "sleep_paused"}

(* No lost wake-up: whoever waits for a value the word no longer has is    *)
(* about to be woken by the task that changed it.                          *)
NoSleeperMissed ==
    fault = "none" => \A t \in Tasks :
        Queued(t) /\ arg[t].object = arg[t].addr /\ word[arg[t].addr] # arg[t].val =>
            \E u \in Tasks : /\ pc[u] \in {"wake", "requeue_lock"}
                             /\ arg[u].object = arg[t].addr
                             /\ arg[u].val = All
(* The assertions of futex_close and futex_wait hold: a futex is freed     *)
(* with an empty queue, a waiter resumes with its node unlinked, whether a *)
(* wake, a move or a timeout came first.                                   *)
ClockAssertsHold == fault \notin {"count_", "node_linked"}

(* Nobody starves: a ready task gets the processor, since the queue is     *)
(* served from the end opposite to the one it is fed by.                   *)
Served(t) == status[t] = "READY" ~> current = t \/ fault # "none"

(* A blocked task with a deadline comes back, woken by then or not. *)
ComesBack(t) ==
    status[t] = "BLOCKED" /\ arg[t].timeout > 0 ~> current = t \/ fault # "none"

-----------------------------------------------------------------------------
(* What the code does not guarantee: a waiter is in the futex queue before *)
(* its advent is registered and before it leaves the processor, so a wake  *)
(* in between meets a NULL task ("null_task"), a task that is still queued *)
(* ("relinked"), or this one.                                              *)

(* The assertion of ll_remove: a removed node leads to the list's ends. *)
RemovedFromItsList == fault # "ll_remove"
=============================================================================
