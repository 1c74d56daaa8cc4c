----------------------------- MODULE Scheduler -----------------------------
(***************************************************************************)
(* The run queue of src/tasks/scheduler.c and the task life cycle of       *)
(* src/tasks/threads.c.  There is one current task (__current is a global) *)
(* and a spin-lock disables interrupts, so whatever runs under a spin-lock *)
(* is one step; the clock interrupt comes between two steps.               *)
(*                                                                         *)
(* A linked list is the sequence of its nodes, first_ at the head, as long *)
(* as a node is pushed once: pushing a linked node corrupts the links,     *)
(* and here sets `fault` and stops the machine, as the                     *)
(* failure of an assert does.  TS_INTERRUPTIBLE and TS_ABORTED are given   *)
(* to no task, so task_raise only sets a bit of task->raised, left out.    *)
(***************************************************************************)
EXTENDS Naturals, Sequences

CONSTANTS Tasks, Null
ASSUME NullAssumption == Null \notin Tasks

VARIABLES
    current,    \* __current
    status,     \* task->status; "NONE" before task_create
    schq,       \* __scheduler.sch_queue
    fault       \* the assertion that failed, or "none"

schedVars == <<current, status, schq, fault>>

Statuses == {"NONE", "ZOMBIE", "BLOCKED", "READY", "RUNNING"}

Elements(s) == {s[i] : i \in DOMAIN s}

LastOrNull(q) == IF q = <<>> THEN Null ELSE q[Len(q)]
ButLast(q) == IF q = <<>> THEN q ELSE SubSeq(q, 1, Len(q) - 1)

-----------------------------------------------------------------------------
(* Mutants. *)

(* the task that gives up the processor is not put back *)
MutRequeue(q, st) == q

(* the queue served from the end it is fed by *)
MutDequeue(q, stat) ==
    LET next == IF q = <<>> THEN Null ELSE Head(q)
    IN  /\ current' = next
        /\ schq' = IF q = <<>> THEN q ELSE Tail(q)
        /\ status' = IF next = Null THEN stat ELSE [stat EXCEPT ![next] = "RUNNING"]

(* the next task dispatched without changing its status *)
MutDispatch(q, stat) ==
    /\ current' = LastOrNull(q)
    /\ schq' = ButLast(q)
    /\ status' = stat

-----------------------------------------------------------------------------
(* scheduler_switch, from the queue q and statuses stat that the code      *)
(* before the call left: the current task, if any, gets status st and, if  *)
(* it is TS_READY, a place in the queue; the oldest ready task runs.       *)
Requeue(q, st) == IF current # Null /\ st = "READY" THEN <<current>> \o q ELSE q

Dequeue(q, stat) ==
    LET next == LastOrNull(q)
    IN  /\ current' = next
        /\ schq' = ButLast(q)
        /\ status' = IF next = Null THEN stat ELSE [stat EXCEPT ![next] = "RUNNING"]

SwitchFault(q, st) ==
    IF current # Null /\ st = "READY" /\ current \in Elements(q)
    THEN "relinked" ELSE "none"

Switch(q, stat, st) ==
    IF SwitchFault(q, st) # "none"
    THEN fault' = SwitchFault(q, st) /\ UNCHANGED <<current, status, schq>>
    ELSE /\ Dequeue(Requeue(q, st),
                    IF current = Null THEN stat ELSE [stat EXCEPT ![current] = st])
         /\ UNCHANGED fault

(* scheduler_add of the tasks of ws, one after the other. *)
Added(ws) == [i \in 1..Len(ws) |-> ws[Len(ws) + 1 - i]] \o schq
AddedStatus(ws) == [t \in Tasks |-> IF t \in Elements(ws) THEN "READY" ELSE status[t]]

-----------------------------------------------------------------------------
SchedInit ==
    /\ current = Null
    /\ \E t \in Tasks :
          /\ schq = <<t>>
          /\ status = [u \in Tasks |-> IF u = t THEN "READY" ELSE "NONE"]
    /\ fault = "none"

(* task_start, task_thread and task_spawn: task_create, then scheduler_add. *)
StartTask(u) ==
    /\ status[u] = "NONE"
    /\ schq' = Added(<<u>>)
    /\ status' = AddedStatus(<<u>>)
    /\ UNCHANGED <<current, fault>>

(* task_stop; nothing waits for a zombie, which is never freed. *)
StopTask == Switch(schq, status, "ZOMBIE")

(* sys_sleep(0), irq_fault: scheduler_switch(TS_READY). *)
YieldTask == Switch(schq, status, "READY")

-----------------------------------------------------------------------------
SchedTypeOK ==
    /\ current \in Tasks \cup {Null}
    /\ status \in [Tasks -> Statuses]
    /\ schq \in Seq(Tasks)

(* What the comments of enum task_status say: the tasks waiting for the    *)
(* processor are the ones in the queue, each once, and the running task is *)
(* the current one.                                                        *)
QueueMatchesStatus ==
    fault = "none" =>
        /\ Elements(schq) = {t \in Tasks : status[t] = "READY"}
        /\ \A i, j \in DOMAIN schq : schq[i] = schq[j] => i = j
        /\ \A t \in Tasks : status[t] = "RUNNING" <=> t = current
=============================================================================
