-------------------------------- MODULE Pipe --------------------------------
(***************************************************************************)
(* A pipe, src/vfs/pipe.c: a ring buffer that grows, under a mutex and two *)
(* conditions.  The mutex excludes and cnd_wait releases it and sleeps in  *)
(* one step, as the mutexes the vfs is tested with do (the kernel's own is *)
(* module Mutex).  One turn of a loop is one step; pipe_hangup does not    *)
(* take the mutex and may come between any two.                            *)
(*                                                                         *)
(* A byte is the writer, its place in the call and the length of an atomic *)
(* call; a byte that was read is junk.  fifo is what the pipe should hold: *)
(* a history variable.                                                     *)
(***************************************************************************)
EXTENDS Integers, Sequences, FiniteSets, TLC

CONSTANTS
    Writers, Readers,
    Size, MaxSize,   \* the first and the largest size of the ring
    Asks,            \* the calls a thread makes: <<flag, length>>
    None

VARIABLES
    ring, size,      \* pipe->base, pipe->size
    rpen, wpen,      \* pipe->rpen, pipe->wpen as offsets
    avail, hangup,
    writers,         \* the writers that have not closed
    mutex,           \* the thread that holds it, or None
    pc, call,        \* where a thread is and the call it makes
    fifo

vars == <<ring, size, rpen, wpen, avail, hangup, writers, mutex, pc, call, fifo>>

Users == Writers \cup Readers
NoCall == [flag |-> "plain", len |-> 0, bytes |-> 0]
Min3(i, j, k) == CHOOSE n \in {i, j, k} : n <= i /\ n <= j /\ n <= k
Junk == <<>>

-----------------------------------------------------------------------------
(* mutants: the bytes before the write cursor not moved; no broadcast;     *)
(* room for one byte taken for room                                        *)
MutMoved(new) == [i \in 0 .. new - 1 |-> IF i < size THEN ring[i] ELSE Junk]
MutWoken(cond) == pc
MutNoRoom(c) == size = avail

Wrap(pen) == IF pen = size THEN 0 ELSE pen

(* pipe_resize_unlock_, as the writers call it: the ring is copied; when   *)
(* the bytes go round the end, those before the write cursor move behind   *)
(* the old end.                                                            *)
Moved(new) ==
    [i \in 0 .. new - 1 |->
        IF i < size THEN ring[i]
        ELSE IF rpen >= wpen /\ i - size < wpen THEN ring[i - size] ELSE Junk]
Grow ==
    LET new == IF 2 * size < MaxSize THEN 2 * size ELSE MaxSize
    IN  /\ rpen < wpen \/ wpen < new - size
        /\ ring' = Moved(new)
        /\ size' = new
        /\ wpen' = IF rpen < wpen THEN wpen ELSE wpen + size
        /\ UNCHANGED <<rpen, avail, hangup, writers, mutex, pc, call, fifo>>

(* cnd_broadcast: the sleepers compete for the mutex *)
Woken(cond) ==
    [t \in Users |->
        CASE pc[t] = "sleep_check" /\ cond = call[t].cond -> "relock_check"
          [] pc[t] = "sleep_copy" /\ cond = call[t].cond -> "relock_copy"
          [] OTHER -> pc[t]]

-----------------------------------------------------------------------------
Init ==
    /\ ring = [i \in 0 .. Size - 1 |-> Junk] /\ size = Size
    /\ rpen = 0 /\ wpen = 0 /\ avail = 0 /\ hangup = FALSE
    /\ writers = Writers /\ mutex = None /\ fifo = <<>>
    /\ pc = [t \in Users |-> "idle"]
    /\ call = [t \in Users |-> [cond |-> IF t \in Writers THEN "wr" ELSE "rd"] @@ NoCall]

Goto(t, to) == pc' = [pc EXCEPT ![t] = to]
Ring == <<ring, size, rpen, wpen, avail, fifo>>

(* A call is made.  No writer calls after pipe_hangup, which waits for the *)
(* last one to close.  A call that is not plain does not ask for more than *)
(* an empty pipe has room for: growing an empty ring moves one cursor only *)
Call(t, len, flag) ==
    /\ pc[t] = "idle" /\ (t \in Writers => t \in writers)
    /\ flag # "plain" => len <= Size
    /\ call' = [call EXCEPT ![t].flag = flag, ![t].len = len, ![t].bytes = 0]
    /\ Goto(t, "lock")
    /\ UNCHANGED <<Ring, hangup, writers, mutex>>

Lock(t) ==
    /\ pc[t] \in {"lock", "relock_check", "relock_copy"} /\ mutex = None
    /\ mutex' = t
    /\ Goto(t, IF pc[t] = "relock_copy" THEN "copy" ELSE "check")
    /\ UNCHANGED <<Ring, hangup, writers, call>>

Sleep(t, at) ==
    /\ mutex' = None
    /\ Goto(t, at)
    /\ UNCHANGED <<Ring, hangup, writers, call>>

Return(t) == call' = [call EXCEPT ![t] = [cond |-> @.cond] @@ NoCall]

NoRoom(c) == c.len > size - avail

(* pipe_write, before the loop. *)
WriteCheck(t) ==
    LET c == call[t]
    IN  /\ t \in Writers /\ pc[t] = "check"
        /\ \/ c.flag # "plain" /\ NoRoom(c) /\ 2 * size <= MaxSize /\ Grow
           \/ /\ c.flag = "noblock" /\ NoRoom(c) /\ 2 * size > MaxSize
              /\ mutex' = None /\ Goto(t, "idle") /\ Return(t)
              /\ UNCHANGED <<Ring, hangup, writers>>
           \/ c.flag = "atomic" /\ NoRoom(c) /\ 2 * size > MaxSize /\ Sleep(t, "sleep_check")
           \/ /\ c.flag = "plain" \/ ~NoRoom(c)
              /\ Goto(t, "copy")
              /\ UNCHANGED <<Ring, hangup, writers, mutex, call>>

(* One turn of the loop of pipe_write, and its end. *)
Byte(t, k) == <<t, k, IF call[t].flag = "atomic" THEN call[t].bytes + call[t].len ELSE 0>>

WriteCopy(t) ==
    LET c == call[t]
        cap == Min3(c.len, size - wpen, size - avail)
    IN  /\ t \in Writers /\ pc[t] = "copy"
        /\ \/ /\ c.len > 0 /\ cap > 0
              /\ ring' = [i \in 0 .. size - 1 |->
                            IF wpen <= i /\ i < wpen + cap THEN Byte(t, c.bytes + i - wpen + 1)
                            ELSE ring[i]]
              /\ fifo' = fifo \o [i \in 1 .. cap |-> Byte(t, c.bytes + i)]
              /\ wpen' = Wrap(wpen + cap)
              /\ avail' = avail + cap
              /\ call' = [call EXCEPT ![t].len = @ - cap, ![t].bytes = @ + cap]
              /\ UNCHANGED <<size, rpen, hangup, writers, mutex, pc>>
           \/ c.len > 0 /\ cap = 0 /\ size < MaxSize /\ Grow
           \/ /\ c.len > 0 /\ cap = 0 /\ size = MaxSize /\ c.flag # "noblock"
              /\ pc' = [Woken("rd") EXCEPT ![t] = "sleep_copy"]
              /\ mutex' = None
              /\ UNCHANGED <<Ring, hangup, writers, call>>
           \/ /\ c.len = 0 \/ (cap = 0 /\ size = MaxSize /\ c.flag = "noblock")
              /\ pc' = [Woken("rd") EXCEPT ![t] = "idle"]
              /\ mutex' = None /\ Return(t)
              /\ UNCHANGED <<Ring, hangup, writers>>

(* pipe_read, before the loop. *)
ReadCheck(t) ==
    LET c == call[t]
    IN  /\ t \in Readers /\ pc[t] = "check"
        /\ \/ /\ c.flag = "noblock" /\ c.len > avail
              /\ mutex' = None /\ Goto(t, "idle") /\ Return(t)
              /\ UNCHANGED <<Ring, hangup, writers>>
           \/ c.flag = "atomic" /\ c.len > avail /\ Sleep(t, "sleep_check")
           \/ /\ c.flag = "plain" \/ c.len <= avail
              /\ Goto(t, "copy")
              /\ UNCHANGED <<Ring, hangup, writers, mutex, call>>

(* One turn of the loop of pipe_read, and its end.  The reader that found  *)
(* neither a byte nor a hang-up goes to sleep a step later.                *)
ReadCopy(t) ==
    LET c == call[t]
        cap == Min3(c.len, size - rpen, avail)
        ends == c.len = 0 \/ (cap = 0 /\ (c.bytes > 0 \/ hangup \/ c.flag = "noblock"))
    IN  /\ t \in Readers /\ pc[t] = "copy"
        /\ \/ /\ c.len > 0 /\ cap > 0
              /\ ring' = [i \in 0 .. size - 1 |->
                            IF rpen <= i /\ i < rpen + cap THEN Junk ELSE ring[i]]
              /\ fifo' = SubSeq(fifo, cap + 1, Len(fifo))
              /\ rpen' = Wrap(rpen + cap)
              /\ avail' = avail - cap
              /\ call' = [call EXCEPT ![t].len = @ - cap, ![t].bytes = @ + cap]
              /\ UNCHANGED <<size, wpen, hangup, writers, mutex, pc>>
           \/ /\ ends
              /\ pc' = [Woken("wr") EXCEPT ![t] = "idle"]
              /\ mutex' = None /\ Return(t)
              /\ UNCHANGED <<Ring, hangup, writers>>
           \/ /\ c.len > 0 /\ cap = 0 /\ ~ends
              /\ pc' = [Woken("wr") EXCEPT ![t] = "wait"]
              /\ UNCHANGED <<Ring, hangup, writers, mutex, call>>
ReadWait(t) == pc[t] = "wait" /\ Sleep(t, "sleep_copy")

(* pipe_usage: the last writer to close sets hangup, then broadcasts. *)
Close(t) ==
    /\ t \in writers /\ pc[t] = "idle"
    /\ writers' = writers \ {t}
    /\ hangup' = (writers' = {})
    /\ Goto(t, IF writers' = {} THEN "hangup" ELSE "closed")
    /\ UNCHANGED <<Ring, mutex, call>>
Hangup(t) ==
    /\ pc[t] = "hangup"
    /\ pc' = [Woken("rd") EXCEPT ![t] = "closed"]
    /\ UNCHANGED <<Ring, hangup, writers, mutex, call>>

Next ==
    \E t \in Users :
        \/ \E ask \in Asks : Call(t, ask[2], ask[1])
        \/ Lock(t) \/ WriteCheck(t) \/ WriteCopy(t)
        \/ ReadCheck(t) \/ ReadCopy(t) \/ ReadWait(t)
        \/ Close(t) \/ Hangup(t)

Spec == Init /\ [][Next]_vars

-----------------------------------------------------------------------------
(* The ring holds the bytes that were written and not read, in order,      *)
(* through every wrap of the cursors and every growth.                     *)
RingIsFifo ==
    /\ avail = Len(fifo)
    /\ \A i \in 1 .. Len(fifo) : ring[(rpen + i - 1) % size] = fifo[i]

(* IO_ATOMIC: "complete operation or nothing".  Outside the mutex the      *)
(* bytes of an atomic write are whole and next to each other.              *)
AtomicWhole ==
    mutex = None =>
        \A i \in 1 .. Len(fifo) :
            LET b == fifo[i]
            IN  b[3] > 0 /\ b[2] < b[3] =>
                    i < Len(fifo) /\ fifo[i + 1] = <<b[1], b[2] + 1, b[3]>>

(* No wake-up is lost between the two conditions: outside the mutex a      *)
(* sleeping reader has too few bytes to go on, and a sleeping writer too   *)
(* little room.                                                            *)
SleepersBlocked ==
    mutex = None =>
        \A t \in Users :
            /\ pc[t] = "sleep_copy" => IF t \in Writers THEN avail = MaxSize ELSE avail = 0
            /\ pc[t] = "sleep_check" =>
                  IF t \in Writers THEN NoRoom(call[t]) ELSE call[t].len > avail
=============================================================================
