------------------------------- MODULE MCVfs --------------------------------
(* Two parts of the virtual file system: a pipe between two writers and a  *)
(* reader, and two threads that call the file system.  A behaviour is one  *)
(* of a part, chosen at the start.                                         *)
EXTENDS Integers, Sequences, TLC

CONSTANTS Parts, Writers, Readers, Size, MaxSize, Asks, None,
          Threads, Calls, MaxLeaks, Dirs, Files, Inos, Names, Root

VARIABLES part, ring, size, rpen, wpen, avail, hangup, writers, pmutex, pc, call, fifo,
          nodes, lru, inodes, vol, mutex, dual, th, fault

pipeVars == <<ring, size, rpen, wpen, avail, hangup, writers, pmutex, pc, call, fifo>>
fnodeVars == <<nodes, lru, inodes, vol, mutex, dual, th, fault>>

P == INSTANCE Pipe WITH mutex <- pmutex
F == INSTANCE Fnodes

Symmetry == Permutations(Writers) \cup Permutations(Threads)

SomeAsks == {<<"plain", 3>>, <<"noblock", 1>>, <<"atomic", 2>>}

(* The root has a directory "a" and a file "c"; the threads make, list and *)
(* remove the file "a/b" and the directory, and link and rename the file.  *)
OneDir == ("a" :> 2)
OneFile == ("c" :> 3)

CallOf(op, path, to) == [op |-> op, path |-> path, to |-> to, creat |-> op = "open", excl |-> FALSE]
File == <<"a", "b">>
SomeCalls ==
    {CallOf(op, File, <<>>) : op \in {"open", "unlink"}}
    \cup {[CallOf("open", File, <<>>) EXCEPT !.excl = TRUE]}
    \cup {CallOf(op, <<"a">>, <<>>) : op \in {"mkdir", "rmdir", "readdir"}}
    \cup {CallOf(op, <<"c">>, File) : op \in {"link", "rename"}}
OpenAndUnlink == {CallOf(op, File, <<>>) : op \in {"open", "unlink"}}

Init ==
    /\ part \in Parts
    /\ P!Init /\ F!Init

Next ==
    /\ UNCHANGED part
    /\ \/ part = "pipe" /\ P!Next /\ UNCHANGED fnodeVars
       \/ part = "fnodes" /\ F!Next /\ UNCHANGED pipeVars

Spec == Init /\ [][Next]_<<part, pipeVars, fnodeVars>>

(* The ring of a pipe holds the bytes written and not read, in their order *)
(* (pipe_write, pipe_read, pipe_resize_unlock_).                           *)
RingIsFifo == part = "pipe" => P!RingIsFifo

(* An atomic write is whole in the pipe (vfs.h, IO_ATOMIC).                *)
AtomicWhole == part = "pipe" => P!AtomicWhole

(* A thread that sleeps on a pipe has a reason to (the broadcasts of       *)
(* pipe_write and pipe_read).                                              *)
SleepersBlocked == part = "pipe" => P!SleepersBlocked

(* An fnode is counted once by each of its users (vfs_open_fnode,          *)
(* vfs_close_fnode).                                                       *)
NodesCounted == part = "fnodes" => F!NodesCounted

(* An inode is counted once by each of its users (vfs_open_inode,          *)
(* vfs_close_inode).                                                       *)
InodesCounted == part = "fnodes" => F!InodesCounted

(* The LRU list of vfs_scavenge holds the fnodes nothing refers to.        *)
LruIsIdle == part = "fnodes" => F!LruIsIdle



(* vfs.h: "Inode and mode change by paire while holding mutex".            *)
ChangesLocked == F!ChangesLocked

(* fs_unlink.sh: "An open file will not be immediately freed by unlink".   *)
OpenFileKept == part = "fnodes" => F!OpenFileKept
=============================================================================
