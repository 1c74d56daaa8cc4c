------------------------------- MODULE Fnodes -------------------------------
(* The name cache of the virtual file system: the fnodes of src/vfs/fnode.c *)
(* that vfs_search (fswalk.c) walks, the inodes of src/vfs/inode.c they     *)
(* point to, and the calls that make, remove, link, rename and list files,  *)
(* over one ext2 volume.                                                    *)
(*                                                                          *)
(* An fnode is known by its path, a sequence of names; the root <<>> is the *)
(* mount point of the volume and is never released.  Threads are preempted  *)
(* between steps: a step ends where the code can lose the processor with a  *)
(* reference, a mutex or a value it has read.  A section under a splock is  *)
(* one step.  The mutex of an fnode is taken to exclude, as the host's does *)
(* for the programs of tests/vfs (the kernel's own: module Mutex).          *)
(* Symbolic links, access rights and mount points are left out.             *)
EXTENDS Ext2Dir, Integers, Sequences, SequencesExt, FiniteSetsExt, TLC

CONSTANTS
    Threads,
    Calls,          \* the calls a thread may make: [op, path, to, creat, excl]
    MaxLeaks,       \* bound on the references vfs_rmdir loses on an fnode
    Dirs, Files,    \* what the root holds at the start: name -> inode
    None

VARIABLES
    nodes,          \* the fnodes in memory: path -> [mode, ino, rcu, leaked]
    lru,            \* __vfs_share->fnode_llru
    inodes,         \* the inode table of the device: number -> [rcu, type]
    vol,            \* the volume
    mutex,          \* the owner of each fnode's mutex
    dual,           \* the owner of the device's dual_lock
    th,             \* what each thread is doing
    fault           \* the first assertion that failed

vars == <<nodes, lru, inodes, vol, mutex, dual, th, fault>>

NoInode == [rcu |-> 0, type |-> "free"]

NoCall == [op |-> "none", path |-> <<>>, to |-> <<>>, creat |-> FALSE, excl |-> FALSE]

(* A thread between two calls; file is the inode it has open.               *)
Idle(file) ==
    [pc |-> "idle", call |-> NoCall, goal |-> <<>>, resolve |-> FALSE, cur |-> None,
     other |-> None, dir |-> 0, ddir |-> 0, ino |-> 0, drop |-> <<>>, file |-> file]

Paths == {c.path : c \in Calls} \cup {c.to : c \in Calls}

Init ==
    /\ nodes = (<<>> :> [mode |-> "ok", ino |-> Root, rcu |-> 1, leaked |-> 0])
    /\ lru = <<>>
    /\ inodes = [i \in Inos |-> IF i = Root THEN [rcu |-> 1, type |-> "dir"] ELSE NoInode]
    /\ vol = Volume(Dirs, Files)
    /\ mutex = <<>>
    /\ dual = None
    /\ th = [t \in Threads |-> Idle(0)]
    /\ fault = "none"

Locked(p) == p \in DOMAIN mutex

Parent(p) == Front(p)

(* --- references -------------------------------------------------------- *)

(* vfs_open_inode *)
OpenInode(ino, table) == [table EXCEPT ![ino].rcu = @ + 1]

(* vfs_inode: the inode of that number, made if the device has it not yet.  *)
GetInode(ino, type, table) ==
    IF table[ino].rcu > 0 THEN OpenInode(ino, table)
    ELSE [table EXCEPT ![ino] = [rcu |-> 1, type |-> type]]

(* It asserts that an inode it has already is of the same type.             *)
OtherType(ino, type) == inodes[ino].rcu > 0 /\ inodes[ino].type # type

(* vfs_close_inode: the last reference takes it out of the table.           *)
CloseInode(ino, table) ==
    IF ino = 0 THEN table
    ELSE [table EXCEPT ![ino] = IF @.rcu = 1 THEN NoInode ELSE [@ EXCEPT !.rcu = @ - 1]]

(* vfs_fsnode_from: the child of an fnode, taken out of the LRU list, or    *)
(* made with a reference on its parent.                                     *)
FromLru(p) == SelectSeq(lru, LAMBDA q : q # p)

MutFsnodeFrom(p, table) ==
    IF p \in DOMAIN table THEN [table EXCEPT ![p].rcu = @ + 1]
    ELSE (p :> [mode |-> "empty", ino |-> 0, rcu |-> 1, leaked |-> 0]) @@ table

FsnodeFrom(p, table) ==
    IF p \in DOMAIN table THEN [table EXCEPT ![p].rcu = @ + 1]
    ELSE (p :> [mode |-> "empty", ino |-> 0, rcu |-> 1, leaked |-> 0])
         @@ [table EXCEPT ![Parent(p)].rcu = @ + 1]

(* vfs_resolve and vfs_clear_fsnode, with the count of the inode they take  *)
(* and drop.                                                                *)
Resolve(p, ino, table) == [table EXCEPT ![p].mode = "ok", ![p].ino = ino]

Clear(p, table) == [table EXCEPT ![p].mode = "noentry", ![p].ino = 0]

Fault(why) ==
    /\ fault' = why
    /\ UNCHANGED <<nodes, lru, inodes, vol, mutex, dual, th>>

(* Every call ends by closing the fnodes it still holds.                    *)
Closing(drop, file) ==
    [Idle(file) EXCEPT !.pc = IF drop = <<>> THEN "idle" ELSE "close", !.drop = drop]

Held(t) == SelectSeq(<<th[t].cur, th[t].other>>, LAMBDA p : p # None)

Ended(t) == Closing(Held(t), th[t].file)

Leave(t) == th' = [th EXCEPT ![t] = Ended(t)]

Goto(t, pc) == IF pc = "close" THEN Leave(t) ELSE th' = [th EXCEPT ![t].pc = pc]

At(t, pc) == fault = "none" /\ th[t].pc = pc

(* --- vfs_search -------------------------------------------------------- *)

(* A call starts with a search, from the root; link and rename make two.    *)
TwoPaths(c) == c.op \in {"link", "rename"}

Resolves(c) == c.op \in {"unlink", "rmdir", "readdir"}

Walk(t, goal, resolve) ==
    /\ nodes' = [nodes EXCEPT ![<<>>].rcu = @ + 1]
    /\ th' = [th EXCEPT ![t].pc = "lookup", ![t].goal = goal, ![t].resolve = resolve,
                        ![t].cur = <<>>, ![t].other = th[t].cur]

Call(t) ==
    /\ At(t, "idle")
    /\ \E c \in Calls :
         /\ c.op = "open" => th[t].file = 0
         /\ nodes' = [nodes EXCEPT ![<<>>].rcu = @ + 1]
         /\ th' = [th EXCEPT ![t] = [Idle(@.file) EXCEPT
                     !.pc = "lookup", !.call = c, !.cur = <<>>, !.goal = c.path,
                     !.resolve = TwoPaths(c) \/ Resolves(c)]]
    /\ UNCHANGED <<lru, inodes, vol, mutex, dual, fault>>

Second(t) ==
    /\ At(t, "found")
    /\ TwoPaths(th[t].call)
    /\ th[t].other = None
    /\ Walk(t, th[t].call.to, FALSE)
    /\ UNCHANGED <<lru, inodes, vol, mutex, dual, fault>>

(* vfs_lookup: an empty fnode asks the driver, under its mutex.             *)
Lookup(t, found, missing) ==
    LET p == th[t].cur
        ino == Search(vol, nodes[Parent(p)].ino, Last(p))
    IN  \/ /\ nodes[p].mode = "ok"
           /\ Goto(t, found)
           /\ UNCHANGED <<nodes, inodes, fault>>
        \/ /\ nodes[p].mode = "noentry"
           /\ Goto(t, missing)
           /\ UNCHANGED <<nodes, inodes, fault>>
        \/ /\ nodes[p].mode = "empty"
           /\ ~Locked(p)
           /\ IF nodes[Parent(p)].mode # "ok" \/ (ino # 0 /\ OtherType(ino, vol.type[ino]))
              THEN fault' = "lookup" /\ UNCHANGED <<nodes, inodes, th>>
              ELSE /\ IF ino # 0
                      THEN /\ inodes' = GetInode(ino, vol.type[ino], inodes)
                           /\ nodes' = Resolve(p, ino, nodes)
                           /\ Goto(t, found)
                      ELSE /\ nodes' = [nodes EXCEPT ![p].mode = "noentry"]
                           /\ Goto(t, missing)
                           /\ UNCHANGED inodes
                   /\ UNCHANGED fault

SearchLookup(t) ==
    /\ At(t, "lookup")
    /\ Lookup(t, IF th[t].cur = th[t].goal THEN "found" ELSE "descend", "close")
    /\ UNCHANGED <<lru, vol, mutex, dual>>

(* vfs_check_dir_inode, then the fnode of the next name.  The child holds   *)
(* its parent, so that closing the parent never releases it.                *)
Descend(t) ==
    LET p == th[t].cur
        q == SubSeq(th[t].goal, 1, Len(p) + 1)
    IN  /\ At(t, "descend")
        /\ IF nodes[p].mode # "ok" THEN Fault("inodeof")
           ELSE IF inodes[nodes[p].ino].type # "dir"
           THEN Leave(t) /\ UNCHANGED <<nodes, lru, inodes, vol, mutex, dual, fault>>
           ELSE /\ nodes' = [FsnodeFrom(q, nodes) EXCEPT ![p].rcu = @ - 1]
                /\ lru' = FromLru(q)
                /\ th' = [th EXCEPT ![t].cur = q, ![t].pc =
                            IF q = th[t].goal /\ ~th[t].resolve THEN "found" ELSE "lookup"]
                /\ UNCHANGED <<inodes, vol, mutex, dual, fault>>

(* --- calls on one name ------------------------------------------------- *)

(* vfs_open looks the name up itself, then makes the file if asked to.      *)
OpenLookup(t) ==
    LET c == th[t].call
    IN  /\ At(t, "found")
        /\ c.op = "open"
        /\ Lookup(t, IF c.excl THEN "close" ELSE "openino",
                     IF c.creat THEN "lock" ELSE "close")
        /\ UNCHANGED <<lru, vol, mutex, dual>>

OpenIno(t) ==
    LET p == th[t].cur
    IN  /\ At(t, "openino")
        /\ IF nodes[p].mode # "ok" THEN Fault("inodeof")
           ELSE /\ inodes' = OpenInode(nodes[p].ino, inodes)
                /\ th' = [th EXCEPT ![t] = [Ended(t) EXCEPT !.file = nodes[p].ino]]
                /\ UNCHANGED <<nodes, lru, vol, mutex, dual, fault>>

CloseFile(t) ==
    /\ At(t, "idle")
    /\ th[t].file # 0
    /\ inodes' = CloseInode(th[t].file, inodes)
    /\ th' = [th EXCEPT ![t].file = 0]
    /\ UNCHANGED <<nodes, lru, vol, mutex, dual, fault>>

(* The head of vfs_create, vfs_mkdir, vfs_rmdir, vfs_unlink and of vfs_link *)
(* after its target: the mutex of the fnode, its mode, and the inode of its *)
(* parent.  A name that exists is refused; one that does not, to rmdir and  *)
(* unlink.  vfs_rmdir then keeps its reference on the fnode for ever.       *)
Makes(c) == c.op \in {"open", "mkdir", "link"}

Refused(c, mode) == IF Makes(c) THEN mode = "ok" ELSE mode = "noentry"

LeakedBy(c) == IF c.op = "rmdir" THEN 1 ELSE 0

Lock(t) ==
    LET c == th[t].call
        p == th[t].cur
    IN  /\ \/ At(t, "lock")
           \/ At(t, "found") /\ c.op \in {"mkdir", "rmdir", "unlink"}
        /\ ~Locked(p)
        /\ IF Refused(c, nodes[p].mode)
           THEN /\ nodes[p].leaked + LeakedBy(c) <= MaxLeaks
                /\ IF c.op = "open" THEN Goto(t, "failed")
                   ELSE th' = [th EXCEPT ![t] = IF c.op = "rmdir"
                                 THEN Idle(@.file) ELSE Ended(t)]
                /\ nodes' = [nodes EXCEPT ![p].leaked = @ + LeakedBy(c)]
                /\ inodes' = CloseInode(th[t].ino, inodes)
                /\ UNCHANGED <<lru, vol, mutex, dual, fault>>
           ELSE IF nodes[Parent(p)].mode # "ok" THEN Fault("inodeof")
           ELSE /\ mutex' = (p :> t) @@ mutex
                /\ inodes' = OpenInode(nodes[Parent(p)].ino, inodes)
                /\ th' = [th EXCEPT ![t].pc = "driver", ![t].dir = nodes[Parent(p)].ino]
                /\ UNCHANGED <<nodes, lru, vol, dual, fault>>

Unlocked(P) == [p \in DOMAIN mutex \ P |-> mutex[p]]

(* The driver is not called on a directory that is no longer one.           *)
Gone(ino) == vol.type[ino] # "dir"

(* dir->ops->create or mkdir.  vfs_mkdir resolves its fnode under the       *)
(* mutex; vfs_create lets the mutex go first.                               *)
Make(t) ==
    LET c == th[t].call
        p == th[t].cur
        d == th[t].dir
        no == AllocInode(vol)
        type == IF c.op = "mkdir" THEN "dir" ELSE "reg"
    IN  /\ At(t, "driver")
        /\ c.op \in {"open", "mkdir"}
        /\ CanMknod(vol, d, Last(p)) => FreeInodes(vol) # {}
        /\ IF Gone(d) THEN Fault("orphan")
           ELSE IF ~CanMknod(vol, d, Last(p))
           THEN /\ inodes' = CloseInode(d, inodes)
                /\ mutex' = Unlocked({p})
                /\ IF c.op = "open"
                   THEN th' = [th EXCEPT ![t].pc = "failed", ![t].dir = 0] ELSE Leave(t)
                /\ UNCHANGED <<nodes, lru, vol, dual, fault>>
           ELSE IF OtherType(no, type) THEN Fault("type")
           ELSE IF c.op = "mkdir" /\ nodes[p].mode = "ok" THEN Fault("resolve")
           ELSE /\ vol' = Mknod(vol, d, Last(p), type)
                /\ inodes' = CloseInode(d, GetInode(no, type, inodes))
                /\ mutex' = Unlocked({p})
                /\ IF c.op = "mkdir"
                   THEN nodes' = Resolve(p, no, nodes) /\ Leave(t)
                   ELSE /\ th' = [th EXCEPT ![t].pc = "resolve", ![t].dir = 0, ![t].ino = no]
                        /\ UNCHANGED nodes
                /\ UNCHANGED <<lru, dual, fault>>

CreateResolve(t) ==
    LET p == th[t].cur
    IN  /\ At(t, "resolve")
        /\ IF nodes[p].mode = "ok" THEN Fault("resolve")
           ELSE /\ nodes' = Resolve(p, th[t].ino, nodes)
                /\ th' = [th EXCEPT ![t].pc = "openino", ![t].ino = 0]
                /\ UNCHANGED <<lru, inodes, vol, mutex, dual, fault>>

(* vfs_open goes on after a vfs_create that failed, if the name is there.   *)
CreateFailed(t) ==
    /\ At(t, "failed")
    /\ Goto(t, IF nodes[th[t].cur].mode = "ok" /\ ~th[t].call.excl THEN "openino" ELSE "close")
    /\ UNCHANGED <<nodes, lru, inodes, vol, mutex, dual, fault>>

(* dir->ops->rmdir or unlink, then vfs_clear_fsnode.                        *)
CanRemove(c, d, name) == IF c.op = "rmdir" THEN CanRmdir(vol, d, name) ELSE CanUnlink(vol, d, name)

RemoveName(t) ==
    LET c == th[t].call
        p == th[t].cur
        d == th[t].dir
    IN  /\ At(t, "driver")
        /\ c.op \in {"rmdir", "unlink"}
        /\ IF Gone(d) THEN Fault("orphan")
           ELSE /\ IF CanRemove(c, d, Last(p))
                   THEN /\ vol' = IF c.op = "rmdir" THEN Rmdir(vol, d, Last(p))
                                  ELSE Unlink(vol, d, Last(p))
                        /\ nodes' = Clear(p, nodes)
                        /\ inodes' = CloseInode(d, CloseInode(nodes[p].ino, inodes))
                   ELSE inodes' = CloseInode(d, inodes) /\ UNCHANGED <<vol, nodes>>
                /\ mutex' = Unlocked({p})
                /\ Leave(t)
                /\ UNCHANGED <<lru, dual, fault>>

(* --- calls on two names ------------------------------------------------ *)

(* vfs_link and vfs_rename take the inodes they need before any mutex; of   *)
(* the two fnodes they hold, cur is the name to make and other the one that *)
(* exists.                                                                  *)
TakeInodes(t) ==
    LET c == th[t].call
        src == th[t].other
        dst == th[t].cur
        used == IF c.op = "link" THEN {src} ELSE {src, Parent(src), Parent(dst)}
        ino == nodes[src].ino
        sdir == nodes[Parent(src)].ino
        ddir == nodes[Parent(dst)].ino
    IN  /\ At(t, "found")
        /\ TwoPaths(c)
        /\ src # None
        /\ IF \E p \in used : nodes[p].mode # "ok" THEN Fault("inodeof")
           ELSE /\ IF c.op = "rename"
                   THEN /\ inodes' = OpenInode(ino, OpenInode(sdir, OpenInode(ddir, inodes)))
                        /\ th' = [th EXCEPT ![t].pc = "dual", ![t].ino = ino,
                                            ![t].dir = sdir, ![t].ddir = ddir]
                   ELSE IF inodes[ino].type = "dir"
                   THEN Leave(t) /\ UNCHANGED inodes
                   ELSE /\ inodes' = OpenInode(ino, inodes)
                        /\ th' = [th EXCEPT ![t].pc = "lock", ![t].ino = ino]
                /\ UNCHANGED <<nodes, lru, vol, mutex, dual, fault>>

MakeLink(t) ==
    LET p == th[t].cur
        d == th[t].dir
        ino == th[t].ino
    IN  /\ At(t, "driver")
        /\ th[t].call.op = "link"
        /\ IF Gone(d) \/ vol.type[ino] = "free" THEN Fault("orphan")
           ELSE /\ IF CanLink(vol, d, Last(p), ino)
                   THEN /\ vol' = Link(vol, d, Last(p), ino)
                        /\ nodes' = Resolve(p, ino, nodes)
                        /\ inodes' = CloseInode(d, inodes)
                   ELSE /\ inodes' = CloseInode(ino, CloseInode(d, inodes))
                        /\ UNCHANGED <<vol, nodes>>
                /\ mutex' = Unlocked({p})
                /\ Leave(t)
                /\ UNCHANGED <<lru, dual, fault>>

(* vfs_rename: the lock of the device, then the mutex of both fnodes.       *)
RenameDual(t) ==
    /\ At(t, "dual")
    /\ dual = None
    /\ dual' = t
    /\ Goto(t, "dst")
    /\ UNCHANGED <<nodes, lru, inodes, vol, mutex, fault>>

RenameLock(t) ==
    LET p == IF th[t].pc = "dst" THEN th[t].cur ELSE th[t].other
    IN  /\ At(t, "dst") \/ At(t, "src")
        /\ ~Locked(p)
        /\ mutex' = (p :> t) @@ mutex
        /\ Goto(t, IF th[t].pc = "dst" THEN "src" ELSE "rename")
        /\ UNCHANGED <<nodes, lru, inodes, vol, dual, fault>>

(* The destination takes the inode that the search of the source found;     *)
(* the source drops the one it has.  Onto a name that exists, ext2 adds a   *)
(* second entry and vfs_resolve asserts if its fnode is resolved: a fault.  *)
MutRenamed(src, dst, ino) == Resolve(dst, ino, nodes)

Renamed(src, dst, ino) == Clear(src, Resolve(dst, ino, nodes))

RenameMove(t) ==
    LET dst == th[t].cur
        src == th[t].other
        s == th[t].dir
        d == th[t].ddir
        ino == th[t].ino
    IN  /\ At(t, "rename")
        /\ IF Gone(s) \/ Gone(d) THEN Fault("orphan")
           ELSE IF CanRename(vol, s, Last(src)) /\ Search(vol, d, Last(dst)) # 0
           THEN Fault("duplicate")
           ELSE /\ IF CanRename(vol, s, Last(src))
                   THEN /\ vol' = Rename(vol, s, Last(src), d, Last(dst))
                        /\ nodes' = Renamed(src, dst, ino)
                        /\ inodes' = CloseInode(nodes[src].ino, CloseInode(s, CloseInode(d, inodes)))
                   ELSE /\ inodes' = CloseInode(ino, CloseInode(s, CloseInode(d, inodes)))
                        /\ UNCHANGED <<vol, nodes>>
                /\ mutex' = Unlocked({src, dst})
                /\ dual' = None
                /\ Leave(t)
                /\ UNCHANGED <<lru, fault>>

(* --- vfs_opendir, vfs_readdir of one entry, vfs_closedir --------------- *)

(* The directory is opened and the driver asked for an entry in one step.   *)
ReadEntry(t) ==
    LET p == th[t].cur
        d == nodes[p].ino
    IN  /\ At(t, "found")
        /\ th[t].call.op = "readdir"
        /\ IF nodes[p].mode # "ok" THEN Fault("inodeof")
           ELSE IF inodes[d].type # "dir" \/ vol.ent[d] = NoEntries
           THEN Leave(t) /\ UNCHANGED <<nodes, lru, inodes, vol, mutex, dual, fault>>
           ELSE \E n \in Names :
                  LET ino == Search(vol, d, n)
                  IN  /\ ino # 0
                      /\ IF OtherType(ino, vol.type[ino]) THEN Fault("type")
                         ELSE /\ inodes' = GetInode(ino, vol.type[ino], OpenInode(d, inodes))
                              /\ th' = [th EXCEPT ![t].pc = "readfill", ![t].dir = d,
                                                  ![t].ino = ino, ![t].goal = Append(p, n)]
                              /\ UNCHANGED <<nodes, lru, vol, mutex, dual, fault>>

ReadFill(t) ==
    LET p == th[t].cur
        q == th[t].goal
    IN  /\ At(t, "readfill")
        /\ IF nodes[p].mode # "ok" THEN Fault("fsnode")
           ELSE /\ nodes' = FsnodeFrom(q, nodes)
                /\ lru' = FromLru(q)
                /\ th' = [th EXCEPT ![t].pc = "readresolve", ![t].cur = q, ![t].other = p]
                /\ UNCHANGED <<inodes, vol, mutex, dual, fault>>


Fills(mode) == mode = "empty"

ReadResolve(t) ==
    LET p == th[t].cur
        ino == th[t].ino
        used == IF Fills(nodes[p].mode) THEN inodes ELSE CloseInode(ino, inodes)
    IN  /\ At(t, "readresolve")
        /\ nodes[p].mode # "ok" => ~Locked(p)
        /\ nodes' = IF Fills(nodes[p].mode) THEN Resolve(p, ino, nodes) ELSE nodes
        /\ inodes' = CloseInode(th[t].dir, used)
        /\ Leave(t)
        /\ UNCHANGED <<lru, vol, mutex, dual, fault>>

(* --- vfs_close_fnode and vfs_scavenge ---------------------------------- *)

(* The count is dropped without the lock; who drops it to zero then takes   *)
(* the lock, counts itself back in, and drops the count again: the last one *)
(* puts the fnode on the LRU list.                                          *)
CloseStart(t) ==
    LET p == Head(th[t].drop)
        last == nodes[p].rcu = 1
    IN  /\ At(t, "close")
        /\ th[t].drop # <<>>
        /\ nodes' = [nodes EXCEPT ![p].rcu = @ - 1]
        /\ th' = [th EXCEPT ![t].pc = IF last THEN "close2" ELSE "close",
                            ![t].drop = IF last THEN @ ELSE Tail(@)]
        /\ UNCHANGED <<lru, inodes, vol, mutex, dual, fault>>

MutIdleNow(p) == TRUE

IdleNow(p) == nodes[p].rcu = 0

CloseIdle(t) ==
    LET p == Head(th[t].drop)
    IN  /\ At(t, "close2")
        /\ IF IdleNow(p) /\ Contains(lru, p) THEN Fault("relisted")
           ELSE /\ lru' = IF IdleNow(p) THEN Append(lru, p) ELSE lru
                /\ th' = [th EXCEPT ![t] = Closing(Tail(@.drop), @.file)]
                /\ UNCHANGED <<nodes, inodes, vol, mutex, dual, fault>>

(* One turn of the loop of vfs_scavenge.  It is called between the calls of *)
(* the test programs and by devfs_sweep once every anchor is closed: no     *)
(* call is then in progress.                                                *)
ParentOnLru(p) == nodes[Parent(p)].rcu = 1

Scavenge ==
    LET p == Head(lru)
    IN  /\ fault = "none"
        /\ \A t \in Threads : th[t].pc = "idle"
        /\ lru # <<>>
        /\ nodes' = [q \in DOMAIN nodes \ {p} |->
                        IF q = Parent(p) THEN [nodes[q] EXCEPT !.rcu = @ - 1] ELSE nodes[q]]
        /\ lru' = IF ParentOnLru(p) THEN Append(Tail(lru), Parent(p)) ELSE Tail(lru)
        /\ inodes' = CloseInode(nodes[p].ino, inodes)
        /\ UNCHANGED <<vol, mutex, dual, th, fault>>

Next ==
    \/ \E t \in Threads :
         \/ Call(t) \/ Second(t) \/ SearchLookup(t) \/ Descend(t)
         \/ OpenLookup(t) \/ OpenIno(t) \/ CloseFile(t)
         \/ Lock(t) \/ Make(t) \/ CreateResolve(t) \/ CreateFailed(t) \/ RemoveName(t)
         \/ TakeInodes(t) \/ MakeLink(t) \/ RenameDual(t) \/ RenameLock(t) \/ RenameMove(t)
         \/ ReadEntry(t) \/ ReadFill(t) \/ ReadResolve(t)
         \/ CloseStart(t) \/ CloseIdle(t)
    \/ Scavenge

Spec == Init /\ [][Next]_vars

(* --- properties -------------------------------------------------------- *)

Count(S) == Cardinality(S)

Children(p) == {q \in DOMAIN nodes : q # <<>> /\ Parent(q) = p}

(* The references thread t holds on an fnode; the one it has dropped        *)
(* without the lock is no longer among them.                                *)
Dropping(t) == IF th[t].pc = "close2" THEN Tail(th[t].drop) ELSE th[t].drop

HeldBy(t, p) ==
    Len(SelectSeq(Held(t), LAMBDA q : q = p)) + Len(SelectSeq(Dropping(t), LAMBDA q : q = p))

SumOver(f, S) == MapThenSumSet(LAMBDA x : f[x], S)

NodeRefs(p) ==
    Count(Children(p)) + SumOver([t \in Threads |-> HeldBy(t, p)], Threads)
    + nodes[p].leaked + (IF p = <<>> THEN 1 ELSE 0)

(* The count of an fnode is that of its children, of the calls that hold it *)
(* and of the references vfs_rmdir lost: no walk, close or scavenge leaves  *)
(* an fnode in use with a count that would release it.                      *)
NodesCounted == fault = "none" => \A p \in DOMAIN nodes : nodes[p].rcu = NodeRefs(p)

InodesOf(t) == <<th[t].dir, th[t].ddir, th[t].ino, th[t].file>>

InodeRefs(i) ==
    Count({p \in DOMAIN nodes : nodes[p].ino = i})
    + SumOver([t \in Threads |-> Len(SelectSeq(InodesOf(t), LAMBDA j : j = i))], Threads)

(* The count of an inode is that of the fnodes resolved to it, of the files *)
(* open on it and of the calls that use it: vfs_close_inode frees it with   *)
(* its last user, and no error path of a call keeps it.                     *)
InodesCounted == fault = "none" => \A i \in Inos : inodes[i].rcu = InodeRefs(i)

(* An fnode is on the LRU list exactly while nothing refers to it, once the *)
(* thread that dropped its last reference has come back for it.             *)
LruIsIdle ==
    fault = "none" =>
        \A p \in DOMAIN nodes :
            /\ Contains(lru, p) => nodes[p].rcu = 0
            /\ nodes[p].rcu = 0 =>
                 \/ Contains(lru, p)
                 \/ \E t \in Threads : th[t].pc = "close2" /\ Head(th[t].drop) = p

(* A thread has made a file and not yet told its fnode.                     *)
Creating(p) == \E t \in Threads : th[t].pc = "resolve" /\ th[t].cur = p



(* What vfs.h says of an fnode: its inode and mode change in pair while its *)
(* mutex is held.  (vfs_lookup and vfs_readdir take and leave the mutex of  *)
(* an empty fnode within one step.)                                         *)
ChangesLocked ==
    [][\A p \in DOMAIN nodes \cap DOMAIN nodes' :
         <<nodes'[p].mode, nodes'[p].ino>> # <<nodes[p].mode, nodes[p].ino>>
            => Locked(p) \/ nodes[p].mode = "empty"]_vars

(* What fs_unlink.sh says of unlink: an open file is not freed by it.       *)
OpenFileKept ==
    \A t \in Threads : th[t].file # 0 => vol.type[th[t].file] # "free"
=============================================================================
