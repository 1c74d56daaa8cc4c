------------------------------ MODULE VmFault ------------------------------
(***************************************************************************)
(* Page faults: the pages behind the areas of a family of address spaces   *)
(* that vmsp_clone made from one another (src/mem/vmsp.c, vma_anon.c,      *)
(* vma_file.c, page_shared of pages.c).  A fault drops vmsp->lock while it *)
(* gets a page, for vma_fetch_blank and vma_fetch_file and again for the   *)
(* copy on write; everything else runs under the lock and is one step.     *)
(*                                                                         *)
(* An area is one page here: "anon" (copied on write), "heap" (neither     *)
(* copied nor protected), "file" (shows a page of a file, shared) and      *)
(* "filecpy" (shows it until written, then a private copy).  One page of   *)
(* one file is enough: cache is the frame that holds it.  The page tables  *)
(* are those of tests/mem/mem_main.c: on i386 mmu_set is a stub and        *)
(* mmu_resolve asserts that a user entry was empty, so that neither a      *)
(* clone nor a copy on write can work there.                               *)
(***************************************************************************)
EXTENDS Integers, FiniteSets, FiniteSetsExt

CONSTANTS
    Spaces,          \* address spaces
    Threads, SpaceOf,  \* threads, and the space each runs in
    Addrs,           \* virtual pages
    Frames           \* physical pages: positive numbers

VARIABLES
    live,            \* the spaces that exist
    area, pt,        \* per space and page: the area, and the page table entry
    used,            \* the frames taken by page_new
    cnt,             \* vmsp->share->map: the shared frames, 0 where absent
    p_size, s_size,  \* private and shared pages of a space
    cache, fuse,     \* the frame of the file's page, and its references
    pc,              \* where a thread is in a fault
    fault            \* the assertion that failed, or "none"

vars == <<live, area, pt, used, cnt, p_size, s_size, cache, fuse, pc, fault>>

NoArea == [kind |-> "none", wr |-> FALSE]
NoPage == [pg |-> 0, wr |-> FALSE]
Idle == [at |-> "idle"]
InLoop == {"blank", "read", "copy"}    \* the lock is released in a fault
Cow(kind) == kind \in {"anon", "filecpy"}
Backed(kind) == kind \in {"file", "filecpy"}
NewFrame == Min(Frames \ used)

-----------------------------------------------------------------------------
(* mutants: a clone that counts one owner; a last owner that keeps the     *)
(* frame; a clone that leaves the parent its writable entry, or does not   *)
(* count its pages as shared                                               *)
MutSharers(n) == n + 1
MutDropShared(n, f) ==
    [n |-> n - 1, frames |-> {}]
MutCloneWr(wr) == wr
MutClonedSize(n, shared) == n

(* page_shared(share, page, +1 or +2) of a clone, and page_shared(.., -1): *)
(* the count, and the frames that go back to page_release.                 *)
Sharers(n) == IF n = 0 THEN 2 ELSE n + 1
DropShared(n, f) ==
    [n |-> n - 1, frames |-> IF n <= 1 THEN {f} ELSE {}]

(* vma_shared_filecpy, and the test of page_shared(.., 0) of the others *)
Status(kind, f) ==
    IF Backed(kind) /\ cache # 0 /\ cache = f THEN "backedup"
    ELSE IF cnt[f] = 0 THEN "private" ELSE "shared"

(* The entry a clone leaves in the parent, the pages it counts as shared   *)
(* there, and the entry a protection leaves.                               *)
CloneWr(wr) == FALSE
ClonedSize(n, shared) == n + shared
ProtectWr(kind, private, wr) == wr /\ (Cow(kind) => private)

-----------------------------------------------------------------------------
Init ==
    /\ live \in {{SpaceOf[t]} : t \in Threads}
    /\ area = [s \in Spaces |-> [v \in Addrs |-> NoArea]]
    /\ pt = [s \in Spaces |-> [v \in Addrs |-> NoPage]]
    /\ used = {} /\ cnt = [f \in Frames |-> 0]
    /\ p_size = [s \in Spaces |-> 0] /\ s_size = [s \in Spaces |-> 0]
    /\ cache = 0 /\ fuse = 0
    /\ pc = [t \in Threads |-> Idle]
    /\ fault = "none"

(* vma_create *)
Map(s, v, kind, wr) ==
    /\ s \in live /\ area[s][v] = NoArea
    /\ area' = [area EXCEPT ![s][v] = [kind |-> kind, wr |-> wr \/ kind = "heap"]]
    /\ UNCHANGED <<live, pt, used, cnt, p_size, s_size, cache, fuse, pc, fault>>

(* vma_unmap of the area at v, under the type's unmap: vma_unmap_blank,    *)
(* vma_unmap_filecpy, vma_unmap_file.  S is the set of the pages unmapped  *)
(* (all of them when the space closes).                                    *)
Dropped(s, S, st) ==
    {v \in S : pt[s][v].pg # 0 /\ Status(area[s][v].kind, pt[s][v].pg) = st}
FramesOf(s, S) == {pt[s][v].pg : v \in S}

UnmapAll(s, S) ==
    LET private == Dropped(s, S, "private")
        shared == Dropped(s, S, "shared")
        backed == Dropped(s, S, "backedup")
    IN  /\ area' = [area EXCEPT ![s] = [v \in Addrs |-> IF v \in S THEN NoArea ELSE @[v]]]
        /\ pt' = [pt EXCEPT ![s] = [v \in Addrs |-> IF v \in S THEN NoPage ELSE @[v]]]
        /\ p_size' = [p_size EXCEPT ![s] = @ - Cardinality(private)]
        /\ s_size' = [s_size EXCEPT ![s] = @ - Cardinality(shared \cup backed)]
        /\ cnt' = [f \in Frames |-> IF f \in FramesOf(s, shared)
                                    THEN DropShared(cnt[f], f).n ELSE cnt[f]]
        /\ used' = used \ (FramesOf(s, private)
                           \cup UNION {DropShared(cnt[f], f).frames : f \in FramesOf(s, shared)})
        /\ fuse' = fuse - Cardinality(backed)

(* vmsp_unmap.  A thread of the space whose fault is under way would go on *)
(* with an area that has been freed: the fault takes no reference to it.   *)
Unmap(s, v) ==
    /\ s \in live /\ area[s][v] # NoArea
    /\ UnmapAll(s, {v})
    /\ fault' = IF \E t \in Threads : SpaceOf[t] = s /\ pc[t].at \in InLoop /\ pc[t].v = v
                THEN "freed" ELSE fault
    /\ UNCHANGED <<live, cache, pc>>

(* vmsp_close by the last user: vmsp_sweep, and the assertion that the     *)
(* sharing map is empty when the last of the family goes.                  *)
Close(s) ==
    /\ s \in live
    /\ \A t \in Threads : SpaceOf[t] = s => pc[t] = Idle
    /\ UnmapAll(s, {v \in Addrs : area[s][v] # NoArea})
    /\ live' = live \ {s}
    /\ fault' = IF live = {s} /\ \E f \in Frames : cnt'[f] # 0 THEN "map" ELSE fault
    /\ UNCHANGED <<cache, pc>>

(* vmsp_create *)
Create(s) ==
    /\ live = {}
    /\ live' = {s}
    /\ UNCHANGED <<area, pt, used, cnt, p_size, s_size, cache, fuse, pc, fault>>

(* vmsp_clone: the areas are copied; the pages of the areas that are       *)
(* copied on write are shared, unless they are the file's.                 *)
Clone(s, c) ==
    LET shares(st) == {v \in Addrs : Cow(area[s][v].kind) /\ v \in Dropped(s, Addrs, st)}
        given == shares("private") \cup shares("shared")
    IN  /\ s \in live /\ c \notin live
        /\ live' = live \cup {c}
        /\ area' = [area EXCEPT ![c] = area[s]]
        /\ pt' = [pt EXCEPT
              ![c] = [v \in Addrs |-> IF v \in given THEN [pt[s][v] EXCEPT !.wr = FALSE]
                                      ELSE NoPage],
              ![s] = [v \in Addrs |-> IF v \in shares("private")
                                      THEN [@[v] EXCEPT !.wr = CloneWr(@)]
                                      ELSE @[v]]]
        /\ cnt' = [f \in Frames |-> IF f \in FramesOf(s, given) THEN Sharers(cnt[f]) ELSE cnt[f]]
        /\ s_size' = [s_size EXCEPT ![c] = Cardinality(given),
                                    ![s] = ClonedSize(@, Cardinality(shares("private")))]
        /\ p_size' = [p_size EXCEPT ![c] = 0, ![s] = @ - Cardinality(shares("private"))]
        /\ UNCHANGED <<used, cache, fuse, pc, fault>>

(* vma_protect_anon, vma_protect_filecpy, vma_protect_file *)
Protect(s, v, wr) ==
    /\ s \in live /\ area[s][v].kind \in {"anon", "file", "filecpy"}
    /\ area' = [area EXCEPT ![s][v].wr = wr]
    /\ pt' = IF pt[s][v].pg = 0 THEN pt
             ELSE [pt EXCEPT ![s][v].wr =
                     ProtectWr(area[s][v].kind,
                               Status(area[s][v].kind, pt[s][v].pg) = "private", wr)]
    /\ UNCHANGED <<live, used, cnt, p_size, s_size, cache, fuse, pc, fault>>

-----------------------------------------------------------------------------
(* The processor traps: what it tells the kernel is true at that time.     *)
Trap(t, v, write) ==
    LET e == pt[SpaceOf[t]][v]
    IN  /\ SpaceOf[t] \in live /\ pc[t] = Idle
        /\ e.pg = 0 \/ (write /\ ~e.wr)
        /\ pc' = [pc EXCEPT ![t] = [at |-> "trap", v |-> v, write |-> write,
                                    missing |-> e.pg = 0, pg |-> 0]]
        /\ UNCHANGED <<live, area, pt, used, cnt, p_size, s_size, cache, fuse, fault>>

Enter(t, e) == pc' = [pc EXCEPT ![t] = e]
Holding(t, at, f) == [pc[t] EXCEPT !.at = at, !.pg = f]

(* vmsp_resolve: the area is looked up.  A missing page of memory, or a    *)
(* copy, takes a frame with the lock released; a page of a file is shown   *)
(* at once when the cache has it.                                          *)
Shown(t, f) ==
    LET s == SpaceOf[t]
        v == pc[t].v
        a == area[s][v]
        copies == pc[t].write /\ a.kind = "filecpy"
        free == Min(Frames \ (used \cup {f}))
    IN  /\ pt' = [pt EXCEPT ![s][v] = [pg |-> f, wr |-> a.wr /\ a.kind = "file"]]
        /\ s_size' = [s_size EXCEPT ![s] = @ + 1]
        /\ fuse' = fuse + 1
        /\ cache' = f
        /\ used' = used \cup {f} \cup (IF copies THEN {free} ELSE {})
        /\ Enter(t, IF copies THEN Holding(t, "copy", free) ELSE Idle)

Resolve(t) ==
    LET s == SpaceOf[t]
        a == area[s][pc[t].v]
    IN  /\ pc[t].at = "trap"
        /\ UNCHANGED <<live, area, cnt, p_size, fault>>
        /\ \/ /\ a.kind = "none" \/ (pc[t].write /\ ~a.wr)
              /\ Enter(t, Idle)
              /\ UNCHANGED <<pt, used, s_size, cache, fuse>>
           \/ /\ a.kind # "none" /\ (pc[t].write => a.wr)
              /\ \/ /\ pc[t].missing /\ ~Backed(a.kind)
                    /\ used' = used \cup {NewFrame}
                    /\ Enter(t, Holding(t, "blank", NewFrame))
                    /\ UNCHANGED <<pt, s_size, cache, fuse>>
                 \/ pc[t].missing /\ Backed(a.kind) /\ cache # 0 /\ Shown(t, cache)
                 \/ /\ pc[t].missing /\ Backed(a.kind) /\ cache = 0
                    /\ Enter(t, [pc[t] EXCEPT !.at = "read"])
                    /\ UNCHANGED <<pt, used, s_size, cache, fuse>>
                 \/ /\ ~pc[t].missing /\ pc[t].write /\ Cow(a.kind)
                    /\ used' = used \cup {NewFrame}
                    /\ Enter(t, Holding(t, "copy", NewFrame))
                    /\ UNCHANGED <<pt, s_size, cache, fuse>>
                 \/ /\ ~pc[t].missing /\ ~(pc[t].write /\ Cow(a.kind))
                    /\ Enter(t, Idle)
                    /\ UNCHANGED <<pt, used, s_size, cache, fuse>>

(* vma_fetch_blank has the lock back: vma_resolve_blank.  The area is not  *)
(* looked up again.                                                        *)
BlankDone(t) ==
    LET s == SpaceOf[t]
    IN  /\ pc[t].at = "blank"
        /\ pt' = [pt EXCEPT ![s][pc[t].v] = [pg |-> pc[t].pg, wr |-> area[s][pc[t].v].wr]]
        /\ p_size' = [p_size EXCEPT ![s] = @ + 1]
        /\ Enter(t, Idle)
        /\ UNCHANGED <<live, area, used, cnt, s_size, cache, fuse, fault>>

(* vma_fetch_file, blocking: the block cache reads the page unless another *)
(* fault has read it meanwhile.                                            *)
ReadDone(t) ==
    /\ pc[t].at = "read"
    /\ Shown(t, IF cache # 0 THEN cache ELSE NewFrame)
    /\ UNCHANGED <<live, area, cnt, p_size, fault>>

(* The copy is made: the page it replaces is given back, to the file or to *)
(* those who share it, and the copy is mapped.                             *)
CopyDone(t) ==
    LET s == SpaceOf[t]
        v == pc[t].v
        old == pt[s][v].pg
        file == area[s][v].kind = "filecpy" /\ Status("filecpy", old) = "backedup"
    IN  /\ pc[t].at = "copy"
        /\ IF ~file /\ (old = 0 \/ cnt[old] = 0)
           THEN fault' = "share" /\ UNCHANGED <<pt, used, cnt, p_size, s_size, fuse, pc>>
           ELSE /\ fuse' = IF file THEN fuse - 1 ELSE fuse
                /\ cnt' = IF file THEN cnt ELSE [cnt EXCEPT ![old] = DropShared(@, old).n]
                /\ used' = IF file THEN used ELSE used \ DropShared(cnt[old], old).frames
                /\ pt' = [pt EXCEPT ![s][v] = [pg |-> pc[t].pg, wr |-> TRUE]]
                /\ s_size' = [s_size EXCEPT ![s] = @ - 1]
                /\ p_size' = [p_size EXCEPT ![s] = @ + 1]
                /\ Enter(t, Idle)
                /\ UNCHANGED fault
        /\ UNCHANGED <<live, area, cache>>

(* The block cache drops a page nobody refers to (external here).          *)
Evict ==
    /\ cache # 0 /\ fuse = 0
    /\ used' = used \ {cache} /\ cache' = 0
    /\ UNCHANGED <<live, area, pt, cnt, p_size, s_size, fuse, pc, fault>>

(* Calls are made by a thread that is not in a fault. *)
Next ==
    /\ fault = "none"
    /\ \/ \E t \in Threads :
             \/ /\ pc[t] = Idle
                /\ \/ \E v \in Addrs, kind \in {"anon", "heap", "file", "filecpy"}, wr \in BOOLEAN :
                           Map(SpaceOf[t], v, kind, wr)
                   \/ \E v \in Addrs : Unmap(SpaceOf[t], v)
                   \/ \E v \in Addrs, wr \in BOOLEAN : Protect(SpaceOf[t], v, wr)
                   \/ Close(SpaceOf[t])
                   \/ \E c \in Spaces : Clone(SpaceOf[t], c)
                   \/ \E v \in Addrs, write \in BOOLEAN : Trap(t, v, write)
             \/ Resolve(t) \/ BlankDone(t) \/ ReadDone(t) \/ CopyDone(t)
       \/ \E t \in Threads : Create(SpaceOf[t])
       \/ Evict

Spec == Init /\ [][Next]_vars

-----------------------------------------------------------------------------
Entries == {e \in Spaces \X Addrs : pt[e[1]][e[2]].pg # 0}
Page(e) == pt[e[1]][e[2]].pg
KindAt(e) == area[e[1]][e[2]].kind
Mapped(f) == {e \in Entries : Page(e) = f}
InFault == {pc[t].pg : t \in {u \in Threads : pc[u].at \in {"blank", "copy"}}}

(* vmsp_clone and the copy on write: a page that can be written is mapped  *)
(* once and is not the file's, unless the area is a shared file mapping.   *)
CopyIsolates ==
    \A e \in Entries : pt[e[1]][e[2]].wr /\ KindAt(e) # "file" =>
        Mapped(Page(e)) = {e} /\ Page(e) # cache

(* page_shared: the count of a shared page is the number of the entries    *)
(* that map it, and a page that is mapped twice is counted.                *)
SharesCounted ==
    \A f \in Frames \ {cache} :
        IF cnt[f] = 0 THEN Cardinality(Mapped(f)) <= 1
        ELSE cnt[f] = Cardinality(Mapped(f))

(* A frame is taken from page_new exactly as long as an entry maps it, the *)
(* file's cache holds it or a fault brings it; the references to the       *)
(* file's page are its entries.                                            *)
FramesFound ==
    /\ used = ({Page(e) : e \in Entries} \cup InFault \cup {cache}) \ {0}
    /\ cache # 0 => fuse = Cardinality(Mapped(cache))

(* p_size and s_size of a space count its private and its shared pages.    *)
SizesExact ==
    \A s \in live :
        /\ p_size[s] = Cardinality(Dropped(s, Addrs, "private"))
        /\ s_size[s] = Cardinality(Dropped(s, Addrs, "shared") \cup Dropped(s, Addrs, "backedup"))

(* assert(count > 0) of page_shared and assert(map.count == 0) of          *)
(* vmsp_close, and no fault goes on with a freed area.                     *)
FaultsSafe == fault = "none"

(* assert(count > 0) of page_shared alone.                                 *)
ShareAssertHolds == fault # "share"
=============================================================================
