------------------------------ MODULE VmSpace ------------------------------
(***************************************************************************)
(* The areas of an address space: vmsp_map, vmsp_unmap and vmsp_protect of *)
(* src/mem/vmsp.c.  Each holds vmsp->lock throughout, so each is a step.   *)
(* Addresses and lengths are in pages.  An area carries the operations of  *)
(* its type, the file and offset it shows and its protection; anonymous,   *)
(* file and private-file areas can be split, stacks and heaps cannot.      *)
(***************************************************************************)
EXTENDS Integers, FiniteSets

CONSTANTS
    Lower, Upper,    \* vmsp->lower_bound, vmsp->upper_bound
    MaxSize,         \* vmsp->max_size
    Kinds,           \* the types of area mapped: "anon", "heap" or "file"
    Offsets,         \* the file offsets mapped
    Prots,           \* the protections asked for, sets of "r", "w" and "x"
    AnyRange         \* FALSE: unmap and protect get ranges inside one area
                     \* or ranges that end where an area ends

VARIABLES
    tree,            \* vmsp->tree: the areas
    v_size,          \* vmsp->v_size
    last,            \* the last call, its arguments and its result
    limit_fault      \* the assertion of vma_check_limit failed

vars == <<tree, v_size, last, limit_fault>>

NoArea == [base |-> 0, len |-> 0, kind |-> "none", off |-> 0, prot |-> {}]
End(a) == a.base + a.len
Lowest(S) == CHOOSE a \in S : \A b \in S : a.base <= b.base
Highest(S) == CHOOSE a \in S : \A b \in S : a.base >= b.base
After(T, a) == {b \in T : b.base > a.base}

(* vma->ops->split and vma->ops->protect are set *)
Splits(a) == a.kind # "heap"

(* The protection a new area, and a protected one, gets by its type. *)
MapProt(kind, prot) ==
    CASE kind = "heap" -> {"r", "w"}
      [] kind = "anon" -> IF "x" \in prot THEN prot \cap {"r", "x"} ELSE prot \cap {"r", "w"}
      [] kind = "file" -> prot \cap {"r", "w"}
NewProt(kind, prot) == IF kind = "file" THEN prot \cap {"r", "w"} ELSE prot

-----------------------------------------------------------------------------
(* mutants: a hole measured from the start of the area; the test of the    *)
(* area that follows forgotten; the part cut off shows the same offset;    *)
(* the cut one page late                                                   *)
MutGapFits(T, a, length) == a.base + length <= Lowest(After(T, a)).base
MutSlotFree(T, address, length) ==
    \A a \in T : a.base <= address => End(a) <= address

(* vmsp_slot_address: the room at a given address. *)
SlotFree(T, address, length) ==
    LET below == {a \in T : a.base <= address}
        above == {a \in T : a.base > address}
    IN  /\ Lower <= address /\ address + length <= Upper
        /\ below # {} => End(Highest(below)) <= address
        /\ above # {} => address + length <= Lowest(above).base

(* vmsp_find_slot: the first hole that is large enough, or 0. *)
GapFits(T, a, length) == End(a) + length <= Lowest(After(T, a)).base

FindSlot(T, length) ==
    LET fits == {a \in T : After(T, a) = {} \/ GapFits(T, a, length)}
    IN  IF T = {} \/ Lower + length <= Lowest(T).base THEN Lower
        ELSE IF End(Lowest(fits)) + length > Upper THEN 0
        ELSE End(Lowest(fits))

(* vmsp_find_area *)
FindArea(T, address) ==
    LET below == {a \in T : a.base <= address}
    IN  IF below = {} \/ ~(Lower <= address /\ address < Upper) THEN NoArea
        ELSE IF End(Highest(below)) <= address THEN NoArea
        ELSE Highest(below)

(* What is kept and what is cut off when an area is split n pages in       *)
(* (vma_split_anon, vma_split_file).  bbtree_insert refuses an area whose  *)
(* base is already there.                                                  *)
CutOff(a, n) == [a EXCEPT !.base = @ + n, !.len = @ - n, !.off = @ + n]
Kept(a, n) == [a EXCEPT !.len = n]
Insert(T, a) == IF \E b \in T : b.base = a.base THEN T ELSE T \cup {a}

(* vma_check_range: from a on, the areas follow one another and are alike  *)
(* up to the end of the range; the first is cut at the base of the range.  *)
RECURSIVE Alike(_, _, _)
Alike(T, a, limit) ==
    IF limit <= End(a) THEN TRUE
    ELSE LET nx == Lowest(After(T, a))
         IN  /\ After(T, a) # {}
             /\ nx.base = End(a) /\ nx.kind = a.kind
             /\ Alike(T, nx, limit)
RangeFits(T, a, limit) == Splits(a) /\ Alike(T, a, limit)

CutAtBase(T, a, base) ==
    IF a.base = base THEN T
    ELSE (T \ {a}) \cup {Kept(a, base - a.base), CutOff(a, base - a.base)}

(* vma_check_limit: cut the area at the end of the range.  The part cut    *)
(* off is put at base + n, which is the end of the range only when the     *)
(* area starts at base.                                                    *)
CutAtLimit(T, a, base, length) ==
    LET n == base + length - a.base
    IN  IF n >= a.len THEN T
        ELSE Insert((T \ {a}) \cup {Kept(a, n)}, [CutOff(a, n) EXCEPT !.base = base + n])
Cut(a, base, length) ==
    IF base + length - a.base >= a.len THEN a ELSE Kept(a, base + length - a.base)

(* The loops of vmsp_unmap and vmsp_protect: cut the area at the end of    *)
(* the range, act on it, go to the next one until one starts at the end of *)
(* the range.  One that starts after it fails the assertion.               *)
RECURSIVE Sweep(_, _, _, _, _, _)
Sweep(T, a, base, length, op, prot) ==
    IF base + length < a.base THEN [tree |-> T, gone |-> 0, fault |-> TRUE]
    ELSE IF base + length = a.base THEN [tree |-> T, gone |-> 0, fault |-> FALSE]
    ELSE LET cut == CutAtLimit(T, a, base, length)
             cur == Cut(a, base, length)
             new == IF op = "unmap" THEN cut \ {cur}
                    ELSE (cut \ {cur}) \cup {[cur EXCEPT !.prot = NewProt(a.kind, prot)]}
             gone == IF op = "unmap" THEN cur.len ELSE 0
         IN  IF After(new, cur) = {} THEN [tree |-> new, gone |-> gone, fault |-> FALSE]
             ELSE LET rest == Sweep(new, Lowest(After(new, cur)), base, length, op, prot)
                  IN  [rest EXCEPT !.gone = @ + gone]

-----------------------------------------------------------------------------
Call(op, base, length, prot, ret) ==
    last' = [op |-> op, base |-> base, len |-> length, prot |-> prot, ret |-> ret]

Init ==
    /\ tree = {} /\ v_size = 0 /\ limit_fault = FALSE
    /\ last = [op |-> "none", base |-> 0, len |-> 0, prot |-> {}, ret |-> 0]

(* vmsp_map: a length that is 0, not a whole number of pages (here 0 too)  *)
(* or too large is refused; a fixed address that is taken as well.         *)
Map(address, length, kind, off, prot, fixed) ==
    LET given == address # 0 /\ SlotFree(tree, address, length)
        base == IF given THEN address
                ELSE IF address # 0 /\ fixed THEN 0 ELSE FindSlot(tree, length)
        area == [base |-> base, len |-> length, kind |-> kind,
                 off |-> IF kind = "file" THEN off ELSE 0, prot |-> MapProt(kind, prot)]
    IN  /\ ~limit_fault
        /\ IF length = 0 \/ length > MaxSize \/ base = 0
           THEN Call("map", address, length, prot, 0) /\ UNCHANGED <<tree, v_size>>
           ELSE /\ tree' = Insert(tree, area)
                /\ v_size' = v_size + length
                /\ Call("map", address, length, prot, base)
        /\ UNCHANGED limit_fault

InRange(base, length) ==
    \/ AnyRange
    \/ \E a \in tree : a.base <= base /\ base + length <= End(a)
    \/ \E a \in tree : End(a) = base + length

(* vmsp_unmap and vmsp_protect. *)
Change(op, base, length, prot) ==
    LET a == FindArea(tree, base)
        whole == a.base = base /\ a.len = length
        done == Sweep(CutAtBase(tree, a, base), [CutOff(a, base - a.base) EXCEPT !.base = base],
                      base, length, op, prot)
    IN  /\ ~limit_fault /\ InRange(base, length)
        /\ IF a = NoArea \/ (op = "protect" /\ ~Splits(a))
           THEN Call(op, base, length, prot, -1) /\ UNCHANGED <<tree, v_size, limit_fault>>
           ELSE IF whole
           THEN /\ tree' = IF op = "unmap" THEN tree \ {a}
                           ELSE (tree \ {a}) \cup {[a EXCEPT !.prot = NewProt(a.kind, prot)]}
                /\ v_size' = IF op = "unmap" THEN v_size - length ELSE v_size
                /\ Call(op, base, length, prot, 0)
                /\ UNCHANGED limit_fault
           ELSE IF ~RangeFits(tree, a, base + length)
           THEN Call(op, base, length, prot, -1) /\ UNCHANGED <<tree, v_size, limit_fault>>
           ELSE /\ tree' = done.tree
                /\ limit_fault' = done.fault
                /\ v_size' = v_size - done.gone
                /\ Call(op, base, length, prot, 0)

Unmap(base, length) == Change("unmap", base, length, {})
Protect(base, length, prot) == Change("protect", base, length, prot)

Next ==
    \/ \E address \in {0} \cup Lower .. Upper - 1, length \in 0 .. MaxSize + 1,
          kind \in Kinds, off \in Offsets, prot \in Prots, fixed \in BOOLEAN :
            Map(address, length, kind, off, prot, fixed)
    \/ \E base \in Lower .. Upper, length \in 0 .. MaxSize : Unmap(base, length)
    \/ \E base \in Lower .. Upper, length \in 0 .. MaxSize, prot \in Prots :
            Protect(base, length, prot)
    \/ limit_fault /\ UNCHANGED vars

Spec == Init /\ [][Next]_vars

-----------------------------------------------------------------------------
(* What the calls promise, page by page: the set of the pages mapped, each *)
(* with its type, the page of the file it shows and its protection.        *)
View(T) ==
    UNION {{[page |-> p, kind |-> a.kind, off |-> a.off + p - a.base, prot |-> a.prot]
              : p \in a.base .. End(a) - 1} : a \in T}

Range(call) == call.base .. call.base + call.len - 1




(* mmap puts the area in free pages, leaves the others alone, and fails    *)
(* without a fixed address only when no hole is large enough.              *)
Room(T, length) ==
    \E base \in Lower .. Upper - length :
        \A v \in View(T) : v.page \notin base .. base + length - 1
MapExact ==
    [][last'.op = "map" =>
          LET at == last'.ret .. last'.ret + last'.len - 1
          IN  IF last'.ret = 0 THEN tree' = tree
              ELSE /\ View(tree) = {v \in View(tree') : v.page \notin at}
                   /\ \A v \in View(tree) : v.page \notin at]_vars
FindsRoom ==
    \A length \in 1 .. MaxSize : ~limit_fault =>
        (FindSlot(tree, length) = 0 <=> ~Room(tree, length))

(* The assertion of vma_check_limit: the loop meets no area beyond the end *)
(* of the range.                                                           *)
LimitAssertHolds == ~limit_fault
=============================================================================
