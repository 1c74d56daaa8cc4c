----------------------------- MODULE MCMemory ------------------------------
(* The three parts of the memory manager: the physical pages, shared by    *)
(* three tasks over two zones in one byte of padding; the layout of an     *)
(* address space; the pages behind the areas of two spaces.  A behaviour   *)
(* is one of a part, chosen at the start.                                  *)
EXTENDS PageAlloc, TLC

CONSTANTS Parts, Lower, Upper, MaxSize, Kinds, Offsets, Prots, AnyRange,
          Spaces, Threads, SpaceOf, Addrs, Frames

VARIABLES part, tree, v_size, last, limit_fault,
          live, area, pt, used, cnt, p_size, s_size, cache, fuse, pc, vm_fault

spaceVars == <<tree, v_size, last, limit_fault>>
faultVars == <<live, area, pt, used, cnt, p_size, s_size, cache, fuse, pc, vm_fault>>

S == INSTANCE VmSpace
F == INSTANCE VmFault WITH fault <- vm_fault

Zn(o, r, a, c) == [offset |-> o, reserved |-> r, available |-> a, count |-> c]
TwoZones == <<Zn(0, 1, 2, 4), Zn(0, 3, 3, 8)>>
OwnSpace == [t \in Threads |-> t]
OneSpace == [t \in Threads |-> CHOOSE s \in Spaces : TRUE]
Symmetry == Permutations(Tasks)

MemInit ==
    /\ part \in Parts
    /\ Init /\ S!Init /\ F!Init

MemNext ==
    /\ UNCHANGED part
    /\ \/ part = "pages" /\ Next /\ UNCHANGED <<spaceVars, faultVars>>
       \/ part = "space" /\ S!Next /\ UNCHANGED <<vars, faultVars>>
       \/ part = "fault" /\ F!Next /\ UNCHANGED <<vars, spaceVars>>

MemSpec == MemInit /\ [][MemNext]_<<part, vars, spaceVars, faultVars>>

(* The last call is only read by the action properties. *)
WithoutLast == <<part, vars, tree, v_size, limit_fault, faultVars>>


(* vmsp_find_slot fails only when no hole is large enough.                 *)
FindsRoom == part = "space" => S!FindsRoom



(* vmsp_map puts an area in free pages, and leaves the others alone.       *)
MapExact == S!MapExact

(* vma_check_limit: assert(limit >= vma->node.value_).                     *)
LimitAssertHolds == part = "space" => S!LimitAssertHolds

(* A page one space can write is mapped nowhere else (vma_resolve,         *)
(* vma_clone).                                                             *)
CopyIsolates == part = "fault" => F!CopyIsolates

(* The counts of page_shared are those of the page tables.                 *)
SharesCounted == part = "fault" => F!SharesCounted

(* No frame is lost by a fault, a copy, a clone or an unmap.               *)
FramesFound == part = "fault" => F!FramesFound

(* p_size and s_size count the private and the shared pages of a space.    *)
SizesExact == part = "fault" => F!SizesExact

(* The assertions of page_shared and vmsp_close hold when one thread runs  *)
(* in each space.                                                          *)
FaultsSafe == part = "fault" => F!FaultsSafe

(* page_shared: assert(count > 0).                                         *)
ShareAssertHolds == part = "fault" => F!ShareAssertHolds
=============================================================================
