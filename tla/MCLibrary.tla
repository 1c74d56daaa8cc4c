----------------------------- MODULE MCLibrary -----------------------------
(* The algorithms that work on data of their own, each against what it is  *)
(* called for: one of them at a time, on every small input.                *)
EXTENDS Integers, Sequences, FiniteSets, TLC

CONSTANTS ByteBits, Bytes, PageSize, ZonePages, MaxAddr, MaxRanges, Threads, Spins, MaxSeq

VARIABLES part, ptr, lzone, pages_amount, free_pages, upper_physical_page, ranges,
          value, seq, bound, mtxq, seqq, pc, turn, local

zoneVars == <<lzone, pages_amount, free_pages, upper_physical_page, ranges>>
mutexVars == <<value, seq, bound, mtxq, seqq, pc, turn, local>>

B == INSTANCE Bits
Z == INSTANCE PageZones
M == INSTANCE Mutex

Symmetry == Permutations(Threads)

Init ==
    /\ part \in {"bits", "zones", "mutex"}
    /\ B!Init /\ Z!Init /\ M!Init

Next ==
    /\ UNCHANGED part
    /\ \/ part = "bits" /\ B!Next /\ UNCHANGED <<zoneVars, mutexVars>>
       \/ part = "zones" /\ Z!Next /\ UNCHANGED <<ptr, mutexVars>>
       \/ part = "mutex" /\ M!Next /\ UNCHANGED <<ptr, zoneVars>>

Spec == Init /\ [][Next]_<<part, ptr, zoneVars, mutexVars>>

(* bitsset and bitsclr write the bits of the span and no other; bitschrz   *)
(* finds the first clear bit; bitstest answers for the first bit of a byte *)
(* only, and clears any other.                                             *)
BitsExact == part = "bits" => B!WritesTheSpan /\ B!FindsFirstClear /\ B!TestOfOneBit

(* page_range puts every whole page of the memory map in one zone, in the  *)
(* bitmap page_new makes for it, and counts it.                            *)
ZonesExact == part = "zones" => Z!ZonesCover /\ Z!ZonesFit /\ Z!AmountExact

(* A thread asleep on a mutex is never forgotten by mtx_unlock.            *)
SleeperRemembered == part = "mutex" => M!SleeperRemembered
=============================================================================
