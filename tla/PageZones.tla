----------------------------- MODULE PageZones -----------------------------
(***************************************************************************)
(* How physical memory becomes zones: page_range of src/mem/pages.c,       *)
(* called once per entry of the boot memory map.  Addresses are in bytes,  *)
(* PageSize bytes to a page; a zone is cut at a multiple of ByteBits pages *)
(* and its bitmap covers ZonePages pages at most (PAGE_SIZE * 4).          *)
(***************************************************************************)
EXTENDS Integers, Sequences, FiniteSets

CONSTANTS PageSize, ByteBits, ZonePages,
          MaxAddr, MaxRanges    \* bounds on the memory map

VARIABLES lzone, pages_amount, free_pages, upper_physical_page,
          ranges          \* history: the calls made

vars == <<lzone, pages_amount, free_pages, upper_physical_page, ranges>>

AlignUp(v, a) == ((v + a - 1) \div a) * a
AlignDown(v, a) == (v \div a) * a

(* mutant: the cut that forgets the pages before the boundary              *)
MutZoneSize(start, count) == IF count > ZonePages THEN ZonePages ELSE count

ZoneSize(start, count) ==
    LET j == start % ByteBits
    IN  IF count + j > ZonePages THEN ZonePages - j ELSE count

Zone(start, pgs) ==
    [offset |-> AlignDown(start, ByteBits), reserved |-> start % ByteBits,
     available |-> pgs, count |-> AlignUp(pgs + (start % ByteBits), ByteBits)]

(* the loop over the pages that remain *)
RECURSIVE ZonesOf(_, _)
ZonesOf(start, count) ==
    IF count <= 0 THEN <<>>
    ELSE LET pgs == ZoneSize(start, count)
             zn == Zone(start, pgs)
         IN  <<zn>> \o ZonesOf(zn.offset + zn.count, count - pgs)

-----------------------------------------------------------------------------
Init ==
    /\ lzone = <<>>
    /\ pages_amount = 0 /\ free_pages = 0 /\ upper_physical_page = 0
    /\ ranges = {}

(* Negative when the range ends before its first page boundary. *)
Count(obase, olength) == (olength - (AlignUp(obase, PageSize) - obase)) \div PageSize

Range(obase, olength) ==
    LET start == AlignUp(obase, PageSize) \div PageSize
        count == Count(obase, olength)
    IN  /\ upper_physical_page' = IF upper_physical_page < start + count
                                  THEN start + count ELSE upper_physical_page
        /\ pages_amount' = pages_amount + count
        /\ free_pages' = free_pages + count
        /\ lzone' = lzone \o ZonesOf(start, count)
        /\ ranges' = ranges \cup {<<obase, olength>>}

(* The entries of a memory map do not overlap; here they come in order. *)
PageRange(obase, olength) ==
    /\ Cardinality(ranges) < MaxRanges
    /\ \A r \in ranges : r[1] + r[2] <= obase
    /\ obase + olength <= MaxAddr
    /\ Range(obase, olength)

Next == \E obase \in 0 .. MaxAddr, olength \in 1 .. MaxAddr : PageRange(obase, olength)
Spec == Init /\ [][Next]_vars

-----------------------------------------------------------------------------
Pages(zn) == zn.offset + zn.reserved .. zn.offset + zn.reserved + zn.available - 1
Whole(r) == {p \in 0 .. MaxAddr : r[1] <= p * PageSize /\ (p + 1) * PageSize <= r[1] + r[2]}
WholePages == UNION {Whole(r) : r \in ranges}

(* The zones hold the whole pages of the memory map, each in one zone:     *)
(* none lost at a cut or at an unaligned end, none handed out by two.      *)
ZonesCover ==
    /\ UNION {Pages(lzone[z]) : z \in DOMAIN lzone} = WholePages
    /\ \A y, z \in DOMAIN lzone : y # z => Pages(lzone[y]) \cap Pages(lzone[z]) = {}

(* A zone's pages fit in its bitmap, which is made of whole bytes and is   *)
(* no larger than the block page_new allocates for it.                     *)
ZonesFit ==
    \A z \in DOMAIN lzone :
        /\ lzone[z].offset % ByteBits = 0 /\ lzone[z].count % ByteBits = 0
        /\ lzone[z].reserved + lzone[z].available <= lzone[z].count
        /\ lzone[z].count <= ZonePages
        /\ lzone[z].available > 0

(* __mmu.free_pages starts as the number of pages of the zones, as long as *)
(* every entry of the memory map reaches a page boundary: one that does    *)
(* not takes pages away from the count.                                    *)
SumAvailable[z \in 0 .. Len(lzone)] ==
    IF z = 0 THEN 0 ELSE SumAvailable[z - 1] + lzone[z].available
AmountExact ==
    (\A r \in ranges : AlignUp(r[1], PageSize) <= r[1] + r[2]) =>
        free_pages = SumAvailable[Len(lzone)] /\ pages_amount = free_pages
=============================================================================
