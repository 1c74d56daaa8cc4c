----------------------------- MODULE PageAlloc -----------------------------
(***************************************************************************)
(* page_new and page_release of src/mem/pages.c, called by several tasks.  *)
(* The zone list is fixed once page_range built it (module PageZones); a   *)
(* zone is looked at under its lock, one step, and the search goes from    *)
(* zone to zone with the locks released in between.  A bitmap is the set   *)
(* of its bits that are set (module Bits).                                 *)
(***************************************************************************)
EXTENDS Integers, Sequences, FiniteSets

CONSTANTS Tasks, Zones,
          ByteBits     \* bits of a byte of the bitmap (8)

ZoneIds == 1 .. Len(Zones)
Bits(z) == 0 .. Zones[z].count - 1
Usable(z) == Zones[z].reserved .. Zones[z].reserved + Zones[z].available - 1
PagesOf(z) ==
    LET first == Zones[z].offset + Zones[z].reserved
    IN  first .. first + Zones[z].available - 1

ASSUME ZonesAssumption ==
    /\ Zones \in Seq([offset : Nat, reserved : Nat, available : Nat, count : Nat])
    /\ ByteBits \in Nat \ {0}
    /\ \A z \in ZoneIds : Zones[z].reserved + Zones[z].available <= Zones[z].count
    /\ \A y, z \in ZoneIds : y # z => PagesOf(y) \cap PagesOf(z) = {}

VARIABLES
    mapped,      \* mz->ptr # NULL
    set,         \* the bits set in the bitmap of each zone that has one
    free,        \* mz->free of each zone
    free_pages,  \* __mmu.free_pages
    scan,        \* the zone each task's page_new looks at; 0 outside the call
    held,        \* the pages each task got and did not give back
    fault        \* an assertion failed

vars == <<mapped, set, free, free_pages, scan, held, fault>>

AllPages == UNION {PagesOf(z) : z \in ZoneIds}

-----------------------------------------------------------------------------
(* mutants: a new bitmap without its free pages; the bit found not set; a  *)
(* page looked for in the padding of a zone as well                        *)
MutFull(z) == Bits(z)
MutTake(bits, idx) == bits
MutFound(p, z) == p - Zones[z].offset \in Bits(z)

(* The bitmap of a zone when it is first needed: all ones, then the bits   *)
(* of the zone's pages cleared.                                            *)
Fresh(z) == Bits(z) \ Usable(z)
Bitmap(z) == IF mapped[z] THEN set[z] ELSE Fresh(z)
Take(bits, idx) == bits \cup {idx}
Give(n) == n + 1
Found(p, z) == p \in PagesOf(z)

(* The assertion of page_release.  bitstest clears the bit it is asked for *)
(* instead of testing it, unless the bit is the first of its byte.         *)
SeenSet(z, idx) == idx % ByteBits # 0 \/ idx \in set[z]

Init ==
    /\ mapped = [z \in ZoneIds |-> FALSE]
    /\ set = [z \in ZoneIds |-> {}]
    /\ free = [z \in ZoneIds |-> Zones[z].available]
    /\ free_pages = Cardinality(AllPages)
    /\ scan = [t \in Tasks |-> 0]
    /\ held = [t \in Tasks |-> {}]
    /\ fault = FALSE

PageNew(t) ==
    /\ ~fault
    /\ scan[t] = 0
    /\ scan' = [scan EXCEPT ![t] = 1]
    /\ UNCHANGED <<mapped, set, free, free_pages, held, fault>>

(* A zone without a free page: look at the next one.  After the last,      *)
(* page_new reports the shortage and spins for ever.                       *)
PageNewSkip(t) ==
    /\ ~fault
    /\ scan[t] \in ZoneIds /\ free[scan[t]] = 0
    /\ scan' = [scan EXCEPT ![t] = @ + 1]
    /\ UNCHANGED <<mapped, set, free, free_pages, held, fault>>

(* A zone with one: bitschrz gives the first clear bit of the bitmap.      *)
PageNewTake(t) ==
    LET z == scan[t]
        clear == Bits(z) \ Bitmap(z)
    IN  /\ ~fault
        /\ z \in ZoneIds /\ free[z] # 0
        /\ IF clear = {}
           THEN fault' = TRUE /\ UNCHANGED <<mapped, set, free, free_pages, scan, held>>
           ELSE \E idx \in clear :
                  /\ \A j \in clear : idx <= j
                  /\ mapped' = [mapped EXCEPT ![z] = TRUE]
                  /\ set' = [set EXCEPT ![z] = Take(Bitmap(z), idx)]
                  /\ free' = [free EXCEPT ![z] = @ - 1]
                  /\ free_pages' = free_pages - 1
                  /\ held' = [held EXCEPT ![t] = @ \cup {Zones[z].offset + idx}]
                  /\ scan' = [scan EXCEPT ![t] = 0]
                  /\ UNCHANGED fault

(* page_release of a page got from page_new: the zones that do not hold it *)
(* are passed over.                                                        *)
PageRelease(t, p, z) ==
    LET idx == p - Zones[z].offset
    IN  /\ ~fault
        /\ scan[t] = 0
        /\ p \in held[t]
        /\ Found(p, z) /\ \A y \in 1 .. z - 1 : ~Found(p, y)
        /\ IF ~mapped[z] \/ ~SeenSet(z, idx)
           THEN fault' = TRUE /\ UNCHANGED <<mapped, set, free, free_pages, scan, held>>
           ELSE /\ set' = [set EXCEPT ![z] = @ \ {idx}]
                /\ free' = [free EXCEPT ![z] = Give(@)]
                /\ free_pages' = free_pages + 1
                /\ held' = [held EXCEPT ![t] = @ \ {p}]
                /\ UNCHANGED <<mapped, scan, fault>>

Halted == (fault \/ \A t \in Tasks : scan[t] > Len(Zones)) /\ UNCHANGED vars

Step(t) ==
    \/ PageNew(t) \/ PageNewSkip(t) \/ PageNewTake(t)
    \/ \E p \in AllPages, z \in ZoneIds : PageRelease(t, p, z)

Next == (\E t \in Tasks : Step(t)) \/ Halted

Spec == Init /\ [][Next]_vars

-----------------------------------------------------------------------------
AllHeld == UNION {held[t] : t \in Tasks}

TypeOK ==
    /\ mapped \in [ZoneIds -> BOOLEAN]
    /\ set \in [ZoneIds -> SUBSET Nat]
    /\ free \in [ZoneIds -> Nat]
    /\ free_pages \in Int
    /\ scan \in [Tasks -> 0 .. Len(Zones) + 1]
    /\ held \in [Tasks -> SUBSET AllPages]

(* A page belongs to one task at a time: page_new never hands out a page   *)
(* that was not given back, whatever the interleaving of the searches.     *)
HeldOnce == \A t, u \in Tasks : t # u => held[t] \cap held[u] = {}

(* The bitmaps say who holds what: a bit is set for a held page and for    *)
(* the padding around the zone, and for nothing else.                      *)
BitmapExact ==
    \A z \in ZoneIds :
        Bitmap(z) = Fresh(z) \cup {b \in Usable(z) : Zones[z].offset + b \in AllHeld}

(* A zone's counter is its number of clear bits, so a zone that says it    *)
(* has a page has one (the assertion of page_new).                         *)
FreeExact == \A z \in ZoneIds : free[z] = Cardinality(Bits(z) \ Bitmap(z))

(* The machine-wide counter agrees with the pages not held by anybody. *)
FreePagesExact == free_pages = Cardinality(AllPages \ AllHeld)

(* No assertion of page_new and page_release fails: a zone with a free     *)
(* page has a clear bit, a page to release is in a zone with a bitmap.     *)
AssertsHold == ~fault

(* All of it together is kept by every step of page_new and page_release:  *)
(* the inductive invariant of the proofs.                                  *)
IInv ==
    /\ TypeOK /\ HeldOnce /\ BitmapExact /\ FreeExact /\ FreePagesExact
    /\ AssertsHold
=============================================================================
