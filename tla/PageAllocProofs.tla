-------------------------- MODULE PageAllocProofs --------------------------
(* The page allocator is exact for any zones and any number of tasks. *)
EXTENDS PageAlloc, FiniteSetTheorems, TLAPS

Clear(z) == Bits(z) \ Bitmap(z)

-----------------------------------------------------------------------------
LEMMA ZoneType ==
    ASSUME NEW z \in ZoneIds
    PROVE  /\ Zones[z].offset \in Nat /\ Zones[z].reserved \in Nat
           /\ Zones[z].available \in Nat /\ Zones[z].count \in Nat
           /\ Zones[z].reserved + Zones[z].available <= Zones[z].count
<1> DEFINE R == [offset : Nat, reserved : Nat, available : Nat, count : Nat]
<1>1. Zones \in Seq(R) /\ z \in 1 .. Len(Zones)
    BY ZonesAssumption DEF ZoneIds
<1>2. Zones[z] \in R
    <2> HIDE DEF R
    <2> QED BY <1>1
<1>3. /\ Zones[z].offset \in Nat /\ Zones[z].reserved \in Nat
      /\ Zones[z].available \in Nat /\ Zones[z].count \in Nat
    BY <1>2
<1> QED BY <1>3, ZonesAssumption

(* A bitmap, and the memory of the machine, are finite. *)
LEMMA BitsFinite ==
    ASSUME NEW z \in ZoneIds
    PROVE  /\ IsFiniteSet(Bits(z)) /\ IsFiniteSet(Usable(z))
           /\ Cardinality(Usable(z)) = Zones[z].available
           /\ Usable(z) \subseteq Bits(z)
<1> USE ZoneType
<1>1. IsFiniteSet(Bits(z))
    BY FS_Interval DEF Bits
<1>2. IsFiniteSet(Usable(z)) /\ Cardinality(Usable(z)) = Zones[z].available
    <2> DEFINE lo == Zones[z].reserved
               hi == Zones[z].reserved + Zones[z].available - 1
    <2>1. lo \in Int /\ hi \in Int /\ (IF lo > hi THEN 0 ELSE hi - lo + 1) = Zones[z].available
        OBVIOUS
    <2>2. IsFiniteSet(lo .. hi) /\ Cardinality(lo .. hi) = IF lo > hi THEN 0 ELSE hi - lo + 1
        BY <2>1, FS_Interval
    <2> QED BY <2>1, <2>2 DEF Usable
<1>3. Usable(z) \subseteq Bits(z)
    BY DEF Usable, Bits
<1> QED BY <1>1, <1>2, <1>3

LEMMA PagesFinite == IsFiniteSet(AllPages)
<1> DEFINE T == {PagesOf(z) : z \in ZoneIds}
           f == [z \in ZoneIds |-> PagesOf(z)]
<1>1. \A S \in T : IsFiniteSet(S)
    <2> SUFFICES ASSUME NEW z \in ZoneIds PROVE IsFiniteSet(PagesOf(z))
        OBVIOUS
    <2> DEFINE lo == Zones[z].offset + Zones[z].reserved
    <2>1. lo \in Int /\ lo + Zones[z].available - 1 \in Int
        BY ZoneType
    <2> QED BY <2>1, FS_Interval DEF PagesOf
<1>2. IsFiniteSet(ZoneIds)
    BY ZonesAssumption, FS_Interval DEF ZoneIds
<1>3. f \in Surjection(ZoneIds, T)
    BY DEF Surjection
<1>4. IsFiniteSet(T)
    <2> HIDE DEF T, f
    <2> QED BY <1>2, <1>3, FS_Surjection
<1> QED BY <1>1, <1>4, FS_UNION DEF AllPages

(* The pages of a zone and its bits. *)
LEMMA PagesAreBits ==
    ASSUME NEW z \in ZoneIds
    PROVE  \A p : p \in PagesOf(z) <=> \E b \in Usable(z) : p = Zones[z].offset + b
<1> SUFFICES ASSUME NEW p
             PROVE  p \in PagesOf(z) <=> \E b \in Usable(z) : p = Zones[z].offset + b
    OBVIOUS
<1>1. ASSUME p \in PagesOf(z) PROVE \E b \in Usable(z) : p = Zones[z].offset + b
    <2>1. p - Zones[z].offset \in Usable(z) /\ p = Zones[z].offset + (p - Zones[z].offset)
        BY <1>1, ZoneType DEF PagesOf, Usable
    <2> QED BY <2>1
<1>2. ASSUME NEW b \in Usable(z), p = Zones[z].offset + b PROVE p \in PagesOf(z)
    BY <1>2, ZoneType DEF PagesOf, Usable
<1> QED BY <1>1, <1>2

(* A clear bit is a page of the zone that nobody holds. *)
LEMMA ClearIsFree ==
    ASSUME IInv, NEW z \in ZoneIds, NEW idx \in Clear(z)
    PROVE  /\ idx \in Usable(z) /\ idx \in Nat
           /\ Zones[z].offset + idx \in PagesOf(z)
           /\ Zones[z].offset + idx \in AllPages
           /\ Zones[z].offset + idx \notin AllHeld
<1>1. idx \in Bits(z) /\ idx \notin Fresh(z)
    BY DEF Clear, IInv, BitmapExact
<1>2. idx \in Usable(z)
    BY <1>1 DEF Fresh
<1>3. Zones[z].offset + idx \notin AllHeld
    BY <1>2 DEF Clear, IInv, BitmapExact
<1>4. Zones[z].offset + idx \in PagesOf(z)
    BY <1>2, PagesAreBits
<1>5. idx \in Nat
    BY <1>2, ZoneType DEF Usable
<1> QED BY <1>2, <1>3, <1>4, <1>5 DEF AllPages

(* A held page is in one zone, which has a bitmap with the page's bit set. *)
LEMMA HeldIsSet ==
    ASSUME IInv, NEW t \in Tasks, NEW p \in held[t], NEW z \in ZoneIds, p \in PagesOf(z)
    PROVE  /\ mapped[z] /\ p - Zones[z].offset \in set[z]
           /\ p - Zones[z].offset \in Usable(z)
           /\ Zones[z].offset + (p - Zones[z].offset) = p
           /\ p \in Int
<1>1. PICK b \in Usable(z) : p = Zones[z].offset + b
    BY PagesAreBits
<1>2. b \in Int /\ Zones[z].offset \in Int
    BY ZoneType DEF Usable
<1>3. p - Zones[z].offset = b
    BY <1>1, <1>2
<1>4. p \in AllHeld
    BY DEF AllHeld
<1>5. b \in Bitmap(z)
    BY <1>1, <1>4 DEF IInv, BitmapExact
<1>6. b \notin Fresh(z)
    BY DEF Fresh
<1> QED BY <1>1, <1>2, <1>3, <1>5, <1>6 DEF Bitmap

(* Distinct zones share no page. *)
LEMMA OneZone ==
    ASSUME NEW y \in ZoneIds, NEW z \in ZoneIds, y # z, NEW p \in PagesOf(z)
    PROVE  \A b \in Usable(y) : Zones[y].offset + b # p
BY ZonesAssumption, PagesAreBits

-----------------------------------------------------------------------------
LEMMA InitIInv == Init => IInv
<1> SUFFICES ASSUME Init PROVE IInv
    OBVIOUS
<1>1. AllHeld = {}
    BY DEF Init, AllHeld
<1>2. TypeOK
    <2>1. \A z \in ZoneIds : Zones[z].available \in Nat
        BY ZoneType
    <2>2. Cardinality(AllPages) \in Nat
        BY PagesFinite, FS_CardinalityType
    <2>3. Len(Zones) \in Nat
        BY ZonesAssumption
    <2> QED BY <2>1, <2>2, <2>3 DEF Init, TypeOK
<1>3. BitmapExact
    BY <1>1 DEF Init, BitmapExact, Bitmap
<1>4. FreeExact
    <2> SUFFICES ASSUME NEW z \in ZoneIds
                 PROVE free[z] = Cardinality(Bits(z) \ Bitmap(z))
        BY DEF FreeExact
    <2>1. Bits(z) \ Bitmap(z) = Usable(z)
        BY BitsFinite DEF Init, Bitmap, Fresh
    <2> QED BY <2>1, BitsFinite DEF Init
<1>5. FreePagesExact
    BY <1>1 DEF Init, FreePagesExact
<1> QED BY <1>2, <1>3, <1>4, <1>5 DEF Init, IInv, HeldOnce, AssertsHold

(* The steps of the search that only move on. *)
LEMMA ScanIInv ==
    ASSUME IInv, NEW t \in Tasks, PageNew(t) \/ PageNewSkip(t) PROVE IInv'
<1> USE DEF IInv
<1>1. TypeOK'
    <2>1. Len(Zones) \in Nat
        BY ZonesAssumption
    <2>2. CASE PageNew(t)
        BY <2>1, <2>2 DEF TypeOK, PageNew
    <2>3. CASE PageNewSkip(t)
        BY <2>1, <2>3 DEF TypeOK, PageNewSkip, ZoneIds
    <2> QED BY <2>2, <2>3
<1>2. UNCHANGED <<mapped, set, free, free_pages, held, fault>>
    BY DEF PageNew, PageNewSkip
<1> QED BY <1>1, <1>2 DEF HeldOnce, BitmapExact, FreeExact, FreePagesExact, AssertsHold, Bitmap, AllHeld

(* Taking the page of a clear bit: nobody held it, its bit and no other is *)
(* set, and both counters go down with it.                                 *)
LEMMA TakeIInv ==
    ASSUME IInv, NEW t \in Tasks, PageNewTake(t) PROVE IInv'
<1>0. PICK z \in ZoneIds : z = scan[t]
    BY DEF PageNewTake
<1>1. z \in ZoneIds /\ free[z] # 0
    BY <1>0 DEF PageNewTake
<1>2. IsFiniteSet(Clear(z)) /\ free[z] = Cardinality(Clear(z))
    BY <1>1, BitsFinite, FS_Subset DEF Clear, IInv, FreeExact
<1>3. Clear(z) # {}
    BY <1>1, <1>2, FS_EmptySet
<1>4. PICK idx \in Clear(z) :
          /\ mapped' = [mapped EXCEPT ![z] = TRUE]
          /\ set' = [set EXCEPT ![z] = Bitmap(z) \cup {idx}]
          /\ free' = [free EXCEPT ![z] = @ - 1]
          /\ free_pages' = free_pages - 1
          /\ held' = [held EXCEPT ![t] = @ \cup {Zones[z].offset + idx}]
          /\ scan' = [scan EXCEPT ![t] = 0]
          /\ fault' = fault
    BY <1>0, <1>3 DEF PageNewTake, Clear, Take
<1> DEFINE p == Zones[z].offset + idx
<1>5. /\ idx \in Usable(z) /\ idx \in Nat
      /\ p \in PagesOf(z) /\ p \in AllPages /\ p \notin AllHeld
    BY <1>1, ClearIsFree
<1>6. AllHeld' = AllHeld \cup {p}
    BY <1>4 DEF AllHeld, IInv, TypeOK
<1>7. /\ Bitmap(z)' = Bitmap(z) \cup {idx}
      /\ \A y \in ZoneIds : y # z => Bitmap(y)' = Bitmap(y)
    BY <1>1, <1>4 DEF Bitmap, IInv, TypeOK, Fresh, Bits, Usable
<1>8. TypeOK'
    <2>1. free[z] - 1 \in Nat
        BY <1>1 DEF IInv, TypeOK
    <2>2. Bitmap(z) \subseteq Nat
        BY <1>1, ZoneType DEF Bitmap, Fresh, Bits, IInv, TypeOK
    <2>3. Len(Zones) \in Nat
        BY ZonesAssumption
    <2> QED BY <1>1, <1>4, <1>5, <2>1, <2>2, <2>3 DEF IInv, TypeOK
<1>9. HeldOnce'
    BY <1>4, <1>5 DEF HeldOnce, IInv, AllHeld, TypeOK
<1>10. BitmapExact'
    <2> SUFFICES ASSUME NEW y \in ZoneIds
                 PROVE Bitmap(y)' = Fresh(y) \cup {b \in Usable(y) : Zones[y].offset + b \in AllHeld'}
        BY DEF BitmapExact, Fresh, Bits, Usable
    <2>1. Bitmap(y) = Fresh(y) \cup {b \in Usable(y) : Zones[y].offset + b \in AllHeld}
        BY DEF IInv, BitmapExact
    <2>2. CASE y = z
        <3>1. \A b \in Usable(z) : Zones[z].offset + b = p <=> b = idx
            <4>1. \A o, b, i \in Int : o + b = o + i <=> b = i
                OBVIOUS
            <4>2. Zones[z].offset \in Int /\ idx \in Int /\ \A b \in Usable(z) : b \in Int
                BY <1>5, ZoneType DEF Usable
            <4> QED BY <4>1, <4>2
        <3> QED BY <1>5, <1>6, <1>7, <2>1, <2>2, <3>1
    <2>3. CASE y # z
        <3>1. \A b \in Usable(y) : Zones[y].offset + b # p
            BY <1>1, <1>5, <2>3, OneZone
        <3> QED BY <1>6, <1>7, <2>1, <2>3, <3>1
    <2> QED BY <2>2, <2>3
<1>11. FreeExact'
    <2> SUFFICES ASSUME NEW y \in ZoneIds
                 PROVE free'[y] = Cardinality(Bits(y) \ Bitmap(y)')
        BY DEF FreeExact, Bits
    <2>1. CASE y = z
        <3>1. Bits(z) \ Bitmap(z)' = Clear(z) \ {idx}
            BY <1>7 DEF Clear
        <3>2. Cardinality(Clear(z) \ {idx}) = Cardinality(Clear(z)) - 1
            BY <1>2, FS_RemoveElement
        <3> QED BY <1>1, <1>2, <1>4, <2>1, <3>1, <3>2 DEF IInv, TypeOK
    <2>2. CASE y # z
        BY <1>4, <1>7, <2>2 DEF IInv, TypeOK, FreeExact
    <2> QED BY <2>1, <2>2
<1>12. FreePagesExact'
    <2>1. AllPages \ AllHeld' = (AllPages \ AllHeld) \ {p}
        BY <1>6
    <2>2. IsFiniteSet(AllPages \ AllHeld) /\ p \in AllPages \ AllHeld
        BY <1>5, PagesFinite, FS_Subset
    <2>3. Cardinality((AllPages \ AllHeld) \ {p}) = Cardinality(AllPages \ AllHeld) - 1
        BY <2>2, FS_RemoveElement
    <2> QED BY <1>4, <2>1, <2>3 DEF FreePagesExact, IInv, AllPages, PagesOf, Usable, ZoneIds
<1> QED BY <1>4, <1>8, <1>9, <1>10, <1>11, <1>12 DEF IInv, AssertsHold

(* Giving a held page back undoes it. *)
LEMMA ReleaseIInv ==
    ASSUME IInv, NEW t \in Tasks, NEW p \in AllPages, NEW z \in ZoneIds, PageRelease(t, p, z)
    PROVE  IInv'
<1> DEFINE idx == p - Zones[z].offset
<1>1. p \in held[t] /\ p \in PagesOf(z)
    BY DEF PageRelease, Found
<1>2. mapped[z] /\ idx \in set[z] /\ idx \in Usable(z) /\ Zones[z].offset + idx = p
    BY <1>1, HeldIsSet
<1>3. /\ set' = [set EXCEPT ![z] = @ \ {idx}]
      /\ free' = [free EXCEPT ![z] = @ + 1]
      /\ free_pages' = free_pages + 1
      /\ held' = [held EXCEPT ![t] = @ \ {p}]
      /\ mapped' = mapped /\ scan' = scan /\ fault' = fault
    BY <1>2 DEF PageRelease, SeenSet, Give
<1>4. idx \in Nat
    BY <1>2, ZoneType DEF Usable
<1>5. AllHeld' = AllHeld \ {p} /\ p \in AllHeld
    BY <1>1, <1>3 DEF AllHeld, IInv, TypeOK, HeldOnce
<1>6. /\ Bitmap(z)' = Bitmap(z) \ {idx} /\ idx \in Bitmap(z)
      /\ \A y \in ZoneIds : y # z => Bitmap(y)' = Bitmap(y)
    BY <1>2, <1>3 DEF Bitmap, IInv, TypeOK, Fresh, Bits, Usable
<1>7. TypeOK'
    BY <1>3 DEF IInv, TypeOK
<1>8. HeldOnce'
    BY <1>3 DEF HeldOnce, IInv, TypeOK
<1>9. BitmapExact'
    <2> SUFFICES ASSUME NEW y \in ZoneIds
                 PROVE Bitmap(y)' = Fresh(y) \cup {b \in Usable(y) : Zones[y].offset + b \in AllHeld'}
        BY DEF BitmapExact, Fresh, Bits, Usable
    <2>1. Bitmap(y) = Fresh(y) \cup {b \in Usable(y) : Zones[y].offset + b \in AllHeld}
        BY DEF IInv, BitmapExact
    <2>2. CASE y = z
        <3>1. \A b \in Usable(z) : Zones[z].offset + b = p <=> b = idx
            BY <1>2, <1>4, ZoneType DEF Usable
        <3>2. idx \notin Fresh(z)
            BY <1>2 DEF Fresh
        <3> QED BY <1>2, <1>5, <1>6, <2>1, <2>2, <3>1, <3>2
    <2>3. CASE y # z
        <3>1. \A b \in Usable(y) : Zones[y].offset + b # p
            BY <1>1, <2>3, OneZone
        <3> QED BY <1>5, <1>6, <2>1, <2>3, <3>1
    <2> QED BY <2>2, <2>3
<1>10. FreeExact'
    <2> SUFFICES ASSUME NEW y \in ZoneIds
                 PROVE free'[y] = Cardinality(Bits(y) \ Bitmap(y)')
        BY DEF FreeExact, Bits
    <2>1. CASE y = z
        <3>1. idx \in Bits(z)
            BY <1>2, BitsFinite
        <3>2. Bits(z) \ Bitmap(z)' = Clear(z) \cup {idx} /\ idx \notin Clear(z)
            BY <1>6, <3>1 DEF Clear
        <3>3. IsFiniteSet(Clear(z))
            BY BitsFinite, FS_Subset DEF Clear
        <3>4. Cardinality(Clear(z) \cup {idx}) = Cardinality(Clear(z)) + 1
            BY <3>2, <3>3, FS_AddElement
        <3>5. free[z] = Cardinality(Clear(z))
            BY DEF IInv, FreeExact, Clear
        <3> QED BY <1>3, <2>1, <3>2, <3>4, <3>5 DEF IInv, TypeOK
    <2>2. CASE y # z
        BY <1>3, <1>6, <2>2 DEF IInv, TypeOK, FreeExact
    <2> QED BY <2>1, <2>2
<1>11. FreePagesExact'
    <2>1. AllPages \ AllHeld' = (AllPages \ AllHeld) \cup {p}
        BY <1>5
    <2>2. IsFiniteSet(AllPages \ AllHeld) /\ p \notin AllPages \ AllHeld
        BY <1>5, PagesFinite, FS_Subset
    <2>3. Cardinality((AllPages \ AllHeld) \cup {p}) = Cardinality(AllPages \ AllHeld) + 1
        BY <2>2, FS_AddElement
    <2> QED BY <1>3, <2>1, <2>3 DEF FreePagesExact, IInv, AllPages, PagesOf, Usable, ZoneIds
<1> QED BY <1>3, <1>7, <1>8, <1>9, <1>10, <1>11 DEF IInv, AssertsHold

LEMMA StutterIInv ==
    ASSUME IInv, UNCHANGED vars PROVE IInv'
<1> USE DEF IInv, vars
<1>1. TypeOK' /\ HeldOnce' /\ AssertsHold'
    BY DEF TypeOK, HeldOnce, AssertsHold
<1>2. BitmapExact'
    BY DEF BitmapExact, Bitmap, AllHeld
<1>3. FreeExact'
    BY DEF FreeExact, Bitmap
<1>4. FreePagesExact'
    BY DEF FreePagesExact, AllHeld
<1> QED BY <1>1, <1>2, <1>3, <1>4

-----------------------------------------------------------------------------
(* The bitmaps, the counters and the pages held agree in every state, for  *)
(* every memory layout: page_new and page_release keep the invariant.      *)
THEOREM Invariance == Spec => []IInv
<1>1. IInv /\ [Next]_vars => IInv'
    <2> SUFFICES ASSUME IInv, [Next]_vars PROVE IInv'
        OBVIOUS
    <2>1. CASE UNCHANGED vars
        BY <2>1, StutterIInv
    <2>2. ASSUME NEW t \in Tasks, Step(t) PROVE IInv'
        <3>1. CASE PageNew(t) \/ PageNewSkip(t)
            BY <3>1, ScanIInv
        <3>2. CASE PageNewTake(t)
            BY <3>2, TakeIInv
        <3>3. CASE \E p \in AllPages, z \in ZoneIds : PageRelease(t, p, z)
            BY <3>3, ReleaseIInv
        <3> QED BY <2>2, <3>1, <3>2, <3>3 DEF Step
    <2> QED BY <2>1, <2>2 DEF Next, Halted
<1> QED BY <1>1, InitIInv, PTL DEF Spec

(* No page is held by two tasks, whatever the interleaving of page_new and *)
(* page_release.                                                           *)
THEOREM PagesHeldOnce == Spec => []HeldOnce
<1>1. IInv => HeldOnce
    BY DEF IInv
<1> QED BY <1>1, Invariance, PTL

(* __mmu.free_pages counts the pages nobody holds. *)
THEOREM FreePagesCounted == Spec => []FreePagesExact
<1>1. IInv => FreePagesExact
    BY DEF IInv
<1> QED BY <1>1, Invariance, PTL

(* The assertions of page_new and page_release never fail. *)
THEOREM PageAssertsHold == Spec => []AssertsHold
<1>1. IInv => AssertsHold
    BY DEF IInv
<1> QED BY <1>1, Invariance, PTL
=============================================================================
