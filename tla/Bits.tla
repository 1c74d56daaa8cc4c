-------------------------------- MODULE Bits --------------------------------
(***************************************************************************)
(* The bitmap routines of src/stdc/bits.c, loop by loop, against what they *)
(* are called for.  A bitmap is the function from bit numbers to 0 and 1;  *)
(* byte i holds the bits ByteBits * i onwards (ByteBits is 8 in the code,  *)
(* where a byte full of ones is written 0xFF and one of zeros 0).          *)
(***************************************************************************)
EXTENDS Integers, FiniteSets

CONSTANTS ByteBits, Bytes

VARIABLE ptr

Positions == 0 .. ByteBits * Bytes - 1
Bitmaps == [Positions -> {0, 1}]
Spans == {r \in Positions \X (0 .. ByteBits * Bytes) : r[1] + r[2] <= ByteBits * Bytes}

Byte(i) == {b \in Positions : b \div ByteBits = i}
ByteIs(p, i, v) == \A b \in Byte(i) : p[b] = v

-----------------------------------------------------------------------------
(* The bits before the first byte boundary. *)
RECURSIVE HeadLoop(_, _, _, _, _)
HeadLoop(p, i, j, count, v) ==
    IF count > 0 /\ j # 0
    THEN HeadLoop([p EXCEPT ![ByteBits * i + j] = v], i, (j + 1) % ByteBits, count - 1, v)
    ELSE <<p, count>>

(* The whole bytes; a last full byte is left to the next loop. *)
RECURSIVE ByteLoop(_, _, _, _)
ByteLoop(p, i, count, v) ==
    IF count > ByteBits
    THEN ByteLoop([b \in Positions |-> IF b \in Byte(i) THEN v ELSE p[b]],
                  i + 1, count - ByteBits, v)
    ELSE <<p, i, count>>

(* What remains, bit by bit from the start of byte i. *)
RECURSIVE TailLoop(_, _, _, _, _)
TailLoop(p, i, j, count, v) ==
    IF count > 0
    THEN TailLoop([p EXCEPT ![ByteBits * i + j] = v], i, j + 1, count - 1, v)
    ELSE p

(* mutant: rounding down                                                   *)
MutAlignedByte(start) == start \div ByteBits

(* ALIGN_UP(start, 8) / 8 *)
AlignedByte(start) == (start + ByteBits - 1) \div ByteBits

(* bitsclr (v = 0) and bitsset (v = 1) *)
BitsWrite(p, start, count, v) ==
    LET head == HeadLoop(p, start \div ByteBits, start % ByteBits, count, v)
        mid == ByteLoop(head[1], AlignedByte(start), head[2], v)
    IN  TailLoop(mid[1], mid[2], 0, mid[3], v)

(* bitschrz: the first byte that is not full, then its first zero bit. *)
FirstNotFull(p, len) ==
    CHOOSE n \in 0 .. len \div ByteBits :
        /\ n = len \div ByteBits \/ ~ByteIs(p, n, 1)
        /\ \A k \in 0 .. n - 1 : ByteIs(p, k, 1)

Bitschrz(p, len) ==
    LET i == FirstNotFull(p, len)
    IN  IF i >= len \div ByteBits THEN -1
        ELSE ByteBits * i + (CHOOSE n \in 0 .. ByteBits :
                /\ n = ByteBits \/ p[ByteBits * i + n] = 0
                /\ \A k \in 0 .. n - 1 : p[ByteBits * i + k] = 1)

(* bitstest, whose head loop clears the bits instead of testing them. *)
RECURSIVE ByteTest(_, _, _)
ByteTest(p, i, count) ==
    IF count > ByteBits
    THEN LET after == ByteTest(p, i + 1, count - ByteBits)
         IN  <<after[1] /\ ~ByteIs(p, i, 0), after[2], after[3]>>
    ELSE <<TRUE, i, count>>

TestHead(p, start, count) == HeadLoop(p, start \div ByteBits, start % ByteBits, count, 0)

Bitstest(p, start, count) ==
    LET head == TestHead(p, start, count)
        mid == ByteTest(head[1], AlignedByte(start), head[2])
    IN  [result |-> mid[1] /\ \A j \in 0 .. mid[3] - 1 : head[1][ByteBits * mid[2] + j] = 1,
         ptr |-> head[1]]

-----------------------------------------------------------------------------
Init == ptr = [b \in Positions |-> 1]
Bitsclr(start, count) == ptr' = BitsWrite(ptr, start, count, 0)
Bitsset(start, count) == ptr' = BitsWrite(ptr, start, count, 1)
Next == \E r \in Spans : Bitsclr(r[1], r[2]) \/ Bitsset(r[1], r[2])
Spec == Init /\ [][Next]_ptr

-----------------------------------------------------------------------------
(* bitsset and bitsclr write the bits asked for and no other, wherever the *)
(* span starts and ends in a byte.                                         *)
WritesTheSpan ==
    /\ ptr \in Bitmaps
    /\ \A r \in Spans, v \in {0, 1} :
          BitsWrite(ptr, r[1], r[2], v) =
              [b \in Positions |-> IF b \in r[1] .. r[1] + r[2] - 1 THEN v ELSE ptr[b]]

(* bitschrz finds the first clear bit, and -1 exactly when there is none. *)
FindsFirstClear ==
    LET clear == {b \in Positions : ptr[b] = 0}
        found == Bitschrz(ptr, ByteBits * Bytes)
    IN  IF clear = {} THEN found = -1
        ELSE found \in clear /\ \A b \in clear : found <= b

(* What the assertion of page_release gets from bitstest: an answer for    *)
(* the first bit of a byte only.  Another bit is cleared, and said to be   *)
(* set whatever it was.                                                    *)
TestOfOneBit ==
    \A b \in Positions :
        Bitstest(ptr, b, 1) =
            IF b % ByteBits = 0 THEN [result |-> ptr[b] = 1, ptr |-> ptr]
            ELSE [result |-> TRUE, ptr |-> [ptr EXCEPT ![b] = 0]]
=============================================================================
