----------------------------- MODULE PacketFields -----------------------------
(***************************************************************************)
(* The fields of a packet (utilprotobuf.cpp).  A packet is a sequence of      *)
(* bytes.  A uint64_t is its Width bytes as they lie in memory on the host,   *)
(* the least significant first, which is how the code moves them about: no    *)
(* function here calculates with the number.  A field says where in the       *)
(* packet its bytes lie, whether they are in the other order than the host's  *)
(* (ENDIAN_NEED_SWAP) and which constant it bears, its tag.                   *)
(***************************************************************************)
EXTENDS Integers, Sequences

CONSTANTS
    Base,   \* 256: the number of values of a byte
    Width   \* 8: sizeof(uint64_t)

ASSUME BaseAssumption == Base \in Nat \ {0, 1}
ASSUME WidthAssumption == Width \in Nat \ {0}

Byte == 0..(Base - 1)
Word == [1..Width -> Byte]
Zero == [i \in 1..Width |-> 0]
AllOnes == [i \in 1..Width |-> Base - 1]

\* Reversing a value that is longer than a uint64_t is out of bounds in
\* setFieldUInt(): such fields are left out.
Field == {f \in [offset : Nat, size : Nat, swap : BOOLEAN, tag : Word] : f.swap => f.size <= Width}

End(f) == f.offset + f.size

\* Which byte of the field holds the i-th byte of its value: std::reverse().
Place(f, i) == IF f.size > 1 /\ f.swap THEN f.size + 1 - i ELSE i

\* Zeros if the packet is too short.
extractField(packet, f) ==
    [i \in 1..f.size |-> IF Len(packet) < End(f) THEN 0 ELSE packet[f.offset + Place(f, i)]]

extractFieldUInt(packet, f) ==
    [i \in 1..Width |-> IF i <= f.size THEN extractField(packet, f)[i] ELSE 0]

\* Wrong on purpose: the value is written as it lies in memory.
setFieldUInt_Host(packet, f, value) ==
    [k \in 1..Len(packet) |->
        IF f.offset < k /\ k <= End(f) /\ k <= f.offset + Width
        THEN value[k - f.offset]
        ELSE packet[k]]

\* At most Width bytes are moved into the packet.
setFieldUInt(packet, f, value) ==
    [k \in 1..Len(packet) |->
        IF f.offset < k /\ k <= End(f) /\ k <= f.offset + Width
        THEN value[Place(f, k - f.offset)]
        ELSE packet[k]]

-----------------------------------------------------------------------------

\* A tag of 0 stands for no tag, one of 0xFFFFFFFFFFFFFFFF for the constant 0.
HasTag(f) == f.tag # Zero
Constant(f) == IF f.tag = AllOnes THEN Zero ELSE f.tag

\* The value has no more bytes than the field.
FitsIn(value, f) == \A i \in 1..Width : i > f.size => value[i] = 0

Apart(f, g) == End(f) <= g.offset \/ End(g) <= f.offset
=============================================================================
