-------------------------------- MODULE Cells --------------------------------
(***************************************************************************)
(* The output of the serializer, one cell per byte.  A cell says what the  *)
(* byte belongs to: part `part` of the `of` bytes of the integer `val` of  *)
(* a tag or length field, content, or a byte that was only reserved.       *)
(***************************************************************************)
EXTENDS Integers, Sequences

Cell == [kind: {"zero", "data", "tag", "len"}, val: Nat, part: Nat, of: Nat]

Bytes(kind, val, n) ==
    [i \in 1 .. n |-> [kind |-> kind, val |-> val, part |-> i, of |-> n]]
Zeros(n) == Bytes("zero", 0, n)       \* put_zeros
Data(n) == Bytes("data", 0, n)        \* write_u8, write_ux and write of content
TagBytes(tag) == Bytes("tag", tag, 2)
LengthBytes(size, len) == Bytes("len", len, size)

SetLen(b, n) == SubSeq(b, 1, n)

(* Mutant of CopyWithin: source and destination swapped.                   *)
CopyWithinReversed(b, src, dst) ==
    [i \in 1 .. Len(b) |->
        IF i \in src + 1 .. Len(b) /\ i - src + dst \in 1 .. Len(b)
        THEN b[i - src + dst] ELSE b[i]]

(* copy_within(src .., dst) of everything from offset src on.              *)
CopyWithin(b, src, dst) ==
    [i \in 1 .. Len(b) |->
        IF i \in dst + 1 .. dst + Len(b) - src THEN b[i - dst + src] ELSE b[i]]

(* write_at_previous_pos: truncate to pos, write, restore the old length.  *)
WriteAt(b, pos, cells) ==
    [i \in 1 .. Len(b) |->
        IF i \in pos + 1 .. pos + Len(cells) THEN cells[i - pos] ELSE b[i]]
=============================================================================
