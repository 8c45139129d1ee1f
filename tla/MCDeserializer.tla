--------------------------- MODULE MCDeserializer ---------------------------
(***************************************************************************)
(* Types, options and readers on which TLC checks the deserializer.        *)
(***************************************************************************)
EXTENDS DeserializerWindows

FieldOf(id, type) == [id |-> id, type |-> type]
Props(array, struct, string) ==
    [set |-> TRUE, array |-> array, struct |-> struct, string |-> string]
String(min, max, lfs) == [kind |-> "string", min |-> min, max |-> max, lfs |-> lfs]
Sequence(min, max, elem, lfs) ==
    [kind |-> "seq", min |-> min, max |-> max, elem |-> elem, lfs |-> lfs]
Struct(tlv, wrapper, lfs, own, fields) ==
    [kind |-> "struct", fields |-> fields, tlv |-> tlv, wrapper |-> wrapper,
     lfs |-> lfs, props |-> own]

MCTypes == <<
    [kind |-> "prim", size |-> 1],                                     \*  1: u8
    [kind |-> "bool", size |-> 1],                                     \*  2
    [kind |-> "enum", size |-> 2],                                     \*  3: enum : u16
    String(1, 2, None),                                                \*  4
    Sequence(1, 2, 1, 1),                                              \*  5: bytes
    Struct(TRUE, FALSE, 1, NoProps, <<FieldOf(7, 4), FieldOf(2, 3)>>), \*  6: TLV
    Sequence(0, 1, 6, 1),                                              \*  7: of TLV structs
    String(3, 3, None),                                                \*  8: constant size
    Sequence(2, 2, 8, None),                                           \*  9: constant size
    Struct(FALSE, FALSE, 1, Props(1, None, 2), <<FieldOf(NoId, 5), FieldOf(NoId, 4)>>),
                                                                       \* 10: own properties
    Struct(TRUE, FALSE, 1, NoProps, <<FieldOf(3, 10), FieldOf(4, 2)>>),\* 11: TLV around it
    Struct(FALSE, TRUE, None, NoProps, <<FieldOf(NoId, 9), FieldOf(NoId, 2)>>),
                                                                       \* 12: message wrapper
    Struct(TRUE, TRUE, None, Props(1, 1, 1), <<FieldOf(1, 5)>>),       \* 13: TLV wrapper
    Struct(TRUE, FALSE, 1, NoProps, <<FieldOf(NoId, 1)>>),             \* 14: not verifiable
    Struct(FALSE, FALSE, 1, NoProps, <<FieldOf(NoId, 1), FieldOf(NoId, 2)>>),
                                                                       \* 15: constant size
    Sequence(2, 2, 15, None),                                          \* 16: constant size
    String(200, 200, 4),                                               \* 17: the longest
    Struct(FALSE, FALSE, 4, NoProps, <<FieldOf(NoId, 17), FieldOf(NoId, 17)>>),
                                                                       \* 18: beyond u32
    Sequence(0, 1, 18, 1),                                             \* 19: its size_hint panics
    Struct(FALSE, FALSE, None, NoProps, <<>>),                         \* 20: no fields
    Sequence(0, 1, 20, 1)                                              \* 21: its size_hint panics
  >>

(* The elements of a sequence of constant size have properties of their    *)
(* own.                                                                    *)
TypesWithProps ==
    [MCTypes EXCEPT ![15] = Struct(FALSE, FALSE, 1, Props(None, 2, None),
                                   <<FieldOf(NoId, 1)>>)]

Option(lfs, encoding, bom, terminator, strict, action) ==
    [defaultLfs |-> lfs, legacyWireType |-> FALSE, selection |-> "Smallest",
     encoding |-> encoding, bom |-> bom, terminator |-> terminator,
     strictBool |-> strict, tooMuchData |-> action]

(* Without overwritten defaults: ExampleOptions of options.rs.             *)
ExampleOptions == Option(4, "Utf8", FALSE, FALSE, FALSE, "Discard")

MCOptions == {
    Option(1, "Utf8", FALSE, FALSE, FALSE, "Discard"),
    Option(1, "Utf16", FALSE, TRUE, TRUE, "Fail"),
    Option(2, "Ascii", FALSE, FALSE, FALSE, "Keep") }

MCRoots == {7, 10, 11, 12, 13, 14, 16, 19, 21}
MCReaders == {Slice(9), Slice(11), Stream(9, 9), Stream(8, 10)}

ExampleOptionsOnly == {ExampleOptions}
OneSlice == {Slice(8)}
ShortStream == {Stream(8, 4)}
Bytes == {5}
OneString == {4}
PropsInSequence == {16}
=============================================================================
