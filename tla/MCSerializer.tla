---------------------------- MODULE MCSerializer ----------------------------
(***************************************************************************)
(* Types and options on which TLC checks the serializer.  The capacities   *)
(* of the length fields are scaled down in the configurations (7, 30 and   *)
(* 200 for 255, 65535 and 2^32 - 1) so that short values cross them.       *)
(***************************************************************************)
EXTENDS SerializerFraming

FieldOf(id, type) == [id |-> id, type |-> type]
Props(array, struct, string) ==
    [set |-> TRUE, array |-> array, struct |-> struct, string |-> string]
String(min, max, lfs) == [kind |-> "string", min |-> min, max |-> max, lfs |-> lfs]
Sequence(min, max, elem, lfs) ==
    [kind |-> "seq", min |-> min, max |-> max, elem |-> elem, lfs |-> lfs]
Struct(tlv, wrapper, lfs, own, fields) ==
    [kind |-> "struct", fields |-> fields, tlv |-> tlv, wrapper |-> wrapper,
     lfs |-> lfs, props |-> own]

MCTypes == <<
    [kind |-> "prim", size |-> 1],                                     \*  1: u8
    [kind |-> "enum", size |-> 2],                                     \*  2: enum : u16
    String(0, 3, None),                                                \*  3
    Sequence(1, 4, 1, 1),                                              \*  4: bytes
    String(2, 2, 2),                                                   \*  5: constant size
    Struct(TRUE, FALSE, 2, NoProps, <<FieldOf(7, 3), FieldOf(2, 2)>>), \*  6: TLV
    Sequence(0, 2, 6, 2),                                              \*  7: of TLV structs
    Struct(FALSE, FALSE, 1, Props(1, None, 2), <<FieldOf(NoId, 4), FieldOf(NoId, 5)>>),
                                                                       \*  8: own properties
    Struct(TRUE, FALSE, 2, NoProps, <<FieldOf(1, 8), FieldOf(5, 3), FieldOf(0, 1)>>),
                                                                       \*  9: TLV around it
    Struct(FALSE, TRUE, None, Props(1, 2, 4), <<FieldOf(NoId, 3), FieldOf(NoId, 6)>>),
                                                                       \* 10: message wrapper
    Sequence(2, 2, 1, None),                                           \* 11: constant size
    Struct(FALSE, FALSE, None, NoProps, <<FieldOf(NoId, 11), FieldOf(NoId, 9), FieldOf(NoId, 3)>>),
                                                                       \* 12: no length field
    Struct(TRUE, FALSE, 1, NoProps,
           <<FieldOf(1, 1), FieldOf(2, 1), FieldOf(3, 1)>>),           \* 13: tags outgrow it
    Struct(TRUE, TRUE, None, NoProps, <<FieldOf(4, 13)>>),             \* 14: 13 inside TLV
    Sequence(0, 1, 13, 2),                                             \* 15: 13 outside TLV
    Sequence(0, 150, 2, 4),                                            \* 16: up to 300 bytes
    String(0, 9, 1),                                                   \* 17: long for its field
    Struct(TRUE, TRUE, None, NoProps, <<FieldOf(NoId, 1)>>),           \* 18: not verifiable
    Struct(FALSE, FALSE, 1, NoProps,
           <<FieldOf(NoId, 2), FieldOf(NoId, 2), FieldOf(NoId, 2), FieldOf(NoId, 2)>>),
                                                                       \* 19: long for its field
    Struct(TRUE, TRUE, None, NoProps, <<FieldOf(4, 19)>>)              \* 20: where that grows
  >>

Option(lfs, legacy, selection, encoding, bom, terminator) ==
    [defaultLfs |-> lfs, legacyWireType |-> legacy, selection |-> selection,
     encoding |-> encoding, bom |-> bom, terminator |-> terminator,
     strictBool |-> FALSE, tooMuchData |-> "Discard"]

(* Without overwritten defaults: ExampleOptions of options.rs.             *)
ExampleOptions == Option(4, FALSE, "Smallest", "Utf8", FALSE, FALSE)

MCOptions == {
    ExampleOptions,
    Option(1, TRUE, "AsConfigured", "Utf8", FALSE, TRUE),
    Option(2, TRUE, "Smallest", "Ascii", FALSE, FALSE),
    Option(None, FALSE, "AsConfigured", "Utf16Le", TRUE, FALSE) }

MCRoots == {7, 10, 12, 14, 15, 16, 17, 18, 20}
AppendRoots == {3, 8, 18}
ExampleOptionsOnly == {ExampleOptions}
SeqOfTlvStructs == {7}
NestedTlvStruct == {14}
=============================================================================
