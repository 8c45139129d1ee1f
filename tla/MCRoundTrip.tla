---------------------------- MODULE MCRoundTrip ----------------------------
(***************************************************************************)
(* Types, versions and options on which TLC checks the round trip.  The    *)
(* capacities of the length fields are scaled down in the configuration.   *)
(***************************************************************************)
EXTENDS RoundTrip

FieldOf(id, type) == [id |-> id, type |-> type]
Props(array, struct, string) ==
    [set |-> TRUE, array |-> array, struct |-> struct, string |-> string]
String(min, max, lfs) == [kind |-> "string", min |-> min, max |-> max, lfs |-> lfs]
Sequence(min, max, elem, lfs) ==
    [kind |-> "seq", min |-> min, max |-> max, elem |-> elem, lfs |-> lfs]
Struct(tlv, wrapper, lfs, own, fields) ==
    [kind |-> "struct", fields |-> fields, tlv |-> tlv, wrapper |-> wrapper,
     lfs |-> lfs, props |-> own]

MCTypes == <<
    [kind |-> "prim", size |-> 1],                                     \*  1: u8
    [kind |-> "enum", size |-> 2],                                     \*  2: enum : u16
    String(0, 3, None),                                                \*  3
    Sequence(0, 2, 1, 1),                                              \*  4: bytes
    Struct(TRUE, FALSE, 2, NoProps, <<FieldOf(1, 3), FieldOf(2, 2)>>), \*  5: TLV
    Struct(TRUE, FALSE, 2, NoProps, <<FieldOf(2, 2), FieldOf(3, 4)>>), \*  6: its successor
    Sequence(0, 2, 5, 2),                                              \*  7
    Sequence(0, 1, 6, 2),                                              \*  8: fewer of those
    Struct(FALSE, FALSE, 1, Props(2, None, 1), <<FieldOf(NoId, 4), FieldOf(NoId, 3)>>),
                                                                       \*  9: own properties
    Struct(TRUE, FALSE, 2, NoProps, <<FieldOf(4, 9), FieldOf(5, 6)>>), \* 10: TLV around it
    Struct(TRUE, FALSE, 2, NoProps, <<FieldOf(5, 5), FieldOf(6, 1)>>), \* 11: its predecessor
    Sequence(2, 2, 2, None),                                           \* 12: constant size
    Struct(FALSE, TRUE, None, NoProps, <<FieldOf(NoId, 12), FieldOf(NoId, 5), FieldOf(NoId, 1)>>),
                                                                       \* 13: message wrapper
    Struct(FALSE, TRUE, None, NoProps, <<FieldOf(NoId, 12), FieldOf(NoId, 6), FieldOf(NoId, 1)>>),
                                                                       \* 14: its successor
    Struct(TRUE, TRUE, None, NoProps, <<FieldOf(3, 4), FieldOf(8, 7)>>),
                                                                       \* 15: TLV wrapper
    Struct(TRUE, TRUE, None, NoProps, <<FieldOf(9, 12)>>),             \* 16: knows none of it
    Sequence(0, 2, 12, None),                                          \* 17: default sizes
    Struct(TRUE, FALSE, None, NoProps, <<FieldOf(1, 17), FieldOf(2, 3), FieldOf(3, 2)>>),
                                                                       \* 18: around it
    Struct(TRUE, FALSE, None, NoProps, <<FieldOf(2, 3)>>)              \* 19: its predecessor
  >>

MCRoots == {7, 10, 13, 15, 18}
MCVersions == (7 :> {7, 8}) @@ (10 :> {10, 11}) @@ (13 :> {13, 14}) @@ (15 :> {15, 16})
              @@ (18 :> {18, 19})

Option(lfs, legacy, selection, encoding, bom, terminator, action) ==
    [defaultLfs |-> lfs, legacyWireType |-> legacy, selection |-> selection,
     encoding |-> encoding, bom |-> bom, terminator |-> terminator,
     strictBool |-> FALSE, tooMuchData |-> action]

MCOptions == {
    Option(4, FALSE, "Smallest", "Utf8", FALSE, FALSE, "Discard"),
    Option(1, FALSE, "AsConfigured", "Utf16", FALSE, TRUE, "Keep"),
    Option(2, TRUE, "Smallest", "Ascii", FALSE, FALSE, "Keep"),
    Option(4, FALSE, "AsConfigured", "Utf8", TRUE, FALSE, "Fail") }

MCReaders == {Slice(0)}
=============================================================================
