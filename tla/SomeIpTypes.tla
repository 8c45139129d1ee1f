---------------------------- MODULE SomeIpTypes ----------------------------
(***************************************************************************)
(* The type descriptions that drive (de)serialization (types.rs), the      *)
(* length field sizes (length_fields.rs), the wire types of TLV tags       *)
(* (wire_type.rs) and the options that select length fields (options.rs).  *)
(*                                                                         *)
(* `&'static SomeIpType` references are members of DOMAIN Types; a type    *)
(* refers only to types of smaller number, as the derive macro can only    *)
(* build finite constants.  Field names are the indices of a struct's      *)
(* field sequence.                                                         *)
(***************************************************************************)
EXTENDS Verification, Integers, Sequences, SequencesExt

CONSTANTS
    Types,              \* the SomeIpType values, numbered
    Max8, Max16         \* u8::MAX, u16::MAX

(***************************************************************************)
(* LengthFieldSize is its number of bytes; Option<LengthFieldSize> adds    *)
(* None.                                                                   *)
(***************************************************************************)
None == 0
LengthFieldSize == {1, 2, 4}
OptSize == LengthFieldSize \cup {None}

Or(a, b) == IF a # None THEN a ELSE b

(* SomeIpTransforationProperties; `set` tells Some(..) from None.          *)
Properties == [set: BOOLEAN, array: OptSize, struct: OptSize, string: OptSize]
NoProps == [set |-> FALSE, array |-> None, struct |-> None, string |-> None]

TypeId == DOMAIN Types
Field == [id: Nat \cup {NoId}, type: TypeId]

SomeIpFixed == [kind: {"prim", "bool", "enum"}, size: {1, 2, 4, 8}]
SomeIpString == [kind: {"string"}, min: Nat, max: Nat, lfs: OptSize]
SomeIpSequence == [kind: {"seq"}, min: Nat, max: Nat, elem: TypeId, lfs: OptSize]
SomeIpStruct == [kind: {"struct"}, fields: Seq(Field), tlv: BOOLEAN,
                 wrapper: BOOLEAN, lfs: OptSize, props: Properties]
SomeIpType == SomeIpFixed \cup SomeIpString \cup SomeIpSequence \cup SomeIpStruct

ASSUME CapacityAssumption ==
    /\ Max8 \in Nat /\ Max16 \in Nat /\ Max32 \in Nat
    /\ Max8 < Max16 /\ Max16 < Max32

ASSUME TypesAssumption ==
    /\ TypeId \subseteq Nat
    /\ Types \in [TypeId -> SomeIpType]
    /\ \A t \in TypeId :
        /\ Types[t].kind = "seq" => Types[t].elem < t
        /\ Types[t].kind = "struct" =>
             \A i \in DOMAIN Types[t].fields : Types[t].fields[i].type < t

----------------------------------------------------------------------------
(***************************************************************************)
(* The options of SomeIpOptions; the byte order of integers is abstracted, *)
(* as no property depends on it.  Utf16Le stands for the two encodings     *)
(* with a byte order of their own, Utf16Le and Utf16Be.                    *)
(***************************************************************************)
Options == [defaultLfs: OptSize,
            legacyWireType: BOOLEAN,
            selection: {"AsConfigured", "Smallest"},
            encoding: {"Ascii", "Utf8", "Utf16", "Utf16Le"},
            bom: BOOLEAN,
            terminator: BOOLEAN,
            strictBool: BOOLEAN,
            tooMuchData: {"Fail", "Discard", "Keep"}]

(* verify_string_encoding: there is no BOM in ASCII.                       *)
VerifyStringEncoding(opts) == ~(opts.encoding = "Ascii" /\ opts.bom)

(* Bytes of a code unit, and of an encoded string of `units` code units    *)
(* with its byte order mark and terminator.                                *)
IsUtf16(opts) == opts.encoding \in {"Utf16", "Utf16Le"}
UnitSize(opts) == IF IsUtf16(opts) THEN 2 ELSE 1
BomSize(opts) == IF IsUtf16(opts) THEN 2 ELSE 3
EncodedSize(opts, units) ==
    (IF opts.bom THEN BomSize(opts) ELSE 0)
    + UnitSize(opts) * (units + (IF opts.terminator THEN 1 ELSE 0))

(* Results that are no size: the negative numbers below.                   *)
TooLong == -1        \* Err(TooLong)
LengthPanic == -2    \* minimum_length_for panics
MissingPanic == -3   \* "Required a length field size but none was specified"
Failed(x) == x \notin Nat

Capacity(size) == CASE size = 1 -> Max8 [] size = 2 -> Max16 [] OTHER -> Max32

MinimumLengthFor ==
    [len \in Nat |-> IF len <= Max8 THEN 1
                     ELSE IF len <= Max16 THEN 2
                     ELSE IF len <= Max32 THEN 4
                     ELSE LengthPanic]

BiggerSize(a, b) == IF a < b THEN b ELSE a

ApplyDefaults(opts, fromType) == Or(fromType, opts.defaultLfs)

(* Mutant of SelectLengthFieldSize: trusts the configured size.            *)
SelectLengthFieldSizeUnchecked(opts, configured, needed, tlv) ==
    IF tlv /\ opts.selection = "Smallest" THEN needed ELSE configured

(* `needed` is the minimum length for the number of bytes to hold.         *)
SelectLengthFieldSize(opts, configured, needed, tlv) ==
    IF Failed(needed) THEN needed
    ELSE IF tlv THEN IF opts.selection = "AsConfigured"
                     THEN BiggerSize(needed, configured) ELSE needed
    ELSE IF configured < needed THEN TooLong ELSE configured

----------------------------------------------------------------------------
(* Wire types: 0..3 are 1, 2, 4, 8 fixed bytes; 5..7 announce a length     *)
(* field of 1, 2, 4 bytes.                                                 *)
FromConfig == 4
WireType == 0 .. 7
LengthDelimited == 4 .. 7

FixedSize == <<1, 2, 4, 8>>
WireOfFixed(size) == CASE size = 1 -> 0 [] size = 2 -> 1 [] size = 4 -> 2 [] OTHER -> 3
WireOfLengthField(size) == CASE size = 1 -> 5 [] size = 2 -> 6 [] OTHER -> 7
LengthFieldOfWire(wire) ==
    CASE wire = 5 -> 1 [] wire = 6 -> 2 [] wire = 7 -> 4 [] OTHER -> None

(* A tag is a u16: three bits of wire type above twelve bits of id.        *)
Tag(wire, id) == wire * (MaxFieldId + 1) + id
TagWire(tag) == (tag \div (MaxFieldId + 1)) % 8

WireTypeOf(t) == IF IsFixed(t) THEN WireOfFixed(t.size) ELSE FromConfig

(* check: a length delimited value may come with any length field.         *)
Accepts(expected, wire) ==
    IF expected < FromConfig THEN wire = expected ELSE wire \in LengthDelimited

----------------------------------------------------------------------------
(***************************************************************************)
(* SomeIpSize: constant size, wanted length field and maximal length of a  *)
(* type at the site of its use, which is the type with the options, the    *)
(* is_in_tlv_struct and the transformation properties in force.            *)
(***************************************************************************)
(* A type, given which of those it refers to have a constant size.         *)
ConstSizeOf(ty, const) ==
    CASE ty.kind = "string" -> ty.min = ty.max
      [] ty.kind = "seq" -> ty.min = ty.max /\ const[ty.elem]
      [] ty.kind = "struct" ->
           ~ty.tlv /\ \A i \in DOMAIN ty.fields : const[ty.fields[i].type]
      [] OTHER -> TRUE

IsConstSize[t \in TypeId] == ConstSizeOf(Types[t], IsConstSize)

Site == [opts: Options, type: TypeId, tlv: BOOLEAN, props: Properties]

IsStruct(ty) == ty.kind = "struct"
IsWrapper(ty) == IsStruct(ty) /\ ty.wrapper

(* The length field size of a type: that of the transformation properties  *)
(* in force, else its own, else the default of the options.                *)
ConfiguredLengthField(s, ty) ==
    LET own == CASE ty.kind = "string" -> s.props.string
                 [] ty.kind = "seq" -> s.props.array
                 [] OTHER -> s.props.struct
    IN  ApplyDefaults(s.opts, Or(own, ty.lfs))

NeedsLengthField(s, ty) ==
    s.tlv \/ (IF IsStruct(ty) THEN ty.tlv ELSE ~IsConstSize[s.type])

WantedOf(s, ty) ==
    IF IsFixed(ty) \/ IsWrapper(ty) THEN None
    ELSE IF NeedsLengthField(s, ty) THEN Or(ConfiguredLengthField(s, ty), MissingPanic)
    ELSE IF IsStruct(ty) /\ ty.lfs # None THEN ConfiguredLengthField(s, ty)
    ELSE None

WantedLengthField == [s \in Site |-> WantedOf(s, Types[s.type])]

(* Sums and products of lengths, in which a failure wins.  They are        *)
(* numbers without bound: that a type of more than 2^64 bytes overflows    *)
(* the usize of max_len is left out.                                       *)
PlusLen(a, b) == IF Failed(a) THEN a ELSE IF Failed(b) THEN b ELSE a + b
TimesLen(n, a) == IF Failed(a) THEN a ELSE n * a

WithLengthField(s, wanted, len) ==
    IF Failed(wanted) THEN wanted
    ELSE IF wanted = None \/ Failed(len) THEN len
    ELSE PlusLen(len, SelectLengthFieldSize(s.opts, wanted, MinimumLengthFor[len], s.tlv))

(* The sum of the first lengths of a sequence, for each number of them.    *)
Sums(lens) ==
    LET upTo[n \in 0 .. Len(lens)] ==
            IF n = 0 THEN 0 ELSE PlusLen(upTo[n - 1], lens[n])
    IN  upTo
SumOf(lens) == Sums(lens)[Len(lens)]

(* max_len, given that of the parts: note that neither the two bytes of a  *)
(* field's tag nor a nested struct's own transformation properties are     *)
(* taken into account.                                                     *)
ContentOf(s, ty, longest) ==
    CASE ty.kind = "string" -> ty.max
      [] ty.kind = "seq" ->
           TimesLen(ty.max, longest[[s EXCEPT !.type = ty.elem, !.tlv = FALSE]])
      [] ty.kind = "struct" ->
           SumOf([i \in DOMAIN ty.fields |->
                     longest[[s EXCEPT !.type = ty.fields[i].type, !.tlv = ty.tlv]]])
      [] OTHER -> ty.size

MaxLen[s \in Site] ==
    WithLengthField(s, WantedLengthField[s], ContentOf(s, Types[s.type], MaxLen))

(* What the serializer reserves for the length field at a site: nothing,   *)
(* the bigger of the configured size and the size that the longest value   *)
(* needs, or a failure.                                                    *)
ReservedFor(wanted, longest) ==
    IF Failed(wanted) \/ wanted = None THEN wanted
    ELSE IF Failed(longest) THEN longest
    ELSE IF Failed(MinimumLengthFor[longest]) THEN MinimumLengthFor[longest]
    ELSE BiggerSize(wanted, MinimumLengthFor[longest])

Reservation == [s \in Site |-> ReservedFor(WantedLengthField[s], MaxLen[s])]

----------------------------------------------------------------------------
(* The types that verify accepts.                                          *)
Verify == VerifyTable(Types)
=============================================================================
