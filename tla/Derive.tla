------------------------------- MODULE Derive -------------------------------
(***************************************************************************)
(* The derive macro (serde_someip_derive) as a state machine: from the     *)
(* declaration of a struct, newtype or enum to its SomeIpType.             *)
(*                                                                         *)
(* An error is a compile_error! in the output.  Some replace the whole     *)
(* output, others a field or variant only, and the macro goes on: either   *)
(* way the declaration does not compile (`errors`).                        *)
(*                                                                         *)
(* `types` is the output, a table as in module SomeIpTypes: what a struct  *)
(* or sequence refers to stands in front of it.  The recursion of          *)
(* derive_type is the stack `open` of sequences whose element type is      *)
(* being derived.                                                          *)
(***************************************************************************)
EXTENDS Attributes, Verification, SequencesExt

CONSTANTS
    Declarations,   \* the items that carry #[derive(SomeIp)]
    NamedType,      \* SOMEIP_TYPE of a type that is known by name
    Half,           \* 2^(w - 1) for a raw type of w bits
    MaxU16          \* u16::MAX

VARIABLES
    decl,           \* the item
    attr,           \* the attribute of the field or element type
    next,           \* the field or variant that is derived
    encounteredIds, \* encountered_ids
    seen,           \* seen_ids or seen_values
    members,        \* derived_fields or values
    id,             \* id of the field
    ty,             \* the Rust type that derive_type looks at
    tlv,            \* its is_in_tlv_struct
    open,           \* the sequences around it
    types,          \* the SomeIpTypes so far
    errors,         \* whether there is a compile_error! in the output
    pc

vars == <<decl, attr, next, encounteredIds, seen, members, id, ty, tlv, open,
          types, errors, pc>>

(* Two variants of an enum never have the same name.                       *)
ASSUME DeclarationsAssumption ==
    \A d \in Declarations :
        /\ d.kind \in {"struct", "newtype", "enum", "union"}
        /\ d.members \in Seq(Range(d.members))
        /\ d.kind = "enum" => \A i, j \in DOMAIN d.members :
               d.members[i].name = d.members[j].name => i = j

ASSUME WidthsAssumption ==
    /\ MaxU16 \in Nat
    /\ \A raw \in {"u8", "u16", "u32", "u64", "i8", "i16", "i32", "i64"} : Half[raw] \in Nat

Init ==
    /\ decl \in Declarations
    /\ attr = NoAttr
    /\ next = 1
    /\ encounteredIds = 0
    /\ seen = {}
    /\ members = <<>>
    /\ id = NoId
    /\ ty = [path |-> "none"]
    /\ tlv = FALSE
    /\ open = <<>>
    /\ types = <<>>
    /\ errors = FALSE
    /\ pc = "item"

(* The whole output is a compile_error!.                                   *)
Abort ==
    /\ errors' = TRUE
    /\ pc' = "done"

Go(to) ==
    /\ pc' = to
    /\ UNCHANGED errors

(* derive_someip and structs::derive; `Fields::Unit` is empty.             *)
DeriveSomeIp ==
    /\ pc = "item"
    /\ \/ decl.kind = "union" /\ Abort
       \/ decl.kind \in {"struct", "newtype"} /\ decl.members = <<>> /\ Abort
       \/ decl.kind \in {"struct", "newtype"} /\ decl.members # <<>> /\ Go(decl.kind)
       \/ decl.kind = "enum" /\ Go("enum")
    /\ UNCHANGED <<decl, attr, next, encounteredIds, seen, members, id, ty, tlv,
                   open, types>>

Member == decl.members[next]
AtMember == next \in DOMAIN decl.members

(* Mutant of Push: the next one is the same again.                         *)
PushAgain(member) ==
    /\ members' = Append(members, member)
    /\ next' = next

(* A derived field or enum value is added to those before it.              *)
Push(member) ==
    /\ members' = Append(members, member)
    /\ next' = next + 1

----------------------------------------------------------------------------
(***************************************************************************)
(* Structs with named fields: derive_normal_struct.                        *)
(***************************************************************************)
PropKeys == {"arrays_length_field_size", "structs_length_field_size",
             "strings_length_field_size"}
StructKeys == [key \in PropKeys \cup {"length_field_size", "message_wrapper"} |->
                  IF key = "message_wrapper" THEN "bool" ELSE "int"]
StructAttr == Checked(GetOptionalSomeIpAttr(decl.attrs), <<>>, StructKeys, {})

(* get_transformation_props                                                *)
TransformationProps(a) ==
    [set |-> \E key \in PropKeys : Has(a, key),
     array |-> LengthFieldSizeOf(a, "arrays_length_field_size"),
     struct |-> LengthFieldSizeOf(a, "structs_length_field_size"),
     string |-> LengthFieldSizeOf(a, "strings_length_field_size")]

StructAttribute ==
    LET sized == Sized(StructAttr, PropKeys \cup {"length_field_size"})
    IN  /\ pc = "struct"
        /\ \/ (StructAttr = Malformed \/ ~sized) /\ Abort
           \/ StructAttr # Malformed /\ sized /\ Go("field")
        /\ UNCHANGED <<decl, attr, next, encounteredIds, seen, members, id, ty,
                       tlv, open, types>>

FieldAttr == Checked(GetOptionalSomeIpAttr(Member.attrs), <<>>, [id |-> "int"], {"*"})

(* Mutant of IdTaken: ids are not compared.                                *)
IdTooBig(parsed) == parsed > MaxFieldId

(* An id that an earlier field has, or that is wider than twelve bits.     *)
IdTaken(parsed) == parsed \in seen \/ parsed > MaxFieldId

(* The id of a field: without one, not a u16, or a u16 that may be taken   *)
(* or too big.  A `?` gives up the struct, where other errors are put in   *)
(* the place of the id.                                                    *)
FieldId ==
    LET parsed == Value(FieldAttr, "id").int
    IN  /\ pc = "field"
        /\ AtMember
        /\ \/ FieldAttr = Malformed /\ Abort /\ UNCHANGED <<encounteredIds, seen, id>>
           \/ /\ FieldAttr # Malformed /\ ~Has(FieldAttr, "id")
              /\ id' = NoId
              /\ Go("type")
              /\ UNCHANGED <<encounteredIds, seen>>
           \/ /\ FieldAttr # Malformed /\ Has(FieldAttr, "id")
              /\ encounteredIds' = encounteredIds + 1
              /\ \/ parsed \notin 0 .. MaxU16 /\ Abort /\ UNCHANGED <<seen, id>>
                 \/ /\ parsed \in 0 .. MaxU16
                    /\ seen' = seen \cup {parsed}
                    /\ id' = parsed
                    /\ errors' = (errors \/ IdTaken(parsed))
                    /\ pc' = "type"
        /\ attr' = FieldAttr
        /\ ty' = Member.type
        /\ tlv' = (encounteredIds' > 0)
        /\ UNCHANGED <<decl, next, members, open, types>>

(* Mutant of EndStruct: some fields may have ids and others none.          *)
EndTaggedStruct ==
    LET a == StructAttr
    IN  /\ pc = "field"
        /\ ~AtMember
        /\ Go("done")
        /\ types' = Append(types,
              [kind |-> "struct", fields |-> members, tlv |-> encounteredIds > 0,
               wrapper |-> Has(a, "message_wrapper") /\ Value(a, "message_wrapper").bool,
               lfs |-> LengthFieldSizeOf(a, "length_field_size"),
               props |-> TransformationProps(a)])
        /\ UNCHANGED <<decl, attr, next, encounteredIds, seen, members, id, ty,
                 tlv, open>>

(* With an id for some fields and not for all there is no struct.          *)
EndStruct ==
    LET a == StructAttr
    IN  /\ pc = "field"
        /\ ~AtMember
        /\ \/ encounteredIds \notin {0, Len(members)} /\ Abort /\ UNCHANGED types
           \/ /\ encounteredIds \in {0, Len(members)}
              /\ Go("done")
              /\ types' = Append(types,
                    [kind |-> "struct", fields |-> members, tlv |-> encounteredIds > 0,
                     wrapper |-> Has(a, "message_wrapper") /\ Value(a, "message_wrapper").bool,
                     lfs |-> LengthFieldSizeOf(a, "length_field_size"),
                     props |-> TransformationProps(a)])
        /\ UNCHANGED <<decl, attr, next, encounteredIds, seen, members, id, ty,
                       tlv, open>>

(* derive_newtype_struct                                                   *)
Newtype ==
    LET a == GetOptionalSomeIpAttr(decl.attrs)
    IN  /\ pc = "newtype"
        /\ \/ (Len(decl.members) # 1 \/ a = Malformed) /\ Abort
           \/ Len(decl.members) = 1 /\ a # Malformed /\ Go("type")
        /\ attr' = a
        /\ ty' = decl.members[1].type
        /\ tlv' = FALSE
        /\ UNCHANGED <<decl, next, encounteredIds, seen, members, id, open, types>>

----------------------------------------------------------------------------
(***************************************************************************)
(* derive_type: of the type of a field or newtype, and recursively of what *)
(* it is made of.                                                          *)
(***************************************************************************)

(* An error goes through all the callers up to the field, and is put in    *)
(* the place of its type; for a newtype it is the output.                  *)
TypeError ==
    /\ errors' = TRUE
    /\ open' = <<>>
    /\ \/ /\ decl.kind = "newtype"
          /\ pc' = "done"
          /\ UNCHANGED <<members, next>>
       \/ /\ decl.kind = "struct"
          /\ pc' = "field"
          /\ Push([id |-> id, type |-> 0])
    /\ UNCHANGED <<attr, ty, tlv, types>>

Deriving == <<decl, encounteredIds, seen, id>>

(* handle_treat_as_attribute                                               *)
HandleTreatAs ==
    /\ pc = "type"
    /\ \E a \in {Checked(attr, <<>>, [treat_as |-> "type"], {"*"})} :
          \/ a = Malformed /\ TypeError
          \/ /\ a # Malformed
             /\ ty' = TreatedAs(attr, ty)
             /\ Go("resolve")
             /\ UNCHANGED <<attr, tlv, open, types, members, next>>
    /\ UNCHANGED Deriving

(* resolve_type                                                            *)
ResolveType ==
    /\ pc = "resolve"
    /\ Is(ty, "ref")
    /\ ty' = ty.ref
    /\ UNCHANGED <<Deriving, attr, tlv, open, types, members, next, errors, pc>>

(* Mutant of DeriveOption: the Option is derived again.                    *)
DeriveOptionAgain ==
    /\ pc = "resolve"
    /\ Is(ty, "option")
    /\ \/ ~tlv /\ TypeError
       \/ /\ tlv
          /\ ty' = ty
          /\ Go("type")
          /\ UNCHANGED <<attr, tlv, open, types, members, next>>
    /\ UNCHANGED Deriving

(* An Option is derived as what it may hold, with the same attribute.      *)
DeriveOption ==
    /\ pc = "resolve"
    /\ Is(ty, "option")
    /\ \/ ~tlv /\ TypeError
       \/ /\ tlv
          /\ ty' = ty.option
          /\ Go("type")
          /\ UNCHANGED <<attr, tlv, open, types, members, next>>
    /\ UNCHANGED Deriving

(* A type that needs none other to be complete.                            *)
Derived(type) ==
    /\ types' = Append(types, type)
    /\ Go("built")
    /\ UNCHANGED <<attr, ty, tlv, open, members, next>>

DeriveStringType ==
    LET a == Checked(attr, [max_size |-> "int"],
                     [min_size |-> "int", length_field_size |-> "int"], {"treat_as", "id"})
        bad == a \in {NoAttr, Malformed} \/ ~Sized(a, {"length_field_size"})
    IN  /\ pc = "resolve"
        /\ Is(ty, "string")
        /\ \/ bad /\ TypeError
           \/ ~bad /\ Derived([kind |-> "string", min |-> MinSize(a, "min_size"),
                               max |-> Value(a, "max_size").int,
                               lfs |-> LengthFieldSizeOf(a, "length_field_size")])
        /\ UNCHANGED Deriving

(* The element type of a sequence or array is derived next.                *)
DeriveElement(elem, sequence) ==
    /\ open' = Append(open, sequence)
    /\ attr' = ElementsOf(attr)
    /\ ty' = elem
    /\ tlv' = FALSE
    /\ Go("type")
    /\ UNCHANGED <<types, members, next>>

DeriveSequenceType ==
    LET a == Checked(attr, [max_elements |-> "int"],
                     [min_elements |-> "int", length_field_size |-> "int", elements |-> "inner"],
                     {"treat_as", "id"})
        bad == a \in {NoAttr, Malformed} \/ ~Sized(a, {"length_field_size"})
    IN  /\ pc = "resolve"
        /\ Is(ty, "vec")
        /\ \/ bad /\ TypeError
           \/ ~bad /\ DeriveElement(ty.vec,
                         [min |-> MinSize(a, "min_elements"),
                          max |-> Value(a, "max_elements").int,
                          lfs |-> LengthFieldSizeOf(a, "length_field_size")])
        /\ UNCHANGED Deriving

DeriveArrayType ==
    LET a == Checked(attr, <<>>, [length_field_size |-> "int", elements |-> "inner"],
                     {"treat_as", "id"})
        bad == a = Malformed \/ ~Sized(a, {"length_field_size"})
    IN  /\ pc = "resolve"
        /\ Is(ty, "array")
        /\ \/ bad /\ TypeError
           \/ ~bad /\ DeriveElement(ty.array,
                         [min |-> ty.len, max |-> ty.len,
                          lfs |-> LengthFieldSizeOf(a, "length_field_size")])
        /\ UNCHANGED Deriving

(* SOMEIP_TYPE of a type that is named; its attribute is not looked at.    *)
DeriveNamedType ==
    /\ pc = "resolve"
    /\ Is(ty, "path")
    /\ Derived(NamedType)
    /\ UNCHANGED Deriving

(* Mutant of EndSequence: the outermost sequence is completed first.       *)
EndOuterSequence ==
    /\ pc = "built"
    /\ open # <<>>
    /\ types' = Append(types,
          [kind |-> "seq", min |-> Head(open).min, max |-> Head(open).max,
           elem |-> Len(types), lfs |-> Head(open).lfs])
    /\ open' = Tail(open)
    /\ UNCHANGED <<Deriving, attr, ty, tlv, members, next, errors, pc>>

(* The element type is complete and with it the sequence around it.        *)
EndSequence ==
    /\ pc = "built"
    /\ open # <<>>
    /\ types' = Append(types,
          [kind |-> "seq", min |-> Last(open).min, max |-> Last(open).max,
           elem |-> Len(types), lfs |-> Last(open).lfs])
    /\ open' = Front(open)
    /\ UNCHANGED <<Deriving, attr, ty, tlv, members, next, errors, pc>>

EndType ==
    /\ pc = "built"
    /\ open = <<>>
    /\ \/ /\ decl.kind = "newtype"
          /\ Go("done")
          /\ UNCHANGED <<members, next>>
       \/ /\ decl.kind = "struct"
          /\ Go("field")
          /\ Push([id |-> id, type |-> Len(types)])
    /\ UNCHANGED <<Deriving, attr, ty, tlv, open, types>>
----------------------------------------------------------------------------
(***************************************************************************)
(* Enums (enums.rs, SomeIpEnum of types.rs).                               *)
(***************************************************************************)
Unsigned == {"u8", "u16", "u32", "u64"}
Signed == {"i8", "i16", "i32", "i64"}
RawTypes == Unsigned \cup Signed
SizeOf(raw) == CASE raw \in {"u8", "i8"} -> 1 [] raw \in {"u16", "i16"} -> 2
                 [] raw \in {"u32", "i32"} -> 4 [] OTHER -> 8

ValuesOf(raw) ==
    IF raw \in Unsigned THEN 0 .. 2 * Half[raw] - 1 ELSE -Half[raw] .. Half[raw] - 1

(* RawType::parse casts to the unsigned type of the same width, as writing *)
(* the value does; reading casts back.                                     *)
ToBits(raw, value) == IF value < 0 THEN value + 2 * Half[raw] ELSE value
FromBits(raw, bits) ==
    IF raw \in Signed /\ bits >= Half[raw] THEN bits - 2 * Half[raw] ELSE bits

EnumAttr == Checked(GetOptionalSomeIpAttr(decl.attrs), [raw_type |-> "type"], <<>>, {})
RawTypePath == Value(EnumAttr, "raw_type").type

(* parse_raw_type                                                          *)
EnumAttribute ==
    LET supported == /\ EnumAttr \notin {NoAttr, Malformed}
                     /\ Is(RawTypePath, "path") /\ RawTypePath.path \in RawTypes
    IN  /\ pc = "enum"
        /\ \/ ~supported /\ Abort
           \/ supported /\ Go("variant")
        /\ UNCHANGED <<decl, attr, next, encounteredIds, seen, members, id, ty,
                       tlv, open, types>>

VariantAttr == Checked(GetOptionalSomeIpAttr(Member.attrs), [value |-> "int"], <<>>, {})

(* Mutant of ValueTaken: values are not compared.                          *)
NoValueTaken(bits) == FALSE

ValueTaken(bits) == bits \in seen

(* parse_value: an error takes the place of the variant.                   *)
ParseValue ==
    LET raw == RawTypePath.path
        value == Value(VariantAttr, "value").int
        parsed == Member.unit /\ VariantAttr \notin {NoAttr, Malformed} /\ value \in ValuesOf(raw)
    IN  /\ pc = "variant"
        /\ AtMember
        /\ \/ /\ ~parsed
              /\ errors' = TRUE
              /\ Push([name |-> Member.name, value |-> 0])
              /\ UNCHANGED seen
           \/ /\ parsed
              /\ seen' = seen \cup {ToBits(raw, value)}
              /\ errors' = (errors \/ ValueTaken(ToBits(raw, value)))
              /\ Push([name |-> Member.name, value |-> value])
        /\ UNCHANGED <<decl, attr, encounteredIds, id, ty, tlv, open, types, pc>>

EndEnum ==
    /\ pc = "variant"
    /\ ~AtMember
    /\ types' = Append(types, [kind |-> "enum", size |-> SizeOf(RawTypePath.path)])
    /\ Go("done")
    /\ UNCHANGED <<decl, attr, next, encounteredIds, seen, members, id, ty, tlv, open>>

(* name_to_value and value_to_name: the first entry that matches.          *)
First(S) == CHOOSE i \in S : \A j \in S : i <= j
NameToValue(values, name) ==
    values[First({i \in DOMAIN values : values[i].name = name})].value
ValueToName(values, value) ==
    values[First({i \in DOMAIN values : values[i].value = value})].name

----------------------------------------------------------------------------
Done == pc = "done" /\ UNCHANGED vars

Step ==
    \/ DeriveSomeIp
    \/ StructAttribute
    \/ FieldId
    \/ EndStruct
    \/ Newtype
    \/ HandleTreatAs
    \/ ResolveType
    \/ DeriveOption
    \/ DeriveStringType
    \/ DeriveSequenceType
    \/ DeriveArrayType
    \/ DeriveNamedType
    \/ EndSequence
    \/ EndType
    \/ EnumAttribute
    \/ ParseValue
    \/ EndEnum

Next == Step \/ Done

Spec == Init /\ [][Next]_vars

(* The compiler runs the macro.                                            *)
FairSpec == Spec /\ WF_vars(Step)

----------------------------------------------------------------------------
(***************************************************************************)
(* Properties.                                                             *)
(***************************************************************************)
Accepted == pc = "done" /\ ~errors

Pcs == {"item", "struct", "newtype", "enum", "field", "type", "resolve", "built",
        "variant", "done"}

TypeOK ==
    /\ next \in 1 .. Len(decl.members) + 1
    /\ encounteredIds \in 0 .. Len(decl.members)
    /\ seen \subseteq Nat
    /\ Len(members) = next - 1
    /\ id \in Nat \cup {NoId}
    /\ tlv \in BOOLEAN /\ errors \in BOOLEAN
    /\ \A i \in DOMAIN open : open[i].lfs \in {0, 1, 2, 4}
    /\ pc \in Pcs

(* The table that compiles is one that verify accepts, unless the bounds   *)
(* of a string or sequence are wrong, which the macro does not look at:    *)
(* all fields have ids or none has, no id is above 0xFFF, and so in all    *)
(* the types inside.                                                       *)
BoundsInOrder(type) ==
    type.kind \in {"string", "seq"} => type.min <= type.max /\ type.max <= Max32
AcceptedIsVerifiable ==
    Accepted /\ (\A i \in DOMAIN types : BoundsInOrder(types[i]))
        => VerifyTable(types)[Len(types)]

(* No tag of a struct's fields stands for two of them, and none is wider   *)
(* than twelve bits: then the wire type above it is what it is.            *)
IdsTellFieldsApart ==
    Accepted /\ decl.kind = "struct" =>
        \A i, j \in DOMAIN members :
            /\ members[i].id = members[j].id => i = j \/ members[i].id = NoId
            /\ members[i].id <= MaxFieldId
            /\ (members[i].id = NoId) = (members[j].id = NoId)

(* Each variant is read back from what is written for it: serialize looks  *)
(* the name up and casts, deserialize casts back and looks the value up.   *)
EnumsRoundTrip ==
    Accepted /\ decl.kind = "enum" =>
        LET raw == RawTypePath.path
        IN  \A i \in DOMAIN members :
              LET bits == ToBits(raw, NameToValue(members, members[i].name))
              IN  ValueToName(members, FromBits(raw, bits)) = members[i].name

(* The macro ends, unless treat_as says Option for the field of a TLV      *)
(* struct: the Option is stripped and the attribute that says so is kept.  *)
TreatsAsOption(data) ==
    "treat_as" \in DOMAIN data /\ "type" \in DOMAIN data["treat_as"]
    /\ Is(data["treat_as"].type, "option")
OptionsAreNotTreated ==
    \A i \in DOMAIN decl.members :
        LET attrs == decl.members[i].attrs
        IN  attrs # <<>> => ~TreatsAsOption(attrs[1].data)
Ends == OptionsAreNotTreated => <>(pc = "done")
=============================================================================
