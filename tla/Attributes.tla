----------------------------- MODULE Attributes -----------------------------
(***************************************************************************)
(* #[someip(..)] attributes (attribute.rs) and Rust types as the derive    *)
(* macro tells them apart (structs.rs).                                    *)
(*                                                                         *)
(* Values, attributes and types are records told apart by their fields: a  *)
(* value is [int |-> n], [bool |-> b], [type |-> t] or [inner |-> data],   *)
(* the data of an attribute maps keys to values, and a type is             *)
(* [option |-> t], [vec |-> t] (or slice), [array |-> t, len |-> n],       *)
(* [ref |-> t] (or pointer), [string |-> name] or [path |-> name].         *)
(***************************************************************************)
EXTENDS Integers, Sequences

(* An Option<SomeIpAttribute>, and the result of a parse that failed.      *)
NoAttr == <<>>
Some(data) == <<data>>
Malformed == <<NoAttr, NoAttr>>

Has(attr, key) == attr # NoAttr /\ key \in DOMAIN attr[1]
Value(attr, key) == attr[1][key]

(* get_optional_someip_attr: of several attributes someip the first is     *)
(* parsed.  Tokens without the syntax of an attribute, or with a key that  *)
(* comes twice, do not parse.                                              *)
GetOptionalSomeIpAttr(attributes) ==
    IF attributes = <<>> THEN NoAttr
    ELSE IF attributes[1].parses THEN Some(attributes[1].data) ELSE Malformed

(* Mutant of Check: unknown keys are let through.                          *)
CheckKnown(attr, required, optional, ignored) ==
    /\ \A key \in DOMAIN required : Has(attr, key) /\ required[key] \in DOMAIN Value(attr, key)
    /\ \A key \in DOMAIN optional : Has(attr, key) => optional[key] \in DOMAIN Value(attr, key)

(* SomeIpAttribute::check: `required` and `optional` map keys to the type  *)
(* of their values; "*" ignores all other keys.                            *)
Check(attr, required, optional, ignored) ==
    /\ \A key \in DOMAIN required : Has(attr, key) /\ required[key] \in DOMAIN Value(attr, key)
    /\ \A key \in DOMAIN optional : Has(attr, key) => optional[key] \in DOMAIN Value(attr, key)
    /\ \/ "*" \in ignored
       \/ \A key \in DOMAIN attr[1] : key \in DOMAIN required \cup DOMAIN optional \cup ignored

(* An attribute that must have passed the check, if there is one.          *)
Checked(attr, required, optional, ignored) ==
    IF attr \in {NoAttr, Malformed} \/ Check(attr, required, optional, ignored)
    THEN attr ELSE Malformed

(* to_length_field_size of an optional key: None, 1, 2, 4 or an error.     *)
BadSize == -1
LengthFieldSizeOf(attr, key) ==
    IF ~Has(attr, key) THEN 0
    ELSE IF Value(attr, key).int \in {1, 2, 4} THEN Value(attr, key).int ELSE BadSize
Sized(attr, keys) == \A key \in keys : LengthFieldSizeOf(attr, key) # BadSize

(* get_min_sizes                                                           *)
MinSize(attr, key) == IF Has(attr, key) THEN Value(attr, key).int ELSE 0

(* The `elements` of a sequence's or array's attribute.                    *)
ElementsOf(attr) ==
    IF Has(attr, "elements") THEN Some(Value(attr, "elements").inner) ELSE NoAttr

Is(ty, constructor) == constructor \in DOMAIN ty

(* The type that treat_as puts in the place of the declared one.           *)
TreatedAs(attr, ty) == IF Has(attr, "treat_as") THEN Value(attr, "treat_as").type ELSE ty
=============================================================================
