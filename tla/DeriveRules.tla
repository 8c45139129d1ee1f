---------------------------- MODULE DeriveRules ----------------------------
(***************************************************************************)
(* What the documentation of the derive macro (lib.rs) says of a           *)
(* declaration: whether it is allowed, and which type it has.  It is       *)
(* stated over the declaration as a whole, by recursion over the Rust      *)
(* type, where the macro goes through it step by step.                     *)
(***************************************************************************)
EXTENDS Derive

Wrong == [kind |-> "wrong"]

Known(a, keys) == \A key \in DOMAIN a[1] : key \in keys
IntOr(a, key, default) == IF Has(a, key) THEN Value(a, key).int ELSE default

(* The types of the values of an attribute's keys.                         *)
KeyType(key) == CASE key = "message_wrapper" -> "bool" [] key = "treat_as" -> "type"
                  [] key = "elements" -> "inner" [] OTHER -> "int"
WellTyped(a) ==
    \A key \in {"treat_as", "elements", "max_size", "min_size", "max_elements",
                "min_elements", "id"} \cup DOMAIN StructKeys :
        Has(a, key) => KeyType(key) \in DOMAIN Value(a, key)
ValidSize(a, key) == Has(a, key) => Value(a, key).int \in {1, 2, 4}

StringAllowed(a) ==
    /\ Has(a, "max_size") /\ WellTyped(a)
    /\ Known(a, {"max_size", "min_size", "length_field_size", "treat_as", "id"})
    /\ ValidSize(a, "length_field_size")
SequenceAllowed(a, keys) ==
    /\ WellTyped(a)
    /\ Known(a, keys \cup {"length_field_size", "elements", "treat_as", "id"})
    /\ ValidSize(a, "length_field_size")

SequenceOf(elem, min, max, lfs) ==
    IF elem = Wrong THEN Wrong
    ELSE [kind |-> "seq", min |-> min, max |-> max, elem |-> elem, lfs |-> lfs]

(* The SomeIpType of Rust type t with an attribute, as a tree.             *)
RECURSIVE Meaning(_, _, _), Meant(_, _, _)
Meaning(a, t, inTlv) ==
    IF Is(t, "ref") THEN Meaning(a, t.ref, inTlv)
    ELSE IF Is(t, "option") THEN IF inTlv THEN Meaning(a, t.option, inTlv) ELSE Wrong
    ELSE IF Is(t, "string") THEN
        IF a # NoAttr /\ StringAllowed(a)
        THEN [kind |-> "string", min |-> IntOr(a, "min_size", 0),
              max |-> Value(a, "max_size").int,
              lfs |-> IntOr(a, "length_field_size", 0)]
        ELSE Wrong
    ELSE IF Is(t, "vec") THEN
        IF /\ a # NoAttr /\ Has(a, "max_elements")
           /\ SequenceAllowed(a, {"max_elements", "min_elements"})
        THEN SequenceOf(Meant(ElementsOf(a), t.vec, FALSE),
                        IntOr(a, "min_elements", 0), Value(a, "max_elements").int,
                        IntOr(a, "length_field_size", 0))
        ELSE Wrong
    ELSE IF Is(t, "array") THEN
        IF a = NoAttr \/ SequenceAllowed(a, {})
        THEN SequenceOf(Meant(ElementsOf(a), t.array, FALSE),
                        t.len, t.len, IntOr(a, "length_field_size", 0))
        ELSE Wrong
    ELSE NamedType

(* An attribute's treat_as and id are looked at before the type is.        *)
Meant(a, t, inTlv) ==
    IF a = Malformed \/ (Has(a, "treat_as") /\ "type" \notin DOMAIN Value(a, "treat_as"))
    THEN Wrong ELSE Meaning(a, TreatedAs(a, t), inTlv)

AttrOf(member) == GetOptionalSomeIpAttr(member.attrs)
IdOf(member) == IF AttrOf(member) # Malformed /\ Has(AttrOf(member), "id")
                THEN Value(AttrOf(member), "id") ELSE [int |-> NoId]
ValidId(member) ==
    LET a == AttrOf(member)
    IN  a # Malformed /\ (Has(a, "id") => "int" \in DOMAIN Value(a, "id")
                                          /\ Value(a, "id").int \in 0 .. MaxFieldId)

StructDocumented ==
    LET ms == decl.members
        inTlv == \E i \in DOMAIN ms : Has(AttrOf(ms[i]), "id")
        a == GetOptionalSomeIpAttr(decl.attrs)
    IN  /\ ms # <<>>
        /\ a # Malformed
        /\ a # NoAttr => /\ WellTyped(a) /\ Known(a, DOMAIN StructKeys)
                         /\ \A key \in DOMAIN StructKeys \ {"message_wrapper"} : ValidSize(a, key)
        /\ \A i \in DOMAIN ms : ValidId(ms[i])
        /\ inTlv => \A i \in DOMAIN ms : Has(AttrOf(ms[i]), "id")
        /\ \A i, j \in DOMAIN ms : IdOf(ms[i]) = IdOf(ms[j]) => i = j \/ ~inTlv
        /\ \A i \in DOMAIN ms : Meant(AttrOf(ms[i]), ms[i].type, inTlv) # Wrong

NewtypeDocumented ==
    /\ Len(decl.members) = 1
    /\ Meant(GetOptionalSomeIpAttr(decl.attrs), decl.members[1].type, FALSE) # Wrong

EnumDocumented ==
    LET a == GetOptionalSomeIpAttr(decl.attrs)
        ms == decl.members
        ValueOf(i) == Value(AttrOf(ms[i]), "value").int
    IN  /\ a \notin {NoAttr, Malformed}
        /\ DOMAIN a[1] = {"raw_type"}
        /\ "type" \in DOMAIN Value(a, "raw_type")
        /\ Is(RawTypePath, "path") /\ RawTypePath.path \in RawTypes
        /\ \A i \in DOMAIN ms :
             /\ ms[i].unit
             /\ AttrOf(ms[i]) \notin {NoAttr, Malformed}
             /\ DOMAIN AttrOf(ms[i])[1] = {"value"}
             /\ "int" \in DOMAIN Value(AttrOf(ms[i]), "value")
             /\ ValueOf(i) \in ValuesOf(RawTypePath.path)
        /\ \A i, j \in DOMAIN ms : ValueOf(i) = ValueOf(j) => i = j

Documented == CASE decl.kind = "struct" -> StructDocumented
                [] decl.kind = "newtype" -> NewtypeDocumented
                [] decl.kind = "enum" -> EnumDocumented
                [] OTHER -> FALSE

(* A declaration compiles if and only if the documentation allows it: none *)
(* of the errors is lost on the way, whatever field, nesting level or pass *)
(* over the attributes finds it, and none is raised without reason.        *)
CompilesAsDocumented == pc = "done" => (~errors <=> Documented)

(* The tree below type t of the output.                                    *)
RECURSIVE Tree(_)
Tree(t) == IF types[t].kind = "seq" THEN [types[t] EXCEPT !.elem = Tree(@)] ELSE types[t]

(* What compiles is the type that was declared: every field has its own    *)
(* type and id, no bound or length field size has slipped to another       *)
(* level, and what stands in front of a field does not matter to it.       *)
DerivesWhatIsDeclared ==
    Accepted => CASE decl.kind = "newtype" ->
                       Tree(Len(types)) = Meant(GetOptionalSomeIpAttr(decl.attrs),
                                                decl.members[1].type, FALSE)
                  [] decl.kind = "struct" ->
                       LET struct == Last(types)
                           a == GetOptionalSomeIpAttr(decl.attrs)
                       IN
                       /\ struct.lfs = IntOr(a, "length_field_size", 0)
                       /\ struct.wrapper = (Has(a, "message_wrapper") /\ Value(a, "message_wrapper").bool)
                       /\ struct.props.set = \E key \in PropKeys : Has(a, key)
                       /\ struct.props.array = IntOr(a, "arrays_length_field_size", 0)
                       /\ struct.props.struct = IntOr(a, "structs_length_field_size", 0)
                       /\ struct.props.string = IntOr(a, "strings_length_field_size", 0)
                       /\ struct.tlv = \E i \in DOMAIN decl.members : Has(AttrOf(decl.members[i]), "id")
                       /\ \A i \in DOMAIN decl.members :
                          LET m == decl.members[i] IN
                          /\ struct.fields[i].id = IdOf(m).int
                          /\ Tree(struct.fields[i].type) = Meant(AttrOf(m), m.type, struct.tlv)
                  [] OTHER -> TRUE
=============================================================================
