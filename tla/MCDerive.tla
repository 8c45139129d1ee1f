------------------------------ MODULE MCDerive ------------------------------
(***************************************************************************)
(* Declarations on which TLC checks the derive macro.                      *)
(***************************************************************************)
EXTENDS DeriveRules

Int_(n) == [int |-> n]
Parsed(data) == <<[parses |-> TRUE, data |-> data]>>
Unparsed == <<[parses |-> FALSE, data |-> <<>>]>>

Named == [path |-> "u32"]
String == [string |-> "String"]
Vec(t) == [vec |-> t]
Array(t) == [array |-> t, len |-> 2]
Opt(t) == [option |-> t]
Ref(t) == [ref |-> t]

MaxSize == [max_size |-> Int_(3)]
Strings == [max_elements |-> Int_(2), min_elements |-> Int_(1), elements |-> [inner |-> MaxSize]]

(* Types with attributes that fit them, that lack something, that have     *)
(* something more or of another type.                                      *)
Field(attrs, t) == [attrs |-> attrs, type |-> t]
Bodies == {
    Field(<<>>, Named), Field(<<>>, String), Field(<<>>, Array(Named)), Field(<<>>, Opt(Named)),
    Field(Parsed(<<>>), Array(String)), Field(Unparsed, Named),
    Field(Parsed(MaxSize), Ref(String)), Field(Parsed(MaxSize), Opt(String)),
    Field(Parsed(MaxSize), Vec(Named)), Field(Parsed([unknown |-> Int_(1)]), Named),
    Field(Parsed([max_size |-> Int_(3), min_size |-> Int_(1), length_field_size |-> Int_(2)]), String),
    Field(Parsed([max_size |-> Int_(1), min_size |-> Int_(2)]), String),
    Field(Parsed([max_size |-> Int_(3), length_field_size |-> Int_(3)]), String),
    Field(Parsed([max_size |-> [bool |-> TRUE]]), String),
    Field(Parsed([max_size |-> Int_(3), unknown |-> Int_(1)]), String),
    Field(Parsed(Strings), Vec(String)), Field(Parsed(Strings), Opt(Vec(Ref(String)))),
    Field(Parsed(Strings), Vec(Opt(String))),
    Field(Parsed([max_elements |-> Int_(4)]), Vec(Named)),
    Field(Parsed([max_elements |-> Int_(4)]), Vec(String)),
    Field(Parsed([max_elements |-> Int_(4), elements |-> [inner |-> Strings], length_field_size |-> Int_(1)]),
          Vec(Vec(String))),
    Field(Parsed([elements |-> [inner |-> Strings], length_field_size |-> Int_(4)]), Array(Vec(String))),
    Field(Parsed([max_elements |-> Int_(4), elements |-> Int_(1)]), Vec(Named)),
    Field(Parsed([treat_as |-> [type |-> Vec(Named)], max_elements |-> Int_(4)]), Named),
    Field(Parsed([treat_as |-> [type |-> String], max_size |-> Int_(3)]), Opt(Named)),
    Field(Parsed([treat_as |-> Int_(1)]), Named),
    Field(Parsed([treat_as |-> [type |-> Opt(String)], max_size |-> Int_(3)]), Named) }

(* The same with an id, which may be too big, negative or no number.       *)
WithId(body, value) ==
    [body EXCEPT !.attrs =
        IF body.attrs = <<>> THEN Parsed([id |-> value])
        ELSE [k \in DOMAIN body.attrs |->
                [body.attrs[k] EXCEPT !.data =
                    [key \in DOMAIN @ \cup {"id"} |-> IF key = "id" THEN value ELSE @[key]]]]]

Ids == {Int_(0), Int_(4095)}
WrongIds == {Int_(4096), Int_(-1), Int_(65536), [bool |-> TRUE]}

Plain == Field(<<>>, Named)
TlvStrings == WithId(Field(Parsed(Strings), Opt(Vec(String))), Int_(7))
Fields == Bodies \cup {WithId(body, value) : body \in Bodies, value \in Ids}
          \cup {WithId(Plain, value) : value \in WrongIds}

Item(kind, attributes, parts) ==
    [kind |-> kind, attrs |-> attributes, members |-> parts]

StructAttrs == {
    <<>>, Unparsed, Parsed(<<>>), Parsed([unknown |-> Int_(1)]),
    Parsed([message_wrapper |-> [bool |-> TRUE], length_field_size |-> Int_(2)]),
    Parsed([strings_length_field_size |-> Int_(1), structs_length_field_size |-> Int_(4)]),
    Parsed([arrays_length_field_size |-> Int_(3)]),
    Parsed([length_field_size |-> [bool |-> FALSE]]),
    Parsed([message_wrapper |-> Int_(1)]) }

(* Several attributes: the first is taken.                                 *)
Twice == Field(Parsed([id |-> Int_(1)]) \o Parsed(MaxSize), Named)

(* Fields of each kind to stand in front of and behind all others.         *)
Neighbours == {Plain, TlvStrings, Twice, WithId(Plain, Int_(0)), WithId(Plain, Int_(4096)),
               Field(<<>>, String), Field(Unparsed, Named), Field(Parsed(Strings), Vec(String))}

Structs ==
    {Item("struct", <<>>, <<f>>) : f \in Fields}
    \cup {Item("struct", <<>>, <<f, g>>) : f \in Fields, g \in Neighbours}
    \cup {Item("struct", <<>>, <<f, g>>) : f \in Neighbours, g \in Fields}
    \cup {Item("struct", <<>>, <<f, TlvStrings, g>>) : f, g \in {WithId(Plain, v) : v \in Ids} \cup {Plain, Twice}}
    \cup {Item("struct", a, <<f>>) : a \in StructAttrs, f \in {Plain, TlvStrings}}
    \cup {Item("struct", <<>>, <<>>), Item("union", <<>>, <<Plain>>)}

Newtypes ==
    {Item("newtype", body.attrs, <<body>>) : body \in Bodies}
    \cup {Item("newtype", <<>>, <<>>), Item("newtype", <<>>, <<Plain, Plain>>)}

Variant(name, unit, attrs) == [name |-> name, unit |-> unit, attrs |-> attrs]
Valued(n) == Parsed([value |-> Int_(n)])
VariantAttrs ==
    {Valued(n) : n \in {-129, -128, -1, 0, 127, 128, 255, 256}}
    \cup {<<>>, Unparsed, Parsed([value |-> Int_(1), unknown |-> Int_(1)]),
          Parsed([value |-> [bool |-> TRUE]])}
RawTypeAttrs ==
    {Parsed([raw_type |-> [type |-> [path |-> raw]]]) : raw \in {"u8", "i8", "u16", "i64", "f32"}}
Enums ==
    {Item("enum", raw, <<Variant("A", TRUE, a), Variant("B", TRUE, b)>>) :
        raw \in RawTypeAttrs, a, b \in VariantAttrs}
    \cup {Item("enum", raw, <<Variant("A", TRUE, Valued(1)), Variant("B", FALSE, Valued(2))>>) :
        raw \in RawTypeAttrs \cup {<<>>, Unparsed, Parsed([raw_type |-> Int_(8)]),
                                   Parsed([raw_type |-> [type |-> Vec(Named)]]),
                                   Parsed([raw_type |-> [type |-> [path |-> "u8"]], unknown |-> Int_(1)])}}
    \cup {Item("enum", raw, <<Variant("A", TRUE, Valued(-128)), Variant("B", TRUE, Valued(127)),
                              Variant("C", TRUE, Valued(-1))>>) : raw \in RawTypeAttrs}

MCDeclarations == Structs \cup Newtypes \cup Enums
MCNamedType == [kind |-> "prim", size |-> 4]
MCHalf == [raw \in RawTypes |-> IF SizeOf(raw) = 1 THEN 128 ELSE 32768]
=============================================================================
