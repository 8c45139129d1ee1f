----------------------------- MODULE Serializer -----------------------------
(***************************************************************************)
(* The serializer (ser.rs) as a state machine driven by the value's        *)
(* Serialize implementation.                                               *)
(*                                                                         *)
(* The call stack of serde's visitor is the sequence `frames`: one entry   *)
(* for each SomeIpSeqSerializer or SomeIpStructSerializer that is open.    *)
(* The Serialize implementation is the environment: it picks the root      *)
(* type, how many elements a sequence has, which optional fields are None  *)
(* and how long strings are.  It is compatible with the SomeIpType, as the *)
(* documentation of to_vec demands: it makes the calls the type describes, *)
(* struct fields in the order of their declaration.                        *)
(*                                                                         *)
(* The output is a sequence of cells, one per byte (module Cells).         *)
(***************************************************************************)
EXTENDS SomeIpTypes, Cells, FiniteSets

CONSTANTS
    Roots,         \* the types of the values that are serialized
    OptionSet,     \* the SomeIpOptions implementations considered
    InitialBytes,  \* lengths of the buffer handed to append_to_vec
    DebugAssertions, \* whether the build has debug assertions
    MaxElements,   \* bound: elements the environment puts in a sequence
    MaxUnits,      \* bound: code units in a string, bytes in a byte slice
    MaxCalls       \* bound: serializations appended to the same buffer

ASSUME RootsAssumption == Roots \subseteq TypeId
ASSUME OptionsAssumption == OptionSet \subseteq Options
ASSUME BoundsAssumption ==
    /\ InitialBytes \subseteq Nat
    /\ DebugAssertions \in BOOLEAN
    /\ MaxElements \in Nat /\ MaxUnits \in Nat /\ MaxCalls \in Nat

VARIABLES
    opts,       \* the Options type parameter
    buf,        \* writer: the bytes of the Vec<u8> or BytesMut
    nextType,   \* next_type
    inTlv,      \* is_in_tlv_struct
    lastField,  \* last_length_field
    sections,   \* length_delimited_sections
    props,      \* transformation_props
    frames,     \* the open sequence and struct serializers
    pc,         \* what the serializer does next, or how the call ended
    base,       \* length of the buffer when the call was made
    calls       \* calls made so far

vars == <<opts, buf, nextType, inTlv, lastField, sections, props, frames, pc,
          base, calls>>

----------------------------------------------------------------------------
NoField == [size |-> None, asConfigured |-> FALSE]
LastField == [size: OptSize, asConfigured: BOOLEAN]
Section == [pos: Nat, reserved: LengthFieldSize, tlv: BOOLEAN]

EndOf(sec) == sec.pos + sec.reserved

(* A SomeIpSeqSerializer or SomeIpStructSerializer: its type, its          *)
(* length_field_size, the elements or fields begun, the struct's           *)
(* original_transformation_props and the tag_pos of the TLV field whose    *)
(* value is being written.                                                 *)
NoTag == -1
Frame == [type: TypeId, lfs: OptSize, count: Nat, orig: Properties,
          tagPos: Nat \cup {NoTag}]
Top == frames[Len(frames)]
TopType == Types[Top.type]

Here == [opts |-> opts, type |-> nextType, tlv |-> inTlv, props |-> props]

Errors == {"TooLong", "NotEnoughData", "TooMuchData", "CannotCodeString"}
Panics == {"TypePanic", "LengthPanic", "AssertReserved", "AssertPreviousPos"}
Running == pc \in {"value", "return"}

Outcome(x) == CASE x = TooLong -> "TooLong"
                [] x = LengthPanic -> "LengthPanic"
                [] OTHER -> "TypePanic"

----------------------------------------------------------------------------
TypeOK ==
    /\ opts \in Options
    /\ buf \in Seq(Cell)
    /\ nextType \in TypeId
    /\ inTlv \in BOOLEAN
    /\ lastField \in LastField
    /\ sections \in Seq(Section)
    /\ props \in Properties
    /\ frames \in Seq(Frame)
    /\ pc \in {"idle", "value", "return", "ok"} \cup Errors \cup Panics
    /\ base \in Nat
    /\ calls \in 0 .. MaxCalls

Init ==
    /\ opts \in OptionSet
    /\ \E n \in InitialBytes : buf = Data(n) /\ base = n
    /\ nextType \in Roots
    /\ inTlv = FALSE
    /\ lastField = NoField
    /\ sections = <<>>
    /\ props = NoProps
    /\ frames = <<>>
    /\ pc = "idle"
    /\ calls = 0

(* to_x_manuel: verify if debug assertions are on, then a new serializer   *)
(* on the caller's buffer, which an earlier failed call may have left      *)
(* longer.                                                                 *)
Call(root) ==
    /\ pc \in {"idle", "ok"} \cup Errors
    /\ calls < MaxCalls
    /\ calls' = calls + 1
    /\ base' = Len(buf)
    /\ pc' = IF DebugAssertions => VerifyStringEncoding(opts) /\ Verify[root]
             THEN "value" ELSE "TypePanic"
    /\ nextType' = root
    /\ inTlv' = FALSE
    /\ lastField' = NoField
    /\ sections' = <<>>
    /\ props' = NoProps
    /\ frames' = <<>>
    /\ UNCHANGED <<opts, buf>>

(* finish: the root value has returned.                                    *)
Finish ==
    /\ pc = "return"
    /\ frames = <<>>
    /\ pc' = "ok"
    /\ UNCHANGED <<opts, buf, nextType, inTlv, lastField, sections, props,
                   frames, base, calls>>

----------------------------------------------------------------------------
(***************************************************************************)
(* Length delimited sections.                                              *)
(***************************************************************************)

(* begin_length_delimited_section, when there is a length field.           *)
BeginBuf(reserved) == buf \o Zeros(reserved)

(* Mutant of BeginSections: pushes without a length field.                 *)
BeginSectionsAlways(reserved) ==
    Append(sections, [pos |-> Len(buf), reserved |-> reserved, tlv |-> inTlv])

BeginSections(reserved) ==
    IF reserved = None THEN sections
    ELSE Append(sections, [pos |-> Len(buf), reserved |-> reserved, tlv |-> inTlv])

(* The size of a section's length field, now that its length is known.     *)
ActualSize(sec, configured, len) ==
    SelectLengthFieldSize(opts, configured, MinimumLengthFor[len], sec.tlv)

Shifted(b, sec, actual) ==
    SetLen(CopyWithin(b, EndOf(sec), sec.pos + actual),
           Len(b) - (sec.reserved - actual))

(* Mutant of EndSection: keeps the bytes reserved in excess.               *)
EndSectionUntrimmed(b, sec, configured, len) ==
    \E actual \in {ActualSize(sec, configured, len)} :
        /\ pc' = IF Failed(actual) THEN Outcome(actual) ELSE "return"
        /\ buf' = IF Failed(actual) THEN b
                  ELSE WriteAt(b, sec.pos, LengthBytes(actual, len))
        /\ lastField' = [size |-> actual, asConfigured |-> actual = configured]

(* end_length_delimited_section, once the section is popped: drop the      *)
(* reserved bytes that are not needed and write the length where the       *)
(* section began, if the field chosen for it is large enough.              *)
EndSection(b, sec, configured, len) ==
    \E actual \in {ActualSize(sec, configured, len)} :
       \/ /\ Failed(actual)
          /\ pc' = Outcome(actual)
          /\ buf' = b
          /\ UNCHANGED lastField
       \/ /\ actual > sec.reserved
          /\ pc' = "AssertReserved"
          /\ buf' = b
          /\ lastField' = [size |-> actual, asConfigured |-> actual = configured]
       \/ /\ ~Failed(actual) /\ actual <= sec.reserved
          /\ pc' = IF len <= Capacity(actual) THEN "return" ELSE "TooLong"
          /\ buf' = IF len <= Capacity(actual)
                    THEN WriteAt(Shifted(b, sec, actual), sec.pos, LengthBytes(actual, len))
                    ELSE Shifted(b, sec, actual)
          /\ lastField' = [size |-> actual, asConfigured |-> actual = configured]

(* Mutant of EndValue: forgets to end the section.                         *)
EndValueWithoutSection(b, secs, configured) ==
    /\ pc' = "return"
    /\ buf' = b
    /\ sections' = secs
    /\ UNCHANGED lastField

(* The end of a sequence, struct, string or byte slice: with or without a  *)
(* section.                                                                *)
EndValue(b, secs, configured) ==
    \/ /\ configured # None
       /\ sections' = Front(secs)
       /\ EndSection(b, Last(secs), configured, Len(b) - EndOf(Last(secs)))
    \/ /\ configured = None
       /\ pc' = "return"
       /\ buf' = b
       /\ sections' = secs
       /\ UNCHANGED lastField

(* A value that is over before its section begins.                         *)
Fail(reason) ==
    /\ pc' = reason
    /\ UNCHANGED <<buf, lastField, sections, frames>>

OutOfBounds(n, ty) ==
    IF n < ty.min THEN "NotEnoughData" ELSE IF n > ty.max THEN "TooMuchData" ELSE "no"

----------------------------------------------------------------------------
(***************************************************************************)
(* Values without parts: serialize_bool .. serialize_f64,                  *)
(* serialize_unit_variant, serialize_str, serialize_bytes, serialize_none. *)
(***************************************************************************)
SerializeFixed ==
    /\ pc = "value"
    /\ IsFixed(Types[nextType])
    /\ buf' = buf \o Data(Types[nextType].size)
    /\ pc' = "return"
    /\ UNCHANGED <<opts, nextType, inTlv, lastField, sections, props, frames,
                   base, calls>>

SerializeNonAscii ==
    /\ pc = "value"
    /\ Types[nextType].kind = "string"
    /\ opts.encoding = "Ascii"
    /\ Fail("CannotCodeString")
    /\ UNCHANGED <<opts, nextType, inTlv, props, base, calls>>

SerializeStr(units) ==
    LET ty == Types[nextType]
        configured == WantedLengthField[Here]
        size == EncodedSize(opts, units)
    IN  /\ pc = "value"
        /\ ty.kind = "string"
        /\ \E reserved \in {Reservation[Here]} :
           LET written == BeginBuf(reserved) \o Data(size) IN
           \/ Failed(reserved) /\ Fail(Outcome(reserved))
           \/ /\ ~Failed(reserved)
              /\ OutOfBounds(size, ty) # "no"
              /\ pc' = OutOfBounds(size, ty)
              /\ buf' = written
              /\ sections' = BeginSections(reserved)
              /\ UNCHANGED <<lastField, frames>>
           \/ /\ ~Failed(reserved)
              /\ OutOfBounds(size, ty) = "no"
              /\ EndValue(written, BeginSections(reserved), configured)
              /\ UNCHANGED frames
        /\ UNCHANGED <<opts, nextType, inTlv, props, base, calls>>

IsByteSequence(ty) ==
    ty.kind = "seq" /\ Types[ty.elem] = [kind |-> "prim", size |-> 1]

SerializeBytes(n) ==
    LET ty == Types[nextType]
        configured == WantedLengthField[Here]
    IN  /\ pc = "value"
        /\ IsByteSequence(ty)
        /\ \E reserved \in {Reservation[Here]} :
           \/ OutOfBounds(n, ty) # "no" /\ Fail(OutOfBounds(n, ty))
           \/ OutOfBounds(n, ty) = "no" /\ Failed(reserved) /\ Fail(Outcome(reserved))
           \/ /\ OutOfBounds(n, ty) = "no" /\ ~Failed(reserved)
              /\ EndValue(BeginBuf(reserved) \o Data(n), BeginSections(reserved),
                          configured)
              /\ UNCHANGED frames
        /\ UNCHANGED <<opts, nextType, inTlv, props, base, calls>>

(* Mutant of SerializeNone: the TLV check is gone.                         *)
SerializeNoneAnywhere ==
    /\ pc = "value"
    /\ buf' = SetLen(buf, Len(buf) - 2)
    /\ pc' = "return"
    /\ UNCHANGED <<opts, nextType, inTlv, lastField, sections, props, frames,
                   base, calls>>

(* serialize_none takes back the tag that serialize_field has written; an  *)
(* Option anywhere else panics.  serialize_some is the value itself.       *)
SerializeNone ==
    /\ pc = "value"
    /\ \/ /\ inTlv
          /\ buf' = SetLen(buf, Len(buf) - 2)
          /\ pc' = "return"
          /\ UNCHANGED <<lastField, sections, frames>>
       \/ ~inTlv /\ Fail("TypePanic")
    /\ UNCHANGED <<opts, nextType, inTlv, props, base, calls>>

----------------------------------------------------------------------------
(***************************************************************************)
(* Sequences: serialize_seq, serialize_element and end of                  *)
(* SomeIpSeqSerializer.  The length hint of serialize_seq is optional and  *)
(* does not bind the number of elements that follow.                       *)
(***************************************************************************)
NoHint == -1

BeginValue(frame, reserved) ==
    /\ frames' = Append(frames, frame)
    /\ sections' = BeginSections(reserved)
    /\ buf' = BeginBuf(reserved)
    /\ pc' = "return"
    /\ UNCHANGED lastField

SerializeSeq(hint) ==
    LET ty == Types[nextType]
        hinted == IF hint = NoHint THEN "no" ELSE OutOfBounds(hint, ty)
    IN  /\ pc = "value"
        /\ ty.kind = "seq"
        /\ \E reserved \in {Reservation[Here]} :
           \/ hinted # "no" /\ Fail(hinted)
           \/ hinted = "no" /\ Failed(reserved) /\ Fail(Outcome(reserved))
           \/ /\ hinted = "no" /\ ~Failed(reserved)
              /\ BeginValue([type |-> nextType,
                             lfs |-> WantedLengthField[Here],
                             count |-> 0, orig |-> NoProps, tagPos |-> NoTag],
                            reserved)
        /\ UNCHANGED <<opts, nextType, inTlv, props, base, calls>>

SerializeElement ==
    /\ pc = "return"
    /\ frames # <<>>
    /\ TopType.kind = "seq"
    /\ Top.count < MaxElements
    /\ frames' = [frames EXCEPT ![Len(frames)].count = @ + 1]
    /\ nextType' = TopType.elem
    /\ inTlv' = FALSE
    /\ pc' = "value"
    /\ UNCHANGED <<opts, buf, lastField, sections, props, base, calls>>

EndSeq ==
    /\ pc = "return"
    /\ frames # <<>>
    /\ TopType.kind = "seq"
    /\ \/ OutOfBounds(Top.count, TopType) # "no" /\ Fail(OutOfBounds(Top.count, TopType))
       \/ /\ OutOfBounds(Top.count, TopType) = "no"
          /\ EndValue(buf, sections, Top.lfs)
          /\ frames' = Front(frames)
    /\ UNCHANGED <<opts, nextType, inTlv, props, base, calls>>

----------------------------------------------------------------------------
(***************************************************************************)
(* Structs: serialize_struct, serialize_field and end of                   *)
(* SomeIpStructSerializer.                                                 *)
(***************************************************************************)
SerializeStruct ==
    LET ty == Types[nextType]
        scope == IF ty.props.set THEN ty.props ELSE props
        site == [Here EXCEPT !.props = scope]
    IN  /\ pc = "value"
        /\ ty.kind = "struct"
        /\ props' = scope
        /\ \E reserved \in {Reservation[site]} :
           \/ Failed(reserved) /\ Fail(Outcome(reserved))
           \/ /\ ~Failed(reserved)
              /\ BeginValue([type |-> nextType,
                             lfs |-> WantedLengthField[site],
                             count |-> 0,
                             orig |-> IF ty.props.set THEN props ELSE NoProps,
                             tagPos |-> NoTag],
                            reserved)
        /\ UNCHANGED <<opts, nextType, inTlv, base, calls>>

CurrentField == TopType.fields[Top.count]

NextField == TopType.fields[Top.count + 1]
AtField ==
    /\ pc = "return"
    /\ frames # <<>>
    /\ TopType.kind = "struct"
    /\ Top.tagPos = NoTag
    /\ Top.count < Len(TopType.fields)

FieldWithoutId ==
    /\ AtField
    /\ TopType.tlv /\ NextField.id = NoId
    /\ Fail("TypePanic")
    /\ UNCHANGED <<opts, nextType, inTlv, props, base, calls>>

(* serialize_field up to the call of value.serialize: in a TLV struct a    *)
(* tag with the static wire type is written first.                         *)
SerializeField ==
    LET field == NextField
        tag == Tag(WireTypeOf(Types[field.type]), field.id)
    IN  /\ AtField
        /\ TopType.tlv => field.id # NoId
        /\ buf' = IF TopType.tlv THEN buf \o TagBytes(tag) ELSE buf
        /\ frames' = [frames EXCEPT
                         ![Len(frames)].count = @ + 1,
                         ![Len(frames)].tagPos = IF TopType.tlv THEN Len(buf) ELSE NoTag]
        /\ inTlv' = TopType.tlv
        /\ nextType' = field.type
        /\ pc' = "value"
        /\ UNCHANGED <<opts, lastField, sections, props, base, calls>>

(* Mutant of PatchTag: the legacy option is not consulted.                 *)
PatchTagLegacy ==
    LET tag == Tag(WireOfLengthField(lastField.size), CurrentField.id)
        rewrite == lastField # NoField /\ ~lastField.asConfigured
    IN  /\ pc = "return"
        /\ frames # <<>>
        /\ Top.tagPos # NoTag
        /\ lastField' = NoField
        /\ buf' = IF rewrite THEN WriteAt(buf, Top.tagPos, TagBytes(tag)) ELSE buf
        /\ frames' = [frames EXCEPT ![Len(frames)].tagPos = NoTag]
        /\ UNCHANGED <<opts, nextType, inTlv, sections, props, base, calls, pc>>

(* serialize_field after value.serialize: the tag of a length delimited    *)
(* field gets the wire type of the length field that was written.          *)
PatchTag ==
    LET delimited == WireTypeOf(Types[CurrentField.type]) = FromConfig
        rewrite == /\ delimited
                   /\ lastField # NoField
                   /\ ~lastField.asConfigured \/ ~opts.legacyWireType
        tag == Tag(WireOfLengthField(lastField.size), CurrentField.id)
    IN  /\ pc = "return"
        /\ frames # <<>>
        /\ Top.tagPos # NoTag
        /\ lastField' = IF delimited THEN NoField ELSE lastField
        /\ \/ /\ ~rewrite
              /\ frames' = [frames EXCEPT ![Len(frames)].tagPos = NoTag]
              /\ UNCHANGED <<buf, pc>>
           \/ /\ rewrite
              /\ Top.tagPos < Len(buf)
              /\ buf' = WriteAt(buf, Top.tagPos, TagBytes(tag))
              /\ frames' = [frames EXCEPT ![Len(frames)].tagPos = NoTag]
              /\ UNCHANGED pc
           \/ /\ rewrite
              /\ Top.tagPos >= Len(buf)
              /\ pc' = "AssertPreviousPos"
              /\ UNCHANGED <<buf, frames>>
        /\ UNCHANGED <<opts, nextType, inTlv, sections, props, base, calls>>

(* Mutant of EndStruct: the properties are not restored.                   *)
EndStructKeepingProps ==
    /\ pc = "return"
    /\ frames # <<>>
    /\ TopType.kind = "struct"
    /\ Top.tagPos = NoTag
    /\ Top.count = Len(TopType.fields)
    /\ EndValue(buf, sections, Top.lfs)
    /\ inTlv' = IF pc' = "return" THEN FALSE ELSE inTlv
    /\ frames' = Front(frames)
    /\ UNCHANGED <<opts, nextType, props, base, calls>>

EndStruct ==
    /\ pc = "return"
    /\ frames # <<>>
    /\ TopType.kind = "struct"
    /\ Top.tagPos = NoTag
    /\ Top.count = Len(TopType.fields)
    /\ EndValue(buf, sections, Top.lfs)
    /\ inTlv' = IF pc' = "return" THEN FALSE ELSE inTlv
    /\ props' = IF pc' = "return" /\ TopType.props.set THEN Top.orig ELSE props
    /\ frames' = Front(frames)
    /\ UNCHANGED <<opts, nextType, base, calls>>

----------------------------------------------------------------------------
(* The caller has no further value, or the thread has panicked.            *)
Stopped ==
    /\ \/ pc \in Panics
       \/ ~Running /\ calls = MaxCalls
    /\ UNCHANGED vars

Next ==
    \/ \E root \in Roots : Call(root)
    \/ SerializeFixed
    \/ SerializeNonAscii
    \/ \E units \in 0 .. MaxUnits : SerializeStr(units)
    \/ \E n \in 0 .. MaxUnits : SerializeBytes(n)
    \/ SerializeNone
    \/ \E hint \in 0 .. MaxElements \cup {NoHint} : SerializeSeq(hint)
    \/ SerializeElement
    \/ EndSeq
    \/ SerializeStruct
    \/ FieldWithoutId
    \/ SerializeField
    \/ PatchTag
    \/ EndStruct
    \/ Finish
    \/ Stopped

Spec == Init /\ [][Next]_vars

----------------------------------------------------------------------------
(***************************************************************************)
(* Safety.                                                                 *)
(***************************************************************************)
Current == Running \/ pc = "ok"

(* The open serializers that have a section of their own.                  *)
Sectioned(fs) == {i \in DOMAIN fs : fs[i].lfs # None}

(* `length_delimited_sections.pop().unwrap()` finds the section that the   *)
(* serializer at its end has pushed: there is one section for each open    *)
(* serializer with a length field, and none is left over at the end.       *)
SectionsMatchFrames == Current => Len(sections) = Cardinality(Sectioned(frames))

SectionEnd(k) == EndOf(sections[k])

Nested(start, secs, b) ==
    \A k \in DOMAIN secs :
        /\ start <= secs[k].pos
        /\ EndOf(secs[k]) <= Len(b)
        /\ \A j \in 1 .. k - 1 : EndOf(secs[j]) <= secs[k].pos

(* `end - pos - reserved` never underflows and no write, shift or removal  *)
(* reaches into the reserved bytes of an open section: the sections lie    *)
(* one behind the other between the start of the message and its end.      *)
SectionsNested == Running => Nested(base, sections, buf)

(* Reserved zeros stand exactly where a section is still open, so a        *)
(* finished message has none: every end patches its own length field,      *)
(* wherever earlier sections were shifted to.                              *)
PlaceholdersAreOpen ==
    Current => \A i \in base + 1 .. Len(buf) :
        buf[i].kind = "zero" <=>
            \E k \in DOMAIN sections : i \in sections[k].pos + 1 .. SectionEnd(k)

(* The value behind the tag at offset p is of the kind its wire type says. *)
Announced(p) ==
    LET wire == TagWire(buf[p + 1].val)
        after == p + 3
        framed == after <= Len(buf) /\ buf[after].kind = "len" /\ buf[after].part = 1
    IN  CASE wire < FromConfig ->
               /\ p + 2 + FixedSize[wire + 1] <= Len(buf)
               /\ \A i \in after .. p + 2 + FixedSize[wire + 1] : buf[i].kind = "data"
          [] wire = FromConfig -> framed /\ opts.legacyWireType
          [] OTHER -> framed /\ WireOfLengthField(buf[after].of) = wire

(* Once a TLV field is complete its tag announces the length field that    *)
(* follows it, even when that was shrunk or grown after the tag was        *)
(* written, and when fields within the field have left their own           *)
(* last_length_field.                                                      *)
TagsAnnounceLengthFields ==
    Current => \A p \in base .. Len(buf) - 1 :
        /\ buf[p + 1].kind = "tag" /\ buf[p + 1].part = 1
        /\ p \notin {frames[i].tagPos : i \in DOMAIN frames}
        => Announced(p)

(* The transformation properties in force are those of the innermost open  *)
(* struct that has its own, also after nested structs have replaced and    *)
(* restored them.                                                          *)
Scope(n) ==
    LET own == {i \in 1 .. n : /\ Types[frames[i].type].kind = "struct"
                               /\ Types[frames[i].type].props.set}
    IN  IF own = {} THEN NoProps
        ELSE Types[frames[CHOOSE i \in own : \A j \in own : j <= i].type].props
PropsScoped == Current => props = Scope(Len(frames))

(* What the caller's buffer held before the call is never changed: not by  *)
(* shifting a section, patching a length or a tag, nor by the truncation   *)
(* in serialize_none, whether the call succeeds or not.                    *)
PriorBytesKept == [][IsPrefix(SubSeq(buf, 1, base), buf')]_vars

(* A step that fails with an error has not moved or cut what was written   *)
(* before.  A section that is too long for its length field is found out   *)
(* by select_length_field_size: the second check of                        *)
(* end_length_delimited_section, behind the shift, never finds anything,   *)
(* and no length is truncated.                                             *)
FailuresOnlyAppend == [][Running /\ pc' \in Errors => IsPrefix(buf, buf')]_vars

----------------------------------------------------------------------------
(***************************************************************************)
(* What the documentation and the comments say, checked by runs of their   *)
(* own.                                                                    *)
(***************************************************************************)
(* Release 0.1.3: "Fix panic when serializing a None for a field in a tlv  *)
(* struct"; serialize_field: last_length_field "will be None if value was  *)
(* None".                                                                  *)
NoneDoesNotPanic == pc # "AssertPreviousPos"

(* end_length_delimited_section asserts that the section reserved enough.  *)
ReservationSuffices == pc # "AssertReserved"
=============================================================================
