---------------------------- MODULE Deserializer ----------------------------
(***************************************************************************)
(* The deserializer (de.rs) as a state machine driven by the value's       *)
(* Deserialize implementation and by the data.                             *)
(*                                                                         *)
(* The call stack of serde's visitors is the sequence `frames`: one entry  *)
(* for each SomeIpSeqAccess or SomeIpStructAccess that is open.  The data  *)
(* is any sequence of bytes: the value of a length field, tag, boolean,    *)
(* enum or string is chosen when it is read (module Reader).  The visitors *)
(* are those of the standard types and of serde's derive macro.            *)
(*                                                                         *)
(* After an error the deserializer is dropped, so what a failing step has  *)
(* consumed is not modelled.                                               *)
(***************************************************************************)
EXTENDS SomeIpTypes, Reader

CONSTANTS
    Roots,      \* the types of the values that are deserialized
    OptionSet,  \* the SomeIpOptions implementations considered
    Readers,    \* what from_slice and from_reader are called with
    DebugAssertions, \* whether the build has debug assertions
    MaxLength   \* bound: values of length fields

ASSUME DeserializerAssumption ==
    /\ Roots \subseteq TypeId
    /\ OptionSet \subseteq Options
    /\ Readers \subseteq Reader
    /\ \A r \in Readers : CanBorrow(r) => r.available = r.remaining
    /\ DebugAssertions \in BOOLEAN
    /\ MaxLength \in Nat

VARIABLES
    opts,       \* the Options type parameter
    reader,     \* reader
    nextType,   \* next_type
    nextLfs,    \* next_length_field_size
    inTlv,      \* is_in_tlv_struct
    sections,   \* length_delimited_sections: bytes left in each
    props,      \* transformation_props
    frames,     \* the open sequence and struct accesses
    todo,       \* bytes to discard: of an unknown field, or still to be read
    after,      \* what follows it
    pc          \* what the deserializer does next, or how the call ended

vars == <<opts, reader, nextType, nextLfs, inTlv, sections, props, frames,
          todo, after, pc>>

----------------------------------------------------------------------------
(* A SomeIpSeqAccess or SomeIpStructAccess: its type, whether it has begun *)
(* a section and if so with a length from the data or a computed one, the  *)
(* elements read (element_count) or fields begun (field_index), whether an *)
(* element is being read, the TLV fields whose key the visitor has got,    *)
(* original_transformation_props and was_in_tlv.                           *)
Frame == [type: TypeId, section: {"none", "announced", "computed"}, count: Nat,
          pending: BOOLEAN, seen: SUBSET Nat, orig: Properties, wasTlv: BOOLEAN]
Top == frames[Len(frames)]
TopType == Types[Top.type]

Here == [opts |-> opts, type |-> nextType, tlv |-> inTlv, props |-> props]

Running == pc \in {"call", "value", "return", "string", "str", "bytes", "skip",
                   "end", "skipFixed", "skipField", "discard"}

(* Error::TooShort is "AnnouncedTooShort" where a length field announces   *)
(* more bytes than there are.  "Message" is an error of a visitor.         *)
Errors == {"TooShort", "AnnouncedTooShort", "TooLong", "NotEnoughData",
           "TooMuchData", "NotAllBytesConsumed", "CannotCodeString",
           "InvalidBool", "InvalidEnumValue", "InvalidWireType", "IoError",
           "Message"}
Panics == {"TypePanic", "LengthPanic", "MissingPanic", "AssertLen",
           "DivisionPanic"}

Outcome(x) == CASE x = TooLong -> "TooLong"
                [] x = LengthPanic -> "LengthPanic"
                [] OTHER -> "MissingPanic"

TypeOK ==
    /\ opts \in Options
    /\ reader \in Reader
    /\ nextType \in TypeId
    /\ nextLfs \in OptSize
    /\ inTlv \in BOOLEAN
    /\ sections \in Seq(Nat)
    /\ props \in Properties
    /\ frames \in Seq(Frame)
    /\ todo \in Nat
    /\ after \in {"return", "end"}
    /\ Running \/ pc \in {"ok"} \cup Errors \cup Panics

Init ==
    /\ opts \in OptionSet
    /\ reader \in Readers
    /\ nextType \in Roots
    /\ nextLfs = None
    /\ inTlv = FALSE
    /\ sections = <<>>
    /\ props = NoProps
    /\ frames = <<>>
    /\ todo = 0
    /\ after = "return"
    /\ pc = "call"

(* from_internal: verify if debug assertions are on, then deserialize.     *)
Call ==
    /\ pc = "call"
    /\ pc' = IF DebugAssertions => VerifyStringEncoding(opts) /\ Verify[nextType]
             THEN "value" ELSE "TypePanic"
    /\ UNCHANGED <<opts, reader, nextType, nextLfs, inTlv, sections, props,
                   frames, todo, after>>

(* The root value has returned; whatever the reader still holds is left.   *)
Finish ==
    /\ pc = "return"
    /\ frames = <<>>
    /\ pc' = "ok"
    /\ UNCHANGED <<opts, reader, nextType, nextLfs, inTlv, sections, props,
                   frames, todo, after>>

Fail(reason) ==
    /\ pc' = reason
    /\ UNCHANGED <<reader, sections, nextLfs>>

----------------------------------------------------------------------------
(***************************************************************************)
(* Reading: the deserializer is itself a SomeIpReader that counts down the *)
(* innermost section.                                                      *)
(***************************************************************************)
Remaining == IF sections = <<>> THEN reader.remaining ELSE Last(sections)

(* Mutant of Less: a section is not counted down by what is within it.     *)
LessNothing(secs, n) == secs

(* before_read: the innermost section shrinks.                             *)
Less(secs, n) ==
    IF secs = <<>> THEN secs ELSE [secs EXCEPT ![Len(secs)] = @ - n]

Outcomes(n) == IF Remaining < n THEN {"TooShort"} ELSE ReadOutcomes(reader, n)
VecOutcomes(n) ==
    IF Remaining < n THEN {"TooShort"} ELSE ReadVecOutcomes(reader, n)

Take(n) ==
    /\ reader' = Advance(reader, n)
    /\ sections' = Less(sections, n)

(* Mutant of DiscardFrom: the bytes are not taken from the section.        *)
DiscardFromReader(n, next) ==
    /\ pc' = "discard"
    /\ reader' = [reader EXCEPT !.remaining = @ - n]
    /\ todo' = n
    /\ after' = next
    /\ UNCHANGED <<nextLfs, sections>>

(* discard(n) counts the bytes first and reads them then.                  *)
DiscardFrom(n, next) ==
    \/ /\ Remaining < n
       /\ Fail("TooShort")
       /\ UNCHANGED <<todo, after>>
    \/ /\ Remaining >= n
       /\ pc' = "discard"
       /\ sections' = Less(sections, n)
       /\ reader' = [reader EXCEPT !.remaining = @ - n]
       /\ todo' = n
       /\ after' = next
       /\ UNCHANGED nextLfs

(* A Read may return fewer bytes than asked for, and none only at its end; *)
(* a slice gives all.                                                      *)
Chunks ==
    IF CanBorrow(reader) THEN {todo}
    ELSE IF reader.available = 0 THEN {0}
    ELSE 1 .. Min({todo, reader.available})

(* Mutant of DiscardChunk: never counts down.                              *)
DiscardChunkAgain ==
    /\ pc = "discard"
    /\ \/ /\ todo > 0
          /\ UNCHANGED <<reader, todo, pc>>
       \/ /\ todo = 0
          /\ pc' = after
          /\ UNCHANGED <<reader, todo>>
    /\ UNCHANGED <<opts, nextType, nextLfs, inTlv, sections, props, frames, after>>

(* Mutant of DiscardChunk: takes the first read for all of them.           *)
DiscardOneChunk ==
    /\ pc = "discard"
    /\ \E n \in Chunks : reader' = [reader EXCEPT !.available = @ - n]
    /\ todo' = 0
    /\ pc' = after
    /\ UNCHANGED <<opts, nextType, nextLfs, inTlv, sections, props, frames, after>>

DiscardChunk ==
    /\ pc = "discard"
    /\ \/ /\ todo > 0
          /\ \E n \in Chunks :
                /\ todo' = todo - n
                /\ reader' = [reader EXCEPT !.available = @ - n]
          /\ UNCHANGED pc
       \/ /\ todo = 0
          /\ pc' = after
          /\ UNCHANGED <<reader, todo>>
    /\ UNCHANGED <<opts, nextType, nextLfs, inTlv, sections, props, frames, after>>

DiscardFails ==
    /\ pc = "discard"
    /\ todo > 0
    /\ ~CanBorrow(reader)
    /\ Fail("IoError")
    /\ UNCHANGED <<opts, nextType, inTlv, props, frames, todo, after>>

----------------------------------------------------------------------------
(***************************************************************************)
(* Length delimited sections.                                              *)
(***************************************************************************)

(* Mutant of BeginKnownSection: the outer section keeps the bytes too.     *)
BeginKnownSectionTwice(len, next) ==
    /\ pc' = next
    /\ sections' = Append(sections, len)
    /\ UNCHANGED <<reader, nextLfs>>

(* begin_known_length_delimited_section                                    *)
BeginKnownSection(len, next) ==
    \/ len > Remaining /\ Fail("TooShort")
    \/ /\ len <= Remaining
       /\ pc' = next
       /\ sections' = Append(Less(sections, len), len)
       /\ UNCHANGED <<reader, nextLfs>>

(* Mutant of BeginSection: next_length_field_size is not taken.            *)
BeginSectionKeepingSize(configured, next) ==
    \E width \in {Or(nextLfs, configured)} :
      \E out \in Outcomes(width) :
        \/ out # "ok" /\ Fail(out)
        \/ /\ out = "ok"
           /\ \E len \in 0 .. Min({Capacity(width), MaxLength, Remaining - width}) :
                /\ pc' = next
                /\ reader' = Advance(reader, width)
                /\ sections' = Append(Less(sections, width + len), len)
                /\ UNCHANGED nextLfs

(* begin_length_delimited_section: the size that the tag announces wins    *)
(* over the configured one, once.                                          *)
BeginSection(configured, next) ==
    \E width \in {Or(nextLfs, configured)} :
      \E out \in Outcomes(width) :
        \/ out # "ok" /\ Fail(out)
        \/ /\ out = "ok"
           /\ \E len \in 0 .. Min({Capacity(width), MaxLength}) :
                \/ len > Remaining - width /\ Fail("AnnouncedTooShort")
                \/ /\ len <= Remaining - width
                   /\ pc' = next
                   /\ reader' = Advance(reader, width)
                   /\ sections' = Append(Less(sections, width + len), len)
                   /\ nextLfs' = None

(* A section with the wanted length field, or else of the computed length. *)
Begin(wanted, computed, next) ==
    \/ Failed(wanted) /\ Fail(Outcome(wanted))
    \/ ~Failed(wanted) /\ wanted # None /\ BeginSection(wanted, next)
    \/ wanted = None /\ Failed(computed) /\ Fail(Outcome(computed))
    \/ wanted = None /\ ~Failed(computed) /\ BeginKnownSection(computed, next)

SectionOf(wanted) == IF wanted = None THEN "computed" ELSE "announced"

(* end_length_delimited_section                                            *)
EndSection(next) ==
    \/ Last(sections) # 0 /\ Fail("NotAllBytesConsumed")
    \/ /\ Last(sections) = 0
       /\ pc' = next
       /\ sections' = Front(sections)
       /\ UNCHANGED <<reader, nextLfs>>

(* The end of a string, byte slice or unknown field.                       *)
EndLeaf ==
    /\ pc = "end"
    /\ EndSection("return")
    /\ UNCHANGED <<opts, nextType, inTlv, props, frames, todo, after>>

(* The excess of a string or byte slice, or an unknown field.              *)
Skip ==
    /\ pc = "skip"
    /\ DiscardFrom(Remaining, "end")
    /\ UNCHANGED <<opts, nextType, inTlv, props, frames>>

----------------------------------------------------------------------------
(***************************************************************************)
(* Values without parts: deserialize_bool .. deserialize_f64,              *)
(* deserialize_enum, deserialize_option, deserialize_str,                  *)
(* deserialize_string, deserialize_bytes and deserialize_byte_buf.         *)
(***************************************************************************)
DeserializeFixed ==
    LET ty == Types[nextType]
    IN  /\ pc = "value"
        /\ IsFixed(ty)
        /\ \E out \in Outcomes(ty.size) :
           \/ out # "ok" /\ Fail(out)
           \/ /\ out = "ok"
              /\ pc' = "return"
              /\ Take(ty.size)
              /\ UNCHANGED nextLfs
           \/ out = "ok" /\ ty.kind = "bool" /\ opts.strictBool /\ Fail("InvalidBool")
           \/ out = "ok" /\ ty.kind = "enum" /\ Fail("InvalidEnumValue")
        /\ UNCHANGED <<opts, nextType, inTlv, props, frames, todo, after>>

(* In a TLV struct an Option is the value itself.                          *)
DeserializeOption ==
    /\ pc = "value"
    /\ ~inTlv
    /\ Fail("TypePanic")
    /\ UNCHANGED <<opts, nextType, inTlv, props, frames, todo, after>>

(* deserialize_string, and deserialize_str where it resorts to it.         *)
DeserializeString ==
    /\ pc = "value"
    /\ Types[nextType].kind = "string"
    /\ Begin(WantedLengthField[Here], Types[nextType].max, "string")
    /\ UNCHANGED <<opts, nextType, inTlv, props, frames, todo, after>>

DeserializeStr ==
    /\ pc = "value"
    /\ Types[nextType].kind = "string"
    /\ CanBorrow(reader) /\ opts.encoding # "Utf16"
    /\ Begin(WantedLengthField[Here], Types[nextType].max, "str")
    /\ UNCHANGED <<opts, nextType, inTlv, props, frames, todo, after>>

(* Bytes to read of a string or byte slice whose section is as long as the *)
(* data says, unless that is too long.                                     *)
TooMuch == Remaining > Types[nextType].max
TooLittle == Remaining < Types[nextType].min
Wanted == IF TooMuch /\ opts.tooMuchData = "Discard" THEN Types[nextType].max
          ELSE Remaining

TakeLeaf ==
    /\ Take(Wanted)
    /\ pc' = IF Wanted < Remaining THEN "skip" ELSE "end"
    /\ UNCHANGED nextLfs

(* Whether n bytes can be a string: with byte order mark and terminator.   *)
Decodable(n, utf16) ==
    LET terminator == IF opts.terminator THEN 1 ELSE 0
        bom == IF opts.bom THEN 1 ELSE 0
    IN  IF utf16 THEN n % 2 = 0 /\ n \div 2 >= bom + terminator
        ELSE n >= 3 * bom + terminator

(* read_utf8_string reads the byte order mark as an integer and the rest   *)
(* as a vector, read_utf16_string reads unit by unit.                      *)
Received16 == IF Wanted <= reader.available THEN {Wanted} ELSE {}
Received8 == IF opts.bom /\ reader.available < 3 THEN {}
             ELSE {Received(reader, Wanted)}
AnythingRead(utf16) ==
    IF utf16 THEN Wanted > 0 /\ Wanted % 2 = 0
    ELSE Wanted >= (IF opts.bom THEN 3 ELSE 1)

ReadString ==
    LET utf16 == IsUtf16(opts)
        received == IF utf16 THEN Received16 ELSE Received8
    IN  /\ pc = "string"
        /\ \/ TooLittle /\ Fail("NotEnoughData")
           \/ ~TooLittle /\ TooMuch /\ opts.tooMuchData = "Fail" /\ Fail("TooMuchData")
           \/ /\ ~TooLittle /\ (TooMuch => opts.tooMuchData # "Fail")
              /\ \/ /\ \E n \in received : Decodable(n, utf16)
                    /\ TakeLeaf
                 \/ /\ ~ \E n \in received : n = 0 /\ Decodable(n, utf16)
                    /\ received = {} => utf16 \/ ~AnythingRead(utf16)
                    /\ Fail("CannotCodeString")
                 \/ ~CanBorrow(reader) /\ AnythingRead(utf16) /\ Fail("IoError")
        /\ UNCHANGED <<opts, nextType, inTlv, props, frames, todo, after>>

(* A borrowed string is decoded as UTF-8.  (Byte order mark and terminator *)
(* are looked at when the section is over; nothing else can fail by then.) *)
ReadStr ==
    /\ pc = "str"
    /\ \/ TooLittle /\ Fail("NotEnoughData")
       \/ ~TooLittle /\ TooMuch /\ opts.tooMuchData = "Fail" /\ Fail("TooMuchData")
       \/ /\ ~TooLittle /\ (TooMuch => opts.tooMuchData # "Fail")
          /\ \/ Decodable(Wanted, FALSE) /\ TakeLeaf
             \/ ~(Wanted = 0 /\ Decodable(0, FALSE)) /\ Fail("CannotCodeString")
    /\ UNCHANGED <<opts, nextType, inTlv, props, frames, todo, after>>

IsByteSequence(ty) ==
    ty.kind = "seq" /\ Types[ty.elem] = [kind |-> "prim", size |-> 1]

DeserializeBytes ==
    /\ pc = "value"
    /\ IsByteSequence(Types[nextType])
    /\ Begin(WantedLengthField[Here], Types[nextType].max, "bytes")
    /\ UNCHANGED <<opts, nextType, inTlv, props, frames, todo, after>>

(* There is no check of min_elements.                                      *)
ReadBytes ==
    /\ pc = "bytes"
    /\ \/ TooMuch /\ opts.tooMuchData = "Fail" /\ Fail("TooMuchData")
       \/ /\ TooMuch => opts.tooMuchData # "Fail"
          /\ \E out \in VecOutcomes(Wanted) :
             \/ out # "ok" /\ Fail(out)
             \/ out = "ok" /\ TakeLeaf
    /\ UNCHANGED <<opts, nextType, inTlv, props, frames, todo, after>>

----------------------------------------------------------------------------
(***************************************************************************)
(* Sequences: deserialize_seq and SomeIpSeqAccess.                         *)
(***************************************************************************)

(* An element's site for max_len: not in a TLV struct.                     *)
ElementSite == [Here EXCEPT !.type = Types[nextType].elem, !.tlv = FALSE]

(* Mutant of ComputedLength: elements taken for bytes.                     *)
ComputedLengthOfBytes == Types[nextType].max
ComputedLength == TimesLen(Types[nextType].max, MaxLen[ElementSite])

(* The visitor of a Vec asks for the size_hint first, which divides by the *)
(* length of the elements if that is constant; an error of max_len is      *)
(* dropped, a panic is not.                                                *)
SizeHint ==
    LET len == MaxLen[ElementSite]
    IN  IF ~IsConstSize[Types[nextType].elem] \/ len = TooLong THEN "return"
        ELSE IF Failed(len) THEN Outcome(len)
        ELSE IF len = 0 THEN "DivisionPanic" ELSE "return"

DeserializeSeq ==
    /\ pc = "value"
    /\ Types[nextType].kind = "seq"
    /\ \E wanted \in {WantedLengthField[Here]} :
          /\ Begin(wanted, ComputedLength, SizeHint)
          /\ frames' = IF pc' # "return" THEN frames
                       ELSE Append(frames, [type |-> nextType,
                              section |-> SectionOf(wanted), count |-> 0,
                              pending |-> FALSE, seen |-> {},
                              orig |-> NoProps, wasTlv |-> inTlv])
    /\ UNCHANGED <<opts, nextType, inTlv, props, todo, after>>

AtSeq == pc = "return" /\ frames # <<>> /\ TopType.kind = "seq"

NextElement ==
    /\ AtSeq
    /\ ~Top.pending
    /\ Remaining > 0
    /\ frames' = [frames EXCEPT ![Len(frames)].pending = TRUE]
    /\ nextType' = TopType.elem
    /\ inTlv' = FALSE
    /\ pc' = "value"
    /\ UNCHANGED <<opts, reader, nextLfs, sections, props, todo, after>>

(* Mutant of Excess: the last element that is allowed is one too many.     *)
ExcessEarly == Top.count + 1 >= TopType.max
Excess == Top.count + 1 > TopType.max

(* next_element_seed after the element: one too many is an error, or is    *)
(* dropped together with the rest of the section, or is kept.              *)
ElementRead ==
    /\ AtSeq
    /\ Top.pending
    /\ frames' = [frames EXCEPT ![Len(frames)].pending = FALSE,
                                ![Len(frames)].count = @ + 1]
    /\ \/ /\ Excess /\ opts.tooMuchData = "Fail"
          /\ Fail("TooMuchData")
          /\ UNCHANGED <<todo, after>>
       \/ /\ Excess /\ opts.tooMuchData = "Discard"
          /\ DiscardFrom(Remaining, "return")
       \/ /\ ~Excess \/ opts.tooMuchData = "Keep"
          /\ UNCHANGED <<reader, sections, nextLfs, todo, after, pc>>
    /\ UNCHANGED <<opts, nextType, inTlv, props>>

EndSeq ==
    /\ AtSeq
    /\ ~Top.pending
    /\ Remaining = 0
    /\ \/ Top.count < TopType.min /\ Fail("NotEnoughData")
       \/ Top.count >= TopType.min /\ EndSection("return")
    /\ frames' = Front(frames)
    /\ UNCHANGED <<opts, nextType, inTlv, props, todo, after>>

----------------------------------------------------------------------------
(***************************************************************************)
(* Structs: deserialize_struct and SomeIpStructAccess.                     *)
(***************************************************************************)

(* Mutant of StructSection: wrappers and constant sizes are forgotten.     *)
StructSectionAlways(wanted) == "announced"
StructSection(wanted) == IF wanted = None THEN "none" ELSE "announced"

DeserializeStruct ==
    LET ty == Types[nextType]
        scope == IF ty.props.set THEN ty.props ELSE props
    IN  /\ pc = "value"
        /\ ty.kind = "struct"
        /\ props' = scope
        /\ \E wanted \in {WantedLengthField[[Here EXCEPT !.props = scope]]} :
              /\ \/ Failed(wanted) /\ Fail(Outcome(wanted))
                 \/ ~Failed(wanted) /\ wanted # None /\ BeginSection(wanted, "return")
                 \/ /\ wanted = None
                    /\ pc' = "return"
                    /\ UNCHANGED <<reader, sections, nextLfs>>
              /\ frames' = IF pc' # "return" THEN frames
                           ELSE Append(frames, [type |-> nextType,
                                  section |-> StructSection(wanted), count |-> 0,
                                  pending |-> FALSE, seen |-> {},
                                  orig |-> IF ty.props.set THEN props ELSE NoProps,
                                  wasTlv |-> inTlv])
        /\ UNCHANGED <<opts, nextType, inTlv, todo, after>>

AtStruct(tlv) ==
    /\ pc = "return" /\ frames # <<>>
    /\ TopType.kind = "struct" /\ TopType.tlv = tlv

(* next_element_seed: a struct with a section may be cut short.            *)
CutShort == Top.section # "none" /\ Remaining = 0

(* Mutant of NextField: is_in_tlv_struct is left as it was.                *)
NextFieldKeepingTlv ==
    /\ AtStruct(FALSE)
    /\ Top.count < Len(TopType.fields)
    /\ ~CutShort
    /\ frames' = [frames EXCEPT ![Len(frames)].count = @ + 1]
    /\ nextType' = TopType.fields[Top.count + 1].type
    /\ pc' = "value"
    /\ UNCHANGED <<opts, reader, inTlv, nextLfs, sections, props, todo, after>>

NextField ==
    /\ AtStruct(FALSE)
    /\ Top.count < Len(TopType.fields)
    /\ ~CutShort
    /\ frames' = [frames EXCEPT ![Len(frames)].count = @ + 1]
    /\ nextType' = TopType.fields[Top.count + 1].type
    /\ inTlv' = FALSE
    /\ pc' = "value"
    /\ UNCHANGED <<opts, reader, nextLfs, sections, props, todo, after>>

(* The visitor gets None for a field and reports an invalid length.        *)
FieldsCutShort ==
    /\ AtStruct(FALSE)
    /\ Top.count < Len(TopType.fields)
    /\ CutShort
    /\ Fail("Message")
    /\ UNCHANGED <<opts, nextType, inTlv, props, frames, todo, after>>

(* next_key_seed, where read_next_tag cannot read the tag.                 *)
TagUnreadable ==
    /\ AtStruct(TRUE)
    /\ Remaining > 0
    /\ \E out \in Outcomes(2) \ {"ok"} : Fail(out)
    /\ UNCHANGED <<opts, nextType, inTlv, props, frames, todo, after>>

(* The tag of a field of the struct.  next_value_seed follows at once,     *)
(* unless the visitor has seen the field before.                           *)
KnownField(i, wire) ==
    LET field == TopType.fields[i]
        accepted == Accepts(WireTypeOf(Types[field.type]), wire)
    IN  /\ \/ /\ ~accepted \/ i \in Top.seen
              /\ Fail(IF accepted THEN "Message" ELSE "InvalidWireType")
              /\ UNCHANGED <<frames, nextType, inTlv>>
           \/ /\ accepted /\ i \notin Top.seen
              /\ Take(2)
              /\ nextLfs' = LengthFieldOfWire(wire)
              /\ nextType' = field.type
              /\ inTlv' = TRUE
              /\ frames' = [frames EXCEPT ![Len(frames)].seen = @ \cup {i}]
              /\ pc' = "value"
        /\ UNCHANGED <<opts, props, todo, after>>

(* Mutant of UnknownField: the size that the tag announces is forgotten.   *)
UnknownFieldAsConfigured(wire) ==
    /\ Take(2)
    /\ nextType' = Top.type
    /\ \/ /\ wire < FromConfig
          /\ pc' = "skipFixed"
          /\ todo' = FixedSize[wire + 1]
       \/ /\ wire >= FromConfig
          /\ pc' = "skipField"
          /\ UNCHANGED todo
    /\ UNCHANGED <<opts, nextLfs, inTlv, props, frames, after>>

(* The tag of a field that the struct does not have.                       *)
UnknownField(wire) ==
    /\ Take(2)
    /\ nextType' = Top.type
    /\ \/ /\ wire < FromConfig
          /\ pc' = "skipFixed"
          /\ todo' = FixedSize[wire + 1]
          /\ UNCHANGED nextLfs
       \/ /\ wire >= FromConfig
          /\ pc' = "skipField"
          /\ nextLfs' = LengthFieldOfWire(wire)
          /\ UNCHANGED todo
    /\ UNCHANGED <<opts, inTlv, props, frames, after>>

(* next_key_seed and next_value_seed, when there is a tag.                 *)
NextKey ==
    /\ AtStruct(TRUE)
    /\ Remaining > 0
    /\ "ok" \in Outcomes(2)
    /\ \E wire \in WireType :
          \/ UnknownField(wire)
          \/ \E i \in DOMAIN TopType.fields : KnownField(i, wire)

SkipFixed ==
    /\ pc = "skipFixed"
    /\ DiscardFrom(todo, "return")
    /\ UNCHANGED <<opts, nextType, inTlv, props, frames>>

(* Transformation properties are not taken into account, and a default     *)
(* must exist even if the tag announces a size.                            *)
SkipField ==
    /\ pc = "skipField"
    /\ \E size \in {ApplyDefaults(opts, TopType.lfs)} :
          \/ size = None /\ Fail("MissingPanic")
          \/ size # None /\ BeginSection(size, "skip")
    /\ UNCHANGED <<opts, nextType, inTlv, props, frames, todo, after>>

(* The visitor misses a field that is no Option.                           *)
FieldMissing ==
    /\ AtStruct(TRUE)
    /\ Remaining = 0
    /\ Top.seen # DOMAIN TopType.fields
    /\ Fail("Message")
    /\ UNCHANGED <<opts, nextType, inTlv, props, frames, todo, after>>

AllFields ==
    \/ AtStruct(FALSE) /\ Top.count = Len(TopType.fields)
    \/ AtStruct(TRUE) /\ Remaining = 0

(* Mutant of EndStruct: the properties are not restored.                   *)
EndStructKeepingProps ==
    /\ AllFields
    /\ \/ Top.section # "none" /\ EndSection("return")
       \/ Top.section = "none" /\ UNCHANGED <<reader, sections, nextLfs, pc>>
    /\ inTlv' = Top.wasTlv
    /\ frames' = Front(frames)
    /\ UNCHANGED <<opts, nextType, props, todo, after>>

EndStruct ==
    /\ AllFields
    /\ \/ Top.section # "none" /\ EndSection("return")
       \/ Top.section = "none" /\ UNCHANGED <<reader, sections, nextLfs, pc>>
    /\ inTlv' = Top.wasTlv
    /\ props' = IF TopType.props.set THEN Top.orig ELSE props
    /\ frames' = Front(frames)
    /\ UNCHANGED <<opts, nextType, todo, after>>

----------------------------------------------------------------------------
Stopped == ~Running /\ UNCHANGED vars

(* The deserializer's own steps.                                           *)
Step ==
    \/ Call
    \/ DeserializeFixed
    \/ DeserializeOption
    \/ DeserializeString
    \/ DeserializeStr
    \/ ReadString
    \/ ReadStr
    \/ DeserializeBytes
    \/ ReadBytes
    \/ Skip
    \/ DiscardChunk
    \/ EndLeaf
    \/ DeserializeSeq
    \/ NextElement
    \/ ElementRead
    \/ EndSeq
    \/ DeserializeStruct
    \/ NextField
    \/ FieldsCutShort
    \/ TagUnreadable
    \/ NextKey
    \/ SkipFixed
    \/ SkipField
    \/ FieldMissing
    \/ EndStruct
    \/ Finish

Next == Step \/ DiscardFails \/ Stopped

Spec == Init /\ [][Next]_vars

(* The call goes on as long as it can; a Read need never fail.             *)
FairSpec == Spec /\ WF_vars(Step)

----------------------------------------------------------------------------
(***************************************************************************)
(* Safety.                                                                 *)
(***************************************************************************)
Current == Running \/ pc = "ok"

(* The open accesses that have a section of their own.                     *)
Sectioned(fs) == {i \in DOMAIN fs : fs[i].section # "none"}

(* A string, byte slice or unknown field has a section of its own.         *)
InLeaf == \/ pc \in {"string", "str", "bytes", "skip", "end"}
          \/ pc = "discard" /\ after = "end"

(* end_length_delimited_section never panics for want of a section: the    *)
(* open sections are those of the open accesses, of a string, byte slice   *)
(* or unknown field, and none is left over when the value is complete.     *)
SectionsMatchFrames ==
    Current => Len(sections) = Cardinality(Sectioned(frames)) + (IF InLeaf THEN 1 ELSE 0)

(* A section never promises more bytes than the reader has left, although  *)
(* a read counts down the innermost one only: the outer ones have given up *)
(* its bytes when it began, and before_read's check covers the reader too. *)
SectionsWithinReader == Running => Remaining <= reader.remaining

(* The length field size that a tag announces is used for the length field *)
(* right behind that tag, and by no value within the field or after it.    *)
AnnouncedSizeIsFresh ==
    Running /\ nextLfs # None =>
        /\ frames # <<>> /\ TopType.kind = "struct" /\ TopType.tlv
        /\ \/ pc = "skipField"
           \/ pc = "value" /\ inTlv /\ WireTypeOf(Types[nextType]) = FromConfig

(* is_in_tlv_struct says whether the value is a field of a TLV struct,     *)
(* also behind values that were nested in structs of the other kind.  It   *)
(* decides whether the value has a length field and may be an Option.      *)
InTlvMatchesEnclosing ==
    pc = "value" =>
        inTlv = (frames # <<>> /\ TopType.kind = "struct" /\ TopType.tlv)

(* The transformation properties in force are those of the innermost open  *)
(* struct that has its own, also after nested structs have replaced and    *)
(* restored them.                                                          *)
OwnProps == {i \in DOMAIN frames : /\ Types[frames[i].type].kind = "struct"
                                   /\ Types[frames[i].type].props.set}
PropsScoped ==
    Current => props = IF OwnProps = {} THEN NoProps
                       ELSE Types[frames[Max(OwnProps)].type].props

(* A section whose length is computed from max_elements is as long as its  *)
(* elements: it never makes the data too short.  Error::TooShort means     *)
(* "reading beyond the end of the serialized data" or of what a length     *)
(* field inside the message indicates.                                     *)
ComputedSectionsSuffice ==
    pc = "TooShort" =>
        \/ Sectioned(frames) = {}
        \/ frames[Max(Sectioned(frames))].section = "announced"

(* Every byte that is counted as read has been read from the reader, or    *)
(* will be by the discard that is under way.                               *)
Owed == reader.remaining - reader.available
        + (IF pc = "discard" THEN todo ELSE 0)
EveryByteRead == [][pc' \in Errors \/ Owed' = Owed]_vars

(* Every call ends: no data keeps the deserializer going for ever.         *)
Terminates == <>(~Running)

=============================================================================
