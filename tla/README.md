# serde_someip in TLA+

A TLA+ model of [serde_someip](../src/Readme.md), a serde data format for SOME/IP,
with the TLC runs that check it on small instances and TLAPS proofs of its main
invariants. The reference is the source in `src/serde_someip/src`; this page says
what the system is, which module models which part, what is checked, what is proved
and what is not.

## 1. The system

SOME/IP is a wire format without self description: both sides know the type. The
crate drives serde's visitors by a static type description (`SomeIpType`), which its
derive macro builds, and by a set of compile time options (`SomeIpOptions`).

Everything runs on the caller's thread; there is neither concurrency nor persistence.
What is hard is *nesting*: values are nested to any depth, each level has its own
rule on whether it has a length field, of which size and announced by which tag, the
two engines keep that in a handful of flat, mutable fields that every nested value
overwrites, and lengths are only known after what they describe has been written.
On the reading side, all of this has to hold for any bytes whatsoever.

| Component | State it keeps | Operations | Interaction |
|---|---|---|---|
| Type descriptions (`types.rs`) | none (constants): kinds of types, bounds, field ids, transformation properties | `verify`, `is_const_size`, `wanted_length_field`, `max_len`, `get_wire_type` | asked by both engines at each value, with the options, `is_in_tlv_struct` and the properties in force |
| Length field sizes (`length_fields.rs`) | none | `minimum_length_for`, order | used by types, options, serializer |
| Wire types and tags (`wire_type.rs`) | none | tag to and from (wire type, id), fixed size, announced length field, `check` | used by the TLV halves of both engines |
| Options (`options.rs`) | none (associated constants) | `select_length_field_size`, `apply_defaults`, `verify_string_encoding`, convenience functions | type parameter of everything |
| Writer (`ser.rs`, `SomeIpWriter`) | the caller's `Vec<u8>` or `BytesMut` | append, `copy_within`, `set_len`, write at a previous position | owned by the serializer during a call; an error leaves it as it is |
| Serializer (`ser.rs`) | `next_type`, `is_in_tlv_struct`, `last_length_field`, stack of open sections, `transformation_props`; one `SomeIpSeqSerializer` / `SomeIpStructSerializer` per open value | one per serde call: numbers, strings, bytes, `None`, begin/element/end of sequences and structs | called back by the value's `Serialize` |
| Reader (`de.rs`, `SomeIpReader`, `ExtendedReader`) | bytes remaining; the `Read` behind it | `read`, `read_vec`, `discard`, `read_borrowed` | wrapped by the deserializer, which is a reader itself |
| Deserializer (`de.rs`) | `next_type`, `next_length_field_size`, `is_in_tlv_struct`, stack of sections, `transformation_props`; one `SomeIpSeqAccess` / `SomeIpStructAccess` per open value | one per serde call, tags of known and unknown fields | calls the visitors, which call back |
| String codecs (both) | none | UTF-8, UTF-16, ASCII; byte order mark, terminator | within one string |
| Errors (`error.rs`) | none | | outcome of a call |
| Derive macro (`serde_someip_derive`) | none at run time; while it runs `encountered_ids`, `seen_ids` / `seen_values`, the fields so far and the nesting of `derive_type` | attributes to `SomeIpType` | runs in the compiler |
| Convenience functions (`options.rs`, `lib.rs`) and the feature `bytes` | none | forward to the functions above | |

What makes each part correct:

* *Types and sizes*: a section reserves enough for what is written; no length is
  truncated; a computed section is exactly as long as its elements.
* *Serializer*: sections are ended by the value that began them; they lie one behind
  the other, so that shifting one of them never damages another; every length field
  is patched and no reserved byte is left; a tag announces the length field that
  really follows; properties and the TLV flag are those of the enclosing struct after
  any nesting; the bytes the caller had in the buffer are never touched; all in all a
  message is nothing but nested segments, each behind its length.
* *Derive macro*: what compiles is what was declared, at every level; ids and values are
  unique; no error is lost; the type is one that `verify` accepts.
* *Strings*: the text that was written is read, or an error; never another text, neither
  cut, nor in another byte order, nor when half of a character is missing.
* *Both engines together*: a value that can be sent is received as what it was, also by a
  program with another version of the type.
* *Deserializer*: reads stay within nested windows for any data; windows are left at
  their end by the value that entered them; a length field size announced by a tag
  goes to the value right behind it; every byte counted as read has been read; every
  call ends.

## 2. Modules

| Module | Models | Notes |
|---|---|---|
| `Verification` | `verify` of `types.rs` | over any table of types: that of the engines is a constant, that of the macro grows |
| `SomeIpTypes` | the rest of `types.rs`, `length_fields.rs`, `wire_type.rs`, `options.rs` | pure operators and recursive functions on type ids; types are a constant table in which a type only refers to smaller ids, since the macro can only build finite constants |
| `SomeIpTypesProofs` | | lemmas about the operators of `SomeIpTypes` and about sequences, for both engines' proofs |
| `Induction` | | induction on natural numbers, stated for sets of numbers; that functions defined by recursion exist |
| `Cells` | `SomeIpWriter` | one cell for each byte says what the byte is part of: reserved zero, content, tag, length |
| `Serializer` | `ser.rs` | state machine, environment = `Serialize` |
| `Framing` | | what the serializer promises about its output: nested segments, without positions, reservations or patching |
| `SerializerFraming` | | the refinement mapping from `Serializer` to `Framing` |
| `SerializerProofs` | | inductive invariant and theorems: positions, lengths, scopes; then what stands in the buffer: reserved bytes, and where unfinished tags lie |
| `SerializerTagProofs` | | tags and the values behind them |
| `SerializerFramingProofs` | | that `Framing` is implemented |
| `Reader` | `SomeIpReader`, `ExtendedReader` | outcomes of each operation; the bytes themselves are chosen by the environment when they are read |
| `Deserializer` | `de.rs` | state machine, environment = data, `Read` and `Deserialize` |
| `Windows` | | what the deserializer promises about where it reads: nested windows and a cursor |
| `DeserializerWindows` | | the refinement mapping from `Deserializer` to `Windows`: `Ends` |
| `DeserializerProofs` | | inductive invariant, theorems, and that `Windows` is implemented |
| `RoundTrip` | `to_vec` and `append_to_vec`, then `from_slice` or `from_reader` | extends `Deserializer`, instantiates `Serializer`; the message is the serializer's buffer of cells |
| `Strings` | the content of one string in `ser.rs` and `de.rs` | byte by byte, which `Serializer` and `Deserializer` abstract from |
| `StringsProofs` | | inductive invariant and theorems |
| `Attributes` | `attribute.rs` | pure operators: what an attribute holds, `check` |
| `Derive` | `structs.rs`, `enums.rs`, the enum tables of `types.rs` | state machine, environment = the declaration |
| `DeriveRules` | | what the documentation of the macro (`lib.rs`, lines 35 to 192) says a declaration means, by recursion over the Rust type, and the properties that compare the macro with it |
| `DeriveProofs` | | inductive invariant and theorems |
| `MCSerializer`, `MCDeserializer`, `MCRoundTrip`, `MCStrings`, `MCDerive` | | types, options, readers, texts and declarations for TLC |

### How state and actions correspond to the code

Variables have the names of the fields of `SomeIpSerializer` and
`SomeIpDeserializer` in camel case (`next_type` is `nextType`, and so on; their
comments give the field). `frames` is the call stack: an entry for each open
`SomeIp…Serializer` or `SomeIp…Access`. `pc` says which kind of step is next: a value
(`"value"`), what follows a value (`"return"`), the middle of a string or unknown field
(deserializer), or how the call has ended, an error or a panic by name.

An action is one call of the visitor, with everything the code does before it calls
back: `serialize_seq` is `SerializeSeq`, `serialize_element` before the element is
`SerializeElement`, `serialize_field` is split at `value.serialize` into
`SerializeField` and `PatchTag`, `end` is `EndSeq` or `EndStruct`. In the deserializer
`next_element_seed` is `NextElement` and `ElementRead`, `next_key_seed` with
`next_value_seed` is `NextKey`, unknown fields go on with `SkipFixed` or `SkipField`,
`Skip`, `DiscardChunk` and `EndLeaf`; strings are `DeserializeString` or
`DeserializeStr`, then `ReadString` or `ReadStr`, then `Skip` and `EndLeaf`. A panic is
an outcome, never left out. `debug_assert` matters in one place: `verify` runs only
with debug assertions (`DebugAssertions`); `overflow-checks` matter nowhere, as
`TypeOK` of both engines shows that the counters never underflow.

In `RoundTrip` both machines are driven at once: `Send` is a step of the serializer
together with what the `Serialize` implementation says by it (`sent`), `Receive` a step
of the deserializer together with what its visitors are told (`got`). The deserializer
of module `Deserializer` takes any data; here a length field or tag that the serializer
has written at that place has the value that it has there (`LengthGenuine`, `TagsToRead`),
and what is read at any other place is still arbitrary. So a receiver that is off by a
byte is not rescued by the model. `Strings` stands for the inside of `SerializeStr`,
`ReadString` and `ReadStr`. In `Derive` an action is a stage of the macro: the attribute
of the struct, the id of a field, one level of `derive_type`, the end of a sequence; the
recursion of `derive_type` is the stack `open`. What is written to the output as
`compile_error!` is `errors`.

Abstracted: the bytes of numbers, and except in `Strings` those of strings; byte order
of integers (hence one
`"Utf16Le"` in the engines for the two UTF-16 encodings with a fixed byte order); names
except those of enum variants; tokens, of which the macro's parser says that they are an
attribute or not; the numbers
within errors; hints that only affect allocation. The environment makes the calls that
the type describes, in the order of declaration, as the documentation demands of
`Serialize` and `Deserialize` implementations.

## 3. What the runs check

Passing runs:

| Run | Checks | Bounds |
|---|---|---|
| `serializer` | `TypeOK`; `SectionsMatchFrames` (no `pop().unwrap()` on an empty or foreign stack); `SectionsNested`; `PlaceholdersAreOpen` (reserved zeros exactly where a section is open, so that shifting keeps all positions right); `TagsAnnounceLengthFields`; `PropsScoped`; `FailuresOnlyAppend` (an action property: a step that ends in an error has neither moved nor cut what was written, as the length is refused before the section is shifted); `ImplementsFraming` (refinement of `Framing`) | 9 roots out of 20 types with up to five levels (sequences of TLV structs, TLV around own properties around strings, wrappers, constant sizes), 4 options, up to 3 elements and 4 units |
| `append` | `PriorBytesKept`, an action property: no step, of a successful, failing or second call, changes what the caller had | 3 roots, 2 calls, build without debug assertions |
| `deserializer` | `TypeOK`; `SectionsMatchFrames`; `SectionsWithinReader` (only the innermost section is counted down, yet none ends beyond the data); `AnnouncedSizeIsFresh`; `InTlvMatchesEnclosing`; `PropsScoped`; `ComputedSectionsSuffice`; `EveryByteRead`; `Terminates` (liveness); `ImplementsWindows` (refinement of `Windows`) | 9 roots out of 21 types, 3 options (all three reactions to too much data), slices of 9 and 11 bytes, streams of 8 and 9 bytes one of which has bytes behind the message, length fields up to 8 |
| `derive` | `TypeOK`; `CompilesAsDocumented` (no error is lost and none raised without reason, whatever field, level or stage finds it); `DerivesWhatIsDeclared` (no bound, size or id slips to another field or level); `AcceptedIsVerifiable`; `IdsTellFieldsApart`; `EnumsRoundTrip`; `Ends` (liveness) | some 2,300 declarations: 27 fields with right, missing, superfluous, ill-typed and nested attributes, each with ids at the bounds, in front of and behind eight others; enums of five raw types with values at both ends of the range |
| `round_trip` | `AtPart` (both machines agree on where tags, lengths and contents begin, also behind what is skipped); `ReceivesWhatWasSent` (the receiver's view of the value, and nothing left over); `Arrives` (liveness: no error, panic or endless loop) | 5 roots out of 19 types, each with a receiver of the same and of another version, 4 options, slices and complete streams, up to 2 elements |
| `strings` | `TypeOK`; `TextArrives`; `CutTextIsPrefix`; `AcceptedAsWritten` (there is one way to write a text only); `EarlyEndIsReported` | 7 options, texts of up to 2 out of 5 characters (NUL, one to four bytes in UTF-8, one and two units in UTF-16, the byte order mark itself), any data of up to 4 out of 8 bytes |

*Bounds.* The capacities of the length fields are parameters, with 7, 30 and 200 for
`u8::MAX`, `u16::MAX` and `u32::MAX`: this way messages of a few bytes cross all three
boundaries, and `SelectLengthFieldSize` with `Smallest` shrinks and `AsConfigured`
grows a field within one message. `MaxElements` (3) is above `max_elements` of some
sequences and below that of others, so that both errors occur, and `MaxUnits` (4) makes
strings that are too long and strings that need the larger length field.
`MaxLength` (8) with readers of 8 to 11 bytes gives length fields that announce more
than there is, at each level, and values that are complete; every root that passes
`verify` reaches `"ok"`, except the two that are there for the panics of `size_hint`
(types 19 and 21), and three sections are open at once. Each nested type has the
inner struct of the other kind (TLV or not) with its own properties, and fields behind
it, since what is wrong after nesting is only seen by the next field. Message wrappers
are roots only, as the documentation wants them (`lib.rs`, lines 117 to 119); as a TLV field one would
leave the announced size to a section inside it.

In `round_trip`, `MaxLength` is 31, the longest message of these types, and every root
with every version reaches `"ok"`. Receivers of another version need more than the documentation
asks for, which `Receivers` says: with legacy wire types no type has a length field size of its
own (`SizedByOptions`), since the receiver takes the default for that of an unknown
field; there is a default, without which an unknown tag panics; and the reaction to too
many elements is not `Fail`. Type 18 has an unknown field whose length field is announced
when it is short and left to the configuration when it is long.
`strings` has the sizes in `max_size` fall on, between and inside characters; a sender
with a byte order mark may have another byte order than the receiver. The end of a `Read`
is anywhere in the data. The declarations of `derive` give each error of the macro at
least once as the first, as a later and as the only one.

*Fairness.* `FairSpec` is `Spec /\ WF_vars(Step)`: the thread goes on while it can.
Nothing else is assumed, and nothing weaker would do: the call has no other scheduler.
`DiscardFails` (a `Read` that fails) is not in `Step`, as no `Read` need ever fail.
`Terminates` holds for readers with as many bytes as `from_reader` was told; for one
that ends early it does not (`discard_hangs`). `RoundTripSpec` has `WF` of `Deliver` and
`Receive`: a message that was written is handed over, and the call that reads it goes on.
Of the sender nothing is assumed; `Arrives` starts when it has finished. `Derive` has
`WF` of `Step`: the compiler runs the macro.

`CHECK_DEADLOCK` is left on: a stopped call stutters explicitly (`Stopped`), anything
else that gets stuck is an error.

### Violations: where the code differs from what it says

Each of these runs states one sentence of the documentation, an assertion or a comment
and TLC shows a behaviour of the code that violates it. PROJECT.json has the quotes.

| Run | What happens |
|---|---|
| `none_panic` | `last_length_field` survives a nested section that no field has taken; the next `None` of a length delimited type in a TLV struct, whichever field it is, then makes `serialize_field` patch the tag that `serialize_none` has removed. The position is the end of the buffer: assertion in `write_at_previous_pos` |
| `reservation` | `max_len` of a TLV struct leaves out its tags; inside a TLV struct more bytes are then needed for the length than are reserved: `assert!(reserved > actual)` |
| `discard_hangs` | a `Read` that ends early makes `discard` loop for ever |
| `short_read` | a `Read` that ends early gives a short string or byte vector, without an error |
| `computed_section` | the section of a sequence without length field leaves out the properties of its element type: complete data is `TooShort` |
| `borrowed_str` | a `&str` of `Utf16Le` or `Utf16Be` is borrowed as UTF-8: what was sent comes back as another text, without an error |

Met while modelling, in the models as outcomes, without runs of their own because what
the code does is plain from reading it: `from_reader` cannot read `u64`, `i64` or `f64`
(`assert!(len < 8)`, `de.rs`, line 132); a `Vec` of structs without fields divides by zero
(`size_hint`, line 598; the macro refuses such structs); `minimum_length_for` panics (`LengthPanic`) on
types whose greatest length exceeds `u32::MAX`, which `verify` accepts, and `size_hint`,
which drops the errors of `max_len`, meets that panic as well; `TooLong` is
returned for short values when the longest value would not fit; bytes left over behind
the root value are not reported, unlike `Error::NotAllBytesConsumed` says;
`deserialize_bytes` does not check `min_elements`; an unknown TLV field panics
(`MissingPanic`) when neither the struct nor the options have a length field size, even
if its tag announces one; with a legacy wire type the length field of an unknown field is
read with the size of the struct or the default, whatever the sender's properties were.
In the macro: `treat_as = Option<..>` in a TLV struct recurses for ever, as the attribute
is kept for the inner type (`structs.rs`, lines 163 and 173; `Ends` excludes it with
`OptionsAreNotTreated`); `min_size` above `max_size` compiles, and panics in `verify`; of
several `#[someip]` attributes the first is read and the others are ignored.

## 4. What is proved

The theorems hold for every table of types, all options, any capacities of the length
fields, any bounds, any value and any data. They rest on what the modules assume of
their constants: `CapacityAssumption` (the capacities increase), `TypesAssumption`
(types are well formed and refer to smaller ones only), `RootsAssumption`,
`OptionsAssumption` and `BoundsAssumption` (`Serializer`), and `DeserializerAssumption`,
by which a slice holds as many bytes as it says. `verify` is not assumed. Some theorems
have hypotheses about the table of types, which are part of their statements:

* `IdsFit`: the ids of fields have twelve bits, which the macro checks
  (`IdsAlwaysTellFieldsApart` below) and `verify` again;
* `NoWrapperInTlv`: no message wrapper is the field of a TLV struct. The documentation
  reserves wrappers for the parameters of a function (`lib.rs`, lines 117 to 119); no code
  rejects them, and the properties are false of such types.

* `NoPropsInConst`: a struct within a type of constant size has no transformation
  properties of its own. The code computes the length of such a type without them and
  reads it with them, which is what `computed_section` shows.

The types of the passing runs satisfy all three, and each invariant below was first checked by TLC.

### Serializer (`SerializerProofs`, `SerializerTagProofs`, `SerializerFramingProofs`)

| Theorem | Says |
|---|---|
| `TypeCorrect` | `[]TypeOK` |
| `SectionsAlwaysMatchFrames` | `pop().unwrap()` always finds the section of the value that ends |
| `SectionsAlwaysNested` | open sections lie one behind the other, each with its reserved bytes, behind the caller's bytes |
| `FailuresAlwaysOnlyAppend` | a step that ends in an error only appends; behind the shift of a section there is no failure, and no length is truncated |
| `PriorBytesAlwaysKept` | no step changes what the buffer held before the call |
| `PropsAlwaysScoped` | the transformation properties in force are those of the innermost struct around the value that has any |
| `PlaceholdersAlwaysOpen` | reserved zeros stand exactly where a section is open |
| `TagsAlwaysAnnounce` | with `IdsFit` and `NoWrapperInTlv`: the tag of a complete TLV field announces the length field, or the fixed size, of what follows |
| `FramingIsImplemented` | with the same two: `Spec => ImplementsFraming`, the serializer implements `Framing` |

The first five follow from one inductive invariant, `IInv`. Besides `TypeOK`, `SectionsMatchFrames`
and `SectionsNested` it says that every length cell fits its length field (`FitCell`,
so that `as u8`, `as u16` and `as u32` never truncate;
carried along because cells are moved and rewritten later), that the caller's bytes are
a prefix (`base <= Len(buf)`), and two things about the tags: the tag that an open TLV
field will patch lies behind the caller's bytes and is that of a field with an id
(`TagsOfFields`), and a value that is about to be written as a TLV field has its two
bytes of tag in front of it, within the innermost section (`TagJustWritten`). Without
these two, neither the patch in `serialize_field` nor the `set_len` in `serialize_none`
could be shown to stay off the caller's bytes and off the reserved bytes of outer
sections. That an error only appends needs it too: the positions of a section must be in
order for the length that is compared to be that of what was written. There is a lemma for each operation on the buffer, then one for each action.

*Scopes.* `PropsScoped` compares `transformation_props` with a walk through all open
serializers. `InScope` says of a value `v` that it is what such a walk finds, without
walking: the innermost struct with properties of its own has them, or there is none and
`v` is the default. `Scoped` asks that of the properties in force and of those that each
open struct has put aside, each for the serializers around it; opening and closing a
serializer then only add or take the last one.

*Reserved bytes.* `PlaceholdersAreOpen` is not inductive: a section that grows or shrinks
shifts all behind it, `serialize_none` takes a tag back, and what is shifted or cut could
be zeros of another section. `Placed` adds `Layout`, which puts the tags of unfinished
fields and the open sections into one order: `Rank(frames, i)` counts the sections of the
first `i` serializers, the tag of the `i`-th lies behind that many sections and in front
of the others, the tags are in order, and the value of a TLV field starts right behind
its tag.

*Tags.* A tag is written with a guess and patched when its value has ended.
`TagsKept` says of unfinished fields what `TagsAnnounceLengthFields` says of finished
ones: the cells of tags come in pairs (`Paired`), those of open fields are where `Layout`
says and have the guessed wire type (`TagsStand`), all but the last of these are followed
by the section of the serializer that was opened for their value (`ValuesDelimited`,
`ValueOfField`), and a value that has just returned left nothing (`None`), its fixed
bytes, or the length field that `last_length_field` tells of (`ValueReturned`). The last
alternative is about a variable that every nested value overwrites; that it is right at
this one moment is all that `PatchTag` needs, and at others it is stale (`none_panic`).

*The refinement.* `Framing` knows no positions: a segment grows at its end, or is closed
and put behind its length. The serializer has all segments in one buffer, with reserved
bytes between them, and closes one by shifting it to where its length field really ends.
`Cuts` are the pieces of the buffer between the open sections; lemmas say what becomes of
them when the buffer grows, when a section begins, and when a tag is taken back or patched.
The one about closing (`CutsClose`) is the heart of it: patching the length, moving the
content by the difference between what was reserved and what is needed and cutting or
growing the buffer amounts to appending the length and the innermost piece to the one
around it, and leaves the others alone. Then each action is a step of `Framing` or a
stutter. A tag may only be announced or taken back where one stands, which `TagsStand`
says down to its two cells.

### Deserializer (`DeserializerProofs`)

| Theorem | Says |
|---|---|
| `TypeCorrect` | `[]TypeOK`: no counter of bytes underflows, whatever the data |
| `SectionsAlwaysMatchFrames` | ending a section always finds one; none is left over at the end |
| `SectionsAlwaysWithinReader` | no section promises more than the reader has left |
| `InTlvAlwaysMatchesEnclosing` | `is_in_tlv_struct` is right for every value |
| `EveryByteIsRead` | `EveryByteRead`, for readers that have what `from_reader` was told (`CompleteReaders`) |
| `PropsAlwaysScoped` | the transformation properties in force are those of the innermost struct around the value that has any |
| `AnnouncedSizeAlwaysFresh` | with `NoWrapperInTlv`: a length field size announced by a tag is taken by the value right behind it |
| `ComputedSectionsAlwaysSuffice` | with `NoWrapperInTlv` and `NoPropsInConst`: the section that is computed for a sequence without length field holds its elements, at every level, so that `TooShort` speaks of the data alone |
| `WindowsAreImplemented` | `Spec => ImplementsWindows`: the deserializer implements `Windows` |

The difficulty is that `before_read` counts down the innermost section and the reader,
and no other section, so that what a section says is inductive only together with all
the others. `IInv` therefore has `Supplied`: while the call runs there are *floors*, one
for each section, that say what the reader will have left at its end (`Covered`), and a
complete reader still has the bytes that are counted but not yet read (`Backed`). Reading,
beginning and ending a section have a lemma each on how the floors move (`LessCovered`,
`AppendCovered`, `FrontCovered`). The other conjuncts are `SectionsMatchFrames`,
`InTlvMatchesEnclosing`, and what these need: every open sequence has a section
(`SeqsHaveSections`), and what is read in several steps is of the type that began it
(`LeafTypes`, `AtStart`). Each step lemma shows both that `IInv` is kept and that the
bytes are accounted for, since `EveryByteRead` speaks of steps.

`CompleteReaders` is necessary: without it `EveryByteRead` is false (`short_read`).

*Scopes* are proved as in the serializer, with the lemmas of `SomeIpTypesProofs`. That a
size is fresh needs the step as well as the state: `SizeIsTaken` says that it is set only
where the next value is one with a length field, and every such value takes it.

*The refinement.* A window of `Windows` ends at a fixed place, what the deserializer has
is a count for each section that is only right for the innermost one. `Ends` maps one to
the other. It is a recursive function, so that first `EndsAre` describes it without
recursion and an induction shows that there is one sequence with this description, namely
`Ends`. Three lemmas say how it follows the code: counting down section and reader
together leaves all windows where they are (`LessKeepsEnds`), beginning a section adds one
(`AppendAddsEnd`), ending one drops the last and takes its length off the one around it
(`FrontDropsEnd`). `Moves` lists what a step can do to sections and reader, each action is
shown to be one of them, and each of them is a step of `Windows` or a stutter. `Supplied`
gives the bounds.

*Computed lengths.* That a section computed by `max_len` suffices shows only at its end,
and in between any number of sections within it begin and end whose lengths come from
the data. So what is due cannot be compared with the count of the section, only with
the place where it ends. `RestOf` is what an open access still has to read by `max_len`:
the elements not begun yet, or the sum of the remaining fields. `Exact` says of all
accesses within a computed section that they are to values of constant size (`Steady`),
and that what is due to them, counted from the innermost one outwards, ends where the
computed sections do (`Aligned`); the same `Ends` as in the refinement maps counts to
places. Opening an access replaces the length of a value by the sum of its parts,
reading a leaf takes its size off, ending an access finds nothing due (`ExactOpens`,
`ExactSpends`, `ExactCloses`). It rests on the values of the recursive functions
`IsConstSize` and `MaxLen`: `SomeIpTypesProofs` shows that they satisfy their
definitions, by the fact that a type refers to smaller ones only (`Contractive` in
`Induction`), and `ConstSeq` and `ConstStruct` that a value of constant size is as long
as its parts together. By `NoPropsInConst` the properties that `max_len` was given are
still in force when the parts are read.

### Derive macro (`DeriveProofs`)

For every set of declarations, however many fields, variants and levels they have, and
any widths of the raw types (`DeclarationsAssumption`, `WidthsAssumption`). The last
theorem has a hypothesis on the type of what is known by name only, `NamedTypeIsLeaf`:
its own declaration has a table of its own, where what it refers to is verified.

| Theorem | Says |
|---|---|
| `TypeCorrect` | `[]TypeOK` |
| `IdsAlwaysTellFieldsApart` | in a struct that compiles either no field has an id or all have different ones of twelve bits |
| `EnumsAlwaysRoundTrip` | in an enum that compiles each variant is read back from the bits that are written for it |
| `AcceptedIsAlwaysVerifiable` | with `NamedTypeIsLeaf`: what compiles is accepted by `verify`, if the bounds of its strings and sequences are in order |

The macro keeps `seen_ids`, `encountered_ids` and the derived fields apart and compares
them only at the end, and goes on after most errors. `IInv` ties them together as long
as there was no error: the ids of the fields so far are distinct and in `seen`, and
`encounteredIds` counts them (`IdsSeen`, `IdsCounted`), that of the field that is being
derived included; likewise the values of an enum are in range and their bits in `seen`
(`ValuesSeen`). `BitsBack` is the lemma that the cast and the cast back cancel out.

`verify` recurses through the type, the macro has built it from the inside out. `Built`
says of the table so far what `verify` will ask of each entry, and that an entry refers
only to entries in front of it; of a struct it follows from `IdsCounted` and `IdsSeen` at
its end. `verify` is a recursive function on the table, of which an induction on the
entries then shows that it accepts all of them (`WellBuiltVerifies`).

### String codecs (`StringsProofs`)

For texts of any length, any data, all options and every `max_size`:

| Theorem | Says |
|---|---|
| `TypeCorrect` | `[]TypeOK`: what is pushed onto a `String` is a `char` |
| `TextAlwaysArrives` | a text that arrives completely is read as what it was |
| `CutTextIsAlwaysPrefix` | what is read of a text that was cut is a prefix of it |
| `AcceptedAlwaysAsWritten` | data is accepted as a text only if it is what is written of this text |
| `EarlyEndIsAlwaysReported` | a UTF-16 text whose `Read` ends early fails with `IoError`, even inside a character |
| `EncodeIsPrefixCode` | if what is written of a text begins what is written of another, the text begins the other |
| `Decoded` | `DecodeUtf8` is the inverse of `Encode` |

`EncodeIsPrefixCode` is shown for one character of each encoding, by arithmetic on the
ranges of its bytes or units, then for texts by induction on their length. Strings in
UTF-8 and ASCII are read at once and `Decoded` does the rest; those in UTF-16 are read
unit by unit, and `IInv` has the state in between: the bytes read so far are those of the
characters pushed so far, and of the first half of one more if a high surrogate waits for
the other (`UnitsRead`). From there a text that is accepted was written
(`AcceptedWritten`), and what was written and arrives completely raises no error
(`NoFalseAlarm`). The first yields a text that begins with the same bytes as the one that
was sent, and by the prefix code they are the same. `Mistaken`, a `&str` borrowed from UTF-16 with a fixed byte order, is left
out as in the properties, which are false of it (`borrowed_str`).

### Checked by TLC only

* `Terminates`, `Arrives` and `Ends`: liveness is beyond this prover.
* The round trip: `View` is a RECURSIVE operator, which switches off the arithmetic
  prover, and `AtPart` would need the invariants of both engines tied together at
  every level of nesting.
* The comparison of the macro with its documentation (`CompilesAsDocumented`,
  `DerivesWhatIsDeclared`), whose `Meaning` is a RECURSIVE operator.

The library's induction theorems take a predicate as a parameter, which the provers do
not instantiate. `Induction` derives from its well-founded sets the same for a set of
numbers, `{n \in Nat : ...}`; the inductions of `DeserializerProofs`, `DeriveProofs` and
`StringsProofs` use that.

## 5. Not modelled

* *Convenience functions, feature `bytes`*: they forward to the modelled functions; of
  `append_to_bytes` only the writer differs, which `Cells` covers.
* *Error messages and `Display`*: an error is its name.
* *Overflow of `usize`* in `max_len` (`types.rs`, lines 477 and 524) and in the length
  computed for a section (`de.rs`, line 1055): lengths are numbers without bound. It takes
  a type of more than 2^64 bytes.
* *`verify` of an enum* (`SomeIpEnum::verify`, `types.rs`): it compares the kinds of the
  values with the raw type, and the macro writes all of them with that type.
* *Tokens*: `syn` parses them; an attribute is its keys and values, or does not parse.
  Generics and the spans of errors are left out.
* *Calls that the macro and serde's own implementations never make* (`unimplemented!`:
  maps, tuples, `char`, 128 bits): they panic at once.
