----------------------------- MODULE RoundTrip -----------------------------
(***************************************************************************)
(* What to_vec writes, from_slice and from_reader read: the serializer of  *)
(* module Serializer makes a message, which is delivered to the            *)
(* deserializer of module Deserializer.  The receiver has the same options *)
(* and either the same type or one of another version of the program, with *)
(* other TLV fields or fewer elements.                                     *)
(*                                                                         *)
(* The deserializer's data is no longer arbitrary: where it reads a length *)
(* field or tag that the serializer wrote there, it gets that value.  If   *)
(* it reads anything else it still gets any value.                         *)
(***************************************************************************)
EXTENDS Deserializer, Cells

CONSTANTS
    Versions,      \* the types of the receivers of a value of each root type
    InitialBytes, MaxElements, MaxUnits

ASSUME VersionsAssumption ==
    /\ Versions \in [Roots -> SUBSET TypeId]
    /\ \A root \in Roots : root \in Versions[root]

VARIABLES
    buf, sNextType, sInTlv, lastField, sSections, sProps, sFrames, sPc, base, calls,
    sentType,   \* the type of the value that is sent
    sent,       \* what the Serialize implementation has said of it so far
    delivered,  \* whether the receiver has the message
    expected,   \* the type that the receiver takes it for
    got         \* what the visitors of the receiver have been told so far

sender == <<buf, sNextType, sInTlv, lastField, sSections, sProps, sFrames, sPc,
            base, calls, sentType, sent>>
receiver == <<reader, nextType, nextLfs, inTlv, sections, props, frames, todo,
              after, pc, delivered, expected, got>>
allVars == <<opts, sender, receiver>>

S == INSTANCE Serializer
     WITH MaxCalls <- 1,
          nextType <- sNextType, inTlv <- sInTlv, sections <- sSections,
          props <- sProps, frames <- sFrames, pc <- sPc

----------------------------------------------------------------------------
(***************************************************************************)
(* Values, as the calls of serde describe them: a value of fixed size, a   *)
(* string of that many bytes, or a list of elements or fields, in which    *)
(* the id of a TLV field stands in front of its value.  A partial value is *)
(* the stack of the lists that are open.                                   *)
(***************************************************************************)
Nothing == <<<<>>>>
FixedOf(size) == <<"fixed", size>>
StringOf(size) == <<"string", size>>
ListOf(values) == <<"list", values>>
IdOf(id) == <<"id", id>>

Say(partial, value) == [partial EXCEPT ![Len(partial)] = Append(@, value)]
TakeBack(partial) == [partial EXCEPT ![Len(partial)] = Front(@)]
Open(partial) == Append(partial, <<>>)
Close(partial) == Say(Front(partial), ListOf(Last(partial)))
ByteList(n) == ListOf([i \in 1 .. n |-> FixedOf(1)])

(* The value that a receiver of type t gets of value v: the TLV fields it  *)
(* knows, and of too many elements as many as it takes.                    *)
RECURSIVE View(_, _)
View(t, v) ==
    LET ty == Types[t]
        FieldOfId(id) == {i \in DOMAIN ty.fields : IdOf(ty.fields[i].id) = id}
        count == IF opts.tooMuchData = "Keep" THEN Len(v[2]) ELSE Min({Len(v[2]), ty.max})
        known == SelectSeq([k \in 1 .. Len(v[2]) \div 2 |-> <<v[2][2 * k - 1], v[2][2 * k]>>],
                           LAMBDA pair : FieldOfId(pair[1]) # {})
        Seen(pair) == <<pair[1], View(ty.fields[Max(FieldOfId(pair[1]))].type, pair[2])>>
    IN  CASE ty.kind = "seq" -> ListOf([i \in 1 .. count |-> View(ty.elem, v[2][i])])
          [] ty.kind = "struct" /\ ty.tlv ->
               ListOf(FlattenSeq([k \in DOMAIN known |-> Seen(known[k])]))
          [] ty.kind = "struct" /\ ~ty.tlv ->
               ListOf([i \in DOMAIN v[2] |-> View(ty.fields[i].type, v[2][i])])
          [] OTHER -> v

----------------------------------------------------------------------------
(* A serializer and a deserializer of the same options.                    *)
InitRoundTrip ==
    /\ S!Init
    /\ sentType = sNextType
    /\ sent = Nothing
    /\ Init
    /\ nextType = sNextType
    /\ expected = nextType
    /\ delivered = FALSE
    /\ got = Nothing

(* to_vec or append_to_vec, driven by a Serialize implementation.          *)
Send ==
    /\ \/ \E root \in Roots : S!Call(root) /\ sentType' = root /\ sent' = Nothing
       \/ /\ \/ S!SerializeFixed /\ sent' = Say(sent, FixedOf(Types[sNextType].size))
             \/ \E units \in 0 .. MaxUnits :
                   S!SerializeStr(units) /\ sent' = Say(sent, StringOf(EncodedSize(opts, units)))
             \/ \E n \in 0 .. MaxUnits : S!SerializeBytes(n) /\ sent' = Say(sent, ByteList(n))
             \/ S!SerializeNone /\ sInTlv /\ sent' = TakeBack(sent)
             \/ S!SerializeSeq(S!NoHint) /\ sent' = Open(sent)
             \/ S!SerializeStruct /\ sent' = Open(sent)
             \/ S!SerializeField
                /\ sent' = IF S!TopType.tlv THEN Say(sent, IdOf(S!NextField.id)) ELSE sent
             \/ (S!EndSeq \/ S!EndStruct) /\ sent' = Close(sent)
             \/ (S!SerializeElement \/ S!PatchTag \/ S!Finish) /\ UNCHANGED sent
          /\ UNCHANGED sentType
    /\ UNCHANGED receiver

Message == SubSeq(buf, base + 1, Len(buf))

(* No part of type t has a length field size of its own: on both sides the *)
(* default of the options is what is configured.                           *)
SizedByOptions[t \in TypeId] ==
    LET ty == Types[t]
    IN  CASE ty.kind = "string" -> ty.lfs = None
          [] ty.kind = "seq" -> ty.lfs = None /\ SizedByOptions[ty.elem]
          [] ty.kind = "struct" -> /\ ty.lfs = None /\ ty.props = NoProps
                                   /\ \A i \in DOMAIN ty.fields : SizedByOptions[ty.fields[i].type]
          [] OTHER -> TRUE

(* Receivers of another version need more than the documentation asks for: *)
(* with legacy wire types, that the size which a tag leaves to the         *)
(* configuration can only be the default, and else a default as well.      *)
Receivers ==
    {t \in Versions[sentType] :
        t # sentType => /\ opts.legacyWireType => SizedByOptions[sentType] /\ SizedByOptions[t]
                        /\ opts.defaultLfs # None
                        /\ opts.tooMuchData # "Fail"}

(* The message as it is handed to from_slice or from_reader.               *)
Deliver ==
    /\ sPc = "ok"
    /\ ~delivered
    /\ delivered' = TRUE
    /\ nextType' \in Receivers
    /\ expected' = nextType'
    /\ reader' \in {Slice(Len(Message)), Stream(Len(Message), Len(Message))}
    /\ UNCHANGED <<opts, sender, nextLfs, inTlv, sections, props, frames, todo, after, pc, got>>

----------------------------------------------------------------------------
(***************************************************************************)
(* The deserializer on a message.                                          *)
(***************************************************************************)
At == Len(Message) - reader.remaining
AtCell == Message[At + 1]
ThereIs(cells) ==
    At + Len(cells) <= Len(Message) /\ SubSeq(Message, At + 1, At + Len(cells)) = cells

(* A length field that has been read is the one that is there.             *)
LengthGenuine ==
    LET width == reader.remaining - reader'.remaining
    IN  /\ Len(sections') > Len(sections) /\ width > 0 /\ ThereIs(LengthBytes(width, AtCell.val))
              => Last(sections') = AtCell.val
        /\ pc' = "AnnouncedTooShort" /\ ThereIs(LengthBytes(AtCell.of, AtCell.val))
              => AtCell.val > Remaining - AtCell.of

(* Booleans, enum values and whole strings are what a serializer with the  *)
(* same options and a compatible type writes; a visitor asks for an Option *)
(* where it is allowed, and is content without a field.                    *)
ContentGenuine ==
    /\ pc' \notin {"InvalidBool", "InvalidEnumValue", "IoError"}
    /\ pc' = "CannotCodeString" => ~(Wanted = Remaining /\ Decodable(Wanted, IsUtf16(opts)))

(* A tag that is not there is any tag, also of a field nobody has.         *)
TagsToRead ==
    LET ids == {TopType.fields[i].id : i \in DOMAIN TopType.fields} \cup {MaxFieldId}
    IN  IF ThereIs(TagBytes(AtCell.val)) THEN {AtCell.val}
        ELSE {Tag(wire, id) : wire \in WireType, id \in ids}

ReadKey ==
    /\ AtStruct(TRUE)
    /\ Remaining > 0
    /\ "ok" \in Outcomes(2)
    /\ \E tag \in TagsToRead :
       LET id == tag % (MaxFieldId + 1)
           known == {i \in DOMAIN TopType.fields : TopType.fields[i].id = id}
       IN  \/ /\ known = {}
              /\ UnknownField(TagWire(tag))
              /\ UNCHANGED got
           \/ /\ \E i \in known : KnownField(i, TagWire(tag))
              /\ got' = Say(got, IdOf(id))

Receive ==
    /\ delivered
    /\ \/ ReadKey
       \/ /\ \/ DeserializeFixed /\ got' = Say(got, FixedOf(Types[nextType].size))
             \/ (ReadString \/ ReadStr) /\ got' = Say(got, StringOf(Wanted))
             \/ ReadBytes /\ got' = Say(got, ByteList(Wanted))
             \/ (DeserializeSeq \/ DeserializeStruct) /\ got' = Open(got)
             \/ (EndSeq \/ EndStruct) /\ got' = Close(got)
             \/ /\ ElementRead
                /\ got' = IF Excess /\ opts.tooMuchData = "Discard" THEN TakeBack(got) ELSE got
             \/ /\ \/ Call \/ DeserializeString \/ DeserializeStr \/ DeserializeBytes
                   \/ Skip \/ DiscardChunk \/ EndLeaf \/ NextElement \/ NextField
                   \/ FieldsCutShort \/ TagUnreadable \/ SkipFixed \/ SkipField \/ Finish
                /\ UNCHANGED got
          /\ LengthGenuine
          /\ ContentGenuine
    /\ UNCHANGED <<sender, delivered, expected>>

(* The value could not be sent, or has been received.                      *)
Over ==
    /\ \/ sPc \in S!Errors \cup S!Panics
       \/ delivered /\ ~Running
    /\ UNCHANGED allVars

NextRoundTrip == Send \/ Deliver \/ Receive \/ Over

(* A message that is there is delivered, and a call goes on.               *)
RoundTripSpec ==
    InitRoundTrip /\ [][NextRoundTrip]_allVars /\ WF_allVars(Deliver) /\ WF_allVars(Receive)

----------------------------------------------------------------------------
(***************************************************************************)
(* Properties.                                                             *)
(***************************************************************************)

(* The two machines agree on where each part of the message begins: tag,   *)
(* length field and content of every value, also behind fields and         *)
(* elements that the receiver skips.                                       *)
AtPart ==
    delivered /\ pc \in {"value", "return", "string", "str", "bytes", "skipFixed", "skipField"}
    /\ reader.remaining > 0 =>
        \/ AtCell.part = 1
        \/ frames # <<>> /\ IsByteSequence(TopType)

(* What is received is what was sent, as far as the receiver knows it, and *)
(* no data is left behind it.                                              *)
ReceivesWhatWasSent ==
    delivered /\ pc = "ok" =>
        /\ got = <<<<View(expected, sent[1][1])>>>>
        /\ reader.remaining = 0

(* Every value that can be sent is received: the receiver neither fails    *)
(* nor panics nor goes on for ever, whichever version of the type it has.  *)
Arrives == (sPc = "ok") ~> (pc = "ok")
=============================================================================
