-------------------------------- MODULE Strings --------------------------------
(***************************************************************************)
(* How a string is written (serialize_str) and read (deserialize_string    *)
(* and deserialize_str), byte by byte.  Modules Serializer and             *)
(* Deserializer know of a string only how long it is; here is what happens *)
(* between the beginning and the end of its section.                       *)
(*                                                                         *)
(* A text is a sequence of Unicode scalar values.  The data is what a      *)
(* serializer wrote, perhaps one with another byte order or a greater      *)
(* max_size, or anything.  The lower bound is module Deserializer's, as is *)
(* discarding what is beyond the upper one: here "ok" is that the text has *)
(* been read.                                                              *)
(***************************************************************************)
EXTENDS Integers, SequencesExt

CONSTANTS
    Texts,      \* the texts that are sent
    Garbage,    \* data that nobody has written as a string
    OptionSet,  \* what the SomeIpOptions say of strings
    MaxSizes    \* max_size of the receiver's SomeIpString

Encoding == {"Ascii", "Utf8", "Utf16", "Utf16Le", "Utf16Be"}
StringOptions == [encoding: Encoding, order: {"Big", "Little"}, bom: BOOLEAN,
                  terminator: BOOLEAN, tooMuchData: {"Fail", "Discard", "Keep"}]
MaxChar == 1114111 \* char::MAX
IsHigh(unit) == 55296 <= unit /\ unit <= 56319
IsLow(unit) == 56320 <= unit /\ unit <= 57343
IsSurrogate(c) == IsHigh(c) \/ IsLow(c)
Text == {chars \in Seq(0 .. MaxChar) : \A i \in DOMAIN chars : ~IsSurrogate(chars[i])}
Byte == 0 .. 255
Data == Seq(Byte)

ASSUME StringsAssumption ==
    /\ Texts \subseteq Text
    /\ Garbage \subseteq Data
    /\ OptionSet \subseteq StringOptions
    /\ \A o \in OptionSet : ~(o.encoding = "Ascii" /\ o.bom) \* verify_string_encoding
    /\ MaxSizes \subseteq Nat

VARIABLES
    opts,       \* the receiver's Options
    sender,     \* those of the sender
    sent,       \* the text that is sent, if one is
    data,       \* the content of the string's section
    maxSize,    \* max_size
    lent,       \* whether the visitor wants a &str and the reader can lend one
    available,  \* how much of the data there is before the end of file
    at,         \* bytes of a UTF-16 string that have been read
    order,      \* byte_order of a UTF-16 string
    high,       \* a surrogate that waits for its other half, or None
    value,      \* the text that has been read so far
    pc

vars == <<opts, sender, sent, data, maxSize, lent, available, at, order, high,
          value, pc>>
reading == <<at, order, high, value>>

None == -1
Errors == {"CannotCodeString", "TooMuchData", "IoError"}
Ended == pc \in {"ok"} \cup Errors

IsUtf16(o) == o.encoding \in {"Utf16", "Utf16Le", "Utf16Be"}

TypeOK ==
    /\ opts \in StringOptions /\ sender \in StringOptions
    /\ sent \in Text /\ data \in Data /\ value \in Text
    /\ maxSize \in Nat /\ available \in 0 .. Len(data) /\ at \in 0 .. Len(data)
    /\ lent \in BOOLEAN
    /\ order \in {"Big", "Little"}
    /\ high = None \/ (high \in Nat /\ IsHigh(high))
    /\ Ended \/ pc \in {"write", "begin", "borrow", "utf8", "utf16", "units", "refused"}

----------------------------------------------------------------------------
(***************************************************************************)
(* The encodings of the standard library: str::as_bytes, String::from_utf8 *)
(* and str::from_utf8, str::encode_utf16 and char::decode_utf16.           *)
(***************************************************************************)
Utf8(c) ==
    LET Low(n) == 128 + ((c \div n) % 64)
    IN  IF c < 128 THEN <<c>>
        ELSE IF c < 2048 THEN <<192 + (c \div 64), Low(1)>>
        ELSE IF c < 65536 THEN <<224 + (c \div 4096), Low(64), Low(1)>>
        ELSE <<240 + (c \div 262144), Low(4096), Low(64), Low(1)>>

(* The scalar value that is encoded by b, as a set: b may be ill-formed.   *)
ScalarOf(b) ==
    LET low(i) == b[i] % 64
        c == CASE Len(b) = 1 -> b[1]
               [] Len(b) = 2 -> (b[1] % 32) * 64 + low(2)
               [] Len(b) = 3 -> (b[1] % 16) * 4096 + low(2) * 64 + low(3)
               [] OTHER -> (b[1] % 8) * 262144 + low(2) * 4096 + low(3) * 64 + low(4)
    IN  {x \in {c} : Utf8(x) = b /\ x <= MaxChar /\ ~IsSurrogate(x)}

(* The text that is encoded by b, as a set: by its last character and what *)
(* is before it.                                                           *)
DecodeUtf8(b) ==
    LET upTo[n \in 0 .. Len(b)] ==
            IF n = 0 THEN {<<>>}
            ELSE UNION {{Append(chars, c) : chars \in upTo[n - k],
                                            c \in ScalarOf(SubSeq(b, n - k + 1, n))} :
                        k \in {k \in 1 .. Min({4, n}) :
                                  ScalarOf(SubSeq(b, n - k + 1, n)) # {}}}
    IN  upTo[Len(b)]

Utf16(c) == IF c < 65536 THEN <<c>>
            ELSE <<55296 + ((c - 65536) \div 1024), 56320 + ((c - 65536) % 1024)>>

(* write_ux and read_ux of a u16.                                          *)
BytesOf(unit, ord) ==
    IF ord = "Big" THEN <<unit \div 256, unit % 256>> ELSE <<unit % 256, unit \div 256>>
UnitAt(pos, ord) ==
    IF ord = "Big" THEN data[pos + 1] * 256 + data[pos + 2]
    ELSE data[pos + 2] * 256 + data[pos + 1]

----------------------------------------------------------------------------
BomChar == 65279
Bom8 == Utf8(BomChar)

ConfiguredOrder(o) == CASE o.encoding = "Utf16Le" -> "Little"
                        [] o.encoding = "Utf16Be" -> "Big"
                        [] OTHER -> o.order

(* internal_write_str                                                      *)
CharBytes(o, c) ==
    IF IsUtf16(o)
    THEN FlattenSeq([i \in DOMAIN Utf16(c) |->
                        BytesOf(Utf16(c)[i], ConfiguredOrder(o))])
    ELSE Utf8(c)
Encode(o, chars) == FlattenSeq([i \in DOMAIN chars |-> CharBytes(o, chars[i])])

(* The text between byte order mark and terminator.                        *)
Written(o, chars) ==
    Encode(o, (IF o.bom THEN <<BomChar>> ELSE <<>>) \o chars
              \o (IF o.terminator THEN <<0>> ELSE <<>>))

IsAscii(chars) == \A i \in DOMAIN chars : chars[i] < 128

(* With a byte order mark the receiver finds out the sender's byte order.  *)
Senders(o) ==
    {s \in OptionSet : s = o \/ /\ IsUtf16(s) /\ IsUtf16(o) /\ s.bom /\ o.bom
                                /\ s.terminator = o.terminator}

Init ==
    /\ opts \in OptionSet
    /\ maxSize \in MaxSizes
    /\ lent \in BOOLEAN
    /\ \/ /\ sent \in Texts
          /\ sender \in Senders(opts)
          /\ data = <<>>
          /\ pc = "write"
       \/ /\ sent = <<>>
          /\ sender = opts
          /\ data \in Garbage
          /\ pc = "begin"
    /\ available = Len(data)
    /\ at = 0 /\ order = "Big" /\ high = None /\ value = <<>>

(* serialize_str, between the beginning and the end of the section.  A     *)
(* slice has all of it, a Read may come to its end before.                 *)
SerializeStr ==
    /\ pc = "write"
    /\ \/ /\ sender.encoding = "Ascii" /\ ~IsAscii(sent)
          /\ pc' = "refused"
          /\ UNCHANGED <<data, available>>
       \/ /\ sender.encoding = "Ascii" => IsAscii(sent)
          /\ data' = Written(sender, sent)
          /\ available' \in IF lent THEN {Len(data')} ELSE 0 .. Len(data')
          /\ pc' = "begin"
    /\ UNCHANGED <<opts, sender, sent, maxSize, lent, reading>>

----------------------------------------------------------------------------
Wanted == IF Len(data) > maxSize /\ opts.tooMuchData = "Discard" THEN maxSize
          ELSE Len(data)

(* deserialize_str borrows, or resorts to deserialize_string.              *)
Begin ==
    /\ pc = "begin"
    /\ pc' = CASE Len(data) > maxSize /\ opts.tooMuchData = "Fail" -> "TooMuchData"
               [] lent /\ opts.encoding # "Utf16" -> "borrow"
               [] IsUtf16(opts) -> "utf16"
               [] OTHER -> "utf8"
    /\ UNCHANGED <<opts, sender, sent, data, maxSize, lent, available, reading>>

Unterminated(chars) ==
    IF ~opts.terminator THEN {chars}
    ELSE {x \in {IF chars = <<>> THEN chars ELSE Front(chars)} :
             chars # <<>> /\ Last(chars) = 0}

WithoutBom(chars) ==
    IF ~opts.bom THEN {chars} ELSE {x \in {SubSeq(chars, 2, Len(chars))} :
                                       chars # <<>> /\ Head(chars) = BomChar}

(* The texts that were read, of which there is one or none.                *)
Return(texts) ==
    \/ /\ texts = {}
       /\ pc' = "CannotCodeString"
       /\ UNCHANGED value
    \/ /\ value' \in texts
       /\ pc' = "ok"

Fail(reason) == pc' = reason /\ UNCHANGED value
Checked(texts) == {x \in texts : opts.encoding = "Ascii" => IsAscii(x)}

(* deserialize_str                                                         *)
ReadBorrowed ==
    /\ pc = "borrow"
    /\ Return(Checked(UNION {UNION {Unterminated(chars) : chars \in WithoutBom(all)} :
                             all \in DecodeUtf8(SubSeq(data, 1, Wanted))}))
    /\ UNCHANGED <<opts, sender, sent, data, maxSize, lent, available, at, order, high>>

(* read_utf8_string: the byte order mark is read, the rest taken.          *)
ReadUtf8 ==
    LET first == IF opts.bom THEN 3 ELSE 0
        rest == SubSeq(data, first + 1, Min({Wanted, available}))
    IN  /\ pc = "utf8"
        /\ \/ Wanted < first /\ Fail("CannotCodeString")
           \/ Wanted >= first /\ available < first /\ Fail("IoError")
           \/ /\ Wanted >= first /\ available >= first
              /\ opts.bom /\ SubSeq(data, 1, first) # Bom8
              /\ Fail("CannotCodeString")
           \/ /\ Wanted >= first /\ available >= first
              /\ opts.bom => SubSeq(data, 1, first) = Bom8
              /\ Return(Checked(UNION {Unterminated(chars) : chars \in DecodeUtf8(rest)}))
        /\ UNCHANGED <<opts, sender, sent, data, maxSize, lent, available, at, order, high>>

(* Mutant of BomOrder: the configured byte order is kept.                  *)
BomOrderConfigured(first) ==
    IF first \in {<<254, 255>>, <<255, 254>>} THEN {ConfiguredOrder(opts)} ELSE {}

BomOrder(first) == CASE first = <<254, 255>> -> {"Big"}
                     [] first = <<255, 254>> -> {"Little"}
                     [] OTHER -> {}

(* read_utf16_string, up to its loop.                                      *)
BeginUtf16 ==
    /\ pc = "utf16"
    /\ \/ /\ Wanted % 2 # 0 \/ (opts.bom /\ Wanted = 0)
          /\ pc' = "CannotCodeString"
          /\ UNCHANGED <<at, order>>
       \/ /\ Wanted % 2 = 0 /\ ~opts.bom
          /\ order' = ConfiguredOrder(opts)
          /\ pc' = "units"
          /\ UNCHANGED at
       \/ /\ Wanted % 2 = 0 /\ opts.bom /\ Wanted > 0
          /\ available < 2
          /\ pc' = "IoError"
          /\ UNCHANGED <<at, order>>
       \/ /\ Wanted % 2 = 0 /\ opts.bom /\ Wanted > 0
          /\ available >= 2
          /\ at' = 2
          /\ \/ /\ order' \in BomOrder(SubSeq(data, 1, 2))
                /\ pc' = "units"
             \/ /\ BomOrder(SubSeq(data, 1, 2)) = {}
                /\ pc' = "CannotCodeString"
                /\ UNCHANGED order
    /\ UNCHANGED <<opts, sender, sent, data, maxSize, lent, available, high, value>>

Units == pc = "units" /\ at < Wanted
(* Mutant of Pair: the high surrogate keeps its mark.                      *)
PairMarked(unit) == 65536 + high * 1024 + (unit - 56320)
Pair(unit) == 65536 + (high - 55296) * 1024 + (unit - 56320)

(* A unit after the one that waits, or without one.                        *)
Decode(unit) ==
    \/ /\ high = None /\ IsHigh(unit)
       /\ high' = unit
       /\ UNCHANGED <<value, pc>>
    \/ /\ high = None /\ ~IsHigh(unit) /\ ~IsLow(unit)
       /\ value' = Append(value, unit)
       /\ UNCHANGED <<high, pc>>
    \/ /\ high # None /\ IsLow(unit)
       /\ value' = Append(value, Pair(unit))
       /\ high' = None
       /\ UNCHANGED pc
    \/ /\ (high = None) = IsLow(unit)
       /\ Fail("CannotCodeString")
       /\ UNCHANGED high

ReadUnit ==
    /\ Units
    /\ available >= at + 2
    /\ at' = at + 2
    /\ Decode(UnitAt(at, order))
    /\ UNCHANGED <<opts, sender, sent, data, maxSize, lent, available, order>>

(* Mutant of UnitMissing: the decoder's error is reported first.           *)
UnitMissingLate ==
    /\ Units
    /\ available < at + 2
    /\ pc' = IF high # None THEN "CannotCodeString" ELSE "IoError"
    /\ UNCHANGED <<opts, sender, sent, data, maxSize, lent, available, reading>>

(* last_result is looked at before what the decoder makes of the end.      *)
UnitMissing ==
    /\ Units
    /\ available < at + 2
    /\ pc' = "IoError"
    /\ UNCHANGED <<opts, sender, sent, data, maxSize, lent, available, reading>>

(* Mutant of EndUtf16: a surrogate that still waits is forgotten.          *)
EndUtf16Anyway ==
    /\ pc = "units"
    /\ at = Wanted
    /\ Return(Unterminated(value))
    /\ UNCHANGED <<opts, sender, sent, data, maxSize, lent, available, at, order, high>>

(* Mutant of EndUtf16: such a surrogate becomes the replacement character. *)
EndUtf16Lossy ==
    /\ pc = "units"
    /\ at = Wanted
    /\ Return(Unterminated(IF high = None THEN value ELSE Append(value, 65533)))
    /\ UNCHANGED <<opts, sender, sent, data, maxSize, lent, available, at, order, high>>

EndUtf16 ==
    /\ pc = "units"
    /\ at = Wanted
    /\ Return(IF high = None THEN Unterminated(value) ELSE {})
    /\ UNCHANGED <<opts, sender, sent, data, maxSize, lent, available, at, order, high>>

Stopped == (Ended \/ pc = "refused") /\ UNCHANGED vars

Next ==
    \/ SerializeStr
    \/ Begin
    \/ ReadBorrowed
    \/ ReadUtf8
    \/ BeginUtf16
    \/ ReadUnit
    \/ UnitMissing
    \/ EndUtf16
    \/ Stopped

Spec == Init /\ [][Next]_vars

----------------------------------------------------------------------------
(***************************************************************************)
(* Safety.                                                                 *)
(***************************************************************************)

(* deserialize_str takes UTF-16 with a byte order of its own for UTF-8;    *)
(* property BorrowedIsSent is about that.                                  *)
Mistaken == lent /\ opts.encoding \in {"Utf16Le", "Utf16Be"}

Whole == Wanted = Len(data) /\ available = Len(data)
Genuine == data = Written(sender, sent) /\ pc # "write"

(* A text that arrives completely is read, as what it was: whatever it     *)
(* contains, also byte order marks and terminators of its own, and         *)
(* whichever byte order a sender with a byte order mark has.               *)
TextArrives ==
    Ended /\ Genuine /\ Whole /\ ~Mistaken /\ pc # "TooMuchData" =>
        pc = "ok" /\ value = sent

(* A text that is cut, because it is too long for the receiver or the Read *)
(* ends before it does, is refused or read as far as it goes: no character *)
(* comes out as another one because half of it is missing.                 *)
CutTextIsPrefix ==
    pc = "ok" /\ Genuine /\ ~Mistaken => IsPrefix(value, sent)

(* What is accepted is what a serializer would have written of the same    *)
(* text, byte for byte: no two ways to write a text are accepted but for   *)
(* the byte orders that a byte order mark tells apart.                     *)
AcceptedAsWritten ==
    pc = "ok" /\ available = Len(data) /\ ~Mistaken =>
        \E o \in {opts, [opts EXCEPT !.encoding = "Utf16", !.order = order]} :
            /\ o = opts \/ (IsUtf16(opts) /\ opts.bom)
            /\ Written(o, value) = SubSeq(data, 1, Wanted)

(* A Read that ends within a UTF-16 text is reported as such and not as a  *)
(* broken text, even between the halves of a surrogate pair.               *)
EarlyEndIsReported ==
    Ended /\ Genuine /\ IsUtf16(opts) /\ Wanted = Len(data) /\ available < Len(data)
        /\ pc # "TooMuchData" => pc = "IoError"

(* deserialize_str "cannot borrow for non utf8 encoding", so that a &str   *)
(* is never anything but the text that was sent.                           *)
BorrowedIsSent == pc = "ok" /\ Genuine /\ Whole /\ lent => value = sent
=============================================================================
