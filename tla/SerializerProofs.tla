-------------------------- MODULE SerializerProofs --------------------------
(***************************************************************************)
(* The serializer's invariants, for all types, options, capacities and     *)
(* values: lemmas on cells, the inductive invariant, the theorems it       *)
(* gives, and what stands in the buffer: where the tags of unfinished      *)
(* fields lie, and that reserved bytes are those of open sections.         *)
(***************************************************************************)
EXTENDS Serializer, SomeIpTypesProofs

----------------------------------------------------------------------------
(***************************************************************************)
(* Cells.                                                                  *)
(***************************************************************************)

(* A cell whose length, if it is part of one, fits into the length field.  *)
FitCell == {c \in Cell : c.kind = "len" => c.val <= Capacity(c.of)}

(* Content, tags and reserved bytes are cells, one for each byte.          *)
LEMMA BytesAreCells ==
    ASSUME NEW kind \in {"zero", "data", "tag"}, NEW val \in Nat, NEW n \in Nat
    PROVE  Bytes(kind, val, n) \in Seq(FitCell) /\ Len(Bytes(kind, val, n)) = n
<1>1. \A i \in 1 .. n :
        [kind |-> kind, val |-> val, part |-> i, of |-> n] \in FitCell
  BY DEF FitCell, Cell
<1>2. Bytes(kind, val, n) \in [1 .. n -> FitCell]
  BY <1>1 DEF Bytes
<1> QED
  BY <1>2

(* A length field whose size can hold the length is made of fit cells.     *)
LEMMA LengthBytesAreFit ==
    ASSUME NEW size \in LengthFieldSize, NEW len \in Nat, len <= Capacity(size)
    PROVE  LengthBytes(size, len) \in Seq(FitCell) /\ Len(LengthBytes(size, len)) = size
<1>1. size \in Nat
  BY DEF LengthFieldSize
<1>2. \A i \in 1 .. size :
        [kind |-> "len", val |-> len, part |-> i, of |-> size] \in FitCell
  BY <1>1 DEF FitCell, Cell
<1>3. LengthBytes(size, len) \in [1 .. size -> FitCell]
  BY <1>2 DEF LengthBytes, Bytes
<1> QED
  BY <1>1, <1>3

(* Moving bytes down keeps the length and what is in front of them.        *)
LEMMA CopyWithinKeeps ==
    ASSUME NEW S, NEW b \in Seq(S), NEW src \in Nat, NEW dst \in Nat,
           dst <= src, src <= Len(b)
    PROVE  /\ CopyWithin(b, src, dst) \in Seq(S)
           /\ Len(CopyWithin(b, src, dst)) = Len(b)
           /\ \A i \in 1 .. dst : CopyWithin(b, src, dst)[i] = b[i]
<1>1. \A i \in dst + 1 .. dst + Len(b) - src : i - dst + src \in 1 .. Len(b)
  OBVIOUS
<1>2. CopyWithin(b, src, dst) \in [1 .. Len(b) -> S]
  BY <1>1 DEF CopyWithin
<1>3. \A i \in 1 .. dst : CopyWithin(b, src, dst)[i] = b[i]
  BY DEF CopyWithin
<1> QED
  BY <1>2, <1>3

(* Writing at a previous position keeps the length and what is in front.   *)
LEMMA WriteAtKeeps ==
    ASSUME NEW S, NEW b \in Seq(S), NEW pos \in Nat, NEW cells \in Seq(S)
    PROVE  /\ WriteAt(b, pos, cells) \in Seq(S)
           /\ Len(WriteAt(b, pos, cells)) = Len(b)
           /\ \A i \in 1 .. Len(b) : i <= pos => WriteAt(b, pos, cells)[i] = b[i]
<1>1. \A i \in pos + 1 .. pos + Len(cells) : i - pos \in 1 .. Len(cells)
  OBVIOUS
<1>2. WriteAt(b, pos, cells) \in [1 .. Len(b) -> S]
  BY <1>1 DEF WriteAt
<1>3. \A i \in 1 .. Len(b) : i <= pos => WriteAt(b, pos, cells)[i] = b[i]
  BY DEF WriteAt
<1> QED
  BY <1>2, <1>3

(* Truncation keeps a prefix.                                              *)
LEMMA SetLenKeeps ==
    ASSUME NEW S, NEW b \in Seq(S), NEW n \in Nat, n <= Len(b)
    PROVE  /\ SetLen(b, n) \in Seq(S)
           /\ Len(SetLen(b, n)) = n
           /\ \A i \in 1 .. n : SetLen(b, n)[i] = b[i]
BY DEF SetLen

----------------------------------------------------------------------------
(***************************************************************************)
(* The inductive invariant.                                                *)
(***************************************************************************)

(* An unfinished TLV field is a field with an id of a struct, and its tag  *)
(* is behind the caller's bytes.                                           *)
TagOfField(frame) ==
    /\ base <= frame.tagPos
    /\ IsStruct(Types[frame.type])
    /\ frame.count \in DOMAIN Types[frame.type].fields
    /\ Types[frame.type].fields[frame.count].id # NoId
TagsOfFields ==
    Running => \A i \in DOMAIN frames : frames[i].tagPos # NoTag => TagOfField(frames[i])

(* The value of a TLV field starts right behind its tag, which lies in the *)
(* innermost section.                                                      *)
TagJustWritten ==
    pc = "value" /\ inTlv =>
        /\ base + 2 <= Len(buf)
        /\ \A k \in DOMAIN sections : SectionEnd(k) + 2 <= Len(buf)

IInv ==
    /\ TypeOK
    /\ buf \in Seq(FitCell)
    /\ base <= Len(buf)
    /\ SectionsMatchFrames
    /\ SectionsNested
    /\ TagsOfFields
    /\ TagJustWritten

----------------------------------------------------------------------------
(***************************************************************************)
(* Sections.                                                               *)
(***************************************************************************)

(* The parts of a section.                                                 *)
LEMMA SectionShape ==
    ASSUME NEW secs \in Seq(Section), NEW k \in 1 .. Len(secs)
    PROVE  /\ secs[k] \in Section
           /\ secs[k].pos \in Nat
           /\ secs[k].reserved \in Nat
           /\ secs[k].tlv \in BOOLEAN
           /\ EndOf(secs[k]) = secs[k].pos + secs[k].reserved
           /\ EndOf(secs[k]) \in Nat
<1>1. secs[k] \in Section
  OBVIOUS
<1>2. secs[k].pos \in Nat /\ secs[k].tlv \in BOOLEAN /\ secs[k].reserved \in LengthFieldSize
  BY <1>1 DEF Section
<1>3. secs[k].reserved \in Nat
  BY <1>2 DEF LengthFieldSize
<1> QED
  BY <1>1, <1>2, <1>3 DEF EndOf

(* What is nested stays so when bytes are added behind it.                 *)
LEMMA NestedWhenLonger ==
    ASSUME NEW start \in Nat, NEW secs \in Seq(Section), NEW b, NEW c,
           Nested(start, secs, b), Len(b) \in Nat, Len(c) \in Nat, Len(b) <= Len(c)
    PROVE  Nested(start, secs, c)
<1>1. \A k \in DOMAIN secs : EndOf(secs[k]) \in Nat
  BY SectionShape
<1> QED
  BY <1>1 DEF Nested

(* A section begins behind all others.                                     *)
LEMMA BeginKeepsNesting ==
    ASSUME NEW reserved \in OptSize, TypeOK, buf \in Seq(FitCell),
           base <= Len(buf), Nested(base, sections, buf)
    PROVE  /\ BeginBuf(reserved) \in Seq(FitCell)
           /\ Len(BeginBuf(reserved)) = Len(buf) + reserved
           /\ \A i \in 1 .. Len(buf) : BeginBuf(reserved)[i] = buf[i]
           /\ BeginSections(reserved) \in Seq(Section)
           /\ reserved = None => BeginSections(reserved) = sections
           /\ reserved # None => /\ BeginSections(reserved) # <<>>
                                 /\ Front(BeginSections(reserved)) = sections
                                 /\ Len(BeginSections(reserved)) = Len(sections) + 1
           /\ Nested(base, BeginSections(reserved), BeginBuf(reserved))
<1>1. reserved \in Nat
  BY DEF OptSize, LengthFieldSize, None
<1>2. Zeros(reserved) \in Seq(FitCell) /\ Len(Zeros(reserved)) = reserved
  BY <1>1, BytesAreCells DEF Zeros
<1>3. /\ BeginBuf(reserved) \in Seq(FitCell)
      /\ Len(BeginBuf(reserved)) = Len(buf) + reserved
      /\ \A i \in 1 .. Len(buf) : BeginBuf(reserved)[i] = buf[i]
  BY <1>1, <1>2 DEF BeginBuf
<1>4. Nested(base, sections, BeginBuf(reserved))
  BY <1>1, <1>3, NestedWhenLonger DEF TypeOK
<1>5. CASE reserved = None
  BY <1>3, <1>4, <1>5 DEF BeginSections, TypeOK
<1>6. CASE reserved # None
  <2> DEFINE new == [pos |-> Len(buf), reserved |-> reserved, tlv |-> inTlv]
  <2>1. new \in Section
    BY <1>6, SizesDoNotFail DEF TypeOK, Section
  <2>2. BeginSections(reserved) = Append(sections, new)
    BY <1>6 DEF BeginSections
  <2>3. EndOf(new) = Len(BeginBuf(reserved)) /\ new.pos = Len(buf)
    BY <1>3 DEF EndOf
  <2> HIDE DEF new
  <2>4. sections \in Seq(Section)
    BY DEF TypeOK
  <2>5. /\ BeginSections(reserved) \in Seq(Section)
        /\ BeginSections(reserved) # <<>>
        /\ Front(BeginSections(reserved)) = sections
        /\ Len(BeginSections(reserved)) = Len(sections) + 1
    BY <2>1, <2>2, <2>4, AppendIsSeq
  <2>6. \A k \in DOMAIN sections : /\ base <= sections[k].pos
                                   /\ EndOf(sections[k]) <= Len(buf)
                                   /\ \A j \in 1 .. k - 1 :
                                        EndOf(sections[j]) <= sections[k].pos
    BY DEF Nested
  <2>7. Nested(base, BeginSections(reserved), BeginBuf(reserved))
    <3> SUFFICES ASSUME NEW k \in 1 .. Len(sections) + 1
                 PROVE  /\ base <= Append(sections, new)[k].pos
                        /\ EndOf(Append(sections, new)[k]) <= Len(BeginBuf(reserved))
                        /\ \A j \in 1 .. k - 1 :
                             EndOf(Append(sections, new)[j]) <= Append(sections, new)[k].pos
      BY <2>2, <2>4 DEF Nested
    <3>1. CASE k = Len(sections) + 1
      BY <2>3, <2>4, <2>6, <3>1 DEF TypeOK
    <3>2. CASE k \in 1 .. Len(sections)
      BY <1>4, <2>4, <2>6, <3>2 DEF Nested
    <3> QED
      BY <2>4, <3>1, <3>2
  <2> QED
    BY <1>3, <1>6, <2>5, <2>7
<1> QED
  BY <1>5, <1>6

(* A section ends with its length in place: what is in front of it stays,  *)
(* all cells are fit, and the sections around it still enclose each other. *)
LEMMA EndSectionKeeps ==
    ASSUME TypeOK, NEW b \in Seq(FitCell), NEW secs \in Seq(Section), secs # <<>>,
           NEW configured \in LengthFieldSize, base <= Len(b), Nested(base, secs, b),
           EndSection(b, Last(secs), configured, Len(b) - EndOf(Last(secs)))
    PROVE  /\ buf' \in Seq(FitCell)
           /\ base <= Len(buf')
           /\ \A i \in 1 .. base : buf'[i] = b[i]
           /\ lastField' \in LastField
           /\ pc' \in {"return", "TooLong"} \cup Panics
           /\ pc' \in Errors => buf' = b
           /\ pc' = "return" => Nested(base, Front(secs), buf')
<1> DEFINE sec == Last(secs)
           len == Len(b) - EndOf(sec)
           actual == ActualSize(sec, configured, len)
<1>1. /\ sec = secs[Len(secs)]
      /\ sec.pos \in Nat
      /\ sec.reserved \in Nat
      /\ sec.tlv \in BOOLEAN
      /\ EndOf(sec) = sec.pos + sec.reserved
  <2>1. Len(secs) \in 1 .. Len(secs)
    OBVIOUS
  <2> QED
    BY <2>1, SectionShape DEF Last
<1>2. /\ base <= sec.pos
      /\ EndOf(sec) <= Len(b)
      /\ \A k \in 1 .. Len(secs) - 1 : EndOf(secs[k]) <= sec.pos
  BY <1>1 DEF Nested
<1>3. len \in Nat /\ Len(b) \in Nat /\ base \in Nat /\ opts \in Options
  BY <1>1, <1>2 DEF TypeOK
<1>4. \/ actual \in {TooLong, LengthPanic}
      \/ actual \in LengthFieldSize /\ len <= Capacity(actual)
  BY <1>1, <1>3, SelectedSizeFits DEF ActualSize
<1>5. EndSection(b, sec, configured, len)
  OBVIOUS
<1> HIDE DEF sec, len, actual
<1>6. CASE actual \in {TooLong, LengthPanic}
  <2>1. Failed(actual)
    BY <1>6, SizesDoNotFail
  <2>2. ~(actual > sec.reserved)
    BY <1>1, <1>6 DEF TooLong, LengthPanic
  <2>3. pc' = Outcome(actual) /\ buf' = b /\ lastField' = lastField
    BY <1>5, <2>1, <2>2 DEF EndSection, actual
  <2>4. pc' \in {"TooLong", "LengthPanic"}
    BY <1>6, <2>3 DEF Outcome, TooLong, LengthPanic
  <2> QED
    BY <2>3, <2>4 DEF TypeOK, Panics
<1>7. CASE actual \in LengthFieldSize /\ len <= Capacity(actual)
  <2>1. actual \in Nat /\ actual \in OptSize /\ ~Failed(actual)
    BY <1>7, SizesDoNotFail DEF LengthFieldSize, OptSize
  <2>2. CASE actual > sec.reserved
    <3>1. /\ pc' = "AssertReserved"
          /\ buf' = b
          /\ lastField' = [size |-> actual, asConfigured |-> actual = configured]
      BY <1>1, <1>5, <2>1, <2>2 DEF EndSection, actual
    <3> QED
      BY <2>1, <3>1 DEF LastField, Panics, Errors
  <2>3. CASE actual <= sec.reserved
    <3>1. /\ pc' = "return"
          /\ buf' = WriteAt(Shifted(b, sec, actual), sec.pos, LengthBytes(actual, len))
          /\ lastField' = [size |-> actual, asConfigured |-> actual = configured]
      BY <1>1, <1>5, <1>7, <2>1, <2>3 DEF EndSection, actual
    <3> DEFINE moved == CopyWithin(b, EndOf(sec), sec.pos + actual)
               n == Len(b) - (sec.reserved - actual)
    <3>2. n \in Nat /\ n <= Len(b) /\ sec.pos <= n
      BY <1>1, <1>2, <1>3, <2>1, <2>3
    <3>3. /\ moved \in Seq(FitCell)
          /\ Len(moved) = Len(b)
          /\ \A i \in 1 .. sec.pos + actual : moved[i] = b[i]
      BY <1>1, <1>2, <1>3, <2>1, <2>3, CopyWithinKeeps
    <3>4. /\ Shifted(b, sec, actual) \in Seq(FitCell)
          /\ Len(Shifted(b, sec, actual)) = n
          /\ \A i \in 1 .. n : Shifted(b, sec, actual)[i] = moved[i]
      <4> HIDE DEF moved, n
      <4>1. Shifted(b, sec, actual) = SetLen(moved, n)
        BY DEF Shifted, moved, n
      <4> QED
        BY <3>2, <3>3, <4>1, SetLenKeeps
    <3>5. LengthBytes(actual, len) \in Seq(FitCell)
      BY <1>3, <1>7, LengthBytesAreFit
    <3> HIDE DEF moved, n
    <3>6. /\ buf' \in Seq(FitCell)
          /\ Len(buf') = n
          /\ \A i \in 1 .. n : i <= sec.pos => buf'[i] = Shifted(b, sec, actual)[i]
      BY <1>1, <3>1, <3>4, <3>5, WriteAtKeeps
    <3>7. \A i \in 1 .. base : buf'[i] = b[i]
      <4> SUFFICES ASSUME NEW i \in 1 .. base
                   PROVE  buf'[i] = b[i]
        OBVIOUS
      <4>1. i \in 1 .. n /\ i <= sec.pos /\ i \in 1 .. sec.pos + actual
        BY <1>1, <1>2, <1>3, <2>1, <3>2
      <4> QED
        BY <3>3, <3>4, <3>6, <4>1
    <3>8. Nested(base, Front(secs), buf')
      <4>1. /\ Len(Front(secs)) = Len(secs) - 1
            /\ Front(secs) \in Seq(Section)
            /\ \A k \in 1 .. Len(secs) - 1 : Front(secs)[k] = secs[k]
        BY FrontIsSeq
      <4>2. \A k \in 1 .. Len(secs) : EndOf(secs[k]) \in Nat
        BY SectionShape
      <4>3. \A k \in 1 .. Len(secs) :
              base <= secs[k].pos /\ \A j \in 1 .. k - 1 : EndOf(secs[j]) <= secs[k].pos
        BY DEF Nested
      <4>4. \A k \in 1 .. Len(secs) - 1 : EndOf(secs[k]) <= Len(buf')
        BY <1>1, <1>2, <3>2, <3>6, <4>2
      <4> QED
        <5> DEFINE front == Front(secs)
        <5> HIDE DEF front
        <5> SUFFICES ASSUME NEW k \in 1 .. Len(secs) - 1
                     PROVE  /\ base <= front[k].pos
                            /\ EndOf(front[k]) <= Len(buf')
                            /\ \A j \in 1 .. k - 1 : EndOf(front[j]) <= front[k].pos
          BY <4>1 DEF Nested, front
        <5>4. front[k] = secs[k] /\ \A j \in 1 .. k - 1 : front[j] = secs[j]
          BY <4>1 DEF front
        <5>1. k \in 1 .. Len(secs)
          OBVIOUS
        <5>2. base <= secs[k].pos /\ \A j \in 1 .. k - 1 : EndOf(secs[j]) <= secs[k].pos
          BY <4>3, <5>1
        <5>3. EndOf(secs[k]) <= Len(buf')
          BY <4>4
        <5> QED
          BY <5>2, <5>3, <5>4
    <3> QED
      BY <1>2, <1>3, <1>1, <2>1, <3>1, <3>2, <3>6, <3>7, <3>8 DEF LastField, Errors
  <2> QED
    BY <1>1, <2>1, <2>2, <2>3
<1> QED
  BY <1>4, <1>6, <1>7

(* The end of a value, with or without a section.                          *)
LEMMA EndValueKeeps ==
    ASSUME TypeOK, NEW b \in Seq(FitCell), NEW secs \in Seq(Section),
           NEW configured \in OptSize, configured # None => secs # <<>>,
           base <= Len(b), Nested(base, secs, b),
           EndValue(b, secs, configured)
    PROVE  /\ buf' \in Seq(FitCell)
           /\ base <= Len(buf')
           /\ \A i \in 1 .. base : buf'[i] = b[i]
           /\ lastField' \in LastField
           /\ pc' \in {"return", "TooLong"} \cup Panics
           /\ pc' \in Errors => buf' = b
           /\ sections' = IF configured = None THEN secs ELSE Front(secs)
           /\ sections' \in Seq(Section)
           /\ pc' = "return" => Nested(base, sections', buf')
<1>1. CASE configured = None
  BY <1>1 DEF EndValue, TypeOK, Errors
<1>2. CASE configured # None
  <2>1. configured \in LengthFieldSize
    BY <1>2, SizesDoNotFail
  <2>2. /\ sections' = Front(secs)
        /\ EndSection(b, Last(secs), configured, Len(b) - EndOf(Last(secs)))
    BY <1>2 DEF EndValue
  <2>3. Front(secs) \in Seq(Section)
    BY <1>2, FrontIsSeq
  <2> QED
    BY <1>2, <2>1, <2>2, <2>3, EndSectionKeeps
<1> QED
  BY <1>1, <1>2

----------------------------------------------------------------------------
(***************************************************************************)
(* Open serializers.                                                       *)
(***************************************************************************)

(* The serializers with a length field can be counted.                     *)
LEMMA SectionedIsFinite ==
    ASSUME NEW fs \in Seq(Frame)
    PROVE  IsFiniteSet(Sectioned(fs)) /\ Cardinality(Sectioned(fs)) \in Nat
<1>1. Sectioned(fs) \in SUBSET (1 .. Len(fs))
  BY DEF Sectioned
<1>2. IsFiniteSet(1 .. Len(fs))
  BY FS_Interval
<1> QED
  BY <1>1, <1>2, FS_Subset, FS_CardinalityType

(* A serializer that begins counts if it has a length field of its own.    *)
LEMMA SectionedAppend ==
    ASSUME NEW fs \in Seq(Frame), NEW f \in Frame
    PROVE  Cardinality(Sectioned(Append(fs, f)))
             = Cardinality(Sectioned(fs)) + (IF f.lfs = None THEN 0 ELSE 1)
<1> DEFINE n == Len(fs) + 1
<1>1. n \notin Sectioned(fs) /\ Cardinality(Sectioned(fs)) \in Nat /\ IsFiniteSet(Sectioned(fs))
  BY SectionedIsFinite DEF Sectioned
<1>2. CASE f.lfs = None
  <2>1. Sectioned(Append(fs, f)) = Sectioned(fs)
    BY <1>2 DEF Sectioned
  <2> QED
    BY <1>1, <1>2, <2>1
<1>3. CASE f.lfs # None
  <2>1. Sectioned(Append(fs, f)) = Sectioned(fs) \cup {n}
    BY <1>3 DEF Sectioned
  <2> HIDE DEF n
  <2>2. Cardinality(Sectioned(fs) \cup {n}) = Cardinality(Sectioned(fs)) + 1
    BY <1>1, FS_AddElement
  <2> QED
    BY <1>3, <2>1, <2>2
<1> QED
  BY <1>2, <1>3

(* The innermost serializer that ends no longer counts.                    *)
LEMMA SectionedFront ==
    ASSUME NEW fs \in Seq(Frame), fs # <<>>
    PROVE  /\ Cardinality(Sectioned(Front(fs)))
                = Cardinality(Sectioned(fs)) - (IF fs[Len(fs)].lfs = None THEN 0 ELSE 1)
           /\ fs[Len(fs)].lfs # None => Cardinality(Sectioned(fs)) # 0
<1> DEFINE last == fs[Len(fs)]
<1>1. last \in Frame /\ Front(fs) \in Seq(Frame) /\ Append(Front(fs), last) = fs
  BY DEF Front
<1>2. Cardinality(Sectioned(fs))
        = Cardinality(Sectioned(Front(fs))) + (IF last.lfs = None THEN 0 ELSE 1)
  BY <1>1, SectionedAppend
<1>3. Cardinality(Sectioned(Front(fs))) \in Nat
  BY <1>1, SectionedIsFinite
<1> HIDE DEF last
<1> QED
  BY <1>2, <1>3 DEF last

(* Changes to the innermost serializer that leave its length field alone.  *)
WithTop(fs, f) == [fs EXCEPT ![Len(fs)] = f]

(* The others stay as they are, and none gains or loses a length field.    *)
LEMMA TopExcept ==
    ASSUME NEW fs \in Seq(Frame), fs # <<>>, NEW f \in Frame, f.lfs = fs[Len(fs)].lfs
    PROVE  LET gs == WithTop(fs, f)
           IN  /\ gs \in Seq(Frame)
               /\ gs # <<>>
               /\ Len(gs) = Len(fs)
               /\ \A i \in 1 .. Len(fs) : gs[i] = IF i = Len(fs) THEN f ELSE fs[i]
               /\ Sectioned(gs) = Sectioned(fs)
<1> DEFINE gs == WithTop(fs, f)
<1>1. Len(fs) \in 1 .. Len(fs)
  OBVIOUS
<1>2. /\ gs \in Seq(Frame) /\ Len(gs) = Len(fs)
      /\ \A i \in 1 .. Len(fs) : gs[i] = IF i = Len(fs) THEN f ELSE fs[i]
  BY <1>1, ExceptSeq DEF WithTop
<1> HIDE DEF gs
<1>3. \A i \in 1 .. Len(fs) : gs[i].lfs = fs[i].lfs
  BY <1>2
<1>4. Sectioned(gs) = Sectioned(fs)
  BY <1>2, <1>3 DEF Sectioned
<1> QED
  BY <1>1, <1>2, <1>4 DEF gs

----------------------------------------------------------------------------
(***************************************************************************)
(* The steps.                                                              *)
(***************************************************************************)

(* The stronger type of the buffer implies its type in TypeOK.             *)
LEMMA FitCellsAreCells ==
    ASSUME NEW b \in Seq(FitCell)
    PROVE  b \in Seq(Cell)
BY DEF FitCell

(* What the call found in the buffer is kept.                              *)
Kept == base <= Len(buf') /\ \A i \in 1 .. base : buf'[i] = buf[i]

(* Bytes are added behind all sections.                                    *)
LEMMA Appending ==
    ASSUME IInv, NEW cells \in Seq(FitCell), buf' = buf \o cells
    PROVE  /\ buf' \in Seq(FitCell)
           /\ Len(buf') = Len(buf) + Len(cells)
           /\ Kept
           /\ Running => Nested(base, sections, buf')
<1>1. /\ buf' \in Seq(FitCell)
      /\ Len(buf') = Len(buf) + Len(cells)
      /\ Kept
  BY DEF IInv, TypeOK, Kept
<1>2. ASSUME Running
      PROVE  Nested(base, sections, buf')
  <2>1. /\ base \in Nat /\ sections \in Seq(Section) /\ Nested(base, sections, buf)
        /\ Len(buf) \in Nat /\ Len(buf') \in Nat /\ Len(buf) <= Len(buf')
    BY <1>1, <1>2 DEF IInv, TypeOK, SectionsNested
  <2> QED
    BY <2>1, NestedWhenLonger
<1> QED
  BY <1>1, <1>2

(* A call that has ended, well or not, leaves only types to be preserved.  *)
LEMMA Ended ==
    ASSUME IInv, TypeOK', buf' \in Seq(FitCell), base' = base, Kept,
           pc' \in Errors \cup Panics
    PROVE  IInv' /\ Kept
BY DEF IInv, Kept, SectionsMatchFrames, Current, SectionsNested, Running,
       TagsOfFields, TagJustWritten, Errors, Panics

(* A value that fails before it begins.                                    *)
LEMMA FailStep ==
    ASSUME IInv, NEW reason \in Errors \cup Panics, Fail(reason), nextType' = nextType,
           opts' = opts, inTlv' = inTlv, props' \in Properties, base' = base, calls' = calls
    PROVE  IInv' /\ Kept
<1>1. TypeOK'
  BY DEF IInv, TypeOK, Fail
<1>2. buf' \in Seq(FitCell) /\ Kept /\ pc' \in Errors \cup Panics
  BY DEF IInv, Kept, Fail
<1> QED
  BY <1>1, <1>2, Ended

(* A new call starts with no section behind whatever is in the buffer.     *)
LEMMA CallStep ==
    ASSUME IInv, NEW root \in Roots, Call(root)
    PROVE  IInv' /\ Kept
<1>1. TypeOK' /\ buf' \in Seq(FitCell) /\ (base <= Len(buf))' /\ Kept
  <2>1. NoField \in LastField /\ NoProps \in Properties
    BY DEF LastField, NoField, OptSize, NoProps, Properties
  <2>2. root \in TypeId
    BY RootsAssumption
  <2>3. pc' \in {"value", "TypePanic"} /\ calls' \in 0 .. MaxCalls
    BY BoundsAssumption DEF IInv, TypeOK, Call
  <2>4. buf \in Seq(FitCell) /\ buf' = buf /\ base' = Len(buf) /\ base <= Len(buf)
    BY DEF IInv, Call
  <2>5. /\ nextType' = root /\ inTlv' = FALSE /\ lastField' = NoField
        /\ sections' = <<>> /\ props' = NoProps /\ frames' = <<>> /\ opts' = opts
    BY DEF Call
  <2>6. /\ opts' \in Options /\ nextType' \in TypeId /\ inTlv' \in BOOLEAN
        /\ lastField' \in LastField /\ props' \in Properties
    BY <2>1, <2>2, <2>5 DEF IInv, TypeOK
  <2>7. sections' \in Seq(Section) /\ frames' \in Seq(Frame)
    BY <2>5
  <2>8. buf' \in Seq(Cell) /\ base' \in Nat
    BY <2>4, FitCellsAreCells
  <2>9. TypeOK'
    BY <2>3, <2>6, <2>7, <2>8 DEF TypeOK, Panics
  <2> QED
    BY <2>4, <2>9 DEF Kept
<1>2. SectionsMatchFrames'
  <2>1. Cardinality(Sectioned(<<>>)) = 0
    BY FS_EmptySet DEF Sectioned
  <2> QED
    BY <2>1 DEF Call, SectionsMatchFrames
<1>3. SectionsNested' /\ TagsOfFields' /\ TagJustWritten'
  BY DEF Call, SectionsNested, Nested, TagsOfFields, TagJustWritten
<1> QED
  BY <1>1, <1>2, <1>3 DEF IInv

(* The call returns.                                                       *)
LEMMA FinishStep ==
    ASSUME IInv, Finish
    PROVE  IInv' /\ Kept
<1>1. TypeOK' /\ buf' \in Seq(FitCell) /\ (base <= Len(buf))' /\ Kept
  BY DEF IInv, TypeOK, Kept, Finish
<1>2. SectionsMatchFrames' /\ SectionsNested' /\ TagsOfFields' /\ TagJustWritten'
  BY DEF IInv, Finish, SectionsMatchFrames, SectionsNested, TagsOfFields, TagJustWritten,
     Current, Running
<1> QED
  BY <1>1, <1>2 DEF IInv

(* A primitive or enum is written behind all sections.                     *)
LEMMA FixedStep ==
    ASSUME IInv, SerializeFixed
    PROVE  IInv' /\ Kept
<1> DEFINE cells == Data(Types[nextType].size)
<1>1. Types[nextType].size \in Nat
  <2>1. nextType \in TypeId /\ IsFixed(Types[nextType])
    BY DEF IInv, TypeOK, SerializeFixed
  <2>2. Types[nextType] \in SomeIpFixed
    BY <2>1, TypeShapes
  <2> QED
    BY <2>2 DEF SomeIpFixed
<1>2. cells \in Seq(FitCell)
  BY <1>1, BytesAreCells DEF Data
<1>3. /\ buf' = buf \o cells
      /\ pc = "value" /\ pc' = "return"
      /\ UNCHANGED <<opts, nextType, inTlv, lastField, sections, props, frames, base, calls>>
  BY DEF SerializeFixed
<1> HIDE DEF cells
<1>4. /\ buf' \in Seq(FitCell) /\ Len(buf') = Len(buf) + Len(cells) /\ Kept
      /\ Nested(base, sections, buf')
  BY <1>2, <1>3, Appending DEF Running
<1>5. TypeOK'
  BY <1>3, <1>4, FitCellsAreCells DEF IInv, TypeOK
<1>6. SectionsMatchFrames' /\ SectionsNested' /\ TagJustWritten'
  BY <1>3, <1>4 DEF IInv, SectionsMatchFrames, SectionsNested, TagJustWritten, Current, Running
<1>7. TagsOfFields'
  BY <1>3 DEF IInv, TagsOfFields, TagOfField, Running
<1> QED
  BY <1>3, <1>4, <1>5, <1>6, <1>7 DEF IInv, Kept

(* A string that cannot be encoded changes nothing but the outcome.        *)
LEMMA NonAsciiStep ==
    ASSUME IInv, SerializeNonAscii
    PROVE  IInv' /\ Kept
<1>1. Fail("CannotCodeString") /\ UNCHANGED <<opts, nextType, inTlv, props, base, calls>>
  BY DEF SerializeNonAscii
<1>2. "CannotCodeString" \in Errors \cup Panics /\ props \in Properties
  BY DEF Errors, IInv, TypeOK
<1> QED
  BY <1>1, <1>2, FailStep

(* The tag that is taken back lies behind the caller's bytes and in the    *)
(* innermost section.                                                      *)
LEMMA TagTakenBack ==
    ASSUME IInv, pc = "value", inTlv, pc' = "return", buf' = SetLen(buf, Len(buf) - 2),
           UNCHANGED <<opts, nextType, inTlv, lastField, sections, props, frames, base, calls>>
    PROVE  IInv' /\ Kept
<1>1. /\ base \in Nat /\ Len(buf) \in Nat /\ base + 2 <= Len(buf)
      /\ buf \in Seq(FitCell) /\ sections \in Seq(Section)
      /\ \A k \in DOMAIN sections : SectionEnd(k) + 2 <= Len(buf)
      /\ Nested(base, sections, buf)
  BY DEF IInv, TypeOK, TagJustWritten, SectionsNested, Running
<1>2. /\ buf' \in Seq(FitCell) /\ Len(buf') = Len(buf) - 2
      /\ \A i \in 1 .. Len(buf) - 2 : buf'[i] = buf[i]
  <2>1. Len(buf) - 2 \in Nat /\ Len(buf) - 2 <= Len(buf)
    BY <1>1
  <2> QED
    BY <1>1, <2>1, SetLenKeeps
<1>3. Kept
  BY <1>1, <1>2 DEF Kept
<1>4. Nested(base, sections, buf')
  <2>1. \A k \in 1 .. Len(sections) : EndOf(sections[k]) \in Nat
    BY <1>1, SectionShape
  <2>2. \A k \in 1 .. Len(sections) : EndOf(sections[k]) <= Len(buf')
    BY <1>1, <1>2, <2>1 DEF SectionEnd
  <2> QED
    BY <1>1, <2>2 DEF Nested
<1>5. TypeOK'
  BY <1>2, FitCellsAreCells DEF IInv, TypeOK
<1>6. SectionsMatchFrames' /\ SectionsNested' /\ TagJustWritten'
  BY <1>4 DEF IInv, SectionsMatchFrames, SectionsNested, TagJustWritten, Current, Running
<1>7. TagsOfFields'
  BY DEF IInv, TagsOfFields, TagOfField, Running
<1> QED
  BY <1>2, <1>3, <1>5, <1>6, <1>7 DEF IInv, Kept

(* A None takes back its tag, or panics outside a TLV struct.              *)
LEMMA NoneStep ==
    ASSUME IInv, SerializeNone
    PROVE  IInv' /\ Kept
<1>1. /\ pc = "value" /\ UNCHANGED <<opts, nextType, inTlv, props, base, calls>>
      /\ "TypePanic" \in Errors \cup Panics /\ props' \in Properties
  BY DEF SerializeNone, Panics, IInv, TypeOK
<1>2. CASE inTlv
  <2>1. /\ buf' = SetLen(buf, Len(buf) - 2) /\ pc' = "return"
        /\ UNCHANGED <<lastField, sections, frames>>
    BY <1>2 DEF SerializeNone
  <2> QED
    BY <1>1, <1>2, <2>1, TagTakenBack
<1>3. CASE ~inTlv
  <2>1. Fail("TypePanic")
    BY <1>3 DEF SerializeNone
  <2> QED
    BY <1>1, <2>1, FailStep
<1> QED
  BY <1>2, <1>3

(* The site of the next value.                                             *)
LEMMA HereIsSite ==
    ASSUME IInv
    PROVE  Here \in Site
BY DEF IInv, TypeOK, Here, Site

(* Every failure ends the call.                                            *)
LEMMA OutcomeIsEnd ==
    ASSUME NEW x
    PROVE  Outcome(x) \in Errors \cup Panics
BY DEF Outcome, Errors, Panics

(* Too few or too many elements end the call.                              *)
LEMMA OutOfBoundsIsError ==
    ASSUME NEW n, NEW ty, OutOfBounds(n, ty) # "no"
    PROVE  OutOfBounds(n, ty) \in Errors \cup Panics
BY DEF OutOfBounds, Errors

(* A value that begins and ends its section in one step.                   *)
LEMMA WholeValueStep ==
    ASSUME IInv, pc = "value", NEW reserved \in OptSize, NEW configured \in OptSize,
           reserved = None <=> configured = None, NEW cells \in Seq(FitCell),
           EndValue(BeginBuf(reserved) \o cells, BeginSections(reserved), configured),
           UNCHANGED <<opts, nextType, inTlv, props, frames, base, calls>>
    PROVE  IInv' /\ Kept
<1> DEFINE b == BeginBuf(reserved) \o cells
           secs == BeginSections(reserved)
<1>1. /\ TypeOK /\ buf \in Seq(FitCell) /\ base <= Len(buf) /\ base \in Nat
      /\ Nested(base, sections, buf)
  BY DEF IInv, TypeOK, SectionsNested, Running
<1>2. /\ BeginBuf(reserved) \in Seq(FitCell)
      /\ Len(BeginBuf(reserved)) = Len(buf) + reserved /\ reserved \in Nat
      /\ \A i \in 1 .. Len(buf) : BeginBuf(reserved)[i] = buf[i]
      /\ secs \in Seq(Section)
      /\ reserved = None => secs = sections
      /\ reserved # None => secs # <<>> /\ Front(secs) = sections
      /\ Nested(base, secs, BeginBuf(reserved))
  BY <1>1, BeginKeepsNesting DEF OptSize, LengthFieldSize, None
<1>3. /\ b \in Seq(FitCell) /\ Len(b) \in Nat /\ Len(BeginBuf(reserved)) <= Len(b)
      /\ base <= Len(b)
      /\ \A i \in 1 .. base : b[i] = buf[i]
  BY <1>1, <1>2
<1>4. EndValue(b, secs, configured)
  OBVIOUS
<1> HIDE DEF b, secs
<1>5. Nested(base, secs, b)
  BY <1>1, <1>2, <1>3, NestedWhenLonger
<1>6. /\ buf' \in Seq(FitCell)
      /\ base <= Len(buf')
      /\ \A i \in 1 .. base : buf'[i] = b[i]
      /\ lastField' \in LastField
      /\ pc' \in {"return", "TooLong"} \cup Panics
      /\ sections' = IF configured = None THEN secs ELSE Front(secs)
      /\ pc' = "return" => Nested(base, sections', buf')
  BY <1>1, <1>2, <1>3, <1>4, <1>5, EndValueKeeps
<1>7. sections' = sections
  BY <1>2, <1>6
<1>8. Kept
  BY <1>3, <1>6 DEF Kept
<1>9. TypeOK'
  BY <1>6, <1>7, FitCellsAreCells DEF IInv, TypeOK, Errors
<1>10. SectionsMatchFrames'
  BY <1>7 DEF IInv, SectionsMatchFrames, Current, Running
<1>11. SectionsNested'
  BY <1>6 DEF SectionsNested, Running, Panics
<1>12. TagsOfFields' /\ TagJustWritten'
  BY <1>6 DEF IInv, TagsOfFields, TagOfField, TagJustWritten, Running, Panics
<1> QED
  BY <1>6, <1>8, <1>9, <1>10, <1>11, <1>12 DEF IInv, Kept

(* An encoded string has a length.                                         *)
LEMMA EncodedSizeIsNat ==
    ASSUME NEW o \in Options, NEW units \in Nat
    PROVE  EncodedSize(o, units) \in Nat
BY DEF EncodedSize, BomSize, UnitSize

(* serialize_bytes opens and closes its section around the slice.          *)
LEMMA BytesStep ==
    ASSUME IInv, NEW n \in Nat, SerializeBytes(n)
    PROVE  IInv' /\ Kept
<1> DEFINE reserved == Reservation[Here]
           configured == WantedLengthField[Here]
<1>1. /\ pc = "value" /\ UNCHANGED <<opts, nextType, inTlv, props, base, calls>>
      /\ props' \in Properties
  BY DEF SerializeBytes, IInv, TypeOK
<1>2. \/ OutOfBounds(n, Types[nextType]) # "no" /\ Fail(OutOfBounds(n, Types[nextType]))
      \/ Fail(Outcome(reserved))
      \/ /\ ~Failed(reserved)
         /\ EndValue(BeginBuf(reserved) \o Data(n), BeginSections(reserved), configured)
         /\ UNCHANGED frames
  BY DEF SerializeBytes
<1>3. Data(n) \in Seq(FitCell)
  BY BytesAreCells DEF Data
<1>4. ~Failed(reserved) => /\ reserved \in OptSize /\ configured \in OptSize
                           /\ reserved = None <=> configured = None
  BY HereIsSite, ReservationMatchesWanted
<1> HIDE DEF reserved, configured
<1>5. CASE OutOfBounds(n, Types[nextType]) # "no" /\ Fail(OutOfBounds(n, Types[nextType]))
  BY <1>1, <1>5, OutOfBoundsIsError, FailStep
<1>6. CASE Fail(Outcome(reserved))
  BY <1>1, <1>6, OutcomeIsEnd, FailStep
<1>7. CASE /\ ~Failed(reserved)
           /\ EndValue(BeginBuf(reserved) \o Data(n), BeginSections(reserved), configured)
           /\ UNCHANGED frames
  BY <1>1, <1>3, <1>4, <1>7, WholeValueStep
<1> QED
  BY <1>2, <1>5, <1>6, <1>7

(* serialize_str does so around the encoded string.                        *)
LEMMA StrStep ==
    ASSUME IInv, NEW units \in Nat, SerializeStr(units)
    PROVE  IInv' /\ Kept
<1> DEFINE reserved == Reservation[Here]
           configured == WantedLengthField[Here]
           size == EncodedSize(opts, units)
           reason == OutOfBounds(size, Types[nextType])
           written == BeginBuf(reserved) \o Data(size)
<1>1. /\ pc = "value" /\ UNCHANGED <<opts, nextType, inTlv, props, base, calls>>
      /\ props' \in Properties
  BY DEF SerializeStr, IInv, TypeOK
<1>2. \/ Fail(Outcome(reserved))
      \/ /\ ~Failed(reserved)
         /\ reason # "no"
         /\ pc' = reason
         /\ buf' = written
         /\ sections' = BeginSections(reserved)
         /\ UNCHANGED <<lastField, frames>>
      \/ /\ ~Failed(reserved)
         /\ EndValue(written, BeginSections(reserved), configured)
         /\ UNCHANGED frames
  BY DEF SerializeStr
<1>3. Data(size) \in Seq(FitCell)
  BY EncodedSizeIsNat, BytesAreCells DEF Data, IInv, TypeOK
<1>4. ~Failed(reserved) => /\ reserved \in OptSize /\ configured \in OptSize
                           /\ reserved = None <=> configured = None
  BY HereIsSite, ReservationMatchesWanted
<1>5. CASE Fail(Outcome(reserved))
  <2> HIDE DEF reserved
  <2> QED
    BY <1>1, <1>5, OutcomeIsEnd, FailStep
<1>6. CASE /\ ~Failed(reserved)
           /\ reason # "no"
           /\ pc' = reason
           /\ buf' = written
           /\ sections' = BeginSections(reserved)
           /\ UNCHANGED <<lastField, frames>>
  <2>1. pc' \in Errors \cup Panics
    <3> HIDE DEF size
    <3> QED
      BY <1>6, OutOfBoundsIsError
  <2> HIDE DEF reserved, reason, size
  <2>2. /\ TypeOK /\ buf \in Seq(FitCell) /\ base <= Len(buf) /\ base \in Nat
        /\ Nested(base, sections, buf) /\ reserved \in Nat /\ reserved \in OptSize
    BY <1>1, <1>4, <1>6 DEF IInv, TypeOK, SectionsNested, Running, OptSize, LengthFieldSize, None
  <2>3. /\ BeginBuf(reserved) \in Seq(FitCell)
        /\ Len(BeginBuf(reserved)) = Len(buf) + reserved
        /\ \A i \in 1 .. Len(buf) : BeginBuf(reserved)[i] = buf[i]
        /\ BeginSections(reserved) \in Seq(Section)
    BY <2>2, BeginKeepsNesting
  <2>4. buf' \in Seq(FitCell) /\ Kept
    BY <1>3, <1>6, <2>2, <2>3 DEF Kept
  <2>5. TypeOK'
    BY <1>1, <1>6, <2>1, <2>3, <2>4, FitCellsAreCells DEF IInv, TypeOK
  <2> QED
    BY <1>1, <2>1, <2>4, <2>5, Ended
<1>7. CASE /\ ~Failed(reserved)
           /\ EndValue(written, BeginSections(reserved), configured)
           /\ UNCHANGED frames
  <2> HIDE DEF reserved, configured, size
  <2> QED
    BY <1>1, <1>3, <1>4, <1>7, WholeValueStep
<1> QED
  BY <1>2, <1>5, <1>6, <1>7

(* A sequence or struct begins.                                            *)
LEMMA BeginValueStep ==
    ASSUME IInv, pc = "value", NEW f \in Frame, f.tagPos = NoTag,
           NEW reserved \in OptSize, reserved = None <=> f.lfs = None,
           BeginValue(f, reserved), props' \in Properties,
           UNCHANGED <<opts, nextType, inTlv, base, calls>>
    PROVE  IInv' /\ Kept
<1>1. /\ TypeOK /\ buf \in Seq(FitCell) /\ base <= Len(buf) /\ base \in Nat
      /\ Nested(base, sections, buf) /\ reserved \in Nat
      /\ frames \in Seq(Frame) /\ sections \in Seq(Section)
      /\ Len(sections) = Cardinality(Sectioned(frames))
  BY DEF IInv, TypeOK, SectionsNested, SectionsMatchFrames, Current, Running, OptSize,
     LengthFieldSize, None
<1>2. /\ frames' = Append(frames, f) /\ sections' = BeginSections(reserved)
      /\ buf' = BeginBuf(reserved) /\ pc' = "return" /\ lastField' = lastField
  BY DEF BeginValue
<1>3. /\ buf' \in Seq(FitCell)
      /\ Len(buf') = Len(buf) + reserved
      /\ \A i \in 1 .. Len(buf) : buf'[i] = buf[i]
      /\ sections' \in Seq(Section)
      /\ reserved = None => sections' = sections
      /\ reserved # None => Len(sections') = Len(sections) + 1
      /\ Nested(base, sections', buf')
  BY <1>1, <1>2, BeginKeepsNesting
<1>4. Kept
  BY <1>1, <1>3 DEF Kept
<1>5. frames' \in Seq(Frame)
  BY <1>1, <1>2
<1>6. TypeOK'
  BY <1>2, <1>3, <1>5, FitCellsAreCells DEF IInv, TypeOK
<1>7. SectionsMatchFrames'
  <2>1. Cardinality(Sectioned(frames')) = Cardinality(Sectioned(frames))
                                            + (IF f.lfs = None THEN 0 ELSE 1)
    BY <1>1, <1>2, SectionedAppend
  <2>2. Cardinality(Sectioned(frames)) \in Nat
    BY <1>1, SectionedIsFinite
  <2> QED
    BY <1>1, <1>3, <2>1, <2>2 DEF SectionsMatchFrames
<1>8. SectionsNested' /\ TagJustWritten'
  BY <1>2, <1>3 DEF SectionsNested, TagJustWritten
<1>9. TagsOfFields'
  <2>1. \A i \in DOMAIN frames : frames[i].tagPos # NoTag => TagOfField(frames[i])
    BY DEF IInv, TagsOfFields, Running
  <2>2. \A i \in DOMAIN frames' :
        (i \in DOMAIN frames /\ frames'[i] = frames[i]) \/ frames'[i] = f
    BY <1>1, <1>2
  <2>3. \A i \in DOMAIN frames' : frames'[i].tagPos # NoTag => TagOfField(frames'[i])
    BY <2>1, <2>2
  <2> QED
    BY <2>3 DEF TagsOfFields, TagOfField
<1> QED
  BY <1>1, <1>3, <1>4, <1>6, <1>7, <1>8, <1>9 DEF IInv, Kept

(* serialize_seq opens a section if the sequence has a length field.       *)
LEMMA SeqStep ==
    ASSUME IInv, NEW hint, SerializeSeq(hint)
    PROVE  IInv' /\ Kept
<1> DEFINE reserved == Reservation[Here]
           hinted == IF hint = NoHint THEN "no" ELSE OutOfBounds(hint, Types[nextType])
           f == [type |-> nextType, lfs |-> WantedLengthField[Here], count |-> 0,
                 orig |-> NoProps, tagPos |-> NoTag]
<1>1. /\ pc = "value" /\ UNCHANGED <<opts, nextType, inTlv, props, base, calls>>
      /\ props' \in Properties /\ nextType \in TypeId
  BY DEF SerializeSeq, IInv, TypeOK
<1>2. \/ hinted # "no" /\ Fail(hinted)
      \/ Fail(Outcome(reserved))
      \/ ~Failed(reserved) /\ BeginValue(f, reserved)
  BY DEF SerializeSeq
<1>3. ~Failed(reserved) => /\ reserved \in OptSize /\ WantedLengthField[Here] \in OptSize
                           /\ reserved = None <=> WantedLengthField[Here] = None
  BY HereIsSite, ReservationMatchesWanted
<1>4. NoProps \in Properties
  BY DEF NoProps, Properties, OptSize
<1>5. ~Failed(reserved) => /\ f \in Frame /\ f.tagPos = NoTag
                           /\ reserved = None <=> f.lfs = None
  BY <1>1, <1>3, <1>4 DEF Frame
<1>6. hinted # "no" => hinted \in Errors \cup Panics
  BY OutOfBoundsIsError
<1> HIDE DEF reserved, hinted, f
<1>7. CASE hinted # "no" /\ Fail(hinted)
  BY <1>1, <1>6, <1>7, FailStep
<1>8. CASE Fail(Outcome(reserved))
  BY <1>1, <1>8, OutcomeIsEnd, FailStep
<1>9. CASE ~Failed(reserved) /\ BeginValue(f, reserved)
  BY <1>1, <1>3, <1>5, <1>9, BeginValueStep
<1> QED
  BY <1>2, <1>7, <1>8, <1>9

(* serialize_struct does so with the properties that the struct brings.    *)
LEMMA StructStep ==
    ASSUME IInv, SerializeStruct
    PROVE  IInv' /\ Kept
<1> DEFINE ty == Types[nextType]
           scope == IF ty.props.set THEN ty.props ELSE props
           site == [Here EXCEPT !.props = scope]
           reserved == Reservation[site]
           f == [type |-> nextType, lfs |-> WantedLengthField[site], count |-> 0,
                 orig |-> IF ty.props.set THEN props ELSE NoProps, tagPos |-> NoTag]
<1>1. /\ pc = "value" /\ UNCHANGED <<opts, nextType, inTlv, base, calls>>
      /\ nextType \in TypeId /\ props \in Properties /\ ty.kind = "struct"
  BY DEF SerializeStruct, IInv, TypeOK
<1>2. \/ Fail(Outcome(reserved))
      \/ ~Failed(reserved) /\ BeginValue(f, reserved)
  BY DEF SerializeStruct
<1>3. scope \in Properties /\ props' = scope
  <2>1. ty \in SomeIpStruct
    BY <1>1, TypeShapes
  <2>2. ty.props \in Properties
    BY <2>1 DEF SomeIpStruct
  <2> QED
    BY <1>1, <2>2 DEF SerializeStruct
<1>4. site \in Site
  <2> HIDE DEF scope
  <2> QED
    BY <1>3, HereIsSite DEF Site
<1>5. ~Failed(reserved) => /\ reserved \in OptSize /\ WantedLengthField[site] \in OptSize
                           /\ reserved = None <=> WantedLengthField[site] = None
  <2> HIDE DEF site
  <2> QED
    BY <1>4, ReservationMatchesWanted
<1>6. NoProps \in Properties
  BY DEF NoProps, Properties, OptSize
<1>7. ~Failed(reserved) => /\ f \in Frame /\ f.tagPos = NoTag
                           /\ reserved = None <=> f.lfs = None
  <2> HIDE DEF site, reserved
  <2> QED
    BY <1>1, <1>5, <1>6 DEF Frame
<1> HIDE DEF reserved, scope, f, site
<1>8. CASE Fail(Outcome(reserved))
  BY <1>1, <1>3, <1>8, OutcomeIsEnd, FailStep
<1>9. CASE ~Failed(reserved) /\ BeginValue(f, reserved)
  BY <1>1, <1>3, <1>5, <1>7, <1>9, BeginValueStep
<1> QED
  BY <1>2, <1>8, <1>9

(* The parts of the innermost serializer.                                  *)
LEMMA TopIsFrame ==
    ASSUME IInv, frames # <<>>
    PROVE  /\ Top \in Frame
           /\ Top = frames[Len(frames)] /\ Len(frames) \in DOMAIN frames
           /\ Top.type \in TypeId /\ Top.lfs \in OptSize /\ Top.count \in Nat
           /\ Top.orig \in Properties
           /\ Top.tagPos \in Nat \cup {NoTag}
<1>1. frames \in Seq(Frame)
  BY DEF IInv, TypeOK
<1>2. Len(frames) \in DOMAIN frames /\ frames[Len(frames)] \in Frame
  BY <1>1
<1> QED
  BY <1>2 DEF Top, Frame

(* A sequence or struct ends, with the section that is its own.            *)
LEMMA ClosingStep ==
    ASSUME IInv, pc = "return", frames # <<>>, EndValue(buf, sections, Top.lfs),
           frames' = Front(frames), inTlv' \in BOOLEAN, props' \in Properties,
           UNCHANGED <<opts, nextType, base, calls>>
    PROVE  IInv' /\ Kept
<1>1. /\ TypeOK /\ buf \in Seq(FitCell) /\ base <= Len(buf) /\ base \in Nat
      /\ Nested(base, sections, buf)
      /\ frames \in Seq(Frame) /\ sections \in Seq(Section)
      /\ Len(sections) = Cardinality(Sectioned(frames))
  BY DEF IInv, TypeOK, SectionsNested, SectionsMatchFrames, Current, Running
<1>2. Top.lfs \in OptSize /\ Top = frames[Len(frames)]
  BY TopIsFrame
<1>3. /\ Cardinality(Sectioned(Front(frames)))
           = Cardinality(Sectioned(frames)) - (IF Top.lfs = None THEN 0 ELSE 1)
      /\ Top.lfs # None => Cardinality(Sectioned(frames)) # 0
  BY <1>1, <1>2, SectionedFront
<1>4. Top.lfs # None => sections # <<>>
  BY <1>1, <1>3
<1>5. /\ buf' \in Seq(FitCell)
      /\ base <= Len(buf')
      /\ \A i \in 1 .. base : buf'[i] = buf[i]
      /\ lastField' \in LastField
      /\ pc' \in {"return", "TooLong"} \cup Panics
      /\ sections' = IF Top.lfs = None THEN sections ELSE Front(sections)
      /\ sections' \in Seq(Section)
      /\ pc' = "return" => Nested(base, sections', buf')
  BY <1>1, <1>2, <1>4, EndValueKeeps
<1>6. Kept
  BY <1>5 DEF Kept
<1>7. /\ frames' \in Seq(Frame)
      /\ \A i \in DOMAIN frames' : i \in DOMAIN frames /\ frames'[i] = frames[i]
  <2>1. /\ Front(frames) \in Seq(Frame) /\ Len(Front(frames)) = Len(frames) - 1
        /\ \A i \in 1 .. Len(frames) - 1 : Front(frames)[i] = frames[i]
    BY <1>1, FrontIsSeq
  <2>2. DOMAIN Front(frames) = 1 .. Len(frames) - 1 /\ DOMAIN frames = 1 .. Len(frames)
    BY <1>1, <2>1
  <2> QED
    BY <1>1, <2>1, <2>2
<1>8. TypeOK'
  BY <1>5, <1>7, FitCellsAreCells DEF IInv, TypeOK, Errors
<1>9. SectionsMatchFrames'
  <2>1. Len(sections') = Len(sections) - (IF Top.lfs = None THEN 0 ELSE 1)
    <3>1. CASE Top.lfs = None
      BY <1>1, <1>5, <3>1
    <3>2. CASE Top.lfs # None
      <4>1. Len(Front(sections)) = Len(sections) - 1
        BY <1>1, <1>4, <3>2, FrontIsSeq
      <4> QED
        BY <1>5, <3>2, <4>1
    <3> QED
      BY <3>1, <3>2
  <2> QED
    BY <1>1, <1>3, <2>1 DEF SectionsMatchFrames
<1>10. SectionsNested' /\ TagJustWritten'
  BY <1>5 DEF SectionsNested, TagJustWritten, Running, Panics
<1>11. TagsOfFields'
  <2>1. \A i \in DOMAIN frames' : frames'[i].tagPos # NoTag => TagOfField(frames'[i])
    BY <1>7 DEF IInv, TagsOfFields, Running
  <2> QED
    BY <2>1 DEF TagsOfFields, TagOfField
<1> QED
  BY <1>5, <1>6, <1>8, <1>9, <1>10, <1>11 DEF IInv, Kept

(* The end of a sequence closes the section that serialize_seq opened.     *)
LEMMA EndSeqStep ==
    ASSUME IInv, EndSeq
    PROVE  IInv' /\ Kept
<1>1. /\ pc = "return" /\ frames # <<>>
      /\ UNCHANGED <<opts, nextType, inTlv, props, base, calls>>
      /\ props' \in Properties /\ inTlv' \in BOOLEAN
  BY DEF EndSeq, IInv, TypeOK
<1>2. CASE OutOfBounds(Top.count, TopType) # "no" /\ Fail(OutOfBounds(Top.count, TopType))
  BY <1>1, <1>2, OutOfBoundsIsError, FailStep
<1>3. CASE EndValue(buf, sections, Top.lfs) /\ frames' = Front(frames)
  BY <1>1, <1>3, ClosingStep
<1> QED
  BY <1>2, <1>3 DEF EndSeq

(* The end of a struct closes the section that serialize_struct opened.    *)
LEMMA EndStructStep ==
    ASSUME IInv, EndStruct
    PROVE  IInv' /\ Kept
<1>1. /\ pc = "return" /\ frames # <<>>
      /\ EndValue(buf, sections, Top.lfs) /\ frames' = Front(frames)
      /\ UNCHANGED <<opts, nextType, base, calls>>
      /\ inTlv' \in BOOLEAN
      /\ props' \in {Top.orig, props}
  BY DEF EndStruct, IInv, TypeOK
<1>2. Top.orig \in Properties /\ props \in Properties
  BY <1>1, TopIsFrame DEF IInv, TypeOK
<1> QED
  BY <1>1, <1>2, ClosingStep

(* A step that only moves on within the innermost serializer.              *)
LEMMA TopStep ==
    ASSUME IInv, frames # <<>>, NEW f \in Frame, f.lfs = Top.lfs,
           f.tagPos # NoTag => TagOfField(f),
           frames' = WithTop(frames, f), Running, pc' \in {"value", "return"},
           nextType' \in TypeId, inTlv' \in BOOLEAN, lastField' \in LastField,
           buf' \in Seq(FitCell), Kept, Nested(base, sections, buf'),
           UNCHANGED <<opts, sections, props, base, calls>>,
           TagJustWritten'
    PROVE  IInv' /\ Kept
<1>1. frames \in Seq(Frame) /\ Top = frames[Len(frames)]
  BY DEF IInv, TypeOK, Top
<1>2. /\ frames' \in Seq(Frame) /\ Len(frames') = Len(frames)
      /\ \A i \in 1 .. Len(frames) : frames'[i] = IF i = Len(frames) THEN f ELSE frames[i]
      /\ Sectioned(frames') = Sectioned(frames)
  BY <1>1, TopExcept
<1>3. TypeOK'
  BY <1>2, FitCellsAreCells DEF IInv, TypeOK
<1>4. SectionsMatchFrames' /\ SectionsNested'
  BY <1>2 DEF IInv, SectionsMatchFrames, SectionsNested, Current, Running
<1>5. TagsOfFields'
  <2>1. \A i \in DOMAIN frames : frames[i].tagPos # NoTag => TagOfField(frames[i])
    BY DEF IInv, TagsOfFields
  <2>2. \A i \in 1 .. Len(frames) : frames'[i].tagPos # NoTag => TagOfField(frames'[i])
    BY <1>1, <1>2, <2>1
  <2> QED
    BY <1>2, <2>2 DEF TagsOfFields, TagOfField
<1> QED
  BY <1>3, <1>4, <1>5 DEF IInv, Kept

(* serialize_element leaves the section of the sequence open.              *)
LEMMA ElementStep ==
    ASSUME IInv, SerializeElement
    PROVE  IInv' /\ Kept
<1> DEFINE f == [Top EXCEPT !.count = @ + 1]
<1>1. /\ pc = "return" /\ frames # <<>> /\ TopType.kind = "seq"
      /\ frames' = [frames EXCEPT ![Len(frames)].count = @ + 1]
      /\ nextType' = TopType.elem /\ inTlv' = FALSE /\ pc' = "value"
      /\ UNCHANGED <<opts, buf, lastField, sections, props, base, calls>>
  BY DEF SerializeElement
<1>2. /\ Top \in Frame /\ Top = frames[Len(frames)] /\ Len(frames) \in DOMAIN frames
      /\ Top.type \in TypeId /\ Top.count \in Nat
  BY <1>1, TopIsFrame
<1>3. f \in Frame /\ f.lfs = Top.lfs /\ f.tagPos = Top.tagPos
  BY <1>2 DEF Frame
<1>4. frames' = WithTop(frames, f)
  BY <1>1, <1>2 DEF WithTop
<1>5. f.tagPos = NoTag
  <2>1. Top.tagPos # NoTag => TopType.kind = "struct"
    BY <1>1, <1>2 DEF IInv, TagsOfFields, TagOfField, Running, TopType, IsStruct
  <2> QED
    BY <1>1, <1>3, <2>1
<1>6. nextType' \in TypeId
  <2>1. TopType \in SomeIpSequence
    BY <1>1, <1>2, TypeShapes DEF TopType
  <2> QED
    BY <1>1, <2>1 DEF SomeIpSequence
<1>7. /\ Running /\ lastField' \in LastField /\ buf' \in Seq(FitCell) /\ Kept
      /\ Nested(base, sections, buf') /\ inTlv' \in BOOLEAN /\ TagJustWritten'
  BY <1>1 DEF IInv, TypeOK, Kept, SectionsNested, Running, TagJustWritten
<1> HIDE DEF f
<1> QED
  BY <1>1, <1>3, <1>4, <1>5, <1>6, <1>7, TopStep

(* A TLV field without an id panics before anything is written.            *)
LEMMA WithoutIdStep ==
    ASSUME IInv, FieldWithoutId
    PROVE  IInv' /\ Kept
<1>1. Fail("TypePanic") /\ UNCHANGED <<opts, nextType, inTlv, props, base, calls>>
  BY DEF FieldWithoutId
<1>2. "TypePanic" \in Errors \cup Panics /\ props \in Properties
  BY DEF Panics, IInv, TypeOK
<1> QED
  BY <1>1, <1>2, FailStep

(* The fields of a struct and the tags made of their ids.                  *)
LEMMA FieldShape ==
    ASSUME NEW t \in TypeId, IsStruct(Types[t]), NEW i \in DOMAIN Types[t].fields
    PROVE  /\ Types[t].fields[i].id \in Nat \cup {NoId}
           /\ Types[t].fields[i].type \in TypeId
           /\ i \in Nat
<1>1. Types[t].fields \in Seq(Field)
  BY TypeShapes DEF IsStruct, SomeIpStruct
<1>2. Types[t].fields[i] \in Field /\ i \in Nat
  BY <1>1
<1> QED
  BY <1>2 DEF Field

(* A tag is two cells.                                                     *)
LEMMA TagsAreCells ==
    ASSUME NEW wire \in Nat, NEW id \in Nat
    PROVE  TagBytes(Tag(wire, id)) \in Seq(FitCell) /\ Len(TagBytes(Tag(wire, id))) = 2
<1>1. Tag(wire, id) \in Nat
  BY DEF Tag, MaxFieldId
<1> QED
  BY <1>1, BytesAreCells DEF TagBytes

(* serialize_field leaves a tag to be patched behind the sections.         *)
LEMMA FieldStep ==
    ASSUME IInv, SerializeField
    PROVE  IInv' /\ Kept
<1> DEFINE n == Top.count + 1
           field == NextField
           cells == TagBytes(Tag(WireTypeOf(Types[field.type]), field.id))
           f == [Top EXCEPT !.count = @ + 1,
                            !.tagPos = IF TopType.tlv THEN Len(buf) ELSE NoTag]
<1>1. /\ pc = "return" /\ frames # <<>> /\ TopType.kind = "struct"
      /\ Top.count < Len(TopType.fields)
      /\ TopType.tlv => field.id # NoId
      /\ buf' = IF TopType.tlv THEN buf \o cells ELSE buf
      /\ frames' = [frames EXCEPT ![Len(frames)].count = @ + 1,
                                  ![Len(frames)].tagPos = IF TopType.tlv THEN Len(buf) ELSE NoTag]
      /\ inTlv' = TopType.tlv
      /\ nextType' = field.type
      /\ pc' = "value"
      /\ UNCHANGED <<opts, lastField, sections, props, base, calls>>
  BY DEF SerializeField, AtField
<1>2. /\ Top \in Frame /\ Top = frames[Len(frames)] /\ Len(frames) \in DOMAIN frames
      /\ Top.type \in TypeId /\ Top.count \in Nat
  BY <1>1, TopIsFrame
<1>3. IsStruct(TopType) /\ TopType.fields \in Seq(Field) /\ TopType.tlv \in BOOLEAN
  <2>1. TopType \in SomeIpStruct
    BY <1>1, <1>2, TypeShapes DEF TopType
  <2> QED
    BY <2>1 DEF SomeIpStruct, IsStruct
<1>4. n \in DOMAIN TopType.fields /\ n \in Nat
  BY <1>1, <1>2, <1>3
<1>5. field.type \in TypeId /\ field.id \in Nat \cup {NoId}
  BY <1>2, <1>3, <1>4, FieldShape DEF TopType, NextField
<1>6. TopType.tlv => cells \in Seq(FitCell) /\ Len(cells) = 2
  <2>1. WireTypeOf(Types[field.type]) \in Nat
    BY DEF WireTypeOf, WireOfFixed, FromConfig
  <2> QED
    BY <1>1, <1>5, <2>1, TagsAreCells
<1>7. Len(buf) \in Nat /\ base \in Nat /\ base <= Len(buf) /\ buf \in Seq(FitCell)
      /\ Nested(base, sections, buf) /\ sections \in Seq(Section) /\ Running
  BY <1>1 DEF IInv, TypeOK, SectionsNested, Running
<1>8. f \in Frame /\ f.lfs = Top.lfs /\ f.type = Top.type /\ f.count = n
      /\ f.tagPos = IF TopType.tlv THEN Len(buf) ELSE NoTag
  <2> DEFINE pos == IF TopType.tlv THEN Len(buf) ELSE NoTag
  <2>1. pos \in Nat \cup {NoTag}
    BY <1>7
  <2>2. f = [Top EXCEPT !.count = n, !.tagPos = pos]
    OBVIOUS
  <2> HIDE DEF f, pos
  <2>3. f \in Frame /\ f.lfs = Top.lfs /\ f.type = Top.type /\ f.count = n /\ f.tagPos = pos
    BY <1>2, <1>4, <2>1, <2>2 DEF Frame
  <2> QED
    BY <2>3 DEF pos
<1>9. frames' = WithTop(frames, f)
  <2> DEFINE pos == IF TopType.tlv THEN Len(buf) ELSE NoTag
  <2> HIDE DEF pos
  <2>1. [frames EXCEPT ![Len(frames)].count = @ + 1][Len(frames)]
          = [Top EXCEPT !.count = @ + 1]
    BY <1>2
  <2>2. [frames EXCEPT ![Len(frames)].count = @ + 1, ![Len(frames)].tagPos = pos]
          = [frames EXCEPT ![Len(frames)] = [Top EXCEPT !.count = @ + 1, !.tagPos = pos]]
    BY <1>2, <2>1
  <2> QED
    BY <1>1, <2>2 DEF WithTop, pos
<1>10. f.tagPos # NoTag => TagOfField(f)
  <2>1. TopType.tlv => TopType.fields[n].id # NoId
    BY <1>1 DEF NextField
  <2> QED
    BY <1>3, <1>4, <1>7, <1>8, <2>1 DEF TagOfField, TopType
<1> HIDE DEF f, cells, n
<1>11. /\ buf' \in Seq(FitCell) /\ Kept /\ Nested(base, sections, buf')
       /\ TopType.tlv => Len(buf') = Len(buf) + 2
  <2>1. CASE TopType.tlv
    BY <1>1, <1>6, <1>7, <2>1, Appending
  <2>2. CASE ~TopType.tlv
    BY <1>1, <1>7, <2>2 DEF Kept
  <2> QED
    BY <2>1, <2>2
<1>12. TagJustWritten'
  <2>1. \A k \in 1 .. Len(sections) : EndOf(sections[k]) \in Nat /\ EndOf(sections[k]) <= Len(buf)
    BY <1>7, SectionShape DEF Nested
  <2>2. TopType.tlv => /\ base + 2 <= Len(buf')
                       /\ \A k \in 1 .. Len(sections) : EndOf(sections[k]) + 2 <= Len(buf')
    BY <1>7, <1>11, <2>1
  <2>3. inTlv' = TopType.tlv /\ sections' = sections /\ base' = base
    BY <1>1
  <2>4. DOMAIN sections = 1 .. Len(sections)
    BY <1>7
  <2> QED
    BY <2>2, <2>3, <2>4 DEF TagJustWritten, SectionEnd
<1>13. lastField' \in LastField /\ inTlv' \in BOOLEAN /\ nextType' \in TypeId
  BY <1>1, <1>3, <1>5 DEF IInv, TypeOK
<1> QED
  BY <1>1, <1>7, <1>8, <1>9, <1>10, <1>11, <1>12, <1>13, TopStep

(* The tag that is rewritten lies behind the caller's bytes.               *)
LEMMA PatchTagStep ==
    ASSUME IInv, PatchTag
    PROVE  IInv' /\ Kept
<1> DEFINE cells == TagBytes(Tag(WireOfLengthField(lastField.size), CurrentField.id))
           f == [Top EXCEPT !.tagPos = NoTag]
<1>1. /\ pc = "return" /\ frames # <<>> /\ Top.tagPos # NoTag
      /\ lastField' \in {lastField, NoField}
      /\ UNCHANGED <<opts, nextType, inTlv, sections, props, base, calls>>
      /\ \/ /\ frames' = [frames EXCEPT ![Len(frames)].tagPos = NoTag]
            /\ buf' \in {buf, WriteAt(buf, Top.tagPos, cells)} /\ pc' = pc
         \/ pc' = "AssertPreviousPos" /\ UNCHANGED <<buf, frames>>
  BY DEF PatchTag
<1>2. /\ Top \in Frame /\ Top = frames[Len(frames)] /\ Len(frames) \in DOMAIN frames
      /\ Top.type \in TypeId /\ Top.tagPos \in Nat
  BY <1>1, TopIsFrame
<1>3. TagOfField(Top)
  BY <1>1, <1>2 DEF IInv, TagsOfFields, Running
<1>4. CurrentField.id \in Nat
  BY <1>2, <1>3, FieldShape DEF TagOfField, CurrentField, TopType
<1>5. cells \in Seq(FitCell)
  <2>1. WireOfLengthField(lastField.size) \in Nat
    BY DEF WireOfLengthField
  <2> QED
    BY <1>4, <2>1, TagsAreCells
<1>6. /\ Len(buf) \in Nat /\ base \in Nat /\ base <= Len(buf) /\ buf \in Seq(FitCell)
      /\ Nested(base, sections, buf) /\ sections \in Seq(Section) /\ Running
      /\ nextType \in TypeId /\ inTlv \in BOOLEAN
  BY <1>1 DEF IInv, TypeOK, SectionsNested, Running
<1>7. lastField' \in LastField
  <2>1. NoField \in LastField
    BY DEF NoField, LastField, OptSize
  <2> QED
    BY <1>1, <2>1 DEF IInv, TypeOK
<1> HIDE DEF cells
<1>8. buf' \in Seq(FitCell) /\ Len(buf') = Len(buf) /\ \A i \in 1 .. base : buf'[i] = buf[i]
  <2>1. base <= Top.tagPos
    BY <1>3 DEF TagOfField
  <2>2. CASE buf' = buf
    BY <1>6, <2>2
  <2>3. CASE buf' = WriteAt(buf, Top.tagPos, cells)
    <3>1. /\ buf' \in Seq(FitCell) /\ Len(buf') = Len(buf)
          /\ \A i \in 1 .. Len(buf) : i <= Top.tagPos => buf'[i] = buf[i]
      BY <1>2, <1>5, <1>6, <2>3, WriteAtKeeps
    <3> QED
      BY <1>2, <1>6, <2>1, <3>1
  <2> QED
    BY <1>1, <2>2, <2>3
<1>9. Kept /\ Nested(base, sections, buf')
  BY <1>6, <1>8, NestedWhenLonger DEF Kept
<1>10. CASE frames' = [frames EXCEPT ![Len(frames)].tagPos = NoTag] /\ pc' = pc
  <2>1. f \in Frame /\ f.lfs = Top.lfs /\ f.tagPos = NoTag
    BY <1>2 DEF Frame
  <2>2. frames' = WithTop(frames, f)
    BY <1>2, <1>10 DEF WithTop
  <2>3. TagJustWritten'
    BY <1>1, <1>10 DEF TagJustWritten
  <2> HIDE DEF f
  <2> QED
    BY <1>1, <1>6, <1>7, <1>8, <1>9, <1>10, <2>1, <2>2, <2>3, TopStep
<1>11. CASE pc' = "AssertPreviousPos" /\ UNCHANGED frames
  <2>1. TypeOK'
    BY <1>1, <1>7, <1>8, <1>11, FitCellsAreCells DEF IInv, TypeOK, Panics
  <2> QED
    BY <1>1, <1>8, <1>9, <1>11, <2>1, Ended DEF Panics
<1> QED
  BY <1>1, <1>10, <1>11

----------------------------------------------------------------------------
(***************************************************************************)
(* The invariant, and what it gives.                                       *)
(***************************************************************************)

(* The invariant holds before the first call.                              *)
LEMMA InitEstablishesIInv ==
    ASSUME Init
    PROVE  IInv
<1>1. PICK n \in InitialBytes : buf = Data(n) /\ base = n
  BY DEF Init
<1>2. n \in Nat
  BY BoundsAssumption
<1>3. buf \in Seq(FitCell) /\ Len(buf) = n
  BY <1>1, <1>2, BytesAreCells DEF Data
<1>4. TypeOK
  <2>1. NoField \in LastField /\ NoProps \in Properties
    BY DEF LastField, NoField, OptSize, NoProps, Properties
  <2>2. opts \in Options /\ nextType \in TypeId /\ calls \in 0 .. MaxCalls
    BY OptionsAssumption, RootsAssumption, BoundsAssumption DEF Init
  <2>3. buf \in Seq(Cell)
    BY <1>3, FitCellsAreCells
  <2>4. sections = <<>> /\ frames = <<>> /\ lastField = NoField /\ props = NoProps
        /\ inTlv = FALSE /\ pc = "idle"
    BY DEF Init
  <2>5. sections \in Seq(Section) /\ frames \in Seq(Frame)
    BY <2>4
  <2>6. pc \in {"idle", "value", "return", "ok"} /\ inTlv \in BOOLEAN /\ base \in Nat
    BY <1>1, <1>2, <2>4
  <2> QED
    BY <2>1, <2>2, <2>3, <2>4, <2>5, <2>6 DEF TypeOK
<1>5. ~Running /\ ~Current /\ pc # "value"
  BY DEF Init, Running, Current
<1> QED
  BY <1>1, <1>2, <1>3, <1>4, <1>5 DEF IInv, SectionsMatchFrames, SectionsNested, TagsOfFields,
     TagJustWritten

(* The invariant reads the variables only.                                 *)
LEMMA StutterKeepsIInv ==
    ASSUME IInv, UNCHANGED vars
    PROVE  IInv' /\ Kept
<1>1. TypeOK' /\ buf' \in Seq(FitCell) /\ (base <= Len(buf))' /\ Kept
  BY DEF IInv, TypeOK, Kept, vars
<1>2. SectionsMatchFrames' /\ SectionsNested' /\ TagJustWritten'
  BY DEF IInv, SectionsMatchFrames, SectionsNested, TagJustWritten, Current, Running,
     SectionEnd, vars
<1>3. TagsOfFields'
  BY DEF IInv, TagsOfFields, TagOfField, Running, vars
<1> QED
  BY <1>1, <1>2, <1>3 DEF IInv

(* Every step keeps the invariant and the caller's bytes.                  *)
LEMMA NextKeepsIInv ==
    ASSUME IInv, [Next]_vars
    PROVE  IInv' /\ Kept
<1>1. ASSUME NEW root \in Roots, Call(root)
      PROVE  IInv' /\ Kept
  BY <1>1, CallStep
<1>2. ASSUME NEW units \in 0 .. MaxUnits, SerializeStr(units)
      PROVE  IInv' /\ Kept
  BY <1>2, StrStep, BoundsAssumption
<1>3. ASSUME NEW n \in 0 .. MaxUnits, SerializeBytes(n)
      PROVE  IInv' /\ Kept
  BY <1>3, BytesStep, BoundsAssumption
<1>4. ASSUME NEW hint \in 0 .. MaxElements \cup {NoHint}, SerializeSeq(hint)
      PROVE  IInv' /\ Kept
  BY <1>4, SeqStep
<1>5. CASE Stopped
  BY <1>5, StutterKeepsIInv DEF Stopped
<1>6. CASE UNCHANGED vars
  BY <1>6, StutterKeepsIInv
<1>7. CASE SerializeFixed \/ SerializeNonAscii \/ SerializeNone
  BY <1>7, FixedStep, NonAsciiStep, NoneStep
<1>8. CASE SerializeElement \/ EndSeq \/ SerializeStruct
  BY <1>8, ElementStep, EndSeqStep, StructStep
<1>9. CASE FieldWithoutId \/ SerializeField \/ PatchTag
  BY <1>9, WithoutIdStep, FieldStep, PatchTagStep
<1>10. CASE EndStruct \/ Finish
  BY <1>10, EndStructStep, FinishStep
<1> QED
  BY <1>1, <1>2, <1>3, <1>4, <1>5, <1>6, <1>7, <1>8, <1>9, <1>10 DEF Next

(* IInv holds throughout.                                                  *)
THEOREM Invariant == Spec => []IInv
<1>1. Init => IInv
  BY InitEstablishesIInv
<1>2. IInv /\ [Next]_vars => IInv'
  BY NextKeepsIInv
<1> QED
  BY <1>1, <1>2, PTL DEF Spec

(* The state of the serializer is always well typed.                       *)
THEOREM TypeCorrect == Spec => []TypeOK
<1>1. IInv => TypeOK
  BY DEF IInv
<1> QED
  BY <1>1, Invariant, PTL

(* `length_delimited_sections.pop().unwrap()` at the end of a sequence or  *)
(* struct always finds a section, and a finished message leaves none.      *)
THEOREM SectionsAlwaysMatchFrames == Spec => []SectionsMatchFrames
<1>1. IInv => SectionsMatchFrames
  BY DEF IInv
<1> QED
  BY <1>1, Invariant, PTL

(* `end - pos - reserved_size` never underflows, and open sections lie one *)
(* behind the other, whatever is shifted, truncated or patched.            *)
THEOREM SectionsAlwaysNested == Spec => []SectionsNested
<1>1. IInv => SectionsNested
  BY DEF IInv
<1> QED
  BY <1>1, Invariant, PTL

(* The caller's bytes are never changed.                                   *)
THEOREM PriorBytesAlwaysKept == Spec => PriorBytesKept
<1>1. ASSUME IInv, [Next]_vars
      PROVE  IsPrefix(SubSeq(buf, 1, base), buf')
  <2> DEFINE prior == SubSeq(buf, 1, base)
  <2>1. /\ base \in Nat /\ Len(buf) \in Nat /\ base <= Len(buf)
        /\ buf \in Seq(FitCell) /\ buf' \in Seq(FitCell)
        /\ base <= Len(buf') /\ \A i \in 1 .. base : buf'[i] = buf[i]
    BY <1>1, NextKeepsIInv DEF IInv, TypeOK, Kept
  <2>2. prior \in Seq(FitCell) /\ Len(prior) = base /\ \A i \in 1 .. base : prior[i] = buf[i]
    BY <2>1
  <2>3. /\ SubSeq(buf', 1, base) \in Seq(FitCell) /\ Len(SubSeq(buf', 1, base)) = base
        /\ \A i \in 1 .. base : SubSeq(buf', 1, base)[i] = buf'[i]
    BY <2>1
  <2>4. SubSeq(prior, 1, base) = prior
    BY <2>1, <2>2
  <2> HIDE DEF prior
  <2>5. prior = SubSeq(buf', 1, base)
    BY <2>1, <2>2, <2>3, SeqEqual
  <2> QED
    BY <2>1, <2>2, <2>4, <2>5 DEF IsPrefix, prior
<1> QED
  BY <1>1, Invariant, PTL DEF Spec, PriorBytesKept

----------------------------------------------------------------------------
(***************************************************************************)
(* Failures.                                                               *)
(***************************************************************************)
LEMMA GrownIsPrefix ==
    ASSUME NEW b \in Seq(FitCell), NEW c \in Seq(FitCell), Len(b) <= Len(c),
           \A i \in 1 .. Len(b) : c[i] = b[i]
    PROVE  IsPrefix(b, c)
<1>1. /\ SubSeq(b, 1, Len(b)) \in Seq(FitCell) /\ Len(SubSeq(b, 1, Len(b))) = Len(b)
      /\ \A i \in 1 .. Len(b) : SubSeq(b, 1, Len(b))[i] = b[i]
  OBVIOUS
<1>2. /\ SubSeq(c, 1, Len(b)) \in Seq(FitCell) /\ Len(SubSeq(c, 1, Len(b))) = Len(b)
      /\ \A i \in 1 .. Len(b) : SubSeq(c, 1, Len(b))[i] = c[i]
  OBVIOUS
<1>3. SubSeq(b, 1, Len(b)) = SubSeq(c, 1, Len(b))
  BY <1>1, <1>2, SeqEqual
<1> QED
  BY <1>3 DEF IsPrefix

(* A failure that leaves the buffer alone.                                 *)
LEMMA SameIsPrefix ==
    ASSUME IInv, buf' = buf
    PROVE  IsPrefix(buf, buf')
<1>1. buf \in Seq(FitCell) /\ Len(buf) <= Len(buf)
  BY DEF IInv
<1> QED
  BY <1>1, GrownIsPrefix

(* What is written of a string or byte slice when it turns out not to fit. *)
LEMMA WrittenIsLonger ==
    ASSUME IInv, pc = "value", NEW reserved \in OptSize, NEW cells \in Seq(FitCell)
    PROVE  /\ BeginBuf(reserved) \o cells \in Seq(FitCell)
           /\ IsPrefix(buf, BeginBuf(reserved) \o cells)
<1>1. /\ TypeOK /\ buf \in Seq(FitCell) /\ base <= Len(buf) /\ Nested(base, sections, buf)
      /\ reserved \in Nat
  BY DEF IInv, SectionsNested, Running, OptSize, LengthFieldSize, None
<1>2. /\ BeginBuf(reserved) \in Seq(FitCell)
      /\ Len(BeginBuf(reserved)) = Len(buf) + reserved
      /\ \A i \in 1 .. Len(buf) : BeginBuf(reserved)[i] = buf[i]
  BY <1>1, BeginKeepsNesting
<1> DEFINE begun == BeginBuf(reserved)
           b == begun \o cells
<1> HIDE DEF begun
<1>3. /\ b \in Seq(FitCell) /\ Len(buf) <= Len(b)
      /\ \A i \in 1 .. Len(buf) : b[i] = buf[i]
  BY <1>1, <1>2 DEF begun
<1> HIDE DEF b
<1>4. IsPrefix(buf, b)
  BY <1>1, <1>3, GrownIsPrefix
<1> QED
  BY <1>3, <1>4 DEF b, begun

(* The end of a string or byte slice.                                      *)
LEMMA WholeValueFails ==
    ASSUME IInv, pc = "value", NEW reserved \in OptSize, NEW configured \in OptSize,
           reserved = None <=> configured = None, NEW cells \in Seq(FitCell),
           EndValue(BeginBuf(reserved) \o cells, BeginSections(reserved), configured),
           pc' \in Errors
    PROVE  IsPrefix(buf, buf')
<1> DEFINE b == BeginBuf(reserved) \o cells
           secs == BeginSections(reserved)
<1>1. /\ TypeOK /\ buf \in Seq(FitCell) /\ base <= Len(buf) /\ base \in Nat
      /\ Nested(base, sections, buf) /\ reserved \in Nat
  BY DEF IInv, TypeOK, SectionsNested, Running, OptSize, LengthFieldSize, None
<1>2. /\ BeginBuf(reserved) \in Seq(FitCell)
      /\ Len(BeginBuf(reserved)) = Len(buf) + reserved
      /\ secs \in Seq(Section)
      /\ reserved # None => secs # <<>>
      /\ Nested(base, secs, BeginBuf(reserved))
  BY <1>1, BeginKeepsNesting
<1>3. b \in Seq(FitCell) /\ IsPrefix(buf, b)
  BY WrittenIsLonger
<1>4. Len(b) \in Nat /\ Len(BeginBuf(reserved)) <= Len(b) /\ base <= Len(b)
  BY <1>1, <1>2
<1>5. EndValue(b, secs, configured)
  OBVIOUS
<1> HIDE DEF b, secs
<1>6. Nested(base, secs, b)
  BY <1>1, <1>2, <1>4, NestedWhenLonger
<1>7. buf' = b
  BY <1>1, <1>2, <1>3, <1>4, <1>5, <1>6, EndValueKeeps
<1> QED
  BY <1>3, <1>7

LEMMA BytesFail ==
    ASSUME IInv, NEW n \in Nat, SerializeBytes(n), pc' \in Errors
    PROVE  IsPrefix(buf, buf')
<1> DEFINE reserved == Reservation[Here]
           configured == WantedLengthField[Here]
<1>1. /\ pc = "value"
      /\ \/ buf' = buf
         \/ /\ ~Failed(reserved)
            /\ EndValue(BeginBuf(reserved) \o Data(n), BeginSections(reserved), configured)
  BY DEF SerializeBytes, Fail
<1>2. Data(n) \in Seq(FitCell)
  BY BytesAreCells DEF Data
<1>3. ~Failed(reserved) => /\ reserved \in OptSize /\ configured \in OptSize
                           /\ reserved = None <=> configured = None
  BY HereIsSite, ReservationMatchesWanted
<1> HIDE DEF reserved, configured
<1> QED
  BY <1>1, <1>2, <1>3, SameIsPrefix, WholeValueFails

LEMMA StrFails ==
    ASSUME IInv, NEW units \in Nat, SerializeStr(units), pc' \in Errors
    PROVE  IsPrefix(buf, buf')
<1> DEFINE reserved == Reservation[Here]
           configured == WantedLengthField[Here]
           cells == Data(EncodedSize(opts, units))
<1>1. /\ pc = "value"
      /\ \/ buf' = buf
         \/ ~Failed(reserved) /\ buf' = BeginBuf(reserved) \o cells
         \/ /\ ~Failed(reserved)
            /\ EndValue(BeginBuf(reserved) \o cells, BeginSections(reserved), configured)
  BY DEF SerializeStr, Fail
<1>2. cells \in Seq(FitCell)
  BY EncodedSizeIsNat, BytesAreCells DEF Data, IInv, TypeOK
<1>3. ~Failed(reserved) => /\ reserved \in OptSize /\ configured \in OptSize
                           /\ reserved = None <=> configured = None
  BY HereIsSite, ReservationMatchesWanted
<1> HIDE DEF reserved, configured, cells
<1> QED
  BY <1>1, <1>2, <1>3, SameIsPrefix, WrittenIsLonger, WholeValueFails

(* The end of a sequence or struct, whose length is known only now.        *)
LEMMA ClosingFails ==
    ASSUME IInv, pc = "return", frames # <<>>, EndValue(buf, sections, Top.lfs),
           pc' \in Errors
    PROVE  buf' = buf
<1>1. /\ TypeOK /\ buf \in Seq(FitCell) /\ base <= Len(buf)
      /\ Nested(base, sections, buf)
      /\ frames \in Seq(Frame) /\ sections \in Seq(Section)
      /\ Len(sections) = Cardinality(Sectioned(frames))
  BY DEF IInv, TypeOK, SectionsNested, SectionsMatchFrames, Current, Running
<1>2. Top.lfs \in OptSize /\ Top = frames[Len(frames)]
  BY TopIsFrame
<1>3. Top.lfs # None => sections # <<>>
  BY <1>1, <1>2, SectionedFront
<1> QED
  BY <1>1, <1>2, <1>3, EndValueKeeps

LEMMA OthersFail ==
    ASSUME pc' \in Errors,
           \/ SerializeFixed \/ SerializeNonAscii \/ SerializeNone
           \/ (\E hint \in 0 .. MaxElements \cup {NoHint} : SerializeSeq(hint))
           \/ SerializeElement \/ SerializeStruct \/ FieldWithoutId \/ SerializeField
    PROVE  buf' = buf
<1>1. ~(SerializeFixed \/ SerializeElement \/ SerializeField)
  BY DEF SerializeFixed, SerializeElement, SerializeField, Errors
<1>2. CASE SerializeNonAscii \/ SerializeNone \/ FieldWithoutId
  BY <1>2 DEF SerializeNonAscii, SerializeNone, FieldWithoutId, Fail, Errors
<1>3. ASSUME NEW hint \in 0 .. MaxElements \cup {NoHint}, SerializeSeq(hint)
      PROVE  buf' = buf
  BY <1>3 DEF SerializeSeq, BeginValue, Fail, Errors
<1>4. CASE SerializeStruct
  BY <1>4 DEF SerializeStruct, BeginValue, Fail, Errors
<1> QED
  BY <1>1, <1>2, <1>3, <1>4

(* A step that fails with an error only adds to the buffer: a section that *)
(* is too long for its length field is found out before anything is moved, *)
(* and the check behind the move never finds anything.                     *)
THEOREM FailuresAlwaysOnlyAppend == Spec => FailuresOnlyAppend
<1>1. ASSUME IInv, [Next]_vars, Running, pc' \in Errors
      PROVE  IsPrefix(buf, buf')
  <2>1. ASSUME NEW units \in 0 .. MaxUnits, SerializeStr(units)
        PROVE  IsPrefix(buf, buf')
    BY <1>1, <2>1, StrFails, BoundsAssumption
  <2>2. ASSUME NEW n \in 0 .. MaxUnits, SerializeBytes(n)
        PROVE  IsPrefix(buf, buf')
    BY <1>1, <2>2, BytesFail, BoundsAssumption
  <2>3. ASSUME NEW root \in Roots, Call(root)
        PROVE  FALSE
    BY <1>1, <2>3 DEF Call, Running, Errors
  <2>4. CASE EndSeq
    BY <1>1, <2>4, ClosingFails, SameIsPrefix DEF EndSeq, Fail
  <2>5. CASE EndStruct
    BY <1>1, <2>5, ClosingFails, SameIsPrefix DEF EndStruct
  <2>6. CASE PatchTag
    BY <1>1, <2>6 DEF PatchTag, Errors
  <2>7. CASE Finish \/ Stopped \/ UNCHANGED vars
    BY <1>1, <2>7, SameIsPrefix DEF Finish, Stopped, vars
  <2> QED
    BY <1>1, <2>1, <2>2, <2>3, <2>4, <2>5, <2>6, <2>7, OthersFail, SameIsPrefix DEF Next
<1> QED
  BY <1>1, Invariant, PTL DEF Spec, FailuresOnlyAppend

----------------------------------------------------------------------------
(***************************************************************************)
(* Transformation properties.                                              *)
(***************************************************************************)

(* Every open struct has kept the properties it has replaced, so that      *)
(* PropsScoped is restored however deep the structs are nested.            *)
ScopesKept == Current => Scoped(frames, props)

(* Steps of a call that neither open nor close anything.                   *)
LEMMA ScopesStay ==
    ASSUME IInv, IInv', ScopesKept, Current' => Current, props' = props,
           Len(frames') = Len(frames),
           \A i \in 1 .. Len(frames) : /\ frames'[i].type = frames[i].type
                                      /\ frames'[i].orig = frames[i].orig
    PROVE  ScopesKept'
<1>1. frames \in Seq(Frame) /\ frames' \in Seq(Frame)
  BY DEF IInv, TypeOK
<1> QED
  BY <1>1, ScopedStays DEF ScopesKept

(* Steps within the innermost serializer.                                  *)
LEMMA ScopesOfTop ==
    ASSUME IInv, IInv', ScopesKept, pc = "return", frames # <<>>, props' = props,
           NEW f \in Frame, f.type = Top.type, f.orig = Top.orig,
           frames' = [frames EXCEPT ![Len(frames)] = f]
    PROVE  ScopesKept'
<1>1. frames \in Seq(Frame) /\ Top = frames[Len(frames)]
  BY DEF IInv, TypeOK, Top
<1>2. /\ Len(frames') = Len(frames)
      /\ \A i \in 1 .. Len(frames) : frames'[i] = IF i = Len(frames) THEN f ELSE frames[i]
  BY <1>1
<1> QED
  BY <1>1, <1>2, ScopesStay DEF Current, Running

(* A sequence or struct begins.                                            *)
LEMMA ScopesPush ==
    ASSUME IInv, ScopesKept, pc = "value", NEW f \in Frame, frames' = Append(frames, f),
           IF BringsProps(f) THEN f.orig = props /\ props' = Types[f.type].props
           ELSE props' = props
    PROVE  ScopesKept'
<1>1. frames \in Seq(Frame) /\ Scoped(frames, props)
  BY DEF IInv, TypeOK, ScopesKept, Current, Running
<1> QED
  BY <1>1, ScopedPush DEF ScopesKept

(* A sequence or struct ends.                                              *)
LEMMA ScopesPop ==
    ASSUME IInv, ScopesKept, pc = "return", frames # <<>>, frames' = Front(frames),
           Current' => props' = IF BringsProps(Top) THEN Top.orig ELSE props
    PROVE  ScopesKept'
<1>1. /\ frames \in Seq(Frame) /\ Scoped(frames, props)
      /\ Top = frames[Len(frames)]
  BY DEF IInv, TypeOK, ScopesKept, Current, Running, Top
<1> QED
  BY <1>1, ScopedPop DEF ScopesKept

(* A call that has failed has no scopes.                                   *)
LEMMA NoScopesLeft ==
    ASSUME pc' \in Errors \cup Panics
    PROVE  ScopesKept'
BY DEF ScopesKept, Current, Running, Errors, Panics

(* serialize_seq never counts as a struct with properties.                 *)
LEMMA SeqScopes ==
    ASSUME IInv, IInv', ScopesKept, NEW hint, SerializeSeq(hint)
    PROVE  ScopesKept'
<1> DEFINE f == [type |-> nextType, lfs |-> WantedLengthField[Here], count |-> 0,
                 orig |-> NoProps, tagPos |-> NoTag]
           hinted == IF hint = NoHint THEN "no" ELSE OutOfBounds(hint, Types[nextType])
<1>1. /\ pc = "value" /\ props' = props /\ Types[nextType].kind = "seq"
      /\ \/ pc' = hinted /\ hinted # "no"
         \/ pc' = Outcome(Reservation[Here])
         \/ frames' = Append(frames, f)
  BY DEF SerializeSeq, Fail, BeginValue
<1>2. CASE frames' = Append(frames, f)
  <2>1. ~BringsProps(f)
    BY <1>1 DEF BringsProps
  <2>2. f \in Frame
    <3> HIDE DEF f
    <3>1. frames' \in Seq(Frame) /\ Len(frames) + 1 \in DOMAIN frames'
          /\ frames'[Len(frames) + 1] = f
      BY <1>2 DEF IInv, TypeOK
    <3> QED
      BY <3>1
  <2> HIDE DEF f
  <2> QED
    BY <1>1, <1>2, <2>1, <2>2, ScopesPush
<1>3. CASE pc' = hinted /\ hinted # "no"
  BY <1>3, OutOfBoundsIsError, NoScopesLeft
<1>4. CASE pc' = Outcome(Reservation[Here])
  BY <1>4, OutcomeIsEnd, NoScopesLeft
<1> QED
  BY <1>1, <1>2, <1>3, <1>4

(* serialize_struct replaces the properties if the struct has its own.     *)
LEMMA StructScopes ==
    ASSUME IInv, IInv', ScopesKept, SerializeStruct
    PROVE  ScopesKept'
<1> DEFINE ty == Types[nextType]
           scope == IF ty.props.set THEN ty.props ELSE props
           site == [Here EXCEPT !.props = scope]
           f == [type |-> nextType, lfs |-> WantedLengthField[site], count |-> 0,
                 orig |-> IF ty.props.set THEN props ELSE NoProps, tagPos |-> NoTag]
<1>1. /\ pc = "value" /\ props' = scope /\ ty.kind = "struct"
      /\ \/ pc' = Outcome(Reservation[site])
         \/ frames' = Append(frames, f)
  BY DEF SerializeStruct, Fail, BeginValue
<1>2. CASE frames' = Append(frames, f)
  <2>1. /\ BringsProps(f) <=> ty.props.set
        /\ f.type = nextType
        /\ BringsProps(f) => f.orig = props
    BY <1>1 DEF BringsProps
  <2>2. f \in Frame
    <3> HIDE DEF f
    <3>1. frames' \in Seq(Frame) /\ Len(frames) + 1 \in DOMAIN frames'
          /\ frames'[Len(frames) + 1] = f
      BY <1>2 DEF IInv, TypeOK
    <3> QED
      BY <3>1
  <2> HIDE DEF f
  <2> QED
    BY <1>1, <1>2, <2>1, <2>2, ScopesPush
<1>3. CASE pc' = Outcome(Reservation[site])
  BY <1>3, OutcomeIsEnd, NoScopesLeft
<1> QED
  BY <1>1, <1>2, <1>3

(* The end of a sequence or struct restores the properties, if it goes     *)
(* well.                                                                   *)
LEMMA EndScopes ==
    ASSUME IInv, ScopesKept, EndSeq \/ EndStruct
    PROVE  ScopesKept'
<1>1. CASE EndSeq
  <2>1. /\ pc = "return" /\ frames # <<>> /\ TopType.kind = "seq" /\ props' = props
        /\ \/ /\ OutOfBounds(Top.count, TopType) # "no"
              /\ pc' = OutOfBounds(Top.count, TopType)
           \/ frames' = Front(frames)
    BY <1>1 DEF EndSeq, Fail
  <2>2. ~BringsProps(Top)
    BY <2>1 DEF BringsProps, TopType
  <2> QED
    BY <2>1, <2>2, OutOfBoundsIsError, NoScopesLeft, ScopesPop
<1>2. CASE EndStruct
  <2>1. /\ pc = "return" /\ frames # <<>> /\ TopType.kind = "struct"
        /\ frames' = Front(frames)
        /\ props' = IF pc' = "return" /\ TopType.props.set THEN Top.orig ELSE props
        /\ EndValue(buf, sections, Top.lfs)
    BY <1>2 DEF EndStruct
  <2>2. BringsProps(Top) <=> TopType.props.set
    BY <2>1 DEF BringsProps, TopType
  <2>3. Current' => pc' = "return"
    BY <2>1 DEF EndValue, EndSection, Outcome, Current, Running
  <2> QED
    BY <2>1, <2>2, <2>3, ScopesPop
<1> QED
  BY <1>1, <1>2

(* The other steps change nothing that a scope depends on.                 *)
LEMMA InnerScopes ==
    ASSUME IInv, IInv', ScopesKept, SerializeElement \/ SerializeField \/ PatchTag
    PROVE  ScopesKept'
<1>1. pc = "return" /\ frames # <<>> /\ props' = props
  BY DEF SerializeElement, SerializeField, AtField, PatchTag
<1>2. Top \in Frame /\ Top = frames[Len(frames)] /\ Len(frames) \in DOMAIN frames
  BY <1>1, TopIsFrame
<1>3. CASE frames' = frames
  BY <1>1, <1>3, ScopesStay DEF Current, Running
<1>4. ASSUME NEW f, frames' = [frames EXCEPT ![Len(frames)] = f],
             f.type = Top.type, f.orig = Top.orig
      PROVE  ScopesKept'
  <2>1. frames' \in Seq(Frame) /\ frames \in Seq(Frame)
    BY DEF IInv, TypeOK
  <2>2. f = frames'[Len(frames)] /\ Len(frames) \in DOMAIN frames'
    BY <1>2, <1>4, <2>1
  <2>3. f \in Frame
    BY <2>1, <2>2
  <2> QED
    BY <1>1, <1>4, <2>3, ScopesOfTop
<1>5. CASE SerializeElement
  <2> DEFINE f == [Top EXCEPT !.count = @ + 1]
  <2>1. frames' = [frames EXCEPT ![Len(frames)] = f]
    BY <1>2, <1>5 DEF SerializeElement
  <2>2. f.type = Top.type /\ f.orig = Top.orig
    BY <1>2 DEF Frame
  <2> HIDE DEF f
  <2> QED
    BY <1>4, <2>1, <2>2
<1>6. CASE SerializeField
  <2> DEFINE pos == IF TopType.tlv THEN Len(buf) ELSE NoTag
             f == [Top EXCEPT !.count = @ + 1, !.tagPos = pos]
  <2>1. frames' = [frames EXCEPT ![Len(frames)].count = @ + 1, ![Len(frames)].tagPos = pos]
    BY <1>6 DEF SerializeField
  <2> HIDE DEF pos
  <2>2. frames' = [frames EXCEPT ![Len(frames)] = f]
    <3>1. [frames EXCEPT ![Len(frames)].count = @ + 1][Len(frames)]
            = [Top EXCEPT !.count = @ + 1]
      BY <1>2
    <3> QED
      BY <1>2, <2>1, <3>1
  <2>3. f.type = Top.type /\ f.orig = Top.orig
    BY <1>2 DEF Frame
  <2> HIDE DEF f
  <2> QED
    BY <1>4, <2>2, <2>3
<1>7. CASE PatchTag
  <2> DEFINE f == [Top EXCEPT !.tagPos = NoTag]
  <2>1. frames' = frames \/ frames' = [frames EXCEPT ![Len(frames)] = f]
    BY <1>2, <1>7 DEF PatchTag
  <2>2. f.type = Top.type /\ f.orig = Top.orig
    BY <1>2 DEF Frame
  <2> HIDE DEF f
  <2> QED
    BY <1>3, <1>4, <2>1, <2>2
<1> QED
  BY <1>5, <1>6, <1>7

(* Every step keeps the scopes.                                            *)
LEMMA NextKeepsScopes ==
    ASSUME IInv, ScopesKept, [Next]_vars
    PROVE  ScopesKept'
<1>1. IInv'
  BY NextKeepsIInv
<1>2. ASSUME NEW root \in Roots, Call(root)
      PROVE  ScopesKept'
  BY <1>2, ScopedAtStart DEF Call, ScopesKept
<1>3. ASSUME UNCHANGED <<frames, props>>, Current' => Current
      PROVE  ScopesKept'
  BY <1>3 DEF ScopesKept
<1>4. ASSUME NEW hint \in 0 .. MaxElements \cup {NoHint}, SerializeSeq(hint)
      PROVE  ScopesKept'
  BY <1>1, <1>4, SeqScopes
<1>5. CASE SerializeStruct \/ EndSeq \/ EndStruct
  BY <1>1, <1>5, StructScopes, EndScopes
<1>6. CASE SerializeElement \/ SerializeField \/ PatchTag
  BY <1>1, <1>6, InnerScopes
<1>7. ASSUME NEW units \in 0 .. MaxUnits, SerializeStr(units)
      PROVE  ScopesKept'
  BY <1>3, <1>7 DEF SerializeStr, Fail, Current, Running
<1>8. ASSUME NEW n \in 0 .. MaxUnits, SerializeBytes(n)
      PROVE  ScopesKept'
  BY <1>3, <1>8 DEF SerializeBytes, Fail, Current, Running
<1>9. CASE SerializeFixed \/ SerializeNonAscii \/ SerializeNone
  BY <1>3, <1>9 DEF SerializeFixed, SerializeNonAscii, SerializeNone, Fail, Current, Running
<1>10. CASE FieldWithoutId \/ Finish
  BY <1>3, <1>10 DEF FieldWithoutId, AtField, Finish, Fail, Current, Running
<1>11. CASE Stopped \/ UNCHANGED vars
  BY <1>3, <1>11 DEF Stopped, vars, Current, Running
<1> QED
  BY <1>2, <1>4, <1>5, <1>6, <1>7, <1>8, <1>9, <1>10, <1>11 DEF Next

(* The properties in scope are those of the innermost open struct that has *)
(* its own.                                                                *)
LEMMA ScopeIsInScope ==
    ASSUME NEW n \in Nat, NEW p, InScope(frames, n, p)
    PROVE  p = Scope(n)
<1> DEFINE own == {i \in 1 .. n : /\ Types[frames[i].type].kind = "struct"
                                  /\ Types[frames[i].type].props.set}
           innermost == CHOOSE i \in own : \A j \in own : j <= i
<1>1. own = {i \in 1 .. n : BringsProps(frames[i])}
  BY DEF BringsProps
<1>2. Scope(n) = IF own = {} THEN NoProps ELSE Types[frames[innermost].type].props
  BY DEF Scope
<1> HIDE DEF own, innermost
<1>3. CASE p = NoProps /\ \A i \in 1 .. n : ~BringsProps(frames[i])
  BY <1>1, <1>2, <1>3
<1>4. ASSUME NEW i \in 1 .. n, BringsProps(frames[i]), p = Types[frames[i].type].props,
             \A j \in i + 1 .. n : ~BringsProps(frames[j])
      PROVE  p = Scope(n)
  <2>1. i \in own /\ \A j \in own : j <= i
    BY <1>1, <1>4
  <2>2. innermost \in own /\ \A j \in own : j <= innermost
    BY <2>1 DEF innermost
  <2>3. innermost = i
    BY <1>1, <2>1, <2>2
  <2> QED
    BY <1>2, <1>4, <2>1, <2>3
<1> QED
  BY <1>3, <1>4 DEF InScope

(* The transformation properties in force are always those of the          *)
(* innermost open struct that has its own.                                 *)
THEOREM PropsAlwaysScoped == Spec => []PropsScoped
<1>1. Init => ScopesKept
  BY DEF Init, ScopesKept, Current, Running
<1>2. IInv /\ ScopesKept /\ [Next]_vars => ScopesKept'
  BY NextKeepsScopes
<1>3. ASSUME IInv, ScopesKept, Current
      PROVE  props = Scope(Len(frames))
  <2>1. Len(frames) \in Nat /\ InScope(frames, Len(frames), props)
    BY <1>3 DEF IInv, TypeOK, ScopesKept, Scoped
  <2> QED
    BY <2>1, ScopeIsInScope
<1>4. IInv /\ ScopesKept => PropsScoped
  BY <1>3 DEF PropsScoped
<1> QED
  BY <1>1, <1>2, <1>4, Invariant, PTL DEF Spec

----------------------------------------------------------------------------
(***************************************************************************)
(* What stands in the buffer: reserved bytes stand in open sections only.  *)
(*                                                                         *)
(* This rests on where the tags of unfinished fields lie relative to the   *)
(* open sections: a tag lies behind the sections of its own struct and of  *)
(* the structs around it, and in front of those opened for its value.      *)
(***************************************************************************)

----------------------------------------------------------------------------
(***************************************************************************)
(* Tags of unfinished fields.                                              *)
(***************************************************************************)

(* How many of the first i serializers have a section.                     *)
Rank(fs, i) == Cardinality({j \in 1 .. i : fs[j].lfs # None})

IsOpen(fs, i) == fs[i].tagPos # NoTag

(* Outer tags lie in front of inner ones.                                  *)
Ordered(fs) ==
    \A i \in 1 .. Len(fs), j \in 1 .. Len(fs) :
        i < j /\ IsOpen(fs, i) /\ IsOpen(fs, j) => fs[i].tagPos + 2 <= fs[j].tagPos

(* A tag lies between the sections opened before it and those opened since. *)
Beside(fs, secs) ==
    \A i \in 1 .. Len(fs), k \in 1 .. Len(secs) :
        IsOpen(fs, i) => IF k <= Rank(fs, i) THEN EndOf(secs[k]) <= fs[i].tagPos
                         ELSE fs[i].tagPos + 2 <= secs[k].pos

(* The tags of the first n serializers are complete.                       *)
Complete(fs, n, len) ==
    \A i \in 1 .. n : IsOpen(fs, i) => fs[i].tagPos + 2 <= len

(* That of the innermost may have been taken back, for a None.             *)
TagsLaidOut == Running =>
    /\ Ordered(frames)
    /\ Beside(frames, sections)
    /\ Complete(frames, Len(frames) - 1, Len(buf))

(* The value of a TLV field starts right behind its tag.                   *)
ValueFollowsTag == pc = "value" =>
    IF inTlv THEN frames # <<>> /\ Top.tagPos = Len(buf) - 2
    ELSE frames # <<>> => Top.tagPos = NoTag

Layout == TagsLaidOut /\ ValueFollowsTag

(* The inductive invariant for reserved bytes.                             *)
Placed == Layout /\ PlaceholdersAreOpen

----------------------------------------------------------------------------
(***************************************************************************)
(* Counting sections.                                                      *)
(***************************************************************************)

(* A serializer adds its own section, if it has one, to those before it.   *)
LEMMA RankStep ==
    ASSUME NEW fs \in Seq(Frame), NEW i \in 0 .. Len(fs) - 1
    PROVE  /\ Rank(fs, i) \in Nat
           /\ Rank(fs, i + 1) = Rank(fs, i) + (IF fs[i + 1].lfs = None THEN 0 ELSE 1)
<1> DEFINE R(n) == {j \in 1 .. n : fs[j].lfs # None}
<1>1. IsFiniteSet(R(i)) /\ Cardinality(R(i)) \in Nat
  <2>1. IsFiniteSet(1 .. i) /\ R(i) \in SUBSET (1 .. i)
    BY FS_Interval
  <2> QED
    BY <2>1, FS_Subset, FS_CardinalityType
<1>2. i + 1 \notin R(i)
  OBVIOUS
<1>3. CASE fs[i + 1].lfs = None
  <2>1. R(i + 1) = R(i)
    BY <1>3
  <2>2. Rank(fs, i + 1) = Cardinality(R(i + 1)) /\ Rank(fs, i) = Cardinality(R(i))
    BY DEF Rank
  <2> HIDE DEF R
  <2> QED
    BY <1>1, <1>3, <2>1, <2>2
<1>4. CASE fs[i + 1].lfs # None
  <2>1. R(i + 1) = R(i) \cup {i + 1}
    BY <1>4
  <2>2. Rank(fs, i + 1) = Cardinality(R(i + 1)) /\ Rank(fs, i) = Cardinality(R(i))
    BY DEF Rank
  <2> HIDE DEF R
  <2> QED
    BY <1>1, <1>2, <1>4, <2>1, <2>2, FS_AddElement
<1> QED
  BY <1>3, <1>4, <1>1 DEF Rank

(* The count depends on the length fields only, grows with the number of   *)
(* serializers, and ends with that of SectionsMatchFrames.                 *)
LEMMA RankOfSame ==
    ASSUME NEW fs, NEW gs, NEW i \in Nat, \A j \in 1 .. i : gs[j].lfs = fs[j].lfs
    PROVE  Rank(gs, i) = Rank(fs, i)
<1>1. {j \in 1 .. i : gs[j].lfs # None} = {j \in 1 .. i : fs[j].lfs # None}
  OBVIOUS
<1> QED
  BY <1>1 DEF Rank

(* There are no fewer sections the more frames there are.                  *)
LEMMA RankGrows ==
    ASSUME NEW fs \in Seq(Frame), NEW i \in 0 .. Len(fs), NEW j \in i .. Len(fs)
    PROVE  Rank(fs, i) \in Nat /\ Rank(fs, j) \in Nat /\ Rank(fs, i) <= Rank(fs, j)
<1> DEFINE R(n) == {k \in 1 .. n : fs[k].lfs # None}
<1>1. IsFiniteSet(1 .. j) /\ R(j) \in SUBSET (1 .. j)
  BY FS_Interval
<1>2. IsFiniteSet(R(j)) /\ R(i) \in SUBSET R(j)
  BY <1>1, FS_Subset
<1>3. IsFiniteSet(R(i)) /\ Cardinality(R(i)) <= Cardinality(R(j))
  BY <1>2, FS_Subset
<1> QED
  BY <1>2, <1>3, FS_CardinalityType DEF Rank

(* The frames have as many sections as are open.                           *)
LEMMA RankOfAll ==
    ASSUME NEW fs \in Seq(Frame)
    PROVE  Rank(fs, Len(fs)) = Cardinality(Sectioned(fs))
<1>1. {j \in 1 .. Len(fs) : fs[j].lfs # None} = {j \in DOMAIN fs : fs[j].lfs # None}
  OBVIOUS
<1> QED
  BY <1>1 DEF Rank, Sectioned

(* The position of a tag, if there is one.                                 *)
LEMMA TagPosition ==
    ASSUME NEW fs \in Seq(Frame), NEW i \in 1 .. Len(fs)
    PROVE  fs[i].tagPos \in Nat \cup {NoTag}
<1>1. fs[i] \in Frame
  OBVIOUS
<1> QED
  BY <1>1 DEF Frame

----------------------------------------------------------------------------
(***************************************************************************)
(* How the layout of tags and sections changes.                            *)
(***************************************************************************)
FrameSeq(fs, secs, len) ==
    /\ fs \in Seq(Frame) /\ secs \in Seq(Section) /\ len \in Nat
    /\ Len(secs) = Cardinality(Sectioned(fs))

(* A serializer is opened, with a section behind all tags.                 *)
LEMMA LayoutPush ==
    ASSUME NEW fs, NEW secs, NEW len, FrameSeq(fs, secs, len),
           Ordered(fs), Beside(fs, secs), Complete(fs, Len(fs), len),
           NEW f \in Frame, f.tagPos = NoTag, NEW sec \in Section, sec.pos = len,
           NEW news, news = IF f.lfs = None THEN secs ELSE Append(secs, sec),
           NEW newLen \in Nat, len <= newLen
    PROVE  /\ Ordered(Append(fs, f))
           /\ Beside(Append(fs, f), news)
           /\ Complete(Append(fs, f), Len(fs), newLen)
<1> DEFINE gs == Append(fs, f)
           n == Len(fs)
<1>1. /\ fs \in Seq(Frame) /\ secs \in Seq(Section) /\ len \in Nat /\ n \in Nat
      /\ Len(secs) = Rank(fs, n)
  BY RankOfAll DEF FrameSeq
<1>2. /\ Len(gs) = n + 1 /\ gs[n + 1] = f
      /\ \A i \in 1 .. n : gs[i] = fs[i]
  BY <1>1
<1> HIDE DEF gs, n
<1>3. \A i \in 1 .. n + 1 : IsOpen(gs, i) => i \in 1 .. n /\ IsOpen(fs, i)
  BY <1>1, <1>2 DEF IsOpen
<1>4. \A i \in 1 .. n : fs[i].tagPos \in Nat \cup {NoTag}
  BY <1>1, TagPosition DEF n
<1>5. Ordered(gs)
  BY <1>1, <1>2, <1>3 DEF Ordered, n
<1>6. Complete(gs, n, newLen)
  <2>1. \A i \in 1 .. n : IsOpen(gs, i) => gs[i].tagPos + 2 <= newLen
    BY <1>1, <1>2, <1>3, <1>4 DEF Complete, IsOpen, n
  <2> QED
    BY <2>1 DEF Complete
<1>7. Beside(gs, news)
  <2> SUFFICES ASSUME NEW i \in 1 .. n, NEW k \in 1 .. Len(news), IsOpen(fs, i)
               PROVE  IF k <= Rank(gs, i) THEN EndOf(news[k]) <= fs[i].tagPos
                      ELSE fs[i].tagPos + 2 <= news[k].pos
    BY <1>1, <1>2, <1>3 DEF Beside
  <2>1. Rank(gs, i) = Rank(fs, i)
    <3>1. i \in Nat /\ \A j \in 1 .. i : gs[j].lfs = fs[j].lfs
      BY <1>1, <1>2
    <3> QED
      BY <3>1, RankOfSame
  <2>2. CASE k \in 1 .. Len(secs)
    <3>1. news[k] = secs[k]
      BY <1>1, <2>2
    <3> QED
      BY <2>1, <2>2, <3>1 DEF Beside, n
  <2>3. CASE k \notin 1 .. Len(secs)
    <3>1. k = Len(secs) + 1 /\ news[k] = sec
      BY <1>1, <2>3
    <3>2. Rank(fs, i) \in Nat /\ Rank(fs, i) <= Len(secs)
      BY <1>1, RankGrows DEF n
    <3>3. ~(k <= Rank(gs, i))
      BY <2>1, <3>1, <3>2, <1>1
    <3> QED
      BY <3>1, <3>3 DEF Complete, n
  <2> QED
    BY <2>2, <2>3
<1> QED
  BY <1>5, <1>6, <1>7 DEF gs, n

(* The innermost serializer is closed, with its section.                   *)
LEMMA LayoutPop ==
    ASSUME NEW fs, NEW secs, NEW len, FrameSeq(fs, secs, len), fs # <<>>,
           Ordered(fs), Beside(fs, secs), Complete(fs, Len(fs) - 1, len),
           NEW news, news = IF fs[Len(fs)].lfs = None THEN secs ELSE Front(secs),
           NEW newLen \in Nat,
           \/ newLen = len
           \/ fs[Len(fs)].lfs # None /\ secs[Len(secs)].pos <= newLen
    PROVE  /\ Ordered(Front(fs))
           /\ Beside(Front(fs), news)
           /\ Complete(Front(fs), Len(fs) - 1, newLen)
<1> DEFINE gs == Front(fs)
           n == Len(fs)
<1>1. /\ fs \in Seq(Frame) /\ secs \in Seq(Section) /\ len \in Nat /\ n \in Nat \ {0}
      /\ Len(secs) = Rank(fs, n)
  BY RankOfAll DEF FrameSeq
<1>2. Len(gs) = n - 1 /\ \A i \in 1 .. n - 1 : gs[i] = fs[i]
  BY <1>1, FrontIsSeq
<1> HIDE DEF gs, n
<1>3. \A i \in 1 .. n - 1 : i \in 1 .. n /\ (IsOpen(gs, i) => IsOpen(fs, i))
  BY <1>1, <1>2 DEF IsOpen
<1>4. \A i \in 1 .. n : fs[i].tagPos \in Nat \cup {NoTag}
  BY <1>1, TagPosition DEF n
<1>5. Ordered(gs)
  BY <1>1, <1>2, <1>3 DEF Ordered, n
<1>6. /\ Rank(fs, n - 1) \in Nat
      /\ Rank(fs, n) = Rank(fs, n - 1) + (IF fs[n].lfs = None THEN 0 ELSE 1)
  <2>1. n - 1 \in 0 .. Len(fs) - 1 /\ n - 1 + 1 = n
    BY <1>1 DEF n
  <2> QED
    BY <1>1, <2>1, RankStep
<1>7. Complete(gs, n - 1, newLen)
  <2> SUFFICES ASSUME NEW i \in 1 .. n - 1, IsOpen(fs, i)
               PROVE  fs[i].tagPos + 2 <= newLen
    BY <1>2, <1>3 DEF Complete
  <2>1. CASE newLen = len
    BY <2>1 DEF Complete, n
  <2>2. CASE fs[n].lfs # None /\ secs[Len(secs)].pos <= newLen
    <3>1. /\ Rank(fs, i) \in Nat /\ Rank(fs, i) <= Rank(fs, n - 1)
      <4>1. i \in 0 .. Len(fs) /\ n - 1 \in i .. Len(fs)
        BY <1>1 DEF n
      <4> QED
        BY <1>1, <4>1, RankGrows
    <3>2. Len(secs) \in 1 .. Len(secs) /\ ~(Len(secs) <= Rank(fs, i))
      BY <1>1, <1>6, <2>2, <3>1
    <3>3. fs[i].tagPos + 2 <= secs[Len(secs)].pos
      BY <1>1, <1>3, <3>2 DEF Beside, n
    <3>4. secs[Len(secs)].pos \in Nat /\ fs[i].tagPos \in Nat
      BY <1>1, <1>3, <1>4, <3>2, SectionShape DEF IsOpen
    <3> QED
      BY <2>2, <3>3, <3>4
  <2> QED
    BY <2>1, <2>2 DEF n
<1>8. Beside(gs, news)
  <2>1. /\ Len(news) <= Len(secs) /\ Len(news) \in Nat
        /\ \A k \in 1 .. Len(news) : news[k] = secs[k]
    <3>1. CASE fs[n].lfs = None
      BY <1>1, <3>1 DEF n
    <3>2. CASE fs[n].lfs # None
      <4>1. secs # <<>> /\ news = Front(secs)
        BY <1>1, <1>6, <3>2 DEF n
      <4>2. Len(Front(secs)) = Len(secs) - 1 /\ \A k \in 1 .. Len(secs) - 1 : Front(secs)[k] = secs[k]
        BY <1>1, <4>1, FrontIsSeq
      <4> QED
        BY <1>1, <4>1, <4>2
    <3> QED
      BY <3>1, <3>2
  <2> SUFFICES ASSUME NEW i \in 1 .. n - 1, NEW k \in 1 .. Len(news), IsOpen(fs, i)
               PROVE  IF k <= Rank(gs, i) THEN EndOf(secs[k]) <= fs[i].tagPos
                      ELSE fs[i].tagPos + 2 <= secs[k].pos
    BY <1>2, <1>3, <2>1 DEF Beside
  <2>2. Rank(gs, i) = Rank(fs, i)
    <3>1. i \in Nat /\ \A j \in 1 .. i : gs[j].lfs = fs[j].lfs
      BY <1>1, <1>2
    <3> QED
      BY <3>1, RankOfSame
  <2>3. k \in 1 .. Len(secs) /\ i \in 1 .. Len(fs)
    BY <1>1, <1>3, <2>1 DEF n
  <2> QED
    BY <2>2, <2>3 DEF Beside
<1> QED
  BY <1>5, <1>7, <1>8 DEF gs, n

(* The innermost serializer moves on: its tag is new, behind everything,   *)
(* or gone, or stays.                                                      *)
LEMMA LayoutTop ==
    ASSUME NEW fs, NEW secs, NEW len, FrameSeq(fs, secs, len), fs # <<>>,
           Ordered(fs), Beside(fs, secs), Complete(fs, Len(fs) - 1, len),
           \A k \in 1 .. Len(secs) : EndOf(secs[k]) <= len,
           NEW f \in Frame, f.lfs = fs[Len(fs)].lfs,
           f.tagPos \in {NoTag, len}, NEW newLen \in Nat, len <= newLen
    PROVE  /\ Ordered(WithTop(fs, f))
           /\ Beside(WithTop(fs, f), secs)
           /\ Complete(WithTop(fs, f), Len(fs) - 1, newLen)
<1> DEFINE gs == WithTop(fs, f)
           n == Len(fs)
<1>1. /\ fs \in Seq(Frame) /\ secs \in Seq(Section) /\ len \in Nat /\ n \in Nat \ {0}
      /\ Len(secs) = Rank(fs, n)
  BY RankOfAll DEF FrameSeq
<1>2. /\ Len(gs) = n /\ gs[n] = f
      /\ \A i \in 1 .. n - 1 : gs[i] = fs[i]
      /\ \A i \in 1 .. n : gs[i].lfs = fs[i].lfs
  <2>1. /\ Len(gs) = n
        /\ \A i \in 1 .. n : gs[i] = IF i = n THEN f ELSE fs[i]
    BY <1>1, TopExcept DEF n
  <2> HIDE DEF gs
  <2>2. \A i \in 1 .. n - 1 : i \in 1 .. n /\ i # n
    BY <1>1
  <2>3. n \in 1 .. n
    BY <1>1
  <2> QED
    BY <2>1, <2>2, <2>3 DEF n
<1>3. \A i \in 1 .. n : fs[i].tagPos \in Nat \cup {NoTag}
  BY <1>1, TagPosition DEF n
<1>4. \A i \in 1 .. n : i \in 1 .. n - 1 \/ i = n
  BY <1>1
<1> HIDE DEF gs, n
<1>5. Ordered(gs)
  <2> SUFFICES ASSUME NEW i \in 1 .. n, NEW j \in 1 .. n, i < j, IsOpen(gs, i), IsOpen(gs, j)
               PROVE  gs[i].tagPos + 2 <= gs[j].tagPos
    BY <1>2 DEF Ordered
  <2>1. i \in 1 .. n - 1 /\ gs[i] = fs[i] /\ IsOpen(fs, i)
    BY <1>1, <1>2 DEF IsOpen
  <2>2. CASE j = n
    <3>1. gs[j].tagPos = len
      BY <1>2, <2>2 DEF IsOpen
    <3>2. fs[i].tagPos + 2 <= len
      BY <2>1 DEF Complete, n
    <3> QED
      BY <2>1, <3>1, <3>2
  <2>3. CASE j \in 1 .. n - 1
    <3>1. gs[j] = fs[j] /\ IsOpen(fs, j)
      BY <1>2, <2>3 DEF IsOpen
    <3> QED
      BY <2>1, <3>1 DEF Ordered, n
  <2> QED
    BY <1>4, <2>2, <2>3
<1>6. Complete(gs, n - 1, newLen)
  <2>1. \A i \in 1 .. n - 1 : IsOpen(gs, i) => gs[i].tagPos + 2 <= newLen
    <3> SUFFICES ASSUME NEW i \in 1 .. n - 1, IsOpen(gs, i)
                 PROVE  gs[i].tagPos + 2 <= newLen
      OBVIOUS
    <3>1. gs[i] = fs[i] /\ IsOpen(fs, i) /\ i \in 1 .. n
      BY <1>1, <1>2 DEF IsOpen
    <3>2. fs[i].tagPos + 2 <= len /\ fs[i].tagPos \in Nat
      BY <1>3, <3>1 DEF Complete, n, IsOpen
    <3> QED
      BY <1>1, <3>1, <3>2
  <2> QED
    BY <2>1 DEF Complete
<1>7. Beside(gs, secs)
  <2> SUFFICES ASSUME NEW i \in 1 .. n, NEW k \in 1 .. Len(secs), IsOpen(gs, i)
               PROVE  IF k <= Rank(gs, i) THEN EndOf(secs[k]) <= gs[i].tagPos
                      ELSE gs[i].tagPos + 2 <= secs[k].pos
    BY <1>2 DEF Beside
  <2>1. Rank(gs, i) = Rank(fs, i)
    <3>1. i \in Nat /\ \A j \in 1 .. i : gs[j].lfs = fs[j].lfs
      BY <1>1, <1>2
    <3> QED
      BY <3>1, RankOfSame
  <2>2. CASE i = n
    <3>1. gs[i].tagPos = len /\ k <= Rank(gs, i)
      BY <1>1, <1>2, <2>1, <2>2 DEF IsOpen
    <3> QED
      BY <3>1
  <2>3. CASE i \in 1 .. n - 1
    <3>1. gs[i] = fs[i] /\ IsOpen(fs, i)
      BY <1>2, <2>3 DEF IsOpen
    <3> QED
      BY <2>1, <3>1 DEF Beside, n
  <2> QED
    BY <1>4, <2>2, <2>3
<1> QED
  BY <1>5, <1>6, <1>7 DEF gs, n
----------------------------------------------------------------------------
(***************************************************************************)
(* The end of a section, byte by byte.                                     *)
(***************************************************************************)

(* The length takes the place of the reserved bytes, of which d are in     *)
(* excess, and what is behind them moves down.                             *)
Patched(b, c, pos, actual, d, len) ==
    /\ pos + actual + d <= Len(b)
    /\ Len(c) = Len(b) - d
    /\ \A i \in 1 .. pos : c[i] = b[i]
    /\ \A i \in pos + 1 .. pos + actual :
         c[i] = [kind |-> "len", val |-> len, part |-> i - pos, of |-> actual]
    /\ \A i \in pos + actual + 1 .. Len(c) : c[i] = b[i + d]

(* Shrinking a length field and writing it is what Patched says of the     *)
(* buffer.                                                                 *)
LEMMA CellsMoved ==
    ASSUME NEW b \in Seq(FitCell), NEW pos \in Nat, NEW actual \in Nat, NEW d \in Nat,
           pos + actual + d <= Len(b), NEW len \in Nat
    PROVE  Patched(b, WriteAt(SetLen(CopyWithin(b, pos + actual + d, pos + actual), Len(b) - d),
                              pos, LengthBytes(actual, len)),
                   pos, actual, d, len)
<1> DEFINE moved == CopyWithin(b, pos + actual + d, pos + actual)
           n == Len(b) - d
           kept == SetLen(moved, n)
           cells == LengthBytes(actual, len)
           c == WriteAt(kept, pos, cells)
<1>1. n \in Nat /\ n <= Len(b) /\ pos + actual <= n /\ Len(b) = n + d
  OBVIOUS
<1>2. moved \in Seq(FitCell) /\ Len(moved) = Len(b)
  BY <1>1, CopyWithinKeeps
<1>3. \A i \in 1 .. Len(b) :
        moved[i] = IF i \in pos + actual + 1 .. pos + actual + Len(b) - (pos + actual + d)
                   THEN b[i - (pos + actual) + (pos + actual + d)] ELSE b[i]
  BY DEF CopyWithin
<1> HIDE DEF moved, n
<1>4. kept \in Seq(FitCell) /\ Len(kept) = n /\ \A i \in 1 .. n : kept[i] = moved[i]
  BY <1>1, <1>2, SetLenKeeps
<1>5. Len(cells) = actual /\ \A i \in 1 .. actual :
        cells[i] = [kind |-> "len", val |-> len, part |-> i, of |-> actual]
  BY DEF LengthBytes, Bytes
<1> HIDE DEF cells, kept
<1>6. /\ Len(c) = n
      /\ \A i \in 1 .. n :
           c[i] = IF i \in pos + 1 .. pos + actual THEN cells[i - pos] ELSE kept[i]
  BY <1>1, <1>4, <1>5 DEF WriteAt
<1> HIDE DEF c
<1>7. ASSUME NEW i \in 1 .. pos
      PROVE  c[i] = b[i]
  <2>1. i \in 1 .. n /\ i \in 1 .. Len(b) /\ ~(i \in pos + 1 .. pos + actual)
    BY <1>1
  <2>2. ~(i \in pos + actual + 1 .. pos + actual + Len(b) - (pos + actual + d))
    BY <1>1
  <2> QED
    BY <1>3, <1>4, <1>6, <2>1, <2>2
<1>8. ASSUME NEW i \in pos + 1 .. pos + actual
      PROVE  c[i] = [kind |-> "len", val |-> len, part |-> i - pos, of |-> actual]
  <2>1. i \in 1 .. n /\ i - pos \in 1 .. actual
    BY <1>1
  <2> QED
    BY <1>5, <1>6, <2>1
<1>9. ASSUME NEW i \in pos + actual + 1 .. n
      PROVE  c[i] = b[i + d]
  <2>1. i \in 1 .. n /\ i \in 1 .. Len(b) /\ ~(i \in pos + 1 .. pos + actual)
    BY <1>1
  <2>2. i \in pos + actual + 1 .. pos + actual + Len(b) - (pos + actual + d)
    BY <1>1
  <2>3. i - (pos + actual) + (pos + actual + d) = i + d
    OBVIOUS
  <2> QED
    BY <1>3, <1>4, <1>6, <2>1, <2>2, <2>3
<1> QED
  BY <1>6, <1>7, <1>8, <1>9 DEF Patched, c, cells, kept, moved, n

(* end_length_delimited_section does so, or ends the call.                 *)
LEMMA SectionPatched ==
    ASSUME TypeOK, NEW b \in Seq(FitCell), NEW secs \in Seq(Section), secs # <<>>,
           NEW configured \in LengthFieldSize, base <= Len(b), Nested(base, secs, b),
           EndSection(b, Last(secs), configured, Len(b) - EndOf(Last(secs))), pc' = "return"
    PROVE  \E actual \in LengthFieldSize, d \in Nat, pos \in Nat :
              /\ Patched(b, buf', pos, actual, d, Len(b) - EndOf(Last(secs)))
              /\ lastField' = [size |-> actual, asConfigured |-> actual = configured]
              /\ pos = secs[Len(secs)].pos
              /\ EndOf(secs[Len(secs)]) = pos + actual + d
<1> DEFINE sec == Last(secs)
           len == Len(b) - EndOf(sec)
           actual == ActualSize(sec, configured, len)
<1>1. /\ sec = secs[Len(secs)] /\ Len(secs) \in 1 .. Len(secs)
      /\ sec.pos \in Nat
      /\ sec.reserved \in Nat
      /\ sec.tlv \in BOOLEAN
      /\ EndOf(sec) = sec.pos + sec.reserved
  <2>1. Len(secs) \in 1 .. Len(secs)
    OBVIOUS
  <2> QED
    BY <2>1, SectionShape DEF Last
<1>2. EndOf(sec) <= Len(b)
  BY <1>1 DEF Nested
<1>3. len \in Nat /\ opts \in Options
  BY <1>1, <1>2 DEF TypeOK
<1>4. \/ actual \in {TooLong, LengthPanic}
      \/ actual \in LengthFieldSize /\ len <= Capacity(actual)
  BY <1>1, <1>3, SelectedSizeFits DEF ActualSize
<1>5. EndSection(b, sec, configured, len)
  OBVIOUS
<1> HIDE DEF sec, len, actual
<1>6. CASE actual \in {TooLong, LengthPanic}
  <2>1. Failed(actual)
    BY <1>6, SizesDoNotFail
  <2>2. ~(actual > sec.reserved)
    BY <1>1, <1>6 DEF TooLong, LengthPanic
  <2>3. pc' = Outcome(actual)
    BY <1>5, <2>1, <2>2 DEF EndSection, actual
  <2> QED
    BY <2>3 DEF Outcome
<1>7. CASE actual \in LengthFieldSize /\ len <= Capacity(actual)
  <2>1. ~Failed(actual) /\ actual \in Nat
    BY <1>7, SizesDoNotFail DEF LengthFieldSize, OptSize
  <2>2. /\ actual <= sec.reserved
        /\ buf' = WriteAt(Shifted(b, sec, actual), sec.pos, LengthBytes(actual, len))
        /\ lastField' = [size |-> actual, asConfigured |-> actual = configured]
    BY <1>5, <1>7, <2>1 DEF EndSection, actual
  <2> DEFINE d == sec.reserved - actual
  <2>3. d \in Nat /\ EndOf(sec) = sec.pos + actual + d
    BY <1>1, <2>1, <2>2
  <2>4. Shifted(b, sec, actual)
          = SetLen(CopyWithin(b, sec.pos + actual + d, sec.pos + actual), Len(b) - d)
    BY <2>3 DEF Shifted
  <2> HIDE DEF d
  <2>5. Patched(b, buf', sec.pos, actual, d, len)
    BY <1>1, <1>2, <1>3, <2>1, <2>2, <2>3, <2>4, CellsMoved
  <2> QED
    BY <1>1, <1>7, <2>2, <2>3, <2>5 DEF sec, len
<1> QED
  BY <1>4, <1>6, <1>7

----------------------------------------------------------------------------
(***************************************************************************)
(* Reserved bytes.                                                         *)
(***************************************************************************)
Inside(i, sec) == i \in sec.pos + 1 .. EndOf(sec)

(* Zeros stand in sections, and sections hold nothing else.                *)
ZerosInSections(b, secs, from) ==
    \A i \in from + 1 .. Len(b) :
        b[i].kind = "zero" <=> \E k \in 1 .. Len(secs) : Inside(i, secs[k])

(* PlaceholdersAreOpen is that all zeros are within the open sections.     *)
LEMMA PlaceholdersMeaning ==
    ASSUME sections \in Seq(Section)
    PROVE  PlaceholdersAreOpen <=> (Current => ZerosInSections(buf, sections, base))
<1>1. DOMAIN sections = 1 .. Len(sections)
  OBVIOUS
<1> QED
  BY <1>1 DEF PlaceholdersAreOpen, ZerosInSections, Inside, SectionEnd

(* Bytes that are not zeros are added behind the sections.                 *)
LEMMA ZerosWhenLonger ==
    ASSUME NEW from \in Nat, NEW secs \in Seq(Section),
           NEW b \in Seq(FitCell), NEW c \in Seq(FitCell),
           Nested(from, secs, b), ZerosInSections(b, secs, from),
           Len(b) <= Len(c), \A i \in 1 .. Len(b) : c[i] = b[i],
           \A i \in Len(b) + 1 .. Len(c) : c[i].kind # "zero"
    PROVE  ZerosInSections(c, secs, from)
<1> SUFFICES ASSUME NEW i \in from + 1 .. Len(c)
             PROVE  c[i].kind = "zero" <=> \E k \in 1 .. Len(secs) : Inside(i, secs[k])
  BY DEF ZerosInSections
<1>1. Len(b) \in Nat /\ Len(c) \in Nat
  OBVIOUS
<1>2. CASE i <= Len(b)
  BY <1>1, <1>2 DEF ZerosInSections
<1>3. CASE i > Len(b)
  <2>1. \A k \in 1 .. Len(secs) : EndOf(secs[k]) \in Nat /\ secs[k].pos \in Nat
                                  /\ EndOf(secs[k]) <= Len(b)
    BY SectionShape DEF Nested
  <2>2. \A k \in 1 .. Len(secs) : ~Inside(i, secs[k])
    BY <1>1, <1>3, <2>1 DEF Inside
  <2>3. i \in Len(b) + 1 .. Len(c)
    BY <1>1, <1>3
  <2> QED
    BY <2>2, <2>3
<1> QED
  BY <1>1, <1>2, <1>3

(* A section begins with zeros.                                            *)
LEMMA ZerosWhenReserved ==
    ASSUME NEW from \in Nat, NEW secs \in Seq(Section),
           NEW b \in Seq(FitCell), NEW c \in Seq(FitCell),
           Nested(from, secs, b), ZerosInSections(b, secs, from),
           Len(b) <= Len(c), \A i \in 1 .. Len(b) : c[i] = b[i],
           \A i \in Len(b) + 1 .. Len(c) : c[i].kind = "zero",
           NEW sec \in Section, sec.pos = Len(b), EndOf(sec) = Len(c)
    PROVE  ZerosInSections(c, Append(secs, sec), from)
<1> DEFINE news == Append(secs, sec)
<1>1. /\ Len(b) \in Nat /\ Len(c) \in Nat /\ Len(secs) \in Nat
      /\ Len(news) = Len(secs) + 1 /\ news[Len(secs) + 1] = sec
      /\ \A k \in 1 .. Len(secs) : news[k] = secs[k]
  OBVIOUS
<1> HIDE DEF news
<1> SUFFICES ASSUME NEW i \in from + 1 .. Len(c)
             PROVE  c[i].kind = "zero" <=> \E k \in 1 .. Len(news) : Inside(i, news[k])
  BY DEF ZerosInSections, news
<1>2. Inside(i, sec) <=> i > Len(b)
  BY <1>1 DEF Inside
<1>3. \A k \in 1 .. Len(secs) : i > Len(b) => ~Inside(i, secs[k])
  <2>1. \A k \in 1 .. Len(secs) : EndOf(secs[k]) \in Nat /\ secs[k].pos \in Nat
                                  /\ EndOf(secs[k]) <= Len(b)
    BY SectionShape DEF Nested
  <2> QED
    BY <1>1, <2>1 DEF Inside
<1>4. CASE i <= Len(b)
  <2>1. (\E k \in 1 .. Len(news) : Inside(i, news[k]))
          <=> \E k \in 1 .. Len(secs) : Inside(i, secs[k])
    <3>1. \A k \in 1 .. Len(news) : k \in 1 .. Len(secs) \/ k = Len(secs) + 1
      BY <1>1
    <3>2. \A k \in 1 .. Len(secs) : k \in 1 .. Len(news)
      BY <1>1
    <3>3. ~Inside(i, sec)
      BY <1>1, <1>2, <1>4
    <3> QED
      BY <1>1, <3>1, <3>2, <3>3
  <2>2. i \in from + 1 .. Len(b) /\ c[i] = b[i]
    BY <1>1, <1>4
  <2> QED
    BY <2>1, <2>2 DEF ZerosInSections
<1>5. CASE i > Len(b)
  <2>1. Len(secs) + 1 \in 1 .. Len(news) /\ i \in Len(b) + 1 .. Len(c)
    BY <1>1, <1>5
  <2> QED
    BY <1>1, <1>2, <1>5, <2>1
<1> QED
  BY <1>1, <1>4, <1>5

(* The length replaces the zeros of the section that ends.                 *)
LEMMA ZerosWhenPatched ==
    ASSUME NEW from \in Nat, NEW secs \in Seq(Section), secs # <<>>,
           NEW b \in Seq(FitCell), NEW c \in Seq(FitCell), NEW len,
           NEW pos \in Nat, NEW actual \in Nat, NEW d \in Nat,
           pos = secs[Len(secs)].pos, EndOf(secs[Len(secs)]) = pos + actual + d,
           Nested(from, secs, b), ZerosInSections(b, secs, from),
           Patched(b, c, pos, actual, d, len)
    PROVE  ZerosInSections(c, Front(secs), from)
<1> DEFINE m == Len(secs) - 1
           front == Front(secs)
<1>1. /\ m \in Nat /\ Len(front) = m /\ \A k \in 1 .. m : front[k] = secs[k]
      /\ Len(secs) \in 1 .. Len(secs)
      /\ \A k \in 1 .. Len(secs) : k \in 1 .. m \/ k = Len(secs)
      /\ \A k \in 1 .. m : k \in 1 .. Len(secs)
  <2>1. Len(secs) \in Nat \ {0}
    OBVIOUS
  <2>2. Len(front) = m /\ \A k \in 1 .. m : front[k] = secs[k]
    BY FrontIsSeq
  <2> HIDE DEF front
  <2> QED
    BY <2>1, <2>2
<1>2. ASSUME NEW k \in 1 .. m
      PROVE  /\ EndOf(secs[k]) \in Nat
             /\ EndOf(secs[k]) <= pos
  <2>1. EndOf(secs[k]) \in Nat
    BY <1>1, SectionShape
  <2>2. Len(secs) \in DOMAIN secs /\ k \in 1 .. Len(secs) - 1
    OBVIOUS
  <2>3. EndOf(secs[k]) <= secs[Len(secs)].pos
    BY <2>2 DEF Nested
  <2> QED
    BY <2>1, <2>3
<1>3. from <= pos
  BY <1>1 DEF Nested
<1>4. /\ pos + actual + d <= Len(b)
      /\ Len(c) = Len(b) - d
      /\ \A i \in 1 .. pos : c[i] = b[i]
      /\ \A i \in pos + 1 .. pos + actual : c[i].kind = "len"
      /\ \A i \in pos + actual + 1 .. Len(c) : c[i] = b[i + d]
  <2>1. \A i \in pos + 1 .. pos + actual :
          c[i] = [kind |-> "len", val |-> len, part |-> i - pos, of |-> actual]
    BY DEF Patched
  <2>2. ASSUME NEW i \in pos + 1 .. pos + actual
        PROVE  c[i].kind = "len"
    <3>1. c[i] = [kind |-> "len", val |-> len, part |-> i - pos, of |-> actual]
      BY <2>1
    <3> QED
      BY <3>1
  <2>3. /\ pos + actual + d <= Len(b) /\ Len(c) = Len(b) - d
        /\ \A i \in 1 .. pos : c[i] = b[i]
    BY DEF Patched
  <2>4. \A i \in pos + actual + 1 .. Len(c) : c[i] = b[i + d]
    BY DEF Patched
  <2> QED
    BY <2>2, <2>3, <2>4
<1>5. Len(b) \in Nat /\ Len(c) \in Nat
  OBVIOUS
<1> HIDE DEF front, m
<1>6. \A i \in Int : Inside(i, secs[Len(secs)]) <=> i > pos /\ i <= pos + actual + d
  <2>1. \A i \in Int : Inside(i, secs[Len(secs)]) <=> i \in pos + 1 .. pos + actual + d
    BY DEF Inside
  <2>2. \A i \in Int : i \in pos + 1 .. pos + actual + d <=> i > pos /\ i <= pos + actual + d
    OBVIOUS
  <2> QED
    BY <2>1, <2>2
<1>7. \A i \in Int, k \in 1 .. m : Inside(i, secs[k]) => i <= pos
  <2> SUFFICES ASSUME NEW i \in Int, NEW k \in 1 .. m, i > pos
               PROVE  ~Inside(i, secs[k])
    OBVIOUS
  <2> QED
    BY <1>2 DEF Inside
<1> SUFFICES ASSUME NEW i \in from + 1 .. Len(c)
             PROVE  c[i].kind = "zero" <=> \E k \in 1 .. m : Inside(i, secs[k])
  BY <1>1 DEF ZerosInSections, front
<1>8. CASE i <= pos
  <2>1. i \in 1 .. pos /\ i \in from + 1 .. Len(b)
    BY <1>3, <1>4, <1>5, <1>8
  <2>2. c[i] = b[i] /\ ~Inside(i, secs[Len(secs)])
    BY <1>4, <1>6, <1>8, <2>1
  <2>3. b[i].kind = "zero" <=> \E k \in 1 .. Len(secs) : Inside(i, secs[k])
    BY <2>1 DEF ZerosInSections
  <2> QED
    BY ONLY <1>1, <2>2, <2>3
<1>9. CASE i > pos /\ i <= pos + actual
  <2>1. i \in Int /\ i \in pos + 1 .. pos + actual /\ ~(i <= pos)
    BY <1>9
  <2>2. c[i].kind = "len"
    BY ONLY <1>4, <2>1
  <2>3. \A k \in 1 .. m : ~Inside(i, secs[k])
    BY ONLY <1>7, <2>1
  <2> QED
    BY ONLY <2>2, <2>3
<1>10. CASE i > pos + actual
  <2>1. /\ i \in pos + actual + 1 .. Len(c) /\ i + d \in from + 1 .. Len(b)
        /\ i + d > pos + actual + d /\ i + d > pos /\ i > pos /\ i + d \in Int
    <3>1. i \in Int /\ from + 1 <= i /\ i <= Len(c) /\ Len(b) = Len(c) + d
      BY <1>4, <1>5
    <3>2. i + d \in from + 1 .. Len(b)
      BY <1>5, <3>1
    <3>3. i \in pos + actual + 1 .. Len(c) /\ i + d > pos /\ i > pos
      BY <1>5, <1>10, <3>1
    <3> QED
      BY <1>10, <3>1, <3>2, <3>3
  <2>2. c[i] = b[i + d]
    BY <1>4, <2>1
  <2>3. \A k \in 1 .. Len(secs) : ~Inside(i + d, secs[k])
    <3>1. ~Inside(i + d, secs[Len(secs)])
      BY <1>6, <2>1
    <3>2. \A k \in 1 .. m : ~Inside(i + d, secs[k])
      BY <1>7, <2>1
    <3> QED
      BY <1>1, <3>1, <3>2
  <2>4. b[i + d].kind # "zero"
    BY <2>1, <2>3 DEF ZerosInSections
  <2>5. \A k \in 1 .. m : ~Inside(i, secs[k])
    <3>1. i \in Int /\ ~(i <= pos)
      BY <2>1
    <3> QED
      BY ONLY <1>7, <3>1
  <2> QED
    BY ONLY <2>2, <2>4, <2>5
<1> QED
  BY <1>8, <1>9, <1>10
----------------------------------------------------------------------------
(***************************************************************************)
(* The steps keep the layout, and zeros in open sections.                  *)
(***************************************************************************)

(* What the invariants say of a call that is under way.                    *)
LEMMA UnderWay ==
    ASSUME IInv, Placed, Running
    PROVE  /\ TypeOK /\ FrameSeq(frames, sections, Len(buf))
           /\ buf \in Seq(FitCell) /\ base \in Nat /\ base <= Len(buf) /\ Len(buf) \in Nat
           /\ Nested(base, sections, buf) /\ ZerosInSections(buf, sections, base)
           /\ Ordered(frames) /\ Beside(frames, sections)
           /\ Complete(frames, Len(frames) - 1, Len(buf))
           /\ pc = "value" => Complete(frames, Len(frames), Len(buf))
<1>1. /\ TypeOK /\ FrameSeq(frames, sections, Len(buf))
      /\ buf \in Seq(FitCell) /\ base \in Nat /\ base <= Len(buf) /\ Len(buf) \in Nat
      /\ Nested(base, sections, buf)
  BY DEF IInv, TypeOK, FrameSeq, SectionsMatchFrames, SectionsNested, Current
<1>2. ZerosInSections(buf, sections, base)
  BY <1>1, PlaceholdersMeaning DEF FrameSeq, Placed, Current
<1>3. /\ Ordered(frames) /\ Beside(frames, sections)
      /\ Complete(frames, Len(frames) - 1, Len(buf))
  BY DEF Placed, Layout, TagsLaidOut
<1>4. ASSUME pc = "value"
      PROVE  Complete(frames, Len(frames), Len(buf))
  <2> SUFFICES ASSUME NEW i \in 1 .. Len(frames), IsOpen(frames, i)
               PROVE  frames[i].tagPos + 2 <= Len(buf)
    BY DEF Complete
  <2>1. frames \in Seq(Frame) /\ Len(frames) \in Nat
    BY <1>1 DEF FrameSeq
  <2>2. CASE i = Len(frames)
    <3>1. frames # <<>> /\ Top = frames[i]
      BY <2>1, <2>2 DEF Top
    <3>2. Top.tagPos = Len(buf) - 2
      BY <1>4, <3>1 DEF Placed, Layout, ValueFollowsTag, IsOpen
    <3> QED
      BY <1>1, <3>1, <3>2
  <2>3. CASE i # Len(frames)
    <3>1. i \in 1 .. Len(frames) - 1
      BY <2>1, <2>3
    <3> QED
      BY <1>3, <3>1 DEF Complete
  <2> QED
    BY <2>2, <2>3
<1> QED
  BY <1>1, <1>2, <1>3, <1>4

(* A call that has ended has no layout; only a finished message counts.    *)
LEMMA PlacedWhenEnded ==
    ASSUME pc' \in Errors \cup Panics
    PROVE  Placed'
BY DEF Placed, Layout, TagsLaidOut, ValueFollowsTag, PlaceholdersAreOpen, Current, Running,
       Errors, Panics

(* A value has returned: the same serializers are open as before.          *)
LEMMA PlacedOnReturn ==
    ASSUME IInv, IInv', Placed, Running, pc' = "return",
           UNCHANGED <<sections, frames, base>>,
           ZerosInSections(buf', sections, base),
           Complete(frames, Len(frames) - 1, Len(buf'))
    PROVE  Placed'
<1>1. TagsLaidOut'
  BY UnderWay DEF TagsLaidOut
<1>2. ValueFollowsTag'
  BY DEF ValueFollowsTag
<1>3. PlaceholdersAreOpen'
  <2>1. sections' \in Seq(Section)
    BY DEF IInv, TypeOK
  <2>2. DOMAIN sections' = 1 .. Len(sections')
    BY <2>1
  <2> QED
    BY <2>2 DEF PlaceholdersAreOpen, ZerosInSections, Inside, SectionEnd
<1> QED
  BY <1>1, <1>2, <1>3 DEF Placed, Layout

(* Content is longer than nothing.                                         *)
LEMMA CompleteWhenLonger ==
    ASSUME NEW fs \in Seq(Frame), NEW n \in Int, n <= Len(fs), NEW len \in Nat,
           NEW newLen \in Nat, len <= newLen, Complete(fs, n, len)
    PROVE  Complete(fs, n, newLen)
<1> SUFFICES ASSUME NEW i \in 1 .. n, IsOpen(fs, i)
             PROVE  fs[i].tagPos + 2 <= newLen
  BY DEF Complete
<1>1. fs[i].tagPos + 2 <= len
  BY DEF Complete
<1>2. i \in 1 .. Len(fs)
  OBVIOUS
<1>3. fs[i].tagPos \in Nat
  BY <1>2, TagPosition DEF IsOpen
<1> QED
  BY <1>1, <1>3

(* Content behind the bytes that are there.                                *)
LEMMA Concatenated ==
    ASSUME NEW b \in Seq(FitCell), NEW cells \in Seq(FitCell)
    PROVE  /\ b \o cells \in Seq(FitCell)
           /\ Len(b \o cells) = Len(b) + Len(cells)
           /\ Len(b \o cells) \in Nat /\ Len(b) \in Nat
           /\ \A i \in 1 .. Len(b) : (b \o cells)[i] = b[i]
           /\ \A i \in Len(b) + 1 .. Len(b \o cells) : (b \o cells)[i] = cells[i - Len(b)]
OBVIOUS

(* A primitive or enum.                                                    *)
LEMMA FixedPlaced ==
    ASSUME IInv, Placed, SerializeFixed
    PROVE  Placed'
<1> DEFINE cells == Data(Types[nextType].size)
<1>1. Types[nextType].size \in Nat
  <2>1. nextType \in TypeId /\ IsFixed(Types[nextType])
    BY DEF IInv, TypeOK, SerializeFixed
  <2>2. Types[nextType] \in SomeIpFixed
    BY <2>1, TypeShapes
  <2> QED
    BY <2>2 DEF SomeIpFixed
<1>2. cells \in Seq(FitCell) /\ \A i \in 1 .. Len(cells) : cells[i].kind # "zero"
  <2>1. cells \in Seq(FitCell) /\ Len(cells) = Types[nextType].size
    BY <1>1, BytesAreCells DEF Data
  <2>2. \A i \in 1 .. Types[nextType].size : cells[i].kind = "data"
    BY DEF Data, Bytes
  <2> HIDE DEF cells
  <2> QED
    BY <2>1, <2>2
<1>3. /\ buf' = buf \o cells /\ Running /\ pc' = "return"
      /\ UNCHANGED <<sections, frames, base>>
  BY DEF SerializeFixed, Running
<1> HIDE DEF cells
<1>4. /\ buf \in Seq(FitCell) /\ sections \in Seq(Section) /\ frames \in Seq(Frame)
      /\ base \in Nat /\ Nested(base, sections, buf) /\ ZerosInSections(buf, sections, base)
      /\ Complete(frames, Len(frames) - 1, Len(buf))
  BY <1>3, UnderWay DEF FrameSeq
<1>5. /\ buf' \in Seq(FitCell) /\ Len(buf') = Len(buf) + Len(cells)
      /\ Len(buf) \in Nat /\ Len(cells) \in Nat
      /\ \A i \in 1 .. Len(buf) : buf'[i] = buf[i]
      /\ \A i \in Len(buf) + 1 .. Len(buf') : buf'[i] = cells[i - Len(buf)]
  BY <1>2, <1>3, <1>4
<1>6. \A i \in Len(buf) + 1 .. Len(buf') : buf'[i].kind # "zero"
  <2> SUFFICES ASSUME NEW i \in Len(buf) + 1 .. Len(buf')
               PROVE  buf'[i].kind # "zero"
    OBVIOUS
  <2>1. i - Len(buf) \in 1 .. Len(cells)
    BY <1>5
  <2> QED
    BY <1>2, <1>5, <2>1
<1>7. Len(buf) <= Len(buf') /\ Len(buf') \in Nat
  BY <1>5
<1>8. ZerosInSections(buf', sections, base)
  BY <1>4, <1>5, <1>6, <1>7, ZerosWhenLonger
<1>9. Complete(frames, Len(frames) - 1, Len(buf'))
  <2>1. Len(frames) - 1 \in Int /\ Len(frames) - 1 <= Len(frames)
    BY <1>4
  <2> QED
    BY <1>4, <1>5, <1>7, <2>1, CompleteWhenLonger
<1> QED
  BY <1>3, <1>8, <1>9, FixedStep, PlacedOnReturn

(* A None takes back its tag, which is in no section and behind all other  *)
(* tags.                                                                   *)
LEMMA NonePlaced ==
    ASSUME IInv, Placed, SerializeNone
    PROVE  Placed'
<1>1. CASE ~inTlv
  BY <1>1, PlacedWhenEnded DEF SerializeNone, Fail, Panics
<1>2. CASE inTlv
  <2>1. /\ pc = "value" /\ Running /\ pc' = "return"
        /\ buf' = SetLen(buf, Len(buf) - 2)
        /\ UNCHANGED <<sections, frames, base>>
    BY <1>2 DEF SerializeNone, Running
  <2>2. /\ buf \in Seq(FitCell) /\ frames \in Seq(Frame) /\ Len(buf) \in Nat
        /\ base \in Nat /\ ZerosInSections(buf, sections, base)
        /\ Ordered(frames)
    BY <2>1, UnderWay DEF FrameSeq
  <2>3. frames # <<>> /\ Top.tagPos = Len(buf) - 2 /\ Top = frames[Len(frames)]
        /\ base + 2 <= Len(buf)
    BY <1>2, <2>1 DEF Placed, Layout, ValueFollowsTag, Top, IInv, TagJustWritten
  <2>4. /\ Len(buf') = Len(buf) - 2
        /\ \A i \in 1 .. Len(buf) - 2 : buf'[i] = buf[i]
    <3>1. Len(buf) - 2 \in Nat /\ Len(buf) - 2 <= Len(buf)
      BY <2>2, <2>3
    <3> QED
      BY <2>1, <2>2, <3>1, SetLenKeeps
  <2>5. ZerosInSections(buf', sections, base)
    <3> SUFFICES ASSUME NEW i \in base + 1 .. Len(buf')
                 PROVE  buf'[i].kind = "zero" <=> \E k \in 1 .. Len(sections) : Inside(i, sections[k])
      BY DEF ZerosInSections
    <3>1. i \in 1 .. Len(buf) - 2 /\ i \in base + 1 .. Len(buf)
      BY <2>2, <2>4
    <3> QED
      BY <2>2, <2>4, <3>1 DEF ZerosInSections
  <2>6. Complete(frames, Len(frames) - 1, Len(buf'))
    <3> SUFFICES ASSUME NEW i \in 1 .. Len(frames) - 1, IsOpen(frames, i)
                 PROVE  frames[i].tagPos + 2 <= Len(buf')
      BY DEF Complete
    <3>1. /\ i \in 1 .. Len(frames) /\ Len(frames) \in 1 .. Len(frames) /\ i < Len(frames)
      BY <2>2, <2>3
    <3>2. IsOpen(frames, Len(frames))
      BY <2>2, <2>3 DEF IsOpen, NoTag
    <3> QED
      BY <2>3, <2>4, <2>2, <3>1, <3>2 DEF Ordered
  <2> QED
    BY <2>1, <2>5, <2>6, NoneStep, PlacedOnReturn
<1> QED
  BY <1>1, <1>2

(* The sections that are open once one has begun.                          *)
LEMMA ZerosWhenBegun ==
    ASSUME IInv, Placed, Running, NEW reserved \in OptSize
    PROVE  /\ BeginBuf(reserved) \in Seq(FitCell)
           /\ Len(BeginBuf(reserved)) = Len(buf) + reserved /\ reserved \in Nat
           /\ BeginSections(reserved) \in Seq(Section)
           /\ Nested(base, BeginSections(reserved), BeginBuf(reserved))
           /\ ZerosInSections(BeginBuf(reserved), BeginSections(reserved), base)
           /\ IF reserved = None THEN BeginSections(reserved) = sections
              ELSE /\ BeginSections(reserved) # <<>>
                   /\ Front(BeginSections(reserved)) = sections
                   /\ BeginSections(reserved)[Len(BeginSections(reserved))].pos = Len(buf)
           /\ \E sec \in Section :
                /\ sec.pos = Len(buf)
                /\ BeginSections(reserved)
                     = IF reserved = None THEN sections ELSE Append(sections, sec)
<1> DEFINE b == BeginBuf(reserved)
           sec == [pos |-> Len(buf), reserved |-> reserved, tlv |-> inTlv]
           some == [pos |-> Len(buf), reserved |-> 1, tlv |-> inTlv]
<1>1. /\ TypeOK /\ buf \in Seq(FitCell) /\ sections \in Seq(Section) /\ base \in Nat
      /\ base <= Len(buf) /\ Len(buf) \in Nat
      /\ Nested(base, sections, buf) /\ ZerosInSections(buf, sections, base)
  BY UnderWay DEF FrameSeq
<1>2. /\ b \in Seq(FitCell)
      /\ Len(b) = Len(buf) + reserved /\ reserved \in Nat
      /\ \A i \in 1 .. Len(buf) : b[i] = buf[i]
      /\ BeginSections(reserved) \in Seq(Section)
      /\ reserved = None => BeginSections(reserved) = sections
      /\ reserved # None => BeginSections(reserved) # <<>>
                            /\ Front(BeginSections(reserved)) = sections
      /\ Nested(base, BeginSections(reserved), b)
  BY <1>1, BeginKeepsNesting DEF OptSize, LengthFieldSize, None
<1>3. CASE reserved = None
  <2>1. Len(b) = Len(buf) /\ b = buf
    <3>1. Len(b) = Len(buf)
      BY <1>1, <1>2, <1>3 DEF None
    <3> HIDE DEF b
    <3> QED
      BY <1>1, <1>2, <3>1, SeqEqual
  <2>2. some \in Section /\ some.pos = Len(buf)
    BY <1>1 DEF Section, LengthFieldSize, TypeOK
  <2> HIDE DEF b, some
  <2> QED
    BY <1>1, <1>2, <1>3, <2>1, <2>2 DEF b
<1>4. CASE reserved # None
  <2>1. BeginSections(reserved) = Append(sections, sec) /\ reserved \in LengthFieldSize
    BY <1>4, SizesDoNotFail DEF BeginSections
  <2>2. sec \in Section /\ sec.pos = Len(buf)
    BY <1>1, <2>1 DEF Section, TypeOK
  <2>3. EndOf(sec) = Len(b)
    BY <1>2 DEF EndOf
  <2>4. \A i \in Len(buf) + 1 .. Len(b) : b[i].kind = "zero"
    <3> SUFFICES ASSUME NEW i \in Len(buf) + 1 .. Len(b)
                 PROVE  b[i].kind = "zero"
      OBVIOUS
    <3>1. Zeros(reserved) \in Seq(FitCell) /\ Len(Zeros(reserved)) = reserved
      BY <1>2, BytesAreCells DEF Zeros
    <3>2. i - Len(buf) \in 1 .. reserved /\ b[i] = Zeros(reserved)[i - Len(buf)]
      BY <1>1, <1>2, <3>1 DEF BeginBuf
    <3>3. Zeros(reserved)[i - Len(buf)].kind = "zero"
      BY <3>2 DEF Zeros, Bytes
    <3> QED
      BY <3>2, <3>3
  <2> HIDE DEF b, sec
  <2>5. ZerosInSections(b, Append(sections, sec), base)
    <3>1. Len(buf) <= Len(b)
      BY <1>1, <1>2
    <3> QED
      BY <1>1, <1>2, <2>2, <2>3, <2>4, <3>1, ZerosWhenReserved
  <2>6. Append(sections, sec)[Len(Append(sections, sec))] = sec
    BY <1>1, <2>2
  <2> QED
    BY <1>2, <1>4, <2>1, <2>2, <2>5, <2>6 DEF b
<1> QED
  BY <1>3, <1>4

(* The end of a value patches its own section and no other.                *)
LEMMA ZerosWhenValueEnds ==
    ASSUME TypeOK, NEW b \in Seq(FitCell), NEW secs \in Seq(Section),
           NEW configured \in OptSize, configured # None => secs # <<>>,
           base <= Len(b), Nested(base, secs, b), buf' \in Seq(FitCell),
           EndValue(b, secs, configured), pc' = "return", ZerosInSections(b, secs, base)
    PROVE  /\ ZerosInSections(buf', sections', base)
           /\ IF configured = None THEN buf' = b /\ sections' = secs
              ELSE sections' = Front(secs) /\ secs[Len(secs)].pos <= Len(buf')
<1>1. CASE configured = None
  BY <1>1 DEF EndValue
<1>2. CASE configured # None
  <2>1. configured \in LengthFieldSize /\ base \in Nat
    BY <1>2, SizesDoNotFail DEF TypeOK
  <2>2. /\ sections' = Front(secs)
        /\ EndSection(b, Last(secs), configured, Len(b) - EndOf(Last(secs)))
    BY <1>2 DEF EndValue
  <2>3. PICK actual \in LengthFieldSize, d \in Nat, pos \in Nat :
          /\ Patched(b, buf', pos, actual, d, Len(b) - EndOf(Last(secs)))
          /\ pos = secs[Len(secs)].pos
          /\ EndOf(secs[Len(secs)]) = pos + actual + d
    BY <1>2, <2>1, <2>2, SectionPatched
  <2>4. actual \in Nat
    BY DEF LengthFieldSize
  <2>5. ZerosInSections(buf', Front(secs), base)
    BY <1>2, <2>1, <2>3, <2>4, ZerosWhenPatched
  <2>6. pos + actual + d <= Len(b) /\ Len(buf') = Len(b) - d
    BY <2>3 DEF Patched
  <2>7. pos <= Len(buf')
    BY <2>4, <2>6
  <2> QED
    BY <1>2, <2>2, <2>3, <2>5, <2>7
<1> QED
  BY <1>1, <1>2

(* A value that begins and ends its section in one step.                   *)
LEMMA WholeValuePlaced ==
    ASSUME IInv, Placed, IInv', pc = "value", NEW reserved \in OptSize,
           NEW configured \in OptSize, reserved = None <=> configured = None,
           NEW n \in Nat, EndValue(BeginBuf(reserved) \o Data(n), BeginSections(reserved), configured),
           UNCHANGED <<frames, base>>
    PROVE  Placed'
<1> DEFINE b0 == BeginBuf(reserved)
           b == b0 \o Data(n)
           secs == BeginSections(reserved)
<1>1. /\ TypeOK /\ buf \in Seq(FitCell) /\ base \in Nat /\ base <= Len(buf)
      /\ Len(buf) \in Nat /\ frames \in Seq(Frame) /\ sections \in Seq(Section)
      /\ Complete(frames, Len(frames) - 1, Len(buf)) /\ Running
  BY UnderWay DEF FrameSeq, Running
<1>2. /\ b0 \in Seq(FitCell) /\ Len(b0) = Len(buf) + reserved /\ reserved \in Nat
      /\ secs \in Seq(Section) /\ Nested(base, secs, b0) /\ ZerosInSections(b0, secs, base)
      /\ IF reserved = None THEN secs = sections
         ELSE secs # <<>> /\ Front(secs) = sections /\ secs[Len(secs)].pos = Len(buf)
  BY <1>1, ZerosWhenBegun
<1>3. /\ Data(n) \in Seq(FitCell) /\ Len(Data(n)) = n
      /\ \A i \in 1 .. n : Data(n)[i].kind # "zero"
  <2>1. Data(n) \in Seq(FitCell) /\ Len(Data(n)) = n
    BY BytesAreCells DEF Data
  <2>2. \A i \in 1 .. n : Data(n)[i].kind = "data"
    BY DEF Data, Bytes
  <2> QED
    BY <2>1, <2>2
<1> HIDE DEF b0, secs
<1>4. /\ b \in Seq(FitCell) /\ Len(b) = Len(b0) + n /\ Len(b) \in Nat /\ Len(b0) \in Nat
      /\ \A i \in 1 .. Len(b0) : b[i] = b0[i]
      /\ \A i \in Len(b0) + 1 .. Len(b) : b[i] = Data(n)[i - Len(b0)]
  BY <1>2, <1>3, Concatenated
<1>5. \A i \in Len(b0) + 1 .. Len(b) : b[i].kind # "zero"
  <2> SUFFICES ASSUME NEW i \in Len(b0) + 1 .. Len(b)
               PROVE  b[i].kind # "zero"
    OBVIOUS
  <2>1. i - Len(b0) \in 1 .. n
    BY <1>4
  <2> QED
    BY <1>3, <1>4, <2>1
<1>6. EndValue(b, secs, configured)
  BY DEF b0, secs
<1> HIDE DEF b
<1>7. Len(b0) <= Len(b) /\ Len(buf) <= Len(b) /\ base <= Len(b)
  BY <1>1, <1>2, <1>4
<1>8. ZerosInSections(b, secs, base) /\ Nested(base, secs, b)
  BY <1>1, <1>2, <1>4, <1>5, <1>7, ZerosWhenLonger, NestedWhenLonger
<1>9. buf' \in Seq(FitCell) /\ Len(buf') \in Nat
  BY DEF IInv, TypeOK
<1>10. CASE pc' # "return"
  <2>1. pc' \in {"TooLong"} \cup Panics
    BY <1>1, <1>2, <1>4, <1>6, <1>7, <1>8, <1>10, EndValueKeeps
  <2> QED
    BY <2>1, PlacedWhenEnded DEF Errors
<1>11. CASE pc' = "return"
  <2>1. /\ ZerosInSections(buf', sections', base)
        /\ IF configured = None THEN buf' = b /\ sections' = secs
           ELSE sections' = Front(secs) /\ secs[Len(secs)].pos <= Len(buf')
    BY <1>1, <1>2, <1>4, <1>6, <1>7, <1>8, <1>9, <1>11, ZerosWhenValueEnds
  <2>2. sections' = sections /\ Len(buf) <= Len(buf')
    BY <1>2, <1>7, <2>1
  <2>3. Complete(frames, Len(frames) - 1, Len(buf'))
    <3>1. Len(frames) - 1 \in Int /\ Len(frames) - 1 <= Len(frames)
      BY <1>1
    <3> QED
      BY <1>1, <1>9, <2>2, <3>1, CompleteWhenLonger
  <2> QED
    BY <1>1, <1>11, <2>1, <2>2, <2>3, PlacedOnReturn
<1> QED
  BY <1>10, <1>11

(* Byte slices and strings.                                                *)
LEMMA BytesPlaced ==
    ASSUME IInv, Placed, NEW n \in Nat, SerializeBytes(n)
    PROVE  Placed'
<1> DEFINE reserved == Reservation[Here]
           configured == WantedLengthField[Here]
<1>1. pc = "value" /\ base' = base /\ IInv'
  BY BytesStep DEF SerializeBytes
<1>2. \/ OutOfBounds(n, Types[nextType]) # "no" /\ Fail(OutOfBounds(n, Types[nextType]))
      \/ Fail(Outcome(reserved))
      \/ /\ ~Failed(reserved)
         /\ EndValue(BeginBuf(reserved) \o Data(n), BeginSections(reserved), configured)
         /\ UNCHANGED frames
  BY DEF SerializeBytes
<1>3. ~Failed(reserved) => /\ reserved \in OptSize /\ configured \in OptSize
                           /\ reserved = None <=> configured = None
  BY HereIsSite, ReservationMatchesWanted
<1> HIDE DEF reserved, configured
<1>4. CASE OutOfBounds(n, Types[nextType]) # "no" /\ Fail(OutOfBounds(n, Types[nextType]))
  BY <1>4, OutOfBoundsIsError, PlacedWhenEnded DEF Fail
<1>5. CASE Fail(Outcome(reserved))
  BY <1>5, OutcomeIsEnd, PlacedWhenEnded DEF Fail
<1>6. CASE /\ ~Failed(reserved)
           /\ EndValue(BeginBuf(reserved) \o Data(n), BeginSections(reserved), configured)
           /\ UNCHANGED frames
  BY <1>1, <1>3, <1>6, WholeValuePlaced
<1> QED
  BY <1>2, <1>4, <1>5, <1>6

(* A string keeps the layout: its section is closed in the step that opens *)
(* it.                                                                     *)
LEMMA StrPlaced ==
    ASSUME IInv, Placed, NEW units \in Nat, SerializeStr(units)
    PROVE  Placed'
<1> DEFINE reserved == Reservation[Here]
           configured == WantedLengthField[Here]
           size == EncodedSize(opts, units)
           reason == OutOfBounds(size, Types[nextType])
<1>1. pc = "value" /\ base' = base /\ IInv' /\ size \in Nat
  BY StrStep, EncodedSizeIsNat DEF SerializeStr, IInv, TypeOK
<1>2. \/ Fail(Outcome(reserved))
      \/ reason # "no" /\ pc' = reason
      \/ /\ ~Failed(reserved)
         /\ EndValue(BeginBuf(reserved) \o Data(size), BeginSections(reserved), configured)
         /\ UNCHANGED frames
  BY DEF SerializeStr
<1>3. ~Failed(reserved) => /\ reserved \in OptSize /\ configured \in OptSize
                           /\ reserved = None <=> configured = None
  BY HereIsSite, ReservationMatchesWanted
<1>4. reason # "no" => reason \in Errors \cup Panics
  <2> HIDE DEF size
  <2> QED
    BY OutOfBoundsIsError
<1> HIDE DEF reserved, configured, size, reason
<1>5. CASE Fail(Outcome(reserved))
  BY <1>5, OutcomeIsEnd, PlacedWhenEnded DEF Fail
<1>6. CASE reason # "no" /\ pc' = reason
  BY <1>4, <1>6, PlacedWhenEnded
<1>7. CASE /\ ~Failed(reserved)
           /\ EndValue(BeginBuf(reserved) \o Data(size), BeginSections(reserved), configured)
           /\ UNCHANGED frames
  BY <1>1, <1>3, <1>7, WholeValuePlaced
<1> QED
  BY <1>2, <1>5, <1>6, <1>7

(* One more serializer is open.                                            *)
LEMMA BeginValuePlaced ==
    ASSUME IInv, Placed, IInv', pc = "value", NEW f \in Frame, f.tagPos = NoTag,
           NEW reserved \in OptSize, reserved = None <=> f.lfs = None,
           BeginValue(f, reserved), base' = base
    PROVE  Placed'
<1>1. /\ frames' = Append(frames, f) /\ sections' = BeginSections(reserved)
      /\ buf' = BeginBuf(reserved) /\ pc' = "return" /\ Running
  BY DEF BeginValue, Running
<1>2. /\ FrameSeq(frames, sections, Len(buf)) /\ Ordered(frames) /\ Beside(frames, sections)
      /\ Complete(frames, Len(frames), Len(buf)) /\ Len(buf) \in Nat /\ frames \in Seq(Frame)
  BY <1>1, UnderWay DEF FrameSeq
<1>3. /\ Len(buf') = Len(buf) + reserved /\ reserved \in Nat
      /\ sections' \in Seq(Section) /\ ZerosInSections(buf', sections', base)
  BY <1>1, ZerosWhenBegun
<1>4. PICK sec \in Section :
        /\ sec.pos = Len(buf)
        /\ sections' = IF reserved = None THEN sections ELSE Append(sections, sec)
  BY <1>1, ZerosWhenBegun
<1>5. Len(buf') \in Nat /\ Len(buf) <= Len(buf')
  BY <1>2, <1>3
<1>6. sections' = IF f.lfs = None THEN sections ELSE Append(sections, sec)
  BY <1>4
<1>7. /\ Ordered(frames') /\ Beside(frames', sections')
      /\ Complete(frames', Len(frames), Len(buf'))
  BY <1>1, <1>2, <1>4, <1>5, <1>6, LayoutPush
<1>8. Len(frames') - 1 = Len(frames)
  BY <1>1, <1>2
<1>9. PlaceholdersAreOpen'
  <2>1. DOMAIN sections' = 1 .. Len(sections')
    BY <1>3
  <2> QED
    BY <1>3, <2>1 DEF PlaceholdersAreOpen, ZerosInSections, Inside, SectionEnd
<1> QED
  BY <1>1, <1>7, <1>8, <1>9 DEF Placed, Layout, TagsLaidOut, ValueFollowsTag

(* The beginning of a sequence keeps it: the new section is at the end.    *)
LEMMA SeqPlaced ==
    ASSUME IInv, Placed, NEW hint, SerializeSeq(hint)
    PROVE  Placed'
<1> DEFINE reserved == Reservation[Here]
           hinted == IF hint = NoHint THEN "no" ELSE OutOfBounds(hint, Types[nextType])
           f == [type |-> nextType, lfs |-> WantedLengthField[Here], count |-> 0,
                 orig |-> NoProps, tagPos |-> NoTag]
<1>1. pc = "value" /\ base' = base /\ IInv' /\ nextType \in TypeId
  BY SeqStep DEF SerializeSeq, IInv, TypeOK
<1>2. \/ hinted # "no" /\ Fail(hinted)
      \/ Fail(Outcome(reserved))
      \/ ~Failed(reserved) /\ BeginValue(f, reserved)
  BY DEF SerializeSeq
<1>3. ~Failed(reserved) => /\ reserved \in OptSize /\ WantedLengthField[Here] \in OptSize
                           /\ reserved = None <=> WantedLengthField[Here] = None
  BY HereIsSite, ReservationMatchesWanted
<1>4. NoProps \in Properties
  BY DEF NoProps, Properties, OptSize
<1>5. ~Failed(reserved) => /\ f \in Frame /\ f.tagPos = NoTag
                           /\ reserved = None <=> f.lfs = None
  BY <1>1, <1>3, <1>4 DEF Frame
<1>6. hinted # "no" => hinted \in Errors \cup Panics
  BY OutOfBoundsIsError
<1> HIDE DEF reserved, hinted, f
<1>7. CASE hinted # "no" /\ Fail(hinted)
  BY <1>6, <1>7, PlacedWhenEnded DEF Fail
<1>8. CASE Fail(Outcome(reserved))
  BY <1>8, OutcomeIsEnd, PlacedWhenEnded DEF Fail
<1>9. CASE ~Failed(reserved) /\ BeginValue(f, reserved)
  BY <1>1, <1>3, <1>5, <1>9, BeginValuePlaced
<1> QED
  BY <1>2, <1>7, <1>8, <1>9

(* So does the beginning of a struct.                                      *)
LEMMA StructPlaced ==
    ASSUME IInv, Placed, SerializeStruct
    PROVE  Placed'
<1> DEFINE ty == Types[nextType]
           scope == IF ty.props.set THEN ty.props ELSE props
           site == [Here EXCEPT !.props = scope]
           reserved == Reservation[site]
           f == [type |-> nextType, lfs |-> WantedLengthField[site], count |-> 0,
                 orig |-> IF ty.props.set THEN props ELSE NoProps, tagPos |-> NoTag]
<1>1. /\ pc = "value" /\ base' = base /\ IInv' /\ nextType \in TypeId
      /\ props \in Properties /\ props' = scope
  BY StructStep DEF SerializeStruct, IInv, TypeOK
<1>2. \/ Fail(Outcome(reserved))
      \/ ~Failed(reserved) /\ BeginValue(f, reserved)
  BY DEF SerializeStruct
<1>3. scope \in Properties
  BY <1>1 DEF IInv, TypeOK
<1>4. site \in Site
  <2> HIDE DEF scope
  <2> QED
    BY <1>3, HereIsSite DEF Site
<1>5. ~Failed(reserved) => /\ reserved \in OptSize /\ WantedLengthField[site] \in OptSize
                           /\ reserved = None <=> WantedLengthField[site] = None
  <2> HIDE DEF site
  <2> QED
    BY <1>4, ReservationMatchesWanted
<1>6. NoProps \in Properties
  BY DEF NoProps, Properties, OptSize
<1>7. ~Failed(reserved) => /\ f \in Frame /\ f.tagPos = NoTag
                           /\ reserved = None <=> f.lfs = None
  <2> HIDE DEF site, reserved
  <2> QED
    BY <1>1, <1>5, <1>6 DEF Frame
<1> HIDE DEF reserved, scope, f, site
<1>8. CASE Fail(Outcome(reserved))
  BY <1>8, OutcomeIsEnd, PlacedWhenEnded DEF Fail
<1>9. CASE ~Failed(reserved) /\ BeginValue(f, reserved)
  BY <1>1, <1>5, <1>7, <1>9, BeginValuePlaced
<1> QED
  BY <1>2, <1>8, <1>9

(* The innermost serializer is closed.                                     *)
LEMMA ClosingPlaced ==
    ASSUME IInv, Placed, IInv', pc = "return", frames # <<>>,
           EndValue(buf, sections, Top.lfs), frames' = Front(frames), base' = base
    PROVE  Placed'
<1>1. /\ TypeOK /\ FrameSeq(frames, sections, Len(buf)) /\ Ordered(frames)
      /\ Beside(frames, sections) /\ Complete(frames, Len(frames) - 1, Len(buf))
      /\ buf \in Seq(FitCell) /\ base <= Len(buf) /\ Nested(base, sections, buf)
      /\ ZerosInSections(buf, sections, base)
  BY UnderWay DEF Running
<1>2. /\ frames \in Seq(Frame) /\ sections \in Seq(Section)
      /\ Len(sections) = Cardinality(Sectioned(frames))
  BY <1>1 DEF FrameSeq
<1>3. Top.lfs \in OptSize /\ Top = frames[Len(frames)]
  BY TopIsFrame
<1>4. Top.lfs # None => sections # <<>>
  BY <1>2, <1>3, SectionedFront
<1>5. buf' \in Seq(FitCell) /\ Len(buf') \in Nat /\ sections' \in Seq(Section)
  BY DEF IInv, TypeOK
<1>6. CASE pc' # "return"
  <2>1. pc' \in {"TooLong"} \cup Panics
    BY <1>1, <1>2, <1>3, <1>4, <1>6, EndValueKeeps
  <2> QED
    BY <2>1, PlacedWhenEnded DEF Errors
<1>7. CASE pc' = "return"
  <2>1. /\ ZerosInSections(buf', sections', base)
        /\ IF Top.lfs = None THEN buf' = buf /\ sections' = sections
           ELSE sections' = Front(sections) /\ sections[Len(sections)].pos <= Len(buf')
    BY <1>1, <1>2, <1>3, <1>4, <1>5, <1>7, ZerosWhenValueEnds
  <2>2. /\ Ordered(frames') /\ Beside(frames', sections')
        /\ Complete(frames', Len(frames) - 1, Len(buf'))
    <3>1. sections' = IF frames[Len(frames)].lfs = None THEN sections ELSE Front(sections)
      BY <1>3, <2>1
    <3>2. \/ Len(buf') = Len(buf)
          \/ frames[Len(frames)].lfs # None /\ sections[Len(sections)].pos <= Len(buf')
      BY <1>3, <2>1
    <3> QED
      BY <1>1, <1>5, <3>1, <3>2, LayoutPop
  <2>3. Complete(frames', Len(frames') - 1, Len(buf'))
    <3>1. Len(frames') = Len(frames) - 1 /\ Len(frames) \in Nat
      BY <1>2, FrontIsSeq
    <3>2. \A i \in 1 .. Len(frames') - 1 : i \in 1 .. Len(frames) - 1
      BY <3>1
    <3> QED
      BY <2>2, <3>2 DEF Complete
  <2>4. PlaceholdersAreOpen'
    <3>1. DOMAIN sections' = 1 .. Len(sections')
      BY <1>5
    <3> QED
      BY <2>1, <3>1 DEF PlaceholdersAreOpen, ZerosInSections, Inside, SectionEnd
  <2> QED
    BY <1>7, <2>2, <2>3, <2>4 DEF Placed, Layout, TagsLaidOut, ValueFollowsTag
<1> QED
  BY <1>6, <1>7

(* The end of a sequence keeps it: what moves is behind all other          *)
(* sections.                                                               *)
LEMMA EndSeqPlaced ==
    ASSUME IInv, Placed, EndSeq
    PROVE  Placed'
<1>1. pc = "return" /\ frames # <<>> /\ base' = base /\ IInv'
  BY EndSeqStep DEF EndSeq
<1>2. CASE OutOfBounds(Top.count, TopType) # "no" /\ Fail(OutOfBounds(Top.count, TopType))
  BY <1>2, OutOfBoundsIsError, PlacedWhenEnded DEF Fail
<1>3. CASE EndValue(buf, sections, Top.lfs) /\ frames' = Front(frames)
  BY <1>1, <1>3, ClosingPlaced
<1> QED
  BY <1>2, <1>3 DEF EndSeq

(* So does the end of a struct.                                            *)
LEMMA EndStructPlaced ==
    ASSUME IInv, Placed, EndStruct
    PROVE  Placed'
<1>1. /\ pc = "return" /\ frames # <<>> /\ base' = base /\ IInv'
      /\ EndValue(buf, sections, Top.lfs) /\ frames' = Front(frames)
  BY EndStructStep DEF EndStruct
<1> QED
  BY <1>1, ClosingPlaced

(* The innermost serializer moves on.                                      *)
LEMMA TopPlaced ==
    ASSUME IInv, Placed, IInv', pc = "return", frames # <<>>, NEW f \in Frame,
           f.lfs = Top.lfs, f.tagPos \in {NoTag, Len(buf)}, frames' = WithTop(frames, f),
           UNCHANGED <<sections, base>>, Len(buf) <= Len(buf'),
           ZerosInSections(buf', sections, base), ValueFollowsTag'
    PROVE  Placed'
<1>1. /\ FrameSeq(frames, sections, Len(buf)) /\ Ordered(frames)
      /\ Beside(frames, sections) /\ Complete(frames, Len(frames) - 1, Len(buf))
      /\ Nested(base, sections, buf) /\ Top = frames[Len(frames)]
  BY UnderWay DEF Running, Top
<1>2. Len(buf') \in Nat /\ sections' \in Seq(Section)
  BY DEF IInv, TypeOK
<1>3. \A k \in 1 .. Len(sections) : EndOf(sections[k]) <= Len(buf)
  BY <1>1 DEF Nested, FrameSeq
<1>4. /\ Ordered(frames') /\ Beside(frames', sections')
      /\ Complete(frames', Len(frames) - 1, Len(buf'))
  BY <1>1, <1>2, <1>3, LayoutTop
<1>5. Len(frames') = Len(frames)
  BY <1>1, TopExcept DEF FrameSeq
<1>6. PlaceholdersAreOpen'
  <2>1. DOMAIN sections' = 1 .. Len(sections')
    BY <1>2
  <2> QED
    BY <2>1 DEF PlaceholdersAreOpen, ZerosInSections, Inside, SectionEnd
<1> QED
  BY <1>4, <1>5, <1>6 DEF Placed, Layout, TagsLaidOut

(* Which serializer is innermost then.                                     *)
LEMMA TopOfWithTop ==
    ASSUME IInv, frames # <<>>, NEW f \in Frame, f.lfs = Top.lfs, frames' = WithTop(frames, f)
    PROVE  frames' # <<>> /\ Top' = f
<1>1. frames \in Seq(Frame) /\ Top = frames[Len(frames)] /\ Len(frames) \in 1 .. Len(frames)
  BY DEF IInv, TypeOK, Top
<1>2. frames' # <<>> /\ Len(frames') = Len(frames) /\ frames'[Len(frames)] = f
  BY <1>1, TopExcept
<1> QED
  BY <1>2 DEF Top

(* An element that begins or ends keeps it.                                *)
LEMMA ElementPlaced ==
    ASSUME IInv, Placed, SerializeElement
    PROVE  Placed'
<1> DEFINE f == [Top EXCEPT !.count = @ + 1]
<1>1. /\ pc = "return" /\ frames # <<>> /\ TopType.kind = "seq"
      /\ frames' = [frames EXCEPT ![Len(frames)].count = @ + 1]
      /\ inTlv' = FALSE /\ pc' = "value" /\ IInv'
      /\ UNCHANGED <<buf, sections, base>>
  BY ElementStep DEF SerializeElement
<1>2. /\ Top \in Frame /\ Top = frames[Len(frames)] /\ Len(frames) \in DOMAIN frames
      /\ Top.type \in TypeId /\ Top.count \in Nat
  BY <1>1, TopIsFrame
<1>3. f \in Frame /\ f.lfs = Top.lfs /\ f.tagPos = Top.tagPos
  BY <1>2 DEF Frame
<1>4. frames' = WithTop(frames, f)
  BY <1>1, <1>2 DEF WithTop
<1>5. f.tagPos = NoTag
  <2>1. Top.tagPos # NoTag => TopType.kind = "struct"
    BY <1>1, <1>2 DEF IInv, TagsOfFields, TagOfField, Running, TopType, IsStruct
  <2> QED
    BY <1>1, <1>3, <2>1
<1> HIDE DEF f
<1>6. ValueFollowsTag'
  <2>1. Top' = f
    BY <1>1, <1>3, <1>4, TopOfWithTop
  <2> QED
    BY <1>1, <1>5, <2>1 DEF ValueFollowsTag
<1>7. ZerosInSections(buf', sections, base) /\ Len(buf) <= Len(buf')
  BY <1>1, UnderWay DEF Running
<1> QED
  BY <1>1, <1>3, <1>4, <1>5, <1>6, <1>7, TopPlaced

(* A tag is not zero.                                                      *)
LEMMA TagsAreNoZeros ==
    ASSUME NEW tag, NEW i \in 1 .. 2
    PROVE  TagBytes(tag)[i].kind = "tag"
BY DEF TagBytes, Bytes

(* serialize_field as a change of its struct's serializer.                 *)
LEMMA FieldChange ==
    ASSUME IInv, SerializeField
    PROVE  \E f \in Frame :
              /\ f = [Top EXCEPT !.count = @ + 1,
                                 !.tagPos = IF TopType.tlv THEN Len(buf) ELSE NoTag]
              /\ frames' = WithTop(frames, f)
              /\ f.lfs = Top.lfs /\ f.type = Top.type /\ f.count = Top.count + 1
              /\ f.tagPos = IF TopType.tlv THEN Len(buf) ELSE NoTag
              /\ f.count \in DOMAIN TopType.fields
              /\ IsStruct(TopType) /\ TopType.tlv \in BOOLEAN
              /\ NextField = TopType.fields[f.count]
              /\ NextField.type \in TypeId
              /\ TopType.tlv => NextField.id \in Nat
<1> DEFINE pos == IF TopType.tlv THEN Len(buf) ELSE NoTag
           f == [Top EXCEPT !.count = @ + 1, !.tagPos = pos]
           n == Top.count + 1
<1>1. /\ pc = "return" /\ frames # <<>> /\ TopType.kind = "struct"
      /\ Top.count < Len(TopType.fields)
      /\ TopType.tlv => NextField.id # NoId
      /\ frames' = [frames EXCEPT ![Len(frames)].count = @ + 1, ![Len(frames)].tagPos = pos]
  BY DEF SerializeField, AtField
<1>2. /\ Top \in Frame /\ Top = frames[Len(frames)] /\ Len(frames) \in DOMAIN frames
      /\ Top.type \in TypeId /\ Top.count \in Nat
  BY <1>1, TopIsFrame
<1>3. IsStruct(TopType) /\ TopType.fields \in Seq(Field) /\ TopType.tlv \in BOOLEAN
  <2>1. TopType \in SomeIpStruct
    BY <1>1, <1>2, TypeShapes DEF TopType
  <2> QED
    BY <2>1 DEF SomeIpStruct, IsStruct
<1>4. n \in DOMAIN TopType.fields /\ n \in Nat
  BY <1>1, <1>2, <1>3
<1>5. NextField.type \in TypeId /\ NextField.id \in Nat \cup {NoId}
  BY <1>2, <1>3, <1>4, FieldShape DEF TopType, NextField
<1>6. pos \in Nat \cup {NoTag}
  BY DEF IInv, TypeOK
<1> HIDE DEF pos
<1>7. f = [Top EXCEPT !.count = n, !.tagPos = pos]
  OBVIOUS
<1>8. f \in Frame /\ f.lfs = Top.lfs /\ f.type = Top.type /\ f.count = n /\ f.tagPos = pos
  BY <1>2, <1>4, <1>6 DEF Frame
<1>9. frames' = WithTop(frames, f)
  BY <1>1, <1>2 DEF WithTop
<1> QED
  <2>1. NextField = TopType.fields[f.count]
    BY <1>8 DEF NextField, n
  <2>2. TopType.tlv => NextField.id \in Nat
    BY <1>1, <1>5
  <2>3. f.tagPos = IF TopType.tlv THEN Len(buf) ELSE NoTag
    BY <1>8 DEF pos
  <2>4. f = [Top EXCEPT !.count = @ + 1,
                        !.tagPos = IF TopType.tlv THEN Len(buf) ELSE NoTag]
    BY DEF pos
  <2>5. f.count = Top.count + 1 /\ f.count \in DOMAIN TopType.fields
    BY <1>4, <1>8
  <2> HIDE DEF f
  <2> QED
    BY <1>3, <1>5, <1>8, <1>9, <2>1, <2>2, <2>3, <2>4, <2>5

(* A field keeps it: its tag is behind all sections.                       *)
LEMMA FieldPlaced ==
    ASSUME IInv, Placed, SerializeField
    PROVE  Placed'
<1> DEFINE cells == TagBytes(Tag(WireTypeOf(Types[NextField.type]), NextField.id))
<1>1. /\ pc = "return" /\ frames # <<>> /\ IInv' /\ Running
      /\ buf' = IF TopType.tlv THEN buf \o cells ELSE buf
      /\ inTlv' = TopType.tlv
      /\ UNCHANGED <<sections, base>>
  BY FieldStep DEF SerializeField, AtField, Running
<1>2. PICK f \in Frame :
        /\ frames' = WithTop(frames, f) /\ f.lfs = Top.lfs
        /\ f.tagPos = IF TopType.tlv THEN Len(buf) ELSE NoTag
        /\ TopType.tlv => NextField.id \in Nat
  BY FieldChange
<1>3. frames' # <<>> /\ Top' = f
  BY <1>1, <1>2, TopOfWithTop
<1>4. /\ buf \in Seq(FitCell) /\ sections \in Seq(Section) /\ base \in Nat /\ Len(buf) \in Nat
      /\ Nested(base, sections, buf) /\ ZerosInSections(buf, sections, base)
  BY <1>1, UnderWay DEF FrameSeq
<1>5. CASE TopType.tlv
  <2>1. cells \in Seq(FitCell) /\ Len(cells) = 2 /\ \A i \in 1 .. 2 : cells[i].kind = "tag"
    <3>1. WireTypeOf(Types[NextField.type]) \in Nat
      BY DEF WireTypeOf, WireOfFixed, FromConfig
    <3> QED
      BY <1>2, <1>5, <3>1, TagsAreCells, TagsAreNoZeros
  <2> HIDE DEF cells
  <2>2. /\ buf' \in Seq(FitCell) /\ Len(buf') = Len(buf) + 2 /\ Len(buf) <= Len(buf')
        /\ \A i \in 1 .. Len(buf) : buf'[i] = buf[i]
        /\ \A i \in Len(buf) + 1 .. Len(buf') : buf'[i].kind # "zero"
    <3>1. /\ buf' \in Seq(FitCell) /\ Len(buf') = Len(buf) + 2
          /\ \A i \in 1 .. Len(buf) : buf'[i] = buf[i]
          /\ \A i \in Len(buf) + 1 .. Len(buf') : buf'[i] = cells[i - Len(buf)]
      <4>1. buf' = buf \o cells
        BY <1>1, <1>5
      <4>2. /\ buf \o cells \in Seq(FitCell) /\ Len(buf \o cells) = Len(buf) + 2
            /\ \A i \in 1 .. Len(buf) : (buf \o cells)[i] = buf[i]
            /\ \A i \in Len(buf) + 1 .. Len(buf \o cells) :
                 (buf \o cells)[i] = cells[i - Len(buf)]
        <5>1. buf \in Seq(FitCell) /\ cells \in Seq(FitCell) /\ Len(cells) = 2
          BY <1>4, <2>1
        <5>2. /\ buf \o cells \in Seq(FitCell) /\ Len(buf \o cells) = Len(buf) + Len(cells)
              /\ \A i \in 1 .. Len(buf) : (buf \o cells)[i] = buf[i]
              /\ \A i \in Len(buf) + 1 .. Len(buf \o cells) :
                   (buf \o cells)[i] = cells[i - Len(buf)]
          BY <5>1, Concatenated, Zenon
        <5> QED
          BY <5>1, <5>2
      <4> QED
        BY <4>1, <4>2
    <3>2. ASSUME NEW i \in Len(buf) + 1 .. Len(buf')
          PROVE  buf'[i].kind # "zero"
      <4>1. i - Len(buf) \in 1 .. 2
        BY <1>4, <3>1
      <4> QED
        BY <2>1, <3>1, <4>1
    <3> QED
      BY <1>4, <3>1, <3>2
  <2>3. ZerosInSections(buf', sections, base)
    BY <1>4, <2>2, ZerosWhenLonger
  <2>4. ValueFollowsTag'
    <3>1. Top'.tagPos = Len(buf') - 2
      BY <1>2, <1>3, <1>4, <1>5, <2>2
    <3>2. inTlv'
      BY <1>1, <1>5
    <3> QED
      BY <1>3, <3>1, <3>2 DEF ValueFollowsTag
  <2> QED
    BY <1>1, <1>2, <1>5, <2>2, <2>3, <2>4, TopPlaced
<1>6. CASE ~TopType.tlv
  <2>1. ValueFollowsTag'
    BY <1>1, <1>2, <1>3, <1>6 DEF ValueFollowsTag
  <2> QED
    BY <1>1, <1>2, <1>4, <1>6, <2>1, TopPlaced
<1> QED
  BY <1>5, <1>6

(* The tag that is rewritten lies in no section.                           *)
LEMMA PatchTagPlaced ==
    ASSUME IInv, Placed, PatchTag
    PROVE  Placed'
<1> DEFINE tag == Tag(WireOfLengthField(lastField.size), CurrentField.id)
           cells == TagBytes(tag)
           f == [Top EXCEPT !.tagPos = NoTag]
<1>1. /\ pc = "return" /\ frames # <<>> /\ Top.tagPos # NoTag /\ IInv' /\ Running
      /\ UNCHANGED <<sections, base>>
      /\ \/ /\ frames' = [frames EXCEPT ![Len(frames)].tagPos = NoTag]
            /\ buf' \in {buf, WriteAt(buf, Top.tagPos, cells)} /\ pc' = pc
         \/ pc' = "AssertPreviousPos"
  BY PatchTagStep DEF PatchTag, Running
<1>2. /\ Top \in Frame /\ Top = frames[Len(frames)] /\ Len(frames) \in DOMAIN frames
      /\ Top.tagPos \in Nat
  BY <1>1, TopIsFrame
<1>3. /\ buf \in Seq(FitCell) /\ sections \in Seq(Section) /\ base \in Nat /\ Len(buf) \in Nat
      /\ ZerosInSections(buf, sections, base) /\ Beside(frames, sections)
  BY <1>1, UnderWay DEF FrameSeq
<1> HIDE DEF tag
<1>4. Len(cells) = 2 /\ \A i \in 1 .. 2 : cells[i].kind = "tag"
  BY TagsAreNoZeros DEF TagBytes, Bytes
<1> HIDE DEF cells
<1>5. ASSUME NEW i \in Top.tagPos + 1 .. Top.tagPos + 2, NEW k \in 1 .. Len(sections)
      PROVE  ~Inside(i, sections[k])
  <2>1. EndOf(sections[k]) <= Top.tagPos \/ Top.tagPos + 2 <= sections[k].pos
    BY <1>1, <1>2, <1>3 DEF Beside, IsOpen
  <2>2. EndOf(sections[k]) \in Nat /\ sections[k].pos \in Nat
    BY <1>3, SectionShape
  <2> QED
    BY <1>2, <2>1, <2>2 DEF Inside
<1>6. CASE pc' = "AssertPreviousPos"
  BY <1>6, PlacedWhenEnded DEF Panics
<1>7. CASE /\ frames' = [frames EXCEPT ![Len(frames)].tagPos = NoTag]
           /\ buf' \in {buf, WriteAt(buf, Top.tagPos, cells)} /\ pc' = pc
  <2>1. f \in Frame /\ f.lfs = Top.lfs /\ f.tagPos = NoTag
    BY <1>2 DEF Frame
  <2>2. frames' = WithTop(frames, f)
    BY <1>2, <1>7 DEF WithTop
  <2>3. ZerosInSections(buf', sections, base) /\ Len(buf) <= Len(buf')
    <3>1. CASE buf' = buf
      BY <1>3, <3>1
    <3>2. CASE buf' = WriteAt(buf, Top.tagPos, cells)
      <4>1. /\ Len(buf') = Len(buf)
            /\ \A i \in 1 .. Len(buf) :
                 buf'[i] = IF i \in Top.tagPos + 1 .. Top.tagPos + 2
                           THEN cells[i - Top.tagPos] ELSE buf[i]
        BY <1>3, <1>4, <3>2 DEF WriteAt
      <4>2. ASSUME NEW i \in base + 1 .. Len(buf)
            PROVE  buf'[i].kind = "zero"
                     <=> \E k \in 1 .. Len(sections) : Inside(i, sections[k])
        <5>1. i \in 1 .. Len(buf)
          BY <1>3
        <5>2. CASE i \in Top.tagPos + 1 .. Top.tagPos + 2
          <6>1. i - Top.tagPos \in 1 .. 2
            BY <1>2, <5>2
          <6>2. buf'[i].kind = "tag"
            BY <1>4, <4>1, <5>1, <5>2, <6>1
          <6> QED
            BY <1>5, <5>2, <6>2
        <5>3. CASE i \notin Top.tagPos + 1 .. Top.tagPos + 2
          BY <1>3, <4>1, <5>1, <5>3 DEF ZerosInSections
        <5> QED
          BY <5>2, <5>3
      <4> QED
        BY <1>3, <4>1, <4>2 DEF ZerosInSections
    <3> QED
      BY <1>7, <3>1, <3>2
  <2>4. ValueFollowsTag'
    BY <1>1, <1>7 DEF ValueFollowsTag
  <2> HIDE DEF f
  <2> QED
    BY <1>1, <2>1, <2>2, <2>3, <2>4, TopPlaced
<1> QED
  BY <1>1, <1>6, <1>7

----------------------------------------------------------------------------
(***************************************************************************)
(* Reserved bytes: the theorem.                                            *)
(***************************************************************************)

(* A call starts with nothing reserved, and ends with what it has.         *)
LEMMA CallPlaced ==
    ASSUME IInv, Placed, NEW root \in Roots, Call(root)
    PROVE  Placed'
<1>1. /\ pc' \in {"value", "TypePanic"} /\ inTlv' = FALSE
      /\ sections' = <<>> /\ frames' = <<>> /\ base' = Len(buf) /\ buf' = buf
  BY DEF Call
<1>2. Layout'
  BY <1>1 DEF Layout, TagsLaidOut, ValueFollowsTag, Ordered, Beside, Complete
<1>3. PlaceholdersAreOpen'
  <2>1. Len(buf) \in Nat
    BY DEF IInv, TypeOK
  <2> QED
    BY <1>1, <2>1 DEF PlaceholdersAreOpen
<1> QED
  BY <1>2, <1>3 DEF Placed

(* The return to the caller keeps it.                                      *)
LEMMA FinishPlaced ==
    ASSUME Placed, Finish
    PROVE  Placed'
<1>1. pc = "return" /\ pc' = "ok" /\ UNCHANGED <<buf, sections, base>>
  BY DEF Finish
<1> QED
  BY <1>1 DEF Placed, Layout, TagsLaidOut, ValueFollowsTag, PlaceholdersAreOpen, Current,
     Running, SectionEnd

(* Standing still keeps it.                                                *)
LEMMA StutterPlaced ==
    ASSUME Placed, UNCHANGED vars
    PROVE  Placed'
BY DEF vars, Placed, Layout, TagsLaidOut, ValueFollowsTag, PlaceholdersAreOpen, Current,
   Running, SectionEnd, Top

(* Every step keeps it.                                                    *)
LEMMA NextKeepsPlaced ==
    ASSUME IInv, Placed, [Next]_vars
    PROVE  Placed'
<1>1. ASSUME NEW root \in Roots, Call(root)
      PROVE  Placed'
  BY <1>1, CallPlaced
<1>2. ASSUME NEW units \in 0 .. MaxUnits, SerializeStr(units)
      PROVE  Placed'
  BY <1>2, StrPlaced, BoundsAssumption
<1>3. ASSUME NEW n \in 0 .. MaxUnits, SerializeBytes(n)
      PROVE  Placed'
  BY <1>3, BytesPlaced, BoundsAssumption
<1>4. ASSUME NEW hint \in 0 .. MaxElements \cup {NoHint}, SerializeSeq(hint)
      PROVE  Placed'
  BY <1>4, SeqPlaced
<1>5. CASE Stopped \/ UNCHANGED vars
  BY <1>5, StutterPlaced DEF Stopped
<1>6. CASE SerializeFixed \/ SerializeNone
  BY <1>6, FixedPlaced, NonePlaced
<1>7. CASE SerializeNonAscii \/ FieldWithoutId
  BY <1>7, PlacedWhenEnded DEF SerializeNonAscii, FieldWithoutId, Fail, Errors, Panics
<1>8. CASE SerializeElement \/ EndSeq \/ SerializeStruct
  BY <1>8, ElementPlaced, EndSeqPlaced, StructPlaced
<1>9. CASE SerializeField \/ PatchTag
  BY <1>9, FieldPlaced, PatchTagPlaced
<1>10. CASE EndStruct \/ Finish
  BY <1>10, EndStructPlaced, FinishPlaced
<1> QED
  BY <1>1, <1>2, <1>3, <1>4, <1>5, <1>6, <1>7, <1>8, <1>9, <1>10 DEF Next

(* Throughout, tags of unfinished fields and open sections lie in order.   *)
THEOREM AlwaysPlaced == Spec => []Placed
<1>1. Init => Placed
  BY DEF Init, Placed, Layout, TagsLaidOut, ValueFollowsTag, PlaceholdersAreOpen, Current,
     Running
<1>2. IInv /\ Placed /\ [Next]_vars => Placed'
  BY NextKeepsPlaced
<1> QED
  BY <1>1, <1>2, Invariant, PTL DEF Spec

(* Reserved zeros stand exactly where a section is open: a finished        *)
(* message has none, and every end patches its own length field.           *)
THEOREM PlaceholdersAlwaysOpen == Spec => []PlaceholdersAreOpen
<1>1. Placed => PlaceholdersAreOpen
  BY DEF Placed
<1> QED
  BY <1>1, AlwaysPlaced, PTL
=============================================================================
