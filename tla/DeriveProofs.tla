---------------------------- MODULE DeriveProofs ----------------------------
(***************************************************************************)
(* What the derive macro guarantees of every declaration that compiles:    *)
(* the ids of a struct tell its fields apart, and the values of an enum    *)
(* tell its variants apart on the wire.                                    *)
(***************************************************************************)
EXTENDS Derive, SequenceTheorems, Induction, TLAPS

----------------------------------------------------------------------------
(* Sequences of whatever elements.                                         *)
IsSequence(s) == \E S : s \in Seq(S)

(* The empty sequence is one.                                              *)
LEMMA EmptyIsSequence == IsSequence(<<>>) /\ Len(<<>>) = 0 /\ DOMAIN <<>> = {}
<1>1. <<>> \in Seq({}) /\ Len(<<>>) = 0
  OBVIOUS
<1>2. DOMAIN <<>> = 1 .. 0
  BY <1>1
<1> QED
  BY <1>1, <1>2 DEF IsSequence

(* The domain of a sequence.                                               *)
LEMMA SequenceDomain ==
    ASSUME NEW s, IsSequence(s)
    PROVE  Len(s) \in Nat /\ DOMAIN s = 1 .. Len(s)
BY DEF IsSequence

(* Append adds an element and keeps the others.                            *)
LEMMA AppendKeeps ==
    ASSUME NEW s, NEW e, IsSequence(s)
    PROVE  /\ IsSequence(Append(s, e))
           /\ Len(Append(s, e)) = Len(s) + 1
           /\ Append(s, e)[Len(s) + 1] = e
           /\ \A i \in 1 .. Len(s) : Append(s, e)[i] = s[i]
<1>1. PICK S : s \in Seq(S)
  BY DEF IsSequence
<1>2. s \in Seq(S \cup {e}) /\ e \in S \cup {e}
  BY <1>1
<1>3. Append(s, e) \in Seq(S \cup {e})
  BY <1>2, AppendProperties
<1> QED
  BY <1>2, <1>3, AppendProperties DEF IsSequence

(* Front keeps all but the last.                                           *)
LEMMA FrontKeeps ==
    ASSUME NEW s, IsSequence(s), s # <<>>
    PROVE  /\ IsSequence(Front(s))
           /\ \A i \in DOMAIN Front(s) : i \in DOMAIN s /\ Front(s)[i] = s[i]
<1>1. PICK S : s \in Seq(S)
  BY DEF IsSequence
<1>2. PICK n \in Nat : Len(s) = n + 1
  BY <1>1
<1>3. Front(s) = SubSeq(s, 1, n)
  BY <1>2 DEF Front
<1>4. \A i \in 1 .. n : s[i] \in S
  BY <1>1, <1>2
<1>5. /\ SubSeq(s, 1, n) \in Seq(S)
      /\ Len(SubSeq(s, 1, n)) = IF 1 <= n THEN n - 1 + 1 ELSE 0
      /\ \A i \in 1 .. n - 1 + 1 : SubSeq(s, 1, n)[i] = s[1 + i - 1]
  BY <1>2, <1>4, SubSeqProperties
<1>6. Len(SubSeq(s, 1, n)) = n /\ \A i \in 1 .. n : SubSeq(s, 1, n)[i] = s[i]
  BY <1>2, <1>5
<1> QED
  BY <1>1, <1>2, <1>3, <1>5, <1>6 DEF IsSequence

----------------------------------------------------------------------------
(***************************************************************************)
(* The inductive invariant.                                                *)
(***************************************************************************)
Growing == pc \in {"type", "resolve", "built"}

(* Which functions of the macro run for which kind of item.                *)
Phases ==
    /\ pc \in {"struct", "field"} => decl.kind = "struct"
    /\ pc = "newtype" => decl.kind = "newtype"
    /\ pc \in {"enum", "variant"} => decl.kind = "enum"
    /\ Growing => decl.kind \in {"struct", "newtype"}
    /\ Growing /\ decl.kind = "struct" => AtMember
    /\ pc \in {"item", "struct", "newtype", "enum"} => members = <<>> /\ encounteredIds = 0
    /\ pc = "field" => encounteredIds <= Len(members)
    /\ Growing => encounteredIds <= Len(members) + 1
    /\ decl.kind = "newtype" => next = 1 /\ encounteredIds = 0
    /\ pc = "variant" => RawTypePath.path \in RawTypes

Sequences_ ==
    /\ decl \in Declarations
    /\ IsSequence(decl.members)
    /\ IsSequence(members) /\ IsSequence(open) /\ IsSequence(types)

(* The ids of the fields that are complete: if as many as fields were      *)
(* encountered then all have one, and if none was then none has.           *)
Before == IF Growing /\ id # NoId THEN encounteredIds - 1 ELSE encounteredIds
IdsCounted ==
    /\ Before \in 0 .. Len(members)
    /\ Before = 0 => \A i \in DOMAIN members : members[i].id = NoId
    /\ Before = Len(members) => \A i \in DOMAIN members : members[i].id # NoId
    /\ pc = "done" => encounteredIds \in {0, Len(members)}

(* Every id has been put into seen_ids, once.                              *)
IdsSeen ==
    /\ \A i \in DOMAIN members :
         members[i].id = NoId \/ (members[i].id \in seen /\ members[i].id <= MaxFieldId)
    /\ \A i, j \in DOMAIN members :
         members[i].id = members[j].id => i = j \/ members[i].id = NoId
    /\ Growing /\ id # NoId =>
         /\ id \in seen /\ id <= MaxFieldId
         /\ \A i \in DOMAIN members : members[i].id # id

(* So has every value of an enum, as it is written.                        *)
ValuesSeen ==
    /\ pc \in {"variant", "done"} => RawTypePath.path \in RawTypes
    /\ \A i \in DOMAIN members :
         /\ i \in DOMAIN decl.members /\ members[i].name = decl.members[i].name
         /\ members[i].value \in ValuesOf(RawTypePath.path)
         /\ ToBits(RawTypePath.path, members[i].value) \in seen
    /\ \A i, j \in DOMAIN members :
         ToBits(RawTypePath.path, members[i].value) = ToBits(RawTypePath.path, members[j].value)
            => i = j

Apart ==
    ~errors =>
        /\ decl.kind = "struct" => IdsCounted /\ IdsSeen
        /\ decl.kind = "enum" => ValuesSeen

IInv == TypeOK /\ Sequences_ /\ Phases /\ Apart

(* The invariant holds in the beginning.                                   *)
LEMMA InitIInv == Init => IInv
<1> SUFFICES ASSUME Init PROVE IInv
  OBVIOUS
<1>1. IsSequence(decl.members)
  BY DeclarationsAssumption DEF Init, IsSequence
<1>2. Sequences_
  BY <1>1, EmptyIsSequence DEF Init, Sequences_
<1>3. Len(decl.members) \in Nat
  BY <1>1, SequenceDomain
<1>4. TypeOK
  <2>1. next \in 1 .. Len(decl.members) + 1 /\ encounteredIds \in 0 .. Len(decl.members)
    BY <1>3 DEF Init
  <2>2. Len(members) = next - 1 /\ \A i \in DOMAIN open : open[i].lfs \in {0, 1, 2, 4}
    BY EmptyIsSequence DEF Init
  <2>3. seen \subseteq Nat /\ id \in Nat \cup {NoId} /\ tlv \in BOOLEAN /\ errors \in BOOLEAN
        /\ pc \in Pcs
    BY DEF Init, Pcs
  <2> QED
    BY <2>1, <2>2, <2>3 DEF TypeOK
<1>5. Phases
  BY DEF Init, Phases, Growing
<1>6. Apart
  BY DEF Init, Apart, IdsCounted, IdsSeen, ValuesSeen, Before, Growing
<1> QED
  BY <1>2, <1>4, <1>5, <1>6 DEF IInv

----------------------------------------------------------------------------
(***************************************************************************)
(* What the steps of several functions have in common.                     *)
(***************************************************************************)
LEMMA RawTypeStays ==
    ASSUME decl' = decl
    PROVE  RawTypePath' = RawTypePath
BY DEF RawTypePath, EnumAttr

(* What Push does to members and next.                                     *)
LEMMA PushKeeps ==
    ASSUME TypeOK, Sequences_, AtMember, NEW member, Push(member)
    PROVE  /\ IsSequence(members')
           /\ Len(members') = Len(members) + 1
           /\ DOMAIN members = 1 .. Len(members)
           /\ DOMAIN members' = 1 .. Len(members) + 1
           /\ members'[Len(members) + 1] = member
           /\ \A i \in DOMAIN members : members'[i] = members[i]
           /\ next' \in 1 .. Len(decl.members) + 1
           /\ Len(members') = next' - 1
<1>1. IsSequence(members) /\ IsSequence(decl.members)
  BY DEF Sequences_
<1>2. /\ Len(members) \in Nat /\ DOMAIN members = 1 .. Len(members)
      /\ Len(decl.members) \in Nat /\ DOMAIN decl.members = 1 .. Len(decl.members)
  BY <1>1, SequenceDomain
<1>3. /\ IsSequence(members')
      /\ Len(members') = Len(members) + 1
      /\ members'[Len(members) + 1] = member
      /\ \A i \in 1 .. Len(members) : members'[i] = members[i]
  BY <1>1, AppendKeeps DEF Push
<1>4. DOMAIN members' = 1 .. Len(members')
  BY <1>3, SequenceDomain
<1>5. next' \in 1 .. Len(decl.members) + 1 /\ Len(members') = next' - 1
  BY <1>2, <1>3 DEF Push, AtMember, TypeOK
<1> QED
  BY <1>2, <1>3, <1>4, <1>5

(* What a step never touches.                                              *)
LEMMA SequencesStay ==
    ASSUME Sequences_, decl' = decl,
           IsSequence(members'), IsSequence(open'), IsSequence(types')
    PROVE  Sequences_'
BY DEF Sequences_, IsSequence

(* A step that ends with an error.                                         *)
LEMMA AbortKeeps ==
    ASSUME IInv, Abort,
           UNCHANGED <<decl, next, members, open, types>>,
           encounteredIds' \in 0 .. Len(decl.members), seen' \subseteq Nat,
           id' \in Nat \cup {NoId}, tlv' \in BOOLEAN,
           decl.kind = "newtype" => encounteredIds' = 0
    PROVE  IInv'
<1>1. TypeOK'
  BY DEF IInv, TypeOK, Abort, Pcs
<1>2. Sequences_'
  BY SequencesStay DEF IInv, Sequences_
<1>3. Phases'
  BY DEF IInv, Phases, Abort, Growing
<1>4. Apart'
  BY DEF Apart, Abort
<1> QED
  BY <1>1, <1>2, <1>3, <1>4 DEF IInv

(* A step of derive_type that leaves the fields alone.                     *)
LEMMA GrowsOn ==
    ASSUME IInv, Growing, pc' \in {"type", "resolve", "built"},
           UNCHANGED <<Deriving, members, next, errors>>,
           tlv' \in BOOLEAN, IsSequence(open'), IsSequence(types'),
           \A i \in DOMAIN open' : open'[i].lfs \in {0, 1, 2, 4}
    PROVE  IInv'
<1>1. TypeOK'
  BY DEF IInv, TypeOK, Deriving, Pcs
<1>2. Sequences_'
  BY SequencesStay DEF IInv, Sequences_, Deriving
<1>3. Phases'
  BY DEF IInv, Phases, Growing, Deriving, AtMember
<1>4. Growing' /\ Before' = Before
  BY DEF Before, Growing, Deriving
<1>5. Apart'
  <2> SUFFICES ASSUME ~errors PROVE (decl.kind = "struct" => IdsCounted' /\ IdsSeen')
                                    /\ (decl.kind = "enum" => ValuesSeen')
    BY DEF Apart, Deriving
  <2>1. CASE decl.kind = "struct"
    <3>1. IdsCounted /\ IdsSeen
      BY <2>1 DEF IInv, Apart
    <3>2. IdsCounted'
      BY <3>1, <1>4 DEF IdsCounted, Deriving
    <3>3. IdsSeen'
      BY <3>1, <1>4 DEF IdsSeen, Deriving
    <3> QED
      BY <2>1, <3>2, <3>3
  <2> QED
    BY <2>1 DEF IInv, Phases, Growing
<1> QED
  BY <1>1, <1>2, <1>3, <1>5 DEF IInv

(* An error in the type of a field or newtype.                             *)
LEMMA TypeErrorKeeps ==
    ASSUME IInv, Growing, TypeError, UNCHANGED Deriving
    PROVE  IInv'
<1>1. IsSequence(open') /\ DOMAIN open' = {} /\ IsSequence(types')
  BY EmptyIsSequence DEF TypeError, IInv, Sequences_
<1>2. CASE decl.kind = "newtype"
  <2>1. pc' = "done" /\ UNCHANGED <<members, next>>
    BY <1>2 DEF TypeError
  <2>2. TypeOK'
    BY <1>1, <2>1 DEF IInv, TypeOK, TypeError, Deriving, Pcs
  <2>3. Sequences_'
    BY <1>1, <2>1, SequencesStay DEF IInv, Sequences_, Deriving
  <2>4. Phases'
    BY <2>1 DEF IInv, Phases, Growing, Deriving
  <2>5. Apart'
    BY DEF Apart, TypeError
  <2> QED
    BY <2>2, <2>3, <2>4, <2>5 DEF IInv
<1>3. CASE decl.kind = "struct"
  <2>1. pc' = "field" /\ Push([id |-> id, type |-> 0])
    BY <1>3 DEF TypeError
  <2>2. /\ IsSequence(members') /\ Len(members') = Len(members) + 1
        /\ next' \in 1 .. Len(decl.members) + 1 /\ Len(members') = next' - 1
    BY <1>3, <2>1, PushKeeps DEF IInv, Phases
  <2>3. TypeOK'
    BY <1>1, <2>1, <2>2 DEF IInv, TypeOK, TypeError, Deriving, Pcs
  <2>4. Sequences_'
    BY <1>1, <2>2, SequencesStay DEF IInv, Deriving
  <2>5. Phases'
    BY <1>3, <2>1, <2>2 DEF IInv, Phases, Growing, Deriving
  <2>6. Apart'
    BY DEF Apart, TypeError
  <2> QED
    BY <2>3, <2>4, <2>5, <2>6 DEF IInv
<1> QED
  BY <1>2, <1>3 DEF IInv, Phases

----------------------------------------------------------------------------
(***************************************************************************)
(* One lemma for each function or step of the macro.                       *)
(***************************************************************************)
LEMMA DeriveSomeIpKeeps == IInv /\ DeriveSomeIp => IInv'
<1> SUFFICES ASSUME IInv, DeriveSomeIp PROVE IInv'
  OBVIOUS
<1>1. CASE Abort
  BY <1>1, AbortKeeps DEF IInv, TypeOK, Phases, DeriveSomeIp
<1>2. CASE pc' = decl.kind /\ decl.kind \in {"struct", "newtype", "enum"} /\ UNCHANGED errors
  <2>1. TypeOK'
    BY <1>2 DEF IInv, TypeOK, DeriveSomeIp, Pcs
  <2>2. Sequences_'
    BY SequencesStay DEF IInv, Sequences_, DeriveSomeIp
  <2>3. Phases'
    BY <1>2 DEF IInv, Phases, Growing, DeriveSomeIp
  <2>4. Apart'
    BY <1>2, EmptyIsSequence
       DEF IInv, Phases, Apart, IdsCounted, IdsSeen, ValuesSeen, Before, Growing, DeriveSomeIp
  <2> QED
    BY <2>1, <2>2, <2>3, <2>4 DEF IInv
<1> QED
  BY <1>1, <1>2 DEF DeriveSomeIp, Go

(* The attribute of a struct keeps the invariant.                          *)
LEMMA StructAttributeKeeps == IInv /\ StructAttribute => IInv'
<1> SUFFICES ASSUME IInv, StructAttribute PROVE IInv'
  OBVIOUS
<1>1. CASE Abort
  BY <1>1, AbortKeeps DEF IInv, TypeOK, Phases, StructAttribute
<1>2. CASE Go("field")
  <2>1. TypeOK'
    BY <1>2 DEF IInv, TypeOK, StructAttribute, Go, Pcs
  <2>2. Sequences_'
    BY SequencesStay DEF IInv, Sequences_, StructAttribute
  <2>3. Phases'
    BY <1>2 DEF IInv, Phases, Growing, StructAttribute, Go, TypeOK
  <2>4. Apart'
    BY <1>2, EmptyIsSequence
       DEF IInv, Phases, Apart, IdsCounted, IdsSeen, Before, Growing, StructAttribute, Go
  <2> QED
    BY <2>1, <2>2, <2>3, <2>4 DEF IInv
<1> QED
  BY <1>1, <1>2 DEF StructAttribute

(* Without an id nothing is counted or seen; with one both are, and one    *)
(* that was there already is an error.                                     *)
LEMMA FieldIdKeeps == IInv /\ FieldId => IInv'
<1> DEFINE parsed == Value(FieldAttr, "id").int
<1> SUFFICES ASSUME IInv, FieldId PROVE IInv'
  OBVIOUS
<1>1. /\ decl.kind = "struct" /\ pc = "field" /\ AtMember /\ UNCHANGED <<decl, next, members, open, types>>
      /\ Len(members) = next - 1 /\ encounteredIds \in Nat /\ encounteredIds <= Len(members)
      /\ Len(members) \in Nat /\ DOMAIN members = 1 .. Len(members)
      /\ next \in 1 .. Len(decl.members) /\ Len(decl.members) \in Nat
  BY SequenceDomain DEF IInv, Phases, FieldId, TypeOK, Sequences_, AtMember
<1>2. encounteredIds' \in {encounteredIds, encounteredIds + 1} /\ tlv' \in BOOLEAN
  BY DEF FieldId
<1>3. encounteredIds' \in 0 .. Len(decl.members)
  BY <1>1, <1>2
<1>4. CASE Abort
  <2>1. seen' \subseteq Nat /\ id' \in Nat \cup {NoId}
    BY <1>1, <1>4 DEF FieldId, Abort, Go, IInv, TypeOK
  <2> QED
    BY <1>1, <1>2, <1>3, <1>4, <2>1, AbortKeeps
<1>5. CASE id' = NoId /\ encounteredIds' = encounteredIds /\ Go("type") /\ UNCHANGED seen
  <2>1. TypeOK'
    BY <1>1, <1>2, <1>3, <1>5 DEF IInv, TypeOK, Go, Pcs
  <2>2. Sequences_'
    BY <1>1, SequencesStay DEF IInv, Sequences_
  <2>3. Phases'
    BY <1>1, <1>5 DEF Phases, Growing, Go, AtMember
  <2>4. Apart'
    <3>1. Before' = Before
      BY <1>1, <1>5 DEF Before, Growing
    <3>2. ~errors => IdsCounted' /\ IdsSeen'
      BY <1>1, <1>5, <3>1 DEF IInv, Apart, IdsCounted, IdsSeen, Go
    <3> QED
      BY <1>1, <1>5, <3>2 DEF Apart, Go
  <2> QED
    BY <2>1, <2>2, <2>3, <2>4 DEF IInv
<1>6. CASE /\ encounteredIds' = encounteredIds + 1
           /\ parsed \in 0 .. MaxU16
           /\ seen' = seen \cup {parsed}
           /\ id' = parsed
           /\ errors' = (errors \/ IdTaken(parsed))
           /\ pc' = "type"
  <2>1. parsed \in Nat /\ parsed # NoId
    BY <1>6, WidthsAssumption DEF NoId
  <2> HIDE DEF parsed
  <2>2. TypeOK'
    BY <1>1, <1>2, <1>3, <1>6, <2>1 DEF IInv, TypeOK, Pcs
  <2>3. Sequences_'
    BY <1>1, SequencesStay DEF IInv, Sequences_
  <2>4. Phases'
    BY <1>1, <1>6 DEF Phases, Growing, AtMember
  <2>5. Apart'
    <3>1. Before' = Before
      BY <1>1, <1>6, <2>1 DEF Before, Growing
    <3> SUFFICES ASSUME ~errors' PROVE IdsCounted' /\ IdsSeen'
      BY <1>1 DEF Apart
    <3>2. ~errors /\ parsed \notin seen /\ parsed <= MaxFieldId
      <4>1. ~errors /\ parsed \notin seen /\ ~(parsed > MaxFieldId)
        BY <1>6, Zenon DEF IdTaken
      <4> QED
        BY <2>1, <4>1 DEF MaxFieldId
    <3>3. IdsCounted /\ IdsSeen
      BY <1>1, <3>2 DEF IInv, Apart
    <3>4. IdsCounted'
      BY <1>1, <1>6, <3>1, <3>3 DEF IdsCounted
    <3>5. \A i \in DOMAIN members : members[i].id # parsed
      BY <2>1, <3>2, <3>3 DEF IdsSeen
    <3>6. IdsSeen'
      BY <1>1, <1>6, <3>2, <3>3, <3>5 DEF IdsSeen
    <3> QED
      BY <3>4, <3>6
  <2> QED
    BY <2>2, <2>3, <2>4, <2>5 DEF IInv
<1> QED
  BY <1>4, <1>5, <1>6 DEF FieldId

(* The end of a struct keeps it.                                           *)
LEMMA EndStructKeeps == IInv /\ EndStruct => IInv'
<1> SUFFICES ASSUME IInv, EndStruct PROVE IInv'
  OBVIOUS
<1>1. decl.kind = "struct" /\ pc = "field" /\ UNCHANGED <<decl, next, encounteredIds, seen, members, id, tlv, open>>
  BY DEF IInv, Phases, EndStruct
<1>2. CASE Abort /\ UNCHANGED types
  BY <1>1, <1>2, AbortKeeps DEF IInv, TypeOK, Phases
<1>3. CASE encounteredIds \in {0, Len(members)} /\ Go("done") /\ \E type : types' = Append(types, type)
  <2>1. IsSequence(types')
    BY <1>3, AppendKeeps DEF IInv, Sequences_
  <2>2. TypeOK'
    BY <1>1, <1>3 DEF IInv, TypeOK, Go, Pcs
  <2>3. Sequences_'
    BY <1>1, <2>1, SequencesStay DEF IInv, Sequences_
  <2>4. Phases'
    BY <1>1, <1>3 DEF IInv, Phases, Growing, Go
  <2>5. Apart'
    <3>1. Before' = Before
      BY <1>1, <1>3 DEF Before, Growing, Go
    <3>2. ~errors => IdsCounted' /\ IdsSeen'
      BY <1>1, <1>3, <3>1 DEF IInv, Apart, IdsCounted, IdsSeen, Growing, Go
    <3> QED
      BY <1>1, <1>3, <3>2 DEF Apart, Go
  <2> QED
    BY <2>2, <2>3, <2>4, <2>5 DEF IInv
<1> QED
  BY <1>2, <1>3 DEF EndStruct

(* A newtype keeps it.                                                     *)
LEMMA NewtypeKeeps == IInv /\ Newtype => IInv'
<1> SUFFICES ASSUME IInv, Newtype PROVE IInv'
  OBVIOUS
<1>1. decl.kind = "newtype" /\ pc = "newtype" /\ UNCHANGED <<decl, next, encounteredIds, seen, members, id, open, types>>
  BY DEF IInv, Phases, Newtype
<1>2. CASE Abort
  BY <1>1, <1>2, AbortKeeps DEF IInv, TypeOK, Phases, Newtype
<1>3. CASE Go("type")
  <2>1. TypeOK'
    BY <1>1, <1>3 DEF IInv, TypeOK, Newtype, Go, Pcs
  <2>2. Sequences_'
    BY <1>1, SequencesStay DEF IInv, Sequences_
  <2>3. Phases'
    BY <1>1, <1>3, EmptyIsSequence DEF IInv, Phases, Growing, Go
  <2>4. Apart'
    BY <1>1 DEF Apart
  <2> QED
    BY <2>1, <2>2, <2>3, <2>4 DEF IInv
<1> QED
  BY <1>2, <1>3 DEF Newtype

(* Following treat_as keeps it.                                            *)
LEMMA HandleTreatAsKeeps == IInv /\ HandleTreatAs => IInv'
<1> SUFFICES ASSUME IInv, HandleTreatAs PROVE IInv'
  OBVIOUS
<1>1. Growing /\ UNCHANGED Deriving
  BY DEF HandleTreatAs, Growing
<1>2. \/ TypeError
      \/ Go("resolve") /\ UNCHANGED <<attr, tlv, open, types, members, next>>
  BY DEF HandleTreatAs
<1>3. CASE Go("resolve") /\ UNCHANGED <<attr, tlv, open, types, members, next>>
  BY <1>1, <1>3, GrowsOn DEF IInv, TypeOK, Sequences_, Go
<1> QED
  BY <1>1, <1>2, <1>3, TypeErrorKeeps

(* So does the resolution of a path.                                       *)
LEMMA ResolveTypeKeeps == IInv /\ ResolveType => IInv'
<1> SUFFICES ASSUME IInv, ResolveType PROVE IInv'
  OBVIOUS
<1>1. Growing /\ UNCHANGED <<Deriving, tlv, open, types, members, next, errors, pc>>
  BY DEF ResolveType, Growing
<1> QED
  BY <1>1, GrowsOn DEF IInv, TypeOK, Sequences_, Growing

(* So does an Option.                                                      *)
LEMMA DeriveOptionKeeps == IInv /\ DeriveOption => IInv'
<1> SUFFICES ASSUME IInv, DeriveOption PROVE IInv'
  OBVIOUS
<1>1. Growing /\ UNCHANGED Deriving
  BY DEF DeriveOption, Growing
<1>2. \/ TypeError
      \/ Go("type") /\ UNCHANGED <<attr, tlv, open, types, members, next>>
  BY DEF DeriveOption
<1>3. CASE Go("type") /\ UNCHANGED <<attr, tlv, open, types, members, next>>
  BY <1>1, <1>3, GrowsOn DEF IInv, TypeOK, Sequences_, Go
<1> QED
  BY <1>1, <1>2, <1>3, TypeErrorKeeps

(* A type that is added to the output keeps it.                            *)
LEMMA DerivedKeeps ==
    ASSUME IInv, Growing, UNCHANGED Deriving, NEW type, Derived(type)
    PROVE  IInv'
<1>1. IsSequence(types')
  BY AppendKeeps DEF Derived, IInv, Sequences_
<1> QED
  BY <1>1, GrowsOn DEF IInv, TypeOK, Sequences_, Derived, Go

(* A string keeps it.                                                      *)
LEMMA DeriveStringTypeKeeps == IInv /\ DeriveStringType => IInv'
<1> SUFFICES ASSUME IInv, DeriveStringType PROVE IInv'
  OBVIOUS
<1>1. Growing /\ UNCHANGED Deriving
  BY DEF DeriveStringType, Growing
<1>2. TypeError \/ \E type : Derived(type)
  BY DEF DeriveStringType
<1> QED
  BY <1>1, <1>2, TypeErrorKeeps, DerivedKeeps

(* A named type keeps it.                                                  *)
LEMMA DeriveNamedTypeKeeps == IInv /\ DeriveNamedType => IInv'
<1> SUFFICES ASSUME IInv, DeriveNamedType PROVE IInv'
  OBVIOUS
<1>1. Growing /\ UNCHANGED Deriving /\ Derived(NamedType)
  BY DEF DeriveNamedType, Growing
<1> QED
  BY <1>1, DerivedKeeps

(* The bound on the length field size holds of every sequence inside.      *)
LEMMA DeriveElementKeeps ==
    ASSUME IInv, Growing, UNCHANGED Deriving, NEW elem, NEW sequence,
           sequence.lfs \in {0, 1, 2, 4}, DeriveElement(elem, sequence)
    PROVE  IInv'
<1>1. IsSequence(open)
  BY DEF IInv, Sequences_
<1>2. /\ IsSequence(open') /\ Len(open') = Len(open) + 1
      /\ open'[Len(open) + 1] = sequence
      /\ \A i \in 1 .. Len(open) : open'[i] = open[i]
  BY <1>1, AppendKeeps DEF DeriveElement
<1>3. DOMAIN open = 1 .. Len(open) /\ DOMAIN open' = 1 .. Len(open) + 1 /\ Len(open) \in Nat
  BY <1>1, <1>2, SequenceDomain
<1>4. \A i \in DOMAIN open' : open'[i].lfs \in {0, 1, 2, 4}
  BY <1>2, <1>3 DEF IInv, TypeOK
<1> QED
  BY <1>2, <1>4, GrowsOn DEF IInv, Sequences_, DeriveElement, Go

(* The size of a length field that has been checked is one.                *)
LEMMA SizedIsSize ==
    ASSUME NEW a, Sized(a, {"length_field_size"})
    PROVE  LengthFieldSizeOf(a, "length_field_size") \in {0, 1, 2, 4}
BY DEF Sized, LengthFieldSizeOf, BadSize

(* A Vec keeps it.                                                         *)
LEMMA DeriveSequenceTypeKeeps == IInv /\ DeriveSequenceType => IInv'
<1> SUFFICES ASSUME IInv, DeriveSequenceType PROVE IInv'
  OBVIOUS
<1>1. Growing /\ UNCHANGED Deriving
  BY DEF DeriveSequenceType, Growing
<1>2. \/ TypeError
      \/ \E sequence : /\ sequence.lfs \in {0, 1, 2, 4}
                       /\ DeriveElement(ty.vec, sequence)
  BY SizedIsSize DEF DeriveSequenceType
<1> QED
  BY <1>1, <1>2, TypeErrorKeeps, DeriveElementKeeps

(* An array keeps it.                                                      *)
LEMMA DeriveArrayTypeKeeps == IInv /\ DeriveArrayType => IInv'
<1> SUFFICES ASSUME IInv, DeriveArrayType PROVE IInv'
  OBVIOUS
<1>1. Growing /\ UNCHANGED Deriving
  BY DEF DeriveArrayType, Growing
<1>2. \/ TypeError
      \/ \E sequence : /\ sequence.lfs \in {0, 1, 2, 4}
                       /\ DeriveElement(ty.array, sequence)
  BY SizedIsSize DEF DeriveArrayType
<1> QED
  BY <1>1, <1>2, TypeErrorKeeps, DeriveElementKeeps

(* The end of an element type keeps it.                                    *)
LEMMA EndSequenceKeeps == IInv /\ EndSequence => IInv'
<1> SUFFICES ASSUME IInv, EndSequence PROVE IInv'
  OBVIOUS
<1>1. Growing /\ UNCHANGED <<Deriving, tlv, members, next, errors, pc>>
      /\ open # <<>> /\ open' = Front(open) /\ \E type : types' = Append(types, type)
  BY DEF EndSequence, Growing
<1>2. IsSequence(types')
  BY <1>1, AppendKeeps DEF IInv, Sequences_
<1>3. IsSequence(open') /\ \A i \in DOMAIN open' : open'[i].lfs \in {0, 1, 2, 4}
  BY <1>1, FrontKeeps DEF IInv, Sequences_, TypeOK
<1> QED
  BY <1>1, <1>2, <1>3, GrowsOn DEF IInv, TypeOK, Growing

(* The field that is complete now is counted with those before it.         *)
LEMMA EndTypeKeeps == IInv /\ EndType => IInv'
<1> SUFFICES ASSUME IInv, EndType PROVE IInv'
  OBVIOUS
<1>1. Growing /\ UNCHANGED Deriving /\ UNCHANGED <<tlv, open, types, errors>>
  BY DEF EndType, Growing, Go
<1>2. CASE decl.kind = "newtype"
  <2>1. pc' = "done" /\ UNCHANGED <<members, next>>
    BY <1>2 DEF EndType, Go
  <2>2. TypeOK'
    BY <1>1, <2>1 DEF IInv, TypeOK, Deriving, Pcs
  <2>3. Sequences_'
    BY <1>1, <2>1, SequencesStay DEF IInv, Sequences_, Deriving
  <2>4. Phases'
    BY <1>1, <1>2, <2>1 DEF IInv, Phases, Growing, Deriving
  <2>5. Apart'
    BY <1>1, <1>2 DEF Apart, Deriving
  <2> QED
    BY <2>2, <2>3, <2>4, <2>5 DEF IInv
<1>3. CASE decl.kind = "struct"
  <2> DEFINE field == [id |-> id, type |-> Len(types)]
  <2>1. pc' = "field" /\ Push(field)
    BY <1>3 DEF EndType, Go
  <2>2. field.id = id
    OBVIOUS
  <2> HIDE DEF field
  <2>3. /\ IsSequence(members')
        /\ Len(members') = Len(members) + 1
        /\ DOMAIN members = 1 .. Len(members)
        /\ DOMAIN members' = 1 .. Len(members) + 1
        /\ members'[Len(members) + 1] = field
        /\ \A i \in DOMAIN members : members'[i] = members[i]
        /\ next' \in 1 .. Len(decl.members) + 1
        /\ Len(members') = next' - 1
    BY <1>1, <1>3, <2>1, PushKeeps DEF IInv, Phases
  <2>4. Len(members) \in Nat
    BY SequenceDomain DEF IInv, Sequences_
  <2>5. TypeOK'
    BY <1>1, <2>1, <2>3 DEF IInv, TypeOK, Deriving, Pcs
  <2>6. Sequences_'
    BY <1>1, <2>3, SequencesStay DEF IInv, Sequences_, Deriving
  <2>7. Phases'
    BY <1>1, <1>3, <2>1, <2>3 DEF IInv, Phases, Growing, Deriving
  <2>8. ASSUME ~errors
        PROVE  IdsCounted' /\ IdsSeen'
    <3>1. IdsCounted /\ IdsSeen
      BY <1>3, <2>8 DEF IInv, Apart
    <3>2. Before' = encounteredIds /\ encounteredIds \in Nat
      BY <1>1, <2>1 DEF Before, Growing, Deriving, IInv, TypeOK
    <3>3. Before = IF id = NoId THEN encounteredIds ELSE encounteredIds - 1
      BY <1>1 DEF Before
    <3>4. IdsCounted'
      <4>1. Before \in 0 .. Len(members)
            /\ (Before = 0 => \A i \in DOMAIN members : members[i].id = NoId)
            /\ (Before = Len(members) => \A i \in DOMAIN members : members[i].id # NoId)
        BY <3>1 DEF IdsCounted
      <4>a. Len(members') = Len(members) + 1
        BY <2>3
      <4>b. Before \in 0 .. Len(members)
        BY <4>1
      <4>2. CASE id = NoId
        <5>1. Before' = Before
          BY <3>2, <3>3, <4>2
        <5>2. Before' \in 0 .. Len(members') /\ Before' # Len(members')
          BY <2>4, <4>a, <4>b, <5>1
        <5>3. Before' = 0 => \A i \in DOMAIN members' : members'[i].id = NoId
          BY <2>2, <2>3, <2>4, <4>1, <4>2, <5>1
        <5> QED
          BY <2>1, <5>2, <5>3 DEF IdsCounted
      <4>3. CASE id # NoId
        <5>1. Before' = Before + 1
          BY <3>2, <3>3, <4>3
        <5>2. Before' \in 0 .. Len(members') /\ Before' # 0
          BY <2>4, <4>a, <4>b, <5>1
        <5>3. Before' = Len(members') => Before = Len(members)
          BY <2>4, <4>a, <4>b, <5>1
        <5>4. Before' = Len(members') => \A i \in DOMAIN members' : members'[i].id # NoId
          <6> SUFFICES ASSUME Before = Len(members), NEW i \in DOMAIN members'
                       PROVE  members'[i].id # NoId
            BY <5>3
          <6>1. CASE i \in DOMAIN members
            BY <2>3, <4>1, <6>1
          <6>2. CASE i = Len(members) + 1
            BY <2>2, <2>3, <4>3, <6>2
          <6> QED
            BY <2>3, <2>4, <6>1, <6>2
        <5> QED
          BY <2>1, <5>2, <5>4 DEF IdsCounted
      <4> QED
        BY <4>2, <4>3
    <3>5. IdsSeen'
      BY <1>1, <2>1, <2>2, <2>3, <2>4, <3>1 DEF IdsSeen, Growing, Deriving
    <3> QED
      BY <3>4, <3>5
  <2>9. Apart'
    BY <1>1, <1>3, <2>8 DEF Apart, Deriving
  <2> QED
    BY <2>5, <2>6, <2>7, <2>9 DEF IInv
<1> QED
  BY <1>2, <1>3 DEF EndType

(* The attribute of an enum keeps it.                                      *)
LEMMA EnumAttributeKeeps == IInv /\ EnumAttribute => IInv'
<1> SUFFICES ASSUME IInv, EnumAttribute PROVE IInv'
  OBVIOUS
<1>1. /\ decl.kind = "enum" /\ members = <<>> /\ pc = "enum"
      /\ UNCHANGED <<decl, next, encounteredIds, seen, members, id, tlv, open, types>>
  BY DEF IInv, Phases, EnumAttribute
<1>2. CASE Abort
  BY <1>1, <1>2, AbortKeeps DEF IInv, TypeOK, Phases
<1>3. CASE Go("variant") /\ RawTypePath.path \in RawTypes
  <2>1. TypeOK'
    BY <1>1, <1>3 DEF IInv, TypeOK, Go, Pcs
  <2>2. Sequences_'
    BY <1>1, SequencesStay DEF IInv, Sequences_
  <2>3. Phases'
    BY <1>1, <1>3, RawTypeStays DEF IInv, Phases, Growing, Go
  <2>4. Apart'
    BY <1>1, <1>3, RawTypeStays, EmptyIsSequence DEF Apart, ValuesSeen, Go
  <2> QED
    BY <2>1, <2>2, <2>3, <2>4 DEF IInv
<1> QED
  BY <1>2, <1>3 DEF EnumAttribute

(* Casting a value to the unsigned type of its width and back.             *)
LEMMA BitsBack ==
    ASSUME NEW raw \in RawTypes, NEW value \in ValuesOf(raw)
    PROVE  ToBits(raw, value) \in Nat /\ FromBits(raw, ToBits(raw, value)) = value
<1>1. Half[raw] \in Nat
  BY WidthsAssumption DEF RawTypes, Unsigned, Signed
<1>2. CASE raw \in Unsigned
  <2>1. value \in 0 .. 2 * Half[raw] - 1 /\ raw \notin Signed
    BY <1>2 DEF ValuesOf, Unsigned, Signed
  <2> QED
    BY <1>1, <2>1 DEF ToBits, FromBits
<1>3. CASE raw \in Signed
  <2>1. value \in -Half[raw] .. Half[raw] - 1
    BY <1>3 DEF ValuesOf, Unsigned, Signed
  <2> QED
    BY <1>1, <1>3, <2>1 DEF ToBits, FromBits
<1> QED
  BY <1>2, <1>3 DEF RawTypes

(* A value of an enum keeps it: it is compared as written.                 *)
LEMMA ParseValueKeeps == IInv /\ ParseValue => IInv'
<1> SUFFICES ASSUME IInv, ParseValue PROVE IInv'
  OBVIOUS
<1> DEFINE raw == RawTypePath.path
           value == Value(VariantAttr, "value").int
<1>1. /\ decl.kind = "enum" /\ pc = "variant" /\ AtMember /\ raw \in RawTypes
      /\ UNCHANGED <<decl, encounteredIds, id, tlv, open, types, pc>>
  BY DEF IInv, Phases, ParseValue
<1>2. \/ errors' = TRUE /\ UNCHANGED seen /\ \E member : Push(member)
      \/ /\ value \in ValuesOf(raw)
         /\ seen' = seen \cup {ToBits(raw, value)}
         /\ errors' = (errors \/ ValueTaken(ToBits(raw, value)))
         /\ Push([name |-> Member.name, value |-> value])
  BY Zenon DEF ParseValue
<1> HIDE DEF raw, value
<1>3. PICK member : Push(member)
  BY <1>2
<1>4. /\ IsSequence(members')
      /\ Len(members') = Len(members) + 1
      /\ DOMAIN members = 1 .. Len(members)
      /\ DOMAIN members' = 1 .. Len(members) + 1
      /\ members'[Len(members) + 1] = member
      /\ \A i \in DOMAIN members : members'[i] = members[i]
      /\ next' \in 1 .. Len(decl.members) + 1
      /\ Len(members') = next' - 1
  BY <1>1, <1>3, PushKeeps DEF IInv
<1>5. Len(members) \in Nat /\ next = Len(members) + 1 /\ next \in DOMAIN decl.members
  BY <1>1, SequenceDomain DEF IInv, Sequences_, TypeOK, AtMember
<1>6. seen' \subseteq Nat
  <2>1. seen \subseteq Nat
    BY DEF IInv, TypeOK
  <2>2. value \in ValuesOf(raw) => ToBits(raw, value) \in Nat
    BY <1>1, BitsBack
  <2> QED
    BY <1>2, <2>1, <2>2
<1>7. TypeOK'
  BY <1>1, <1>2, <1>4, <1>6 DEF IInv, TypeOK, Pcs
<1>8. Sequences_'
  BY <1>1, <1>4, SequencesStay DEF IInv, Sequences_
<1>9. Phases'
  BY <1>1, RawTypeStays DEF IInv, Phases, Growing
<1>10. ASSUME ~errors'
       PROVE  ValuesSeen'
  <2>1. /\ value \in ValuesOf(raw)
        /\ seen' = seen \cup {ToBits(raw, value)}
        /\ ~errors /\ ToBits(raw, value) \notin seen
        /\ Push([name |-> Member.name, value |-> value])
    BY <1>2, <1>10, Zenon DEF ValueTaken
  <2>2. members'[Len(members) + 1] = [name |-> Member.name, value |-> value]
    BY <1>1, <2>1, PushKeeps DEF IInv
  <2>3. ValuesSeen
    BY <1>1, <2>1 DEF IInv, Apart
  <2>4. raw' = raw
    BY <1>1, RawTypeStays DEF raw
  <2>5. ASSUME NEW i \in DOMAIN members'
        PROVE  /\ i \in DOMAIN decl.members /\ members'[i].name = decl.members[i].name
               /\ members'[i].value \in ValuesOf(raw)
               /\ ToBits(raw, members'[i].value) \in seen'
    <3>1. CASE i \in DOMAIN members
      BY <1>4, <2>1, <2>3, <3>1 DEF ValuesSeen, raw
    <3>2. CASE i = next
      BY <1>4, <1>5, <2>1, <2>2, <3>2 DEF Member
    <3> QED
      BY <1>4, <1>5, <3>1, <3>2
  <2>6. \A i \in DOMAIN members : ToBits(raw, members[i].value) \in seen
    BY <2>3 DEF ValuesSeen, raw
  <2>7. ASSUME NEW i \in DOMAIN members', NEW j \in DOMAIN members',
               ToBits(raw, members'[i].value) = ToBits(raw, members'[j].value)
        PROVE  i = j
    <3>1. CASE i \in DOMAIN members /\ j \in DOMAIN members
      BY <1>4, <2>3, <2>7, <3>1 DEF ValuesSeen, raw
    <3>2. members'[next].value = value
      BY <1>5, <2>2
    <3>3. CASE i = next /\ j \in DOMAIN members
      BY <1>4, <2>1, <2>6, <2>7, <3>2, <3>3
    <3>4. CASE j = next /\ i \in DOMAIN members
      BY <1>4, <2>1, <2>6, <2>7, <3>2, <3>4
    <3> QED
      BY <1>4, <1>5, <3>1, <3>3, <3>4
  <2> QED
    BY <1>1, <2>4, <2>5, <2>7 DEF ValuesSeen, raw
<1>11. Apart'
  BY <1>1, <1>10 DEF Apart
<1> QED
  BY <1>7, <1>8, <1>9, <1>11 DEF IInv

(* The end of an enum keeps it.                                            *)
LEMMA EndEnumKeeps == IInv /\ EndEnum => IInv'
<1> SUFFICES ASSUME IInv, EndEnum PROVE IInv'
  OBVIOUS
<1>1. /\ decl.kind = "enum" /\ pc = "variant" /\ pc' = "done"
      /\ UNCHANGED <<decl, next, encounteredIds, seen, members, id, tlv, open, errors>>
      /\ \E type : types' = Append(types, type)
  BY DEF IInv, Phases, EndEnum, Go
<1>2. IsSequence(types')
  BY <1>1, AppendKeeps DEF IInv, Sequences_
<1>3. TypeOK'
  BY <1>1 DEF IInv, TypeOK, Pcs
<1>4. Sequences_'
  BY <1>1, <1>2, SequencesStay DEF IInv, Sequences_
<1>5. Phases'
  BY <1>1 DEF IInv, Phases, Growing
<1>6. Apart'
  BY <1>1, RawTypeStays DEF IInv, Apart, ValuesSeen
<1> QED
  BY <1>3, <1>4, <1>5, <1>6 DEF IInv

(* Standing still keeps it.                                                *)
LEMMA StutterKeeps == IInv /\ UNCHANGED vars => IInv'
<1> SUFFICES ASSUME IInv, UNCHANGED vars PROVE IInv'
  OBVIOUS
<1>1. TypeOK'
  BY DEF IInv, TypeOK, vars
<1>2. Sequences_'
  BY SequencesStay DEF IInv, Sequences_, vars
<1>3. Phases'
  BY RawTypeStays DEF IInv, Phases, Growing, AtMember, vars
<1>4. Apart'
  BY RawTypeStays DEF IInv, Apart, IdsCounted, IdsSeen, ValuesSeen, Before, Growing, vars
<1> QED
  BY <1>1, <1>2, <1>3, <1>4 DEF IInv

(* Every step keeps it.                                                    *)
LEMMA NextKeeps == IInv /\ [Next]_vars => IInv'
BY DeriveSomeIpKeeps, StructAttributeKeeps, FieldIdKeeps, EndStructKeeps, NewtypeKeeps,
   HandleTreatAsKeeps, ResolveTypeKeeps, DeriveOptionKeeps, DeriveStringTypeKeeps,
   DeriveSequenceTypeKeeps, DeriveArrayTypeKeeps, DeriveNamedTypeKeeps, EndSequenceKeeps,
   EndTypeKeeps, EnumAttributeKeeps, ParseValueKeeps, EndEnumKeeps, StutterKeeps
   DEF Next, Step, Done

(* The invariant always holds.                                             *)
LEMMA Invariant == Spec => []IInv
<1> QED
  BY InitIInv, NextKeeps, PTL DEF Spec

----------------------------------------------------------------------------
(***************************************************************************)
(* The theorems.                                                           *)
(***************************************************************************)

(* The state of the macro keeps its types, for every declaration.          *)
THEOREM TypeCorrect == Spec => []TypeOK
<1>1. IInv => TypeOK
  BY DEF IInv
<1> QED
  BY <1>1, Invariant, PTL

(* In whatever struct that compiles, with any number of fields, the ids    *)
(* tell the fields apart and leave the wire type's bits alone: the macro   *)
(* counts ids where it reads them, over fields that fail later too, and    *)
(* compares with the number of fields at the end.                          *)
THEOREM IdsAlwaysTellFieldsApart == Spec => []IdsTellFieldsApart
<1>1. ASSUME IInv PROVE IdsTellFieldsApart
  <2> SUFFICES ASSUME Accepted, decl.kind = "struct"
               PROVE  \A i, j \in DOMAIN members :
                        /\ members[i].id = members[j].id => i = j \/ members[i].id = NoId
                        /\ members[i].id <= MaxFieldId
                        /\ (members[i].id = NoId) = (members[j].id = NoId)
    BY DEF IdsTellFieldsApart
  <2>1. IdsCounted /\ IdsSeen /\ pc = "done"
    BY <1>1 DEF IInv, Apart, Accepted
  <2>2. Before \in {0, Len(members)}
    BY <2>1 DEF IdsCounted, Before, Growing
  <2>3. \/ \A i \in DOMAIN members : members[i].id = NoId
        \/ \A i \in DOMAIN members : members[i].id # NoId
    BY <2>1, <2>2 DEF IdsCounted
  <2>4. \A i \in DOMAIN members : members[i].id <= MaxFieldId
    BY <2>1 DEF IdsSeen, NoId, MaxFieldId
  <2> QED
    BY <2>1, <2>3, <2>4 DEF IdsSeen
<1> QED
  BY <1>1, Invariant, PTL

(* The first of one element.                                               *)
LEMMA FirstOfOne ==
    ASSUME NEW i \in Int
    PROVE  First({i}) = i
BY DEF First

(* In whatever enum that compiles, of any raw type, each variant is read   *)
(* from what is written for it, negative values included: the macro takes  *)
(* duplicates for those that are the same as written.                      *)
THEOREM EnumsAlwaysRoundTrip == Spec => []EnumsRoundTrip
<1>1. ASSUME IInv PROVE EnumsRoundTrip
  <2> DEFINE raw == RawTypePath.path
  <2> SUFFICES ASSUME Accepted, decl.kind = "enum", NEW i \in DOMAIN members
               PROVE  ValueToName(members, FromBits(raw, ToBits(raw,
                            NameToValue(members, members[i].name)))) = members[i].name
    BY DEF EnumsRoundTrip
  <2>1. ValuesSeen /\ raw \in RawTypes
    BY <1>1 DEF IInv, Apart, Accepted, ValuesSeen
  <2>2. i \in Int
    BY <1>1, SequenceDomain DEF IInv, Sequences_
  <2>3. {j \in DOMAIN members : members[j].name = members[i].name} = {i}
    BY <1>1, <2>1, DeclarationsAssumption DEF ValuesSeen, IInv, Sequences_
  <2>4. NameToValue(members, members[i].name) = members[i].value
    BY <2>2, <2>3, FirstOfOne DEF NameToValue
  <2>5. FromBits(raw, ToBits(raw, members[i].value)) = members[i].value
    BY <2>1, BitsBack DEF ValuesSeen
  <2>6. {j \in DOMAIN members : members[j].value = members[i].value} = {i}
    BY <2>1 DEF ValuesSeen
  <2>7. ValueToName(members, members[i].value) = members[i].name
    BY <2>2, <2>6, FirstOfOne DEF ValueToName
  <2> QED
    BY <2>4, <2>5, <2>7
<1> QED
  BY <1>1, Invariant, PTL

----------------------------------------------------------------------------
(***************************************************************************)
(* The table of the types, as verify goes through it.                      *)
(***************************************************************************)

(* What SOMEIP_TYPE of a named type refers to is in the table of its own   *)
(* declaration, where it is verified: in this one it is a leaf.            *)
NamedTypeIsLeaf == NamedType.kind \in {"prim", "bool", "enum", "string"}

(* A type that verify accepts, if it accepts those that it refers to, and  *)
(* which are in front of it.                                               *)
WellBuilt(table, t) ==
    \/ table[t].kind \in {"prim", "bool", "enum", "string"}
    \/ table[t].kind = "seq" /\ table[t].elem \in 1 .. t - 1
    \/ /\ table[t].kind = "struct"
       /\ \A i \in DOMAIN table[t].fields :
            /\ table[t].tlv <=> table[t].fields[i].id # NoId
            /\ table[t].fields[i].id <= MaxFieldId
            /\ table[t].fields[i].type \in 1 .. t - 1

Built ==
    ~errors =>
        /\ \A t \in 1 .. Len(types) : WellBuilt(types, t)
        /\ pc \in {"built", "done"} => Len(types) > 0
        /\ decl.kind = "struct" =>
             \A i \in DOMAIN members : members[i].type \in 1 .. Len(types)

(* An entry in front of the end of a longer table is what it was.          *)
LEMMA AppendBuilt ==
    ASSUME NEW table, NEW type, IsSequence(table),
           \A t \in 1 .. Len(table) : WellBuilt(table, t),
           WellBuilt(Append(table, type), Len(table) + 1)
    PROVE  /\ Len(Append(table, type)) = Len(table) + 1
           /\ \A t \in 1 .. Len(table) + 1 : WellBuilt(Append(table, type), t)
<1>1. /\ Len(Append(table, type)) = Len(table) + 1
      /\ \A t \in 1 .. Len(table) : Append(table, type)[t] = table[t]
  BY AppendKeeps
<1>2. Len(table) \in Nat
  BY SequenceDomain
<1>3. \A t \in 1 .. Len(table) : WellBuilt(Append(table, type), t)
  BY <1>1 DEF WellBuilt
<1>4. \A t \in 1 .. Len(table) + 1 : t \in 1 .. Len(table) \/ t = Len(table) + 1
  BY <1>2
<1> QED
  BY <1>1, <1>3, <1>4

(* A step that adds nothing to the table or to the fields.                 *)
LEMMA TableStays ==
    ASSUME Built, UNCHANGED <<decl, members, types>>, errors => errors',
           errors' \/ pc' \notin {"built", "done"}
    PROVE  Built'
BY DEF Built

(* A step of derive_type that completes a type, or the last one.           *)
LEMMA TableGrows ==
    ASSUME IInv, Built, UNCHANGED <<decl, members>>, errors => errors',
           NEW type, types' = Append(types, type),
           ~errors => WellBuilt(Append(types, type), Len(types) + 1)
    PROVE  Built'
<1> SUFFICES ASSUME ~errors' PROVE Built'
  BY DEF Built
<1>1. ~errors /\ IsSequence(types) /\ Len(types) \in Nat
  BY SequenceDomain DEF IInv, Sequences_
<1>2. /\ Len(types') = Len(types) + 1
      /\ \A t \in 1 .. Len(types) + 1 : WellBuilt(types', t)
  BY <1>1, AppendBuilt DEF Built
<1>3. \A n \in 1 .. Len(types) : n \in 1 .. Len(types) + 1
  BY <1>1
<1> QED
  BY <1>1, <1>2, <1>3 DEF Built

(* An error in a type.                                                     *)
LEMMA ErrorBuilt == errors' => Built'
BY DEF Built

(* A type without others inside it.                                        *)
LEMMA LeafBuilt ==
    ASSUME NEW table, NEW type, IsSequence(table),
           type.kind \in {"prim", "bool", "enum", "string"}
    PROVE  WellBuilt(Append(table, type), Len(table) + 1)
BY AppendKeeps DEF WellBuilt

(* The steps that look at an item, a field or a variant add no type.       *)
LEMMA LookingBuilds ==
    ASSUME Built,
           \/ DeriveSomeIp \/ StructAttribute \/ FieldId \/ Newtype
           \/ HandleTreatAs \/ ResolveType \/ DeriveOption \/ EnumAttribute
    PROVE  Built'
<1>1. ASSUME DeriveSomeIp PROVE Built'
  BY <1>1, TableStays DEF DeriveSomeIp, Abort, Go
<1>2. ASSUME StructAttribute PROVE Built'
  BY <1>2, TableStays DEF StructAttribute, Abort, Go
<1>3. ASSUME FieldId PROVE Built'
  <2>1. errors => errors'
    BY ONLY <1>3, Zenon DEF FieldId, Abort, Go
  <2>2. errors' \/ pc' = "type"
    BY ONLY <1>3, Zenon DEF FieldId, Abort, Go
  <2>3. UNCHANGED <<decl, members, types>>
    BY <1>3 DEF FieldId
  <2> QED
    BY <2>1, <2>2, <2>3, TableStays
<1>4. ASSUME Newtype PROVE Built'
  BY <1>4, TableStays DEF Newtype, Abort, Go
<1>5. ASSUME HandleTreatAs PROVE Built'
  <2>1. \/ errors'
        \/ UNCHANGED <<decl, members, types>> /\ pc' = "resolve" /\ errors' = errors
    BY <1>5 DEF HandleTreatAs, TypeError, Go, Deriving
  <2> QED
    BY <2>1, TableStays, ErrorBuilt
<1>6. ASSUME ResolveType PROVE Built'
  BY <1>6, TableStays DEF ResolveType, Deriving
<1>7. ASSUME DeriveOption PROVE Built'
  <2>1. \/ errors'
        \/ UNCHANGED <<decl, members, types>> /\ pc' = "type" /\ errors' = errors
    BY <1>7 DEF DeriveOption, TypeError, Go, Deriving
  <2> QED
    BY <2>1, TableStays, ErrorBuilt
<1>8. ASSUME EnumAttribute PROVE Built'
  BY <1>8, TableStays DEF EnumAttribute, Abort, Go
<1> QED
  BY <1>1, <1>2, <1>3, <1>4, <1>5, <1>6, <1>7, <1>8

(* A sequence waits in `open` until its elements are complete.             *)
LEMMA OpeningBuilds ==
    ASSUME Built, DeriveSequenceType \/ DeriveArrayType
    PROVE  Built'
<1>1. \/ errors'
      \/ UNCHANGED <<decl, members, types>> /\ pc' = "type" /\ errors' = errors
  BY DEF DeriveSequenceType, DeriveArrayType, DeriveElement, TypeError, Go, Deriving
<1> QED
  BY <1>1, TableStays, ErrorBuilt

(* Strings and named types are complete at once, and so is an enum.        *)
LEMMA LeafStepBuilds ==
    ASSUME NamedTypeIsLeaf, IInv, Built, DeriveStringType \/ DeriveNamedType \/ EndEnum
    PROVE  Built'
<1>1. ASSUME ~errors'
      PROVE  \E type : /\ types' = Append(types, type)
                       /\ type.kind \in {"prim", "bool", "enum", "string"}
                       /\ UNCHANGED <<decl, members, errors>>
  <2>1. CASE DeriveStringType
    <3> DEFINE a == Checked(attr, [max_size |-> "int"],
                     [min_size |-> "int", length_field_size |-> "int"], {"treat_as", "id"})
               string == [kind |-> "string", min |-> MinSize(a, "min_size"),
                          max |-> Value(a, "max_size").int,
                          lfs |-> LengthFieldSizeOf(a, "length_field_size")]
    <3>1. Derived(string) /\ UNCHANGED Deriving
      BY <1>1, <2>1 DEF DeriveStringType, TypeError
    <3>2. string.kind = "string"
      OBVIOUS
    <3> HIDE DEF string
    <3> QED
      BY <3>1, <3>2 DEF Derived, Go, Deriving
  <2>2. CASE DeriveNamedType
    BY <2>2 DEF NamedTypeIsLeaf, DeriveNamedType, Derived, Go, Deriving
  <2>3. CASE EndEnum
    BY <2>3 DEF EndEnum, Go
  <2> QED
    BY <2>1, <2>2, <2>3
<1>2. CASE ~errors'
  <2>1. PICK type : /\ types' = Append(types, type)
                    /\ type.kind \in {"prim", "bool", "enum", "string"}
                    /\ UNCHANGED <<decl, members, errors>>
    BY <1>1, <1>2
  <2>2. WellBuilt(Append(types, type), Len(types) + 1)
    BY <2>1, LeafBuilt DEF IInv, Sequences_
  <2> QED
    BY <2>1, <2>2, TableGrows
<1> QED
  BY <1>2, ErrorBuilt

(* A sequence refers to the type in front of it.                           *)
LEMMA EndSequenceBuilds ==
    ASSUME IInv, Built, EndSequence
    PROVE  Built'
<1> DEFINE sequence == [kind |-> "seq", min |-> Last(open).min, max |-> Last(open).max,
                        elem |-> Len(types), lfs |-> Last(open).lfs]
<1>1. /\ types' = Append(types, sequence) /\ pc = "built"
      /\ UNCHANGED <<decl, members, errors, pc>>
  BY DEF EndSequence, Deriving
<1>2. sequence.kind = "seq" /\ sequence.elem = Len(types)
  OBVIOUS
<1> HIDE DEF sequence
<1>3. IsSequence(types) /\ Len(types) \in Nat
  BY SequenceDomain DEF IInv, Sequences_
<1>4. Append(types, sequence)[Len(types) + 1] = sequence
  BY <1>3, AppendKeeps
<1>5. ~errors => Len(types) > 0
  BY <1>1 DEF Built
<1>6. ~errors => WellBuilt(Append(types, sequence), Len(types) + 1)
  BY <1>2, <1>3, <1>4, <1>5 DEF WellBuilt
<1> QED
  BY <1>1, <1>6, TableGrows

(* The type of a field is the last one that is complete.                   *)
LEMMA EndTypeBuilds ==
    ASSUME IInv, Built, EndType
    PROVE  Built'
<1> SUFFICES ASSUME ~errors' PROVE Built'
  BY DEF Built
<1>1. /\ pc = "built" /\ UNCHANGED <<decl, types, errors>> /\ ~errors
      /\ Growing
  BY DEF EndType, Go, Deriving, Growing
<1>2. Len(types) > 0 /\ Len(types) \in Nat
  BY <1>1, SequenceDomain DEF Built, IInv, Sequences_
<1>3. CASE decl.kind = "newtype"
  BY <1>1, <1>2, <1>3 DEF EndType, Go, Built
<1>4. CASE decl.kind = "struct"
  <2> DEFINE field == [id |-> id, type |-> Len(types)]
  <2>1. Push(field) /\ pc' = "field"
    BY <1>4 DEF EndType, Go
  <2>2. field.type = Len(types)
    OBVIOUS
  <2> HIDE DEF field
  <2>3. /\ DOMAIN members = 1 .. Len(members)
        /\ DOMAIN members' = 1 .. Len(members) + 1
        /\ members'[Len(members) + 1] = field
        /\ \A i \in DOMAIN members : members'[i] = members[i]
    BY <1>1, <1>4, <2>1, PushKeeps DEF IInv, Phases
  <2>4. Len(members) \in Nat
    BY SequenceDomain DEF IInv, Sequences_
  <2>5. \A i \in DOMAIN members : members[i].type \in 1 .. Len(types)
    BY <1>1, <1>4 DEF Built
  <2>6. \A i \in DOMAIN members' : members'[i].type \in 1 .. Len(types)
    BY <1>2, <2>2, <2>3, <2>4, <2>5
  <2> QED
    BY <1>1, <1>2, <2>1, <2>6 DEF Built
<1> QED
  BY <1>3, <1>4 DEF EndType

(* A variant is no field.                                                  *)
LEMMA ParseValueBuilds ==
    ASSUME IInv, Built, ParseValue
    PROVE  Built'
<1>1. decl.kind = "enum" /\ pc = "variant" /\ UNCHANGED <<decl, types, pc>>
  BY DEF IInv, Phases, ParseValue
<1>2. errors => errors'
  BY Zenon DEF ParseValue
<1> QED
  BY <1>1, <1>2 DEF Built

(* With an id for every field or for none the struct is as its tlv says.   *)
LEMMA EndStructBuilds ==
    ASSUME IInv, Built, EndStruct
    PROVE  Built'
<1> SUFFICES ASSUME ~errors' PROVE Built'
  BY DEF Built
<1> DEFINE a == StructAttr
           struct == [kind |-> "struct", fields |-> members, tlv |-> encounteredIds > 0,
                      wrapper |-> Has(a, "message_wrapper") /\ Value(a, "message_wrapper").bool,
                      lfs |-> LengthFieldSizeOf(a, "length_field_size"),
                      props |-> TransformationProps(a)]
<1>1. /\ pc = "field" /\ UNCHANGED <<decl, members, errors>> /\ ~errors
      /\ types' = Append(types, struct) /\ encounteredIds \in {0, Len(members)}
  BY DEF EndStruct, Go, Abort
<1>2. /\ struct.kind = "struct" /\ struct.fields = members
      /\ struct.tlv = (encounteredIds > 0)
  OBVIOUS
<1> HIDE DEF struct
<1>3. decl.kind = "struct" /\ IdsCounted /\ IdsSeen
  BY <1>1 DEF IInv, Apart, Phases
<1>4. /\ IsSequence(types) /\ Len(types) \in Nat
      /\ Len(members) \in Nat /\ DOMAIN members = 1 .. Len(members)
  BY SequenceDomain DEF IInv, Sequences_
<1>5. Append(types, struct)[Len(types) + 1] = struct
  BY <1>4, AppendKeeps
<1>6. Before = encounteredIds
  BY <1>1 DEF Before, Growing
<1>7. ASSUME NEW i \in DOMAIN members
      PROVE  /\ struct.tlv <=> members[i].id # NoId
             /\ members[i].id <= MaxFieldId
             /\ members[i].type \in 1 .. Len(types)
  <2>1. members[i].id <= MaxFieldId
    BY <1>3, <1>7 DEF IdsSeen, NoId, MaxFieldId
  <2>2. members[i].type \in 1 .. Len(types)
    BY <1>1, <1>3, <1>7 DEF Built
  <2>3. CASE encounteredIds = 0
    <3>1. members[i].id = NoId
      BY <1>3, <1>6, <1>7, <2>3 DEF IdsCounted
    <3>2. ~(encounteredIds > 0)
      BY <2>3
    <3>3. ~struct.tlv
      BY <1>2, <3>2, Zenon
    <3> QED
      BY <2>1, <2>2, <3>1, <3>3
  <2>4. CASE encounteredIds = Len(members)
    <3>1. members[i].id # NoId
      BY <1>3, <1>6, <1>7, <2>4 DEF IdsCounted
    <3>2. encounteredIds > 0
      BY <1>4, <1>7, <2>4
    <3> QED
      BY <1>2, <2>1, <2>2, <3>1, <3>2
  <2> QED
    BY <1>1, <2>3, <2>4
<1>8. WellBuilt(Append(types, struct), Len(types) + 1)
  BY <1>2, <1>4, <1>5, <1>7 DEF WellBuilt
<1> QED
  BY <1>1, <1>8, TableGrows

(* Standing still keeps the table.                                         *)
LEMMA StutterBuilds ==
    ASSUME Built, UNCHANGED vars
    PROVE  Built'
BY DEF Built, vars

(* Every step keeps it.                                                    *)
LEMMA NextBuilds == NamedTypeIsLeaf /\ IInv /\ Built /\ [Next]_vars => Built'
BY LookingBuilds, OpeningBuilds, LeafStepBuilds, EndSequenceBuilds, EndTypeBuilds,
   ParseValueBuilds, EndStructBuilds, StutterBuilds
   DEF Next, Step, Done

(* The table is always well built, unless the declaration has an error.    *)
LEMMA AlwaysBuilt ==
    ASSUME NamedTypeIsLeaf
    PROVE  Spec => []Built
<1>1. Init => Built
  BY EmptyIsSequence DEF Init, Built
<1> QED
  BY <1>1, NextBuilds, Invariant, PTL DEF Spec

VerifiesBy(accepted) ==
    accepted = [t \in DOMAIN types |-> VerifyType(types[t], accepted)]

(* verify is what the entries say, if there is anything that is.           *)
LEMMA VerifyIsChosen == VerifyTable(types) = CHOOSE f : VerifiesBy(f)
BY DEF VerifyTable, VerifiesBy

(* A well built entry is accepted when those that it refers to are.        *)
LEMMA EntryVerifies ==
    ASSUME NEW f, NEW t, WellBuilt(types, t), BoundsInOrder(types[t]),
           \A u \in 1 .. t - 1 : f[u] = TRUE
    PROVE  VerifyType(types[t], f) = TRUE
<1>1. CASE types[t].kind \in {"prim", "bool", "enum"}
  BY <1>1 DEF VerifyType, IsFixed
<1>2. CASE types[t].kind = "string"
  BY <1>2 DEF VerifyType, BoundsInOrder
<1>3. CASE types[t].kind = "seq"
  <2>1. f[types[t].elem] = TRUE /\ types[t].min <= types[t].max /\ types[t].max <= Max32
    BY <1>3 DEF WellBuilt, BoundsInOrder
  <2> QED
    BY <1>3, <2>1 DEF VerifyType, IsFixed
<1>4. CASE types[t].kind = "struct"
  <2>1. \A i \in DOMAIN types[t].fields :
          /\ types[t].tlv <=> types[t].fields[i].id # NoId
          /\ types[t].fields[i].id <= MaxFieldId
          /\ f[types[t].fields[i].type] = TRUE
    BY <1>4 DEF WellBuilt
  <2>2. VerifyType(types[t], f) = \A i \in DOMAIN types[t].fields :
          /\ types[t].tlv <=> types[t].fields[i].id # NoId
          /\ types[t].fields[i].id <= MaxFieldId
          /\ f[types[t].fields[i].type]
    BY <1>4 DEF VerifyType, IsFixed
  <2> QED
    BY <2>1, <2>2
<1> QED
  BY <1>1, <1>2, <1>3, <1>4 DEF WellBuilt

(* In a well built table, with the bounds in order, verify accepts every   *)
(* type: by induction on its place in the table.                           *)
LEMMA WellBuiltVerifies ==
    ASSUME IsSequence(types), \A t \in 1 .. Len(types) : WellBuilt(types, t),
           \A t \in DOMAIN types : BoundsInOrder(types[t])
    PROVE  \A t \in 1 .. Len(types) : VerifyTable(types)[t] = TRUE
<1> DEFINE accepted == [t \in DOMAIN types |-> TRUE]
           result == VerifyTable(types)
<1>1. Len(types) \in Nat /\ DOMAIN types = 1 .. Len(types)
  BY SequenceDomain
<1>2. VerifiesBy(accepted)
  <2>1. ASSUME NEW t \in DOMAIN types
        PROVE  VerifyType(types[t], accepted) = TRUE
    <3>1. \A u \in 1 .. t - 1 : accepted[u] = TRUE
      BY <1>1
    <3> HIDE DEF accepted
    <3> QED
      BY <1>1, <3>1, EntryVerifies
  <2> QED
    BY <2>1 DEF VerifiesBy
<1>3. VerifiesBy(result)
  <2>1. result = CHOOSE f : VerifiesBy(f)
    BY VerifyIsChosen
  <2> HIDE DEF accepted, result
  <2> QED
    BY <1>2, <2>1
<1> HIDE DEF accepted, result
<1>4. \A t \in 1 .. Len(types) : result[t] = VerifyType(types[t], result)
  BY <1>1, <1>3 DEF VerifiesBy
<1> DEFINE S == {n \in Nat : \A t \in 1 .. Len(types) : t <= n => result[t] = TRUE}
<1>5. 0 \in S
  BY <1>1
<1>6. ASSUME NEW n \in Nat, n \in S
      PROVE  n + 1 \in S
  <2>1. \A t \in 1 .. Len(types) : t <= n => result[t] = TRUE
    BY <1>6
  <2>2. ASSUME NEW t \in 1 .. Len(types), t = n + 1
        PROVE  result[t] = TRUE
    <3>1. \A u \in 1 .. t - 1 : result[u] = TRUE
      BY <1>1, <2>1, <2>2
    <3> QED
      BY <1>1, <1>4, <3>1, EntryVerifies
  <2>3. \A t \in 1 .. Len(types) : t <= n + 1 => t <= n \/ t = n + 1
    BY <1>1
  <2>4. \A t \in 1 .. Len(types) : t <= n + 1 => result[t] = TRUE
    BY <2>1, <2>2, <2>3
  <2> QED
    BY <2>4
<1> HIDE DEF S
<1>7. Nat \subseteq S
  BY <1>5, <1>6, NatInductive
<1>8. Len(types) \in S
  BY <1>1, <1>7
<1> QED
  BY <1>1, <1>8 DEF S, result

(* What compiles is a table that verify accepts, for every declaration: a  *)
(* struct whose fields have an id each or none, with ids of twelve bits,   *)
(* of strings, sequences in sequences and named types.  The order of the   *)
(* bounds is what the property asks for and the macro does not look at.    *)
THEOREM AcceptedIsAlwaysVerifiable ==
    ASSUME NamedTypeIsLeaf
    PROVE  Spec => []AcceptedIsVerifiable
<1>1. ASSUME IInv, Built PROVE AcceptedIsVerifiable
  <2> SUFFICES ASSUME Accepted, \A i \in DOMAIN types : BoundsInOrder(types[i])
               PROVE  VerifyTable(types)[Len(types)] = TRUE
    BY DEF AcceptedIsVerifiable
  <2>1. /\ \A t \in 1 .. Len(types) : WellBuilt(types, t)
        /\ Len(types) > 0
    BY <1>1 DEF Built, Accepted
  <2>2. IsSequence(types) /\ Len(types) \in 1 .. Len(types)
    BY <1>1, <2>1, SequenceDomain DEF IInv, Sequences_
  <2> QED
    BY <2>1, <2>2, WellBuiltVerifies
<1> QED
  BY <1>1, Invariant, AlwaysBuilt, PTL
=============================================================================
