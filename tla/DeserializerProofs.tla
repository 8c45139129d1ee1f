------------------------- MODULE DeserializerProofs -------------------------
(***************************************************************************)
(* The deserializer's invariants, for all types, options, readers and any  *)
(* data: what the sections leave to each other, the inductive invariant,   *)
(* and the theorems it gives.                                              *)
(***************************************************************************)
EXTENDS DeserializerWindows, SomeIpTypesProofs, Induction

----------------------------------------------------------------------------
(***************************************************************************)
(* Sections within each other.                                             *)
(*                                                                         *)
(* Only the innermost section is counted down, so that no read shows       *)
(* whether the reader and the outer sections can afford it.  They can if   *)
(* each section ends no later than the one around it: `floors[k]` is what  *)
(* the reader has left at the end of section k.                            *)
(***************************************************************************)
Floors(secs, left, floors) ==
    /\ floors \in [1 .. Len(secs) + 1 -> Nat]
    /\ floors[Len(secs) + 1] = left
    /\ \A k \in 1 .. Len(secs) : floors[k] + secs[k] = floors[k + 1]

Covered(secs, left) == \E floors : Floors(secs, left, floors)

(* What remaining() says for sections and a reader.                        *)
Left(secs, left) == IF secs = <<>> THEN left ELSE Last(secs)

(* What the floors say of one section.                                     *)
LEMMA FloorsAt ==
    ASSUME NEW secs \in Seq(Nat), NEW left \in Nat, NEW floors, Floors(secs, left, floors)
    PROVE  /\ Len(secs) \in Nat
           /\ floors[Len(secs) + 1] = left
           /\ \A k \in 1 .. Len(secs) :
                 /\ secs[k] \in Nat /\ floors[k] \in Nat /\ floors[k + 1] \in Nat
                 /\ floors[k] + secs[k] = floors[k + 1]
<1>1. Len(secs) \in Nat /\ \A k \in 1 .. Len(secs) : secs[k] \in Nat
  OBVIOUS
<1>2. floors \in [1 .. Len(secs) + 1 -> Nat]
  BY DEF Floors
<1>3. \A k \in 1 .. Len(secs) : k \in 1 .. Len(secs) + 1 /\ k + 1 \in 1 .. Len(secs) + 1
  BY <1>1
<1>4. \A k \in 1 .. Len(secs) : floors[k] \in Nat /\ floors[k + 1] \in Nat
  BY <1>2, <1>3
<1> QED
  BY <1>1, <1>4 DEF Floors

(* The reader has what the innermost section asks for.                     *)
LEMMA CoveredFits ==
    ASSUME NEW secs \in Seq(Nat), NEW left \in Nat, Covered(secs, left)
    PROVE  Left(secs, left) \in Nat /\ Left(secs, left) <= left
<1>1. PICK floors : Floors(secs, left, floors)
  BY DEF Covered
<1>2. CASE secs = <<>>
  BY <1>2 DEF Left
<1>3. CASE secs # <<>>
  <2>1. /\ Len(secs) \in 1 .. Len(secs) /\ Last(secs) \in Nat
        /\ floors[Len(secs)] + Last(secs) = left /\ floors[Len(secs)] \in Nat
    <3>1. Len(secs) \in 1 .. Len(secs) /\ Last(secs) = secs[Len(secs)]
      BY <1>3 DEF Last
    <3> QED
      BY <1>1, <3>1, FloorsAt
  <2> QED
    BY <1>3, <2>1 DEF Left
<1> QED
  BY <1>2, <1>3

(* Reading moves the reader and the innermost section alike.               *)
LEMMA LessCovered ==
    ASSUME NEW secs \in Seq(Nat), NEW left \in Nat, Covered(secs, left),
           NEW n \in Nat, n <= Left(secs, left)
    PROVE  /\ Less(secs, n) \in Seq(Nat)
           /\ Len(Less(secs, n)) = Len(secs)
           /\ left - n \in Nat
           /\ Covered(Less(secs, n), left - n)
<1>1. left - n \in Nat
  BY CoveredFits
<1>2. PICK floors : Floors(secs, left, floors)
  BY DEF Covered
<1> DEFINE lower == [floors EXCEPT ![Len(secs) + 1] = left - n]
<1>3. lower \in [1 .. Len(secs) + 1 -> Nat] /\ lower[Len(secs) + 1] = left - n
      /\ \A k \in 1 .. Len(secs) : lower[k] = floors[k]
  BY <1>1, <1>2 DEF Floors
<1> HIDE DEF lower
<1>4. CASE secs = <<>>
  <2>1. Less(secs, n) = secs /\ Len(secs) = 0
    BY <1>4 DEF Less
  <2>2. Floors(secs, left - n, lower)
    BY <1>3, <2>1 DEF Floors
  <2> QED
    BY <1>1, <2>1, <2>2 DEF Covered
<1>5. CASE secs # <<>>
  <2>1. Len(secs) \in 1 .. Len(secs) /\ Last(secs) = secs[Len(secs)] /\ n <= Last(secs)
        /\ Last(secs) \in Nat
    BY <1>5 DEF Left, Last
  <2>2. /\ Less(secs, n) \in Seq(Nat) /\ Len(Less(secs, n)) = Len(secs)
        /\ \A k \in 1 .. Len(secs) :
             Less(secs, n)[k] = IF k = Len(secs) THEN secs[k] - n ELSE secs[k]
    <3>1. secs[Len(secs)] - n \in Nat
      BY <2>1
    <3>2. Less(secs, n) = [secs EXCEPT ![Len(secs)] = secs[Len(secs)] - n]
      BY <1>5 DEF Less
    <3> QED
      BY <2>1, <3>1, <3>2, ExceptSeq
  <2>3. \A k \in 1 .. Len(secs) : lower[k] + Less(secs, n)[k] = lower[k + 1]
    <3> TAKE k \in 1 .. Len(secs)
    <3>1. floors[k] + secs[k] = floors[k + 1] /\ floors[Len(secs) + 1] = left
          /\ floors[k] \in Nat /\ secs[k] \in Nat
      BY <1>2, FloorsAt
    <3>2. CASE k = Len(secs)
      BY <1>3, <2>2, <3>1, <3>2
    <3>3. CASE k # Len(secs)
      <4>1. k + 1 \in 1 .. Len(secs)
        BY <3>3
      <4> QED
        BY <1>3, <2>2, <3>1, <3>3, <4>1
    <3> QED
      BY <3>2, <3>3
  <2> QED
    BY <1>1, <1>3, <2>2, <2>3 DEF Floors, Covered
<1> QED
  BY <1>4, <1>5

(* A section takes its bytes from the one around it.                       *)
LEMMA AppendCovered ==
    ASSUME NEW secs \in Seq(Nat), NEW left \in Nat, Covered(secs, left), NEW len \in Nat
    PROVE  /\ Append(secs, len) \in Seq(Nat)
           /\ Len(Append(secs, len)) = Len(secs) + 1
           /\ Covered(Append(secs, len), left + len)
<1>1. PICK floors : Floors(secs, left, floors)
  BY DEF Covered
<1> DEFINE n == Len(secs) + 1
           more == [k \in 1 .. n + 1 |-> IF k = n + 1 THEN left + len ELSE floors[k]]
<1>2. n \in Nat /\ floors \in [1 .. n -> Nat] /\ floors[n] = left
  BY <1>1 DEF Floors
<1>3. more \in [1 .. n + 1 -> Nat] /\ more[n + 1] = left + len
      /\ \A k \in 1 .. n : more[k] = floors[k]
  BY <1>2
<1>4. Append(secs, len) \in Seq(Nat) /\ Len(Append(secs, len)) = n
      /\ \A k \in 1 .. n : Append(secs, len)[k] = IF k = n THEN len ELSE secs[k]
  OBVIOUS
<1> HIDE DEF more
<1>5. \A k \in 1 .. n : more[k] + Append(secs, len)[k] = more[k + 1]
  <2> TAKE k \in 1 .. n
  <2>1. CASE k = n
    BY <1>2, <1>3, <1>4, <2>1
  <2>2. CASE k # n
    <3>1. k \in 1 .. Len(secs) /\ k + 1 \in 1 .. n
      BY <2>2
    <3> QED
      BY <1>1, <1>3, <1>4, <2>2, <3>1 DEF Floors
  <2> QED
    BY <2>1, <2>2
<1> QED
  BY <1>3, <1>4, <1>5 DEF Floors, Covered

(* An empty section can be dropped.                                        *)
LEMMA FrontCovered ==
    ASSUME NEW secs \in Seq(Nat), NEW left \in Nat, Covered(secs, left),
           secs # <<>>, Last(secs) = 0
    PROVE  /\ Front(secs) \in Seq(Nat)
           /\ Len(Front(secs)) = Len(secs) - 1
           /\ Covered(Front(secs), left)
<1>1. PICK floors : Floors(secs, left, floors)
  BY DEF Covered
<1>2. /\ Front(secs) \in Seq(Nat) /\ Len(Front(secs)) = Len(secs) - 1
      /\ \A k \in 1 .. Len(secs) - 1 : Front(secs)[k] = secs[k]
  BY FrontIsSeq
<1>3. Len(secs) \in Nat /\ Len(secs) \in 1 .. Len(secs) /\ secs[Len(secs)] = 0
  BY DEF Last
<1> DEFINE fewer == [k \in 1 .. Len(secs) |-> floors[k]]
<1>4. fewer \in [1 .. Len(secs) -> Nat] /\ \A k \in 1 .. Len(secs) : fewer[k] = floors[k]
  BY <1>1, FloorsAt
<1> HIDE DEF fewer
<1>5. fewer[Len(secs)] = left
  <2>1. floors[Len(secs)] + secs[Len(secs)] = left /\ floors[Len(secs)] \in Nat
    BY <1>1, <1>3, FloorsAt
  <2> QED
    BY <1>3, <1>4, <2>1
<1>6. \A k \in 1 .. Len(secs) - 1 : fewer[k] + Front(secs)[k] = fewer[k + 1]
  <2> TAKE k \in 1 .. Len(secs) - 1
  <2>1. k \in 1 .. Len(secs) /\ k + 1 \in 1 .. Len(secs)
    BY <1>3
  <2>2. floors[k] + secs[k] = floors[k + 1]
    BY <1>1, <2>1, FloorsAt
  <2>3. fewer[k] = floors[k] /\ fewer[k + 1] = floors[k + 1] /\ Front(secs)[k] = secs[k]
    BY <1>2, <1>4, <2>1
  <2> QED
    BY <2>2, <2>3
<1>7. Floors(Front(secs), left, fewer)
  <2>1. Len(Front(secs)) + 1 = Len(secs)
    BY <1>2, <1>3
  <2> QED
    BY <1>2, <1>4, <1>5, <1>6, <2>1 DEF Floors
<1> QED
  BY <1>2, <1>7 DEF Covered

----------------------------------------------------------------------------
(***************************************************************************)
(* The reader.                                                             *)
(***************************************************************************)

(* Every Read has as many bytes as from_reader was told.                   *)
CompleteReaders == \A r \in Readers : r.remaining <= r.available

(* A slice, and any reader of CompleteReaders, still has what it has to    *)
(* give and the n bytes to discard that are counted already.               *)
Backed(r, n) == CanBorrow(r) \/ CompleteReaders => r.remaining + n <= r.available

Balance(r, n) == r.remaining - r.available + n

(* The smaller of two numbers.                                             *)
LEMMA MinOfTwo ==
    ASSUME NEW a \in Nat, NEW b \in Nat
    PROVE  Min({a, b}) = IF a <= b THEN a ELSE b
<1> DEFINE m == IF a <= b THEN a ELSE b
<1>1. m \in {a, b} /\ \A y \in {a, b} : m <= y
  OBVIOUS
<1>2. \A x \in {a, b} : (\A y \in {a, b} : x <= y) => x = m
  OBVIOUS
<1> HIDE DEF m
<1>3. Min({a, b}) = m
  BY <1>1, <1>2 DEF Min
<1> QED
  BY <1>3 DEF m

(* Reading what is there.                                                  *)
LEMMA AdvanceReader ==
    ASSUME NEW r \in Reader, NEW n \in Nat, n <= r.remaining
    PROVE  /\ Advance(r, n) \in Reader
           /\ Advance(r, n).remaining = r.remaining - n
           /\ n <= r.available => Advance(r, n).available = r.available - n
           /\ CanBorrow(Advance(r, n)) <=> CanBorrow(r)
<1>1. r.remaining \in Nat /\ r.available \in Nat
  BY DEF Reader
<1> DEFINE m == Min({n, r.available})
<1>2. m \in Nat /\ m <= r.available /\ (n <= r.available => m = n)
  BY <1>1, MinOfTwo
<1> HIDE DEF m
<1>3. Advance(r, n) = [r EXCEPT !.remaining = r.remaining - n, !.available = r.available - m]
  BY DEF Advance, m
<1>4. r.remaining - n \in Nat /\ r.available - m \in Nat
  BY <1>1, <1>2
<1>5. /\ Advance(r, n) \in Reader
      /\ Advance(r, n).remaining = r.remaining - n
      /\ Advance(r, n).available = r.available - m
      /\ Advance(r, n).kind = r.kind
  BY <1>3, <1>4 DEF Reader
<1> QED
  BY <1>2, <1>5 DEF CanBorrow

(* Reader, sections and announced size as a running call needs them.       *)
Usable(r, secs, lfs, n) ==
    /\ r \in Reader
    /\ secs \in Seq(Nat)
    /\ lfs \in OptSize
    /\ Covered(secs, r.remaining)
    /\ Backed(r, n)
Ready == Usable(reader, sections, nextLfs, 0)

(* A step goes on at `next` with `more` sections more and n bytes to       *)
(* discard, or it fails.                                                   *)
Went(next, more, n) ==
    /\ pc' = next
    /\ Usable(reader', sections', nextLfs', n)
    /\ Len(sections') = Len(sections) + more
    /\ CompleteReaders => Balance(reader', n) = Balance(reader, 0)
Failing == pc' \in Errors \cup Panics /\ UNCHANGED <<reader, sections, nextLfs>>

(* What remaining() allows to be read is there.                            *)
LEMMA RemainingFits ==
    ASSUME Ready
    PROVE  /\ Remaining = Left(sections, reader.remaining)
           /\ Remaining \in Nat /\ reader.remaining \in Nat
           /\ Remaining <= reader.remaining
<1>1. reader.remaining \in Nat
  BY DEF Ready, Usable, Reader
<1>2. Remaining = Left(sections, reader.remaining)
  BY DEF Remaining, Left
<1> QED
  BY <1>1, <1>2, CoveredFits DEF Ready, Usable

(* Reading keeps the reader and the sections in step.                      *)
LEMMA ReadKeeps ==
    ASSUME Ready, NEW n \in Nat, n <= Remaining
    PROVE  /\ Usable(Advance(reader, n), Less(sections, n), nextLfs, 0)
           /\ Len(Less(sections, n)) = Len(sections)
           /\ Left(Less(sections, n), reader.remaining - n) = Remaining - n
           /\ CompleteReaders => Balance(Advance(reader, n), 0) = Balance(reader, 0)
<1>1. /\ Remaining = Left(sections, reader.remaining) /\ reader.remaining \in Nat
      /\ n <= reader.remaining
  BY RemainingFits
<1>2. /\ Less(sections, n) \in Seq(Nat) /\ Len(Less(sections, n)) = Len(sections)
      /\ Covered(Less(sections, n), reader.remaining - n)
  BY <1>1, LessCovered DEF Ready, Usable
<1>3. /\ Advance(reader, n) \in Reader
      /\ Advance(reader, n).remaining = reader.remaining - n
      /\ n <= reader.available => Advance(reader, n).available = reader.available - n
      /\ CanBorrow(Advance(reader, n)) <=> CanBorrow(reader)
  BY <1>1, AdvanceReader DEF Ready, Usable
<1>4. reader.available \in Nat /\ (CanBorrow(reader) \/ CompleteReaders => n <= reader.available)
  BY <1>1 DEF Ready, Usable, Backed, Reader
<1>5. Backed(Advance(reader, n), 0)
  BY <1>1, <1>3, <1>4 DEF Backed, Ready, Usable
<1>6. Left(Less(sections, n), reader.remaining - n) = Remaining - n
  <2>1. CASE sections = <<>>
    BY <1>1, <2>1 DEF Less, Left
  <2>2. CASE sections # <<>>
    <3>1. /\ Less(sections, n) = [sections EXCEPT ![Len(sections)] = sections[Len(sections)] - n]
          /\ Len(sections) \in 1 .. Len(sections) /\ sections \in Seq(Nat)
      BY <2>2 DEF Less, Ready, Usable
    <3>2. Less(sections, n)[Len(sections)] = sections[Len(sections)] - n
      BY <3>1
    <3>3. Less(sections, n) # <<>>
      BY <1>2, <3>1
    <3> QED
      BY <1>1, <1>2, <2>2, <3>2, <3>3 DEF Left, Last
  <2> QED
    BY <2>1, <2>2
<1>7. CompleteReaders => Balance(Advance(reader, n), 0) = Balance(reader, 0)
  BY <1>1, <1>3, <1>4 DEF Balance
<1> QED
  BY <1>2, <1>3, <1>5, <1>6, <1>7 DEF Usable, Ready

(* How reading n bytes may end.                                            *)
LEMMA OutcomesAre ==
    ASSUME Ready, NEW n \in Nat
    PROVE  /\ \A out \in Outcomes(n) \cup VecOutcomes(n) : out # "ok" => out \in Errors \cup Panics
           /\ "ok" \in Outcomes(n) => n <= Remaining
           /\ "ok" \in VecOutcomes(n) => n <= Remaining
           /\ Outcomes(n) \cup VecOutcomes(n) \subseteq {"ok", "TooShort", "IoError", "AssertLen"}
<1>1. Remaining \in Nat
  BY RemainingFits
<1>2. Outcomes(n) \cup VecOutcomes(n) \subseteq {"ok", "TooShort", "IoError", "AssertLen"}
  BY DEF Outcomes, VecOutcomes, ReadOutcomes, ReadVecOutcomes
<1>3. ("ok" \in Outcomes(n) \/ "ok" \in VecOutcomes(n)) => n <= Remaining
  BY <1>1 DEF Outcomes, VecOutcomes
<1> QED
  BY <1>2, <1>3 DEF Errors, Panics

----------------------------------------------------------------------------
(***************************************************************************)
(* Reading, and the begin and end of sections.                             *)
(***************************************************************************)

(* read and read_vec, where the bytes are there.                           *)
LEMMA TakeGoes ==
    ASSUME Ready, NEW n \in Nat, n <= Remaining, Take(n), nextLfs' \in OptSize
    PROVE  Went(pc', 0, 0)
<1>1. reader' = Advance(reader, n) /\ sections' = Less(sections, n)
  BY DEF Take
<1>2. /\ Usable(Advance(reader, n), Less(sections, n), nextLfs, 0)
      /\ Len(Less(sections, n)) = Len(sections)
      /\ CompleteReaders => Balance(Advance(reader, n), 0) = Balance(reader, 0)
  BY ReadKeeps
<1>3. Len(sections) \in Nat
  BY DEF Ready, Usable
<1> QED
  BY <1>1, <1>2, <1>3 DEF Usable, Went

(* begin_known_length_delimited_section                                    *)
LEMMA BeginKnownGoes ==
    ASSUME Ready, NEW len \in Nat, NEW next, BeginKnownSection(len, next)
    PROVE  Failing \/ Went(next, 1, 0)
<1>1. CASE len > Remaining /\ Fail("TooShort")
  BY <1>1 DEF Fail, Failing, Errors
<1>2. CASE /\ len <= Remaining
           /\ pc' = next
           /\ sections' = Append(Less(sections, len), len)
           /\ UNCHANGED <<reader, nextLfs>>
  <2>1. /\ Less(sections, len) \in Seq(Nat)
        /\ Len(Less(sections, len)) = Len(sections)
        /\ reader.remaining - len \in Nat
        /\ Covered(Less(sections, len), reader.remaining - len)
    BY <1>2, RemainingFits, LessCovered DEF Ready, Usable
  <2>2. /\ sections' \in Seq(Nat)
        /\ Len(sections') = Len(sections) + 1
        /\ Covered(sections', (reader.remaining - len) + len)
    BY <1>2, <2>1, AppendCovered
  <2>3. (reader.remaining - len) + len = reader.remaining
    BY RemainingFits
  <2> QED
    BY <1>2, <2>2, <2>3 DEF Went, Ready, Usable
<1> QED
  BY <1>1, <1>2 DEF BeginKnownSection

(* begin_length_delimited_section: the length field is read first.         *)
LEMMA BeginSectionGoes ==
    ASSUME Ready, NEW configured \in LengthFieldSize, NEW next,
           BeginSection(configured, next)
    PROVE  Failing \/ Went(next, 1, 0)
<1> DEFINE width == Or(nextLfs, configured)
<1>1. width \in Nat
  BY DEF Ready, Usable, Or, OptSize, LengthFieldSize, None
<1> HIDE DEF width
<1>2. PICK out \in Outcomes(width) :
         \/ out # "ok" /\ Fail(out)
         \/ /\ out = "ok"
            /\ \E len \in 0 .. Min({Capacity(width), MaxLength}) :
                 \/ len > Remaining - width /\ Fail("AnnouncedTooShort")
                 \/ /\ len <= Remaining - width
                    /\ pc' = next
                    /\ reader' = Advance(reader, width)
                    /\ sections' = Append(Less(sections, width + len), len)
                    /\ nextLfs' = None
  BY DEF BeginSection, width
<1>3. CASE out # "ok" /\ Fail(out)
  <2>1. out \in Errors \cup Panics
    BY <1>1, <1>3, OutcomesAre
  <2> QED
    BY <1>3, <2>1 DEF Fail, Failing
<1>4. ASSUME NEW len \in 0 .. Min({Capacity(width), MaxLength}), Fail("AnnouncedTooShort")
      PROVE  Failing
  BY <1>4 DEF Fail, Failing, Errors
<1>5. ASSUME out = "ok", NEW len \in 0 .. Min({Capacity(width), MaxLength}),
             len <= Remaining - width,
             pc' = next,
             reader' = Advance(reader, width),
             sections' = Append(Less(sections, width + len), len),
             nextLfs' = None
      PROVE  Went(next, 1, 0)
  <2>1. /\ width <= Remaining /\ len \in Nat /\ Remaining \in Nat /\ reader.remaining \in Nat
        /\ width + len \in Nat /\ width + len <= Remaining
        /\ Remaining = Left(sections, reader.remaining) /\ Remaining <= reader.remaining
    BY <1>1, <1>5, OutcomesAre, RemainingFits
  <2>2. /\ Usable(Advance(reader, width), Less(sections, width), nextLfs, 0)
        /\ CompleteReaders => Balance(Advance(reader, width), 0) = Balance(reader, 0)
    BY <1>1, <2>1, ReadKeeps
  <2>3. /\ Less(sections, width + len) \in Seq(Nat)
        /\ Len(Less(sections, width + len)) = Len(sections)
        /\ reader.remaining - (width + len) \in Nat
        /\ Covered(Less(sections, width + len), reader.remaining - (width + len))
    BY <2>1, LessCovered DEF Ready, Usable
  <2>4. /\ sections' \in Seq(Nat)
        /\ Len(sections') = Len(sections) + 1
        /\ Covered(sections', (reader.remaining - (width + len)) + len)
    BY <1>5, <2>1, <2>3, AppendCovered
  <2>5. (reader.remaining - (width + len)) + len = reader'.remaining
    <3>1. reader \in Reader /\ width <= reader.remaining
      BY <1>1, <2>1 DEF Ready, Usable
    <3>2. Advance(reader, width).remaining = reader.remaining - width
      BY <1>1, <3>1, AdvanceReader
    <3>3. reader'.remaining = reader.remaining - width
      BY <1>5, <3>2
    <3> QED
      BY <1>1, <2>1, <3>3
  <2> QED
    BY <1>5, <2>2, <2>4, <2>5 DEF Went, Usable, OptSize
<1> QED
  BY <1>2, <1>3, <1>4, <1>5

(* Either, as the wanted length field says.                                *)
LEMMA BeginGoes ==
    ASSUME Ready, NEW wanted \in OptSize \cup {MissingPanic}, NEW computed, NEW next,
           Begin(wanted, computed, next)
    PROVE  Failing \/ Went(next, 1, 0)
<1>1. \A x : Outcome(x) \in Errors \cup Panics
  BY DEF Outcome, Errors, Panics
<1>2. ASSUME NEW x, Fail(Outcome(x))
      PROVE  Failing
  BY <1>1, <1>2 DEF Fail, Failing
<1>3. CASE ~Failed(wanted) /\ wanted # None /\ BeginSection(wanted, next)
  <2>1. wanted \in LengthFieldSize
    BY <1>3, SizesDoNotFail
  <2> QED
    BY <1>3, <2>1, BeginSectionGoes
<1>4. CASE ~Failed(computed) /\ BeginKnownSection(computed, next)
  <2>1. computed \in Nat
    BY <1>4 DEF Failed
  <2> QED
    BY <1>4, <2>1, BeginKnownGoes
<1> QED
  BY <1>2, <1>3, <1>4 DEF Begin

(* end_length_delimited_section                                            *)
LEMMA EndSectionGoes ==
    ASSUME Ready, sections # <<>>, NEW next, EndSection(next)
    PROVE  Failing \/ Went(next, -1, 0)
<1>1. CASE Fail("NotAllBytesConsumed")
  BY <1>1 DEF Fail, Failing, Errors
<1>2. CASE /\ Last(sections) = 0
           /\ pc' = next
           /\ sections' = Front(sections)
           /\ UNCHANGED <<reader, nextLfs>>
  <2>1. /\ sections' \in Seq(Nat) /\ Len(sections') = Len(sections) - 1
        /\ Covered(sections', reader.remaining)
    BY <1>2, RemainingFits, FrontCovered DEF Ready, Usable
  <2>2. Len(sections) \in Nat
    BY DEF Ready, Usable
  <2> QED
    BY <1>2, <2>1, <2>2 DEF Went, Ready, Usable
<1> QED
  BY <1>1, <1>2 DEF EndSection

(* discard counts its bytes before it reads them.                          *)
LEMMA DiscardGoes ==
    ASSUME Ready, NEW n \in Nat, NEW next, DiscardFrom(n, next)
    PROVE  \/ Failing /\ UNCHANGED <<todo, after>>
           \/ Went("discard", 0, n) /\ todo' = n /\ after' = next
<1>1. CASE Fail("TooShort") /\ UNCHANGED <<todo, after>>
  BY <1>1 DEF Fail, Failing, Errors
<1>2. CASE /\ Remaining >= n
           /\ pc' = "discard"
           /\ sections' = Less(sections, n)
           /\ reader' = [reader EXCEPT !.remaining = @ - n]
           /\ todo' = n
           /\ after' = next
           /\ UNCHANGED nextLfs
  <2>1. /\ reader.remaining \in Nat /\ reader.available \in Nat
        /\ n <= Remaining /\ Remaining = Left(sections, reader.remaining)
    BY <1>2, RemainingFits DEF Ready, Usable, Reader
  <2>2. /\ sections' \in Seq(Nat) /\ Len(sections') = Len(sections)
        /\ reader.remaining - n \in Nat
        /\ Covered(sections', reader.remaining - n)
    BY <1>2, <2>1, LessCovered DEF Ready, Usable
  <2>3. /\ reader' \in Reader /\ reader'.remaining = reader.remaining - n
        /\ reader'.available = reader.available
        /\ CanBorrow(reader') <=> CanBorrow(reader)
    BY <1>2, <2>2 DEF Ready, Usable, Reader, CanBorrow
  <2>4. Backed(reader', n)
    BY <2>1, <2>3 DEF Backed, Ready, Usable
  <2>5. Balance(reader', n) = Balance(reader, 0)
    BY <2>1, <2>3 DEF Balance
  <2> QED
    BY <1>2, <2>2, <2>3, <2>4, <2>5 DEF Went, Ready, Usable
<1> QED
  BY <1>1, <1>2 DEF DiscardFrom

----------------------------------------------------------------------------
(***************************************************************************)
(* The inductive invariant.                                                *)
(***************************************************************************)

(* A sequence has a section, with the length from the data or computed.    *)
SeqsHaveSections ==
    \A i \in DOMAIN frames : Types[frames[i].type].kind = "seq" => frames[i].section # "none"

(* The call has just been made.                                            *)
AtStart == pc = "call" => frames = <<>> /\ inTlv = FALSE

(* What is read in several steps is of the type that began it.             *)
LeafTypes ==
    /\ pc \in {"string", "str"} => Types[nextType].kind = "string"
    /\ pc = "bytes" => Types[nextType].kind = "seq"
    /\ pc = "skipField" => frames # <<>> /\ TopType.kind = "struct"

Uncounted == IF pc = "discard" THEN todo ELSE 0
Supplied == Running => Usable(reader, sections, nextLfs, Uncounted)

IInv ==
    /\ TypeOK
    /\ Supplied
    /\ SectionsMatchFrames
    /\ SeqsHaveSections
    /\ AtStart
    /\ LeafTypes
    /\ InTlvMatchesEnclosing

(* Each byte counted is read, or fails, if the readers are complete.       *)
Accounted == CompleteReaders => pc' \in Errors \/ Owed' = Owed

Leaf == IF InLeaf THEN 1 ELSE 0

(* A running call is ready to read, unless it is discarding.               *)
LEMMA ReadyToRead ==
    ASSUME IInv, Running, pc # "discard"
    PROVE  Ready /\ Owed = Balance(reader, 0)
<1>1. Ready
  BY DEF IInv, Supplied, Uncounted, Ready
<1>2. reader.remaining \in Int /\ reader.available \in Int
  BY DEF IInv, TypeOK, Reader
<1> QED
  BY <1>1, <1>2 DEF Owed, Balance

(* A call that has ended, well or not, leaves only types to be preserved.  *)
LEMMA FailingStep ==
    ASSUME IInv, Failing, pc # "discard" \/ pc' \in Errors,
           opts' = opts, nextType' \in TypeId, inTlv' \in BOOLEAN, props' \in Properties,
           frames' \in Seq(Frame), SeqsHaveSections', todo' \in Nat,
           after' \in {"return", "end"}
    PROVE  IInv' /\ Accounted
<1>1. pc' \notin {"call", "value", "return", "string", "str", "bytes", "skip", "end",
                  "skipFixed", "skipField", "discard", "ok"}
  BY DEF Failing, Errors, Panics
<1>2. ~Running' /\ ~Current'
  BY <1>1 DEF Running, Current
<1>3. TypeOK'
  BY DEF IInv, TypeOK, Failing
<1>4. Accounted
  BY <1>1 DEF Accounted, Owed, Failing
<1>5. AtStart' /\ LeafTypes' /\ InTlvMatchesEnclosing'
  BY <1>1 DEF AtStart, LeafTypes, InTlvMatchesEnclosing
<1>6. Supplied' /\ SectionsMatchFrames'
  BY <1>2 DEF Supplied, SectionsMatchFrames
<1> QED
  BY <1>3, <1>4, <1>5, <1>6 DEF IInv

(* The names of steps.                                                     *)
Steps == {"value", "return", "string", "str", "bytes", "skip", "end", "skipFixed",
          "skipField", "discard"}

(* A step that goes on changes sections and accesses alike.                *)
LEMMA WentStep ==
    ASSUME IInv, Running, pc # "discard",
           NEW next \in Steps, NEW more \in Int, NEW n \in Nat, Went(next, more, n),
           next = "discard" => todo' = n, next # "discard" => n = 0,
           opts' = opts, nextType' \in TypeId, inTlv' \in BOOLEAN, props' \in Properties,
           frames' \in Seq(Frame), todo' \in Nat, after' \in {"return", "end"},
           Cardinality(Sectioned(frames')) + Leaf'
             = Cardinality(Sectioned(frames)) + Leaf + more,
           SeqsHaveSections', LeafTypes', InTlvMatchesEnclosing'
    PROVE  IInv' /\ Accounted
<1>1. /\ pc' = next
      /\ Usable(reader', sections', nextLfs', n)
      /\ Len(sections') = Len(sections) + more
      /\ CompleteReaders => Balance(reader', n) = Balance(reader, 0)
  BY DEF Went
<1>2. Running' /\ AtStart' /\ pc' # "call"
  BY <1>1 DEF Running, Steps, AtStart
<1>3. TypeOK'
  BY <1>1, <1>2 DEF TypeOK, IInv, Usable
<1>4. Supplied'
  <2>1. Uncounted' = n
    BY <1>1 DEF Uncounted
  <2> QED
    BY <1>1, <2>1 DEF Supplied
<1>5. SectionsMatchFrames'
  <2>1. Len(sections) = Cardinality(Sectioned(frames)) + Leaf
    BY DEF IInv, SectionsMatchFrames, Current, Leaf
  <2>2. Len(sections') = Cardinality(Sectioned(frames')) + Leaf'
    BY <1>1, <2>1
  <2> QED
    BY <2>2 DEF SectionsMatchFrames, Leaf
<1>6. Accounted
  <2>1. Owed = Balance(reader, 0)
    BY ReadyToRead
  <2>2. reader'.remaining \in Int /\ reader'.available \in Int
    BY <1>3 DEF TypeOK, Reader
  <2>3. Owed' = Balance(reader', n)
    BY <1>1, <2>2 DEF Owed, Balance
  <2> QED
    BY <1>1, <2>1, <2>3 DEF Accounted
<1> QED
  BY <1>2, <1>3, <1>4, <1>5, <1>6 DEF IInv

----------------------------------------------------------------------------
(***************************************************************************)
(* Open accesses.                                                          *)
(***************************************************************************)

(* The accesses with a section can be counted.                             *)
LEMMA SectionedIsFinite ==
    ASSUME NEW fs \in Seq(Frame)
    PROVE  IsFiniteSet(Sectioned(fs)) /\ Cardinality(Sectioned(fs)) \in Nat
<1>1. Sectioned(fs) \in SUBSET (1 .. Len(fs))
  BY DEF Sectioned
<1>2. IsFiniteSet(1 .. Len(fs))
  BY FS_Interval
<1> QED
  BY <1>1, <1>2, FS_Subset, FS_CardinalityType

Counts(frame) == IF frame.section = "none" THEN 0 ELSE 1

(* An access that begins counts if it has a section.                       *)
LEMMA SectionedAppend ==
    ASSUME NEW fs \in Seq(Frame), NEW f \in Frame
    PROVE  Cardinality(Sectioned(Append(fs, f))) = Cardinality(Sectioned(fs)) + Counts(f)
<1> DEFINE n == Len(fs) + 1
<1>1. n \notin Sectioned(fs) /\ Cardinality(Sectioned(fs)) \in Nat /\ IsFiniteSet(Sectioned(fs))
  BY SectionedIsFinite DEF Sectioned
<1>2. CASE f.section = "none"
  <2>1. Sectioned(Append(fs, f)) = Sectioned(fs)
    BY <1>2 DEF Sectioned
  <2> QED
    BY <1>1, <1>2, <2>1 DEF Counts
<1>3. CASE f.section # "none"
  <2>1. Sectioned(Append(fs, f)) = Sectioned(fs) \cup {n}
    BY <1>3 DEF Sectioned
  <2> HIDE DEF n
  <2>2. Cardinality(Sectioned(fs) \cup {n}) = Cardinality(Sectioned(fs)) + 1
    BY <1>1, FS_AddElement
  <2> QED
    BY <1>3, <2>1, <2>2 DEF Counts
<1> QED
  BY <1>2, <1>3

(* The innermost access that ends no longer counts.                        *)
LEMMA SectionedFront ==
    ASSUME NEW fs \in Seq(Frame), fs # <<>>
    PROVE  /\ Cardinality(Sectioned(Front(fs)))
                = Cardinality(Sectioned(fs)) - Counts(fs[Len(fs)])
           /\ fs[Len(fs)].section # "none" => Cardinality(Sectioned(fs)) # 0
<1> DEFINE last == fs[Len(fs)]
<1>1. last \in Frame /\ Front(fs) \in Seq(Frame) /\ Append(Front(fs), last) = fs
  BY DEF Front
<1>2. Cardinality(Sectioned(fs)) = Cardinality(Sectioned(Front(fs))) + Counts(last)
  BY <1>1, SectionedAppend
<1>3. Cardinality(Sectioned(Front(fs))) \in Nat
  BY <1>1, SectionedIsFinite
<1> HIDE DEF last
<1> QED
  BY <1>2, <1>3 DEF last, Counts

(* Changes to the innermost access that leave its type and section alone.  *)
WithTop(fs, f) == [fs EXCEPT ![Len(fs)] = f]

(* The others stay as they are, and none gains or loses a section.         *)
LEMMA TopExcept ==
    ASSUME NEW fs \in Seq(Frame), fs # <<>>, NEW f \in Frame,
           f.section = fs[Len(fs)].section
    PROVE  LET gs == WithTop(fs, f)
           IN  /\ gs \in Seq(Frame)
               /\ gs # <<>>
               /\ Len(gs) = Len(fs)
               /\ \A i \in 1 .. Len(fs) : gs[i] = IF i = Len(fs) THEN f ELSE fs[i]
               /\ Sectioned(gs) = Sectioned(fs)
<1> DEFINE gs == WithTop(fs, f)
<1>1. Len(fs) \in 1 .. Len(fs)
  OBVIOUS
<1>2. /\ gs \in Seq(Frame) /\ Len(gs) = Len(fs)
      /\ \A i \in 1 .. Len(fs) : gs[i] = IF i = Len(fs) THEN f ELSE fs[i]
  BY <1>1, ExceptSeq DEF WithTop
<1> HIDE DEF gs
<1>3. \A i \in 1 .. Len(fs) : gs[i].section = fs[i].section
  BY <1>2
<1>4. Sectioned(gs) = Sectioned(fs)
  BY <1>2, <1>3 DEF Sectioned
<1> QED
  BY <1>1, <1>2, <1>4 DEF gs

(* The innermost access and its type.                                      *)
LEMMA TopIsFrame ==
    ASSUME TypeOK, frames # <<>>
    PROVE  /\ Top \in Frame /\ Top = frames[Len(frames)] /\ Len(frames) \in DOMAIN frames
           /\ Top.type \in TypeId /\ Top.count \in Nat /\ Top.orig \in Properties
           /\ Top.wasTlv \in BOOLEAN
           /\ TopType = Types[Top.type]
<1>1. frames \in Seq(Frame) /\ Len(frames) \in DOMAIN frames
  BY DEF TypeOK
<1>2. Top = frames[Len(frames)] /\ Top \in Frame
  BY <1>1 DEF Top
<1> QED
  BY <1>1, <1>2 DEF Frame, TopType

----------------------------------------------------------------------------
(***************************************************************************)
(* The call, and values without parts.                                     *)
(***************************************************************************)

(* A step that reads nothing.                                              *)
LEMMA StayGoes ==
    ASSUME Ready, UNCHANGED <<reader, sections, nextLfs>>
    PROVE  Went(pc', 0, 0)
<1>1. Len(sections) \in Nat
  BY DEF Ready, Usable
<1> QED
  BY <1>1 DEF Ready, Went

(* A step within a value that leaves the accesses alone.                   *)
LEMMA UnframedStep ==
    ASSUME IInv, Running, pc # "discard",
           NEW next \in {"return", "string", "str", "bytes", "skip", "end", "discard"},
           NEW more \in Int, NEW n \in Nat, Went(next, more, n),
           next = "discard" => todo' = n, next # "discard" => n = 0,
           UNCHANGED <<opts, nextType, inTlv, props, frames>>,
           todo' \in Nat, after' \in {"return", "end"},
           next \in {"string", "str"} => Types[nextType].kind = "string",
           next = "bytes" => Types[nextType].kind = "seq",
           Leaf' = Leaf + more
    PROVE  IInv' /\ Accounted
<1>1. pc' = next /\ next \in Steps
  BY DEF Went, Steps
<1>2. SeqsHaveSections'
  BY DEF IInv, SeqsHaveSections
<1>3. LeafTypes' /\ InTlvMatchesEnclosing'
  BY <1>1 DEF LeafTypes, InTlvMatchesEnclosing
<1>4. Cardinality(Sectioned(frames')) + Leaf' = Cardinality(Sectioned(frames)) + Leaf + more
  <2>1. Cardinality(Sectioned(frames)) \in Nat /\ Leaf \in Nat
    BY SectionedIsFinite DEF IInv, TypeOK, Leaf
  <2> QED
    BY <2>1
<1>5. /\ nextType' \in TypeId /\ inTlv' \in BOOLEAN /\ props' \in Properties
      /\ frames' \in Seq(Frame)
  BY DEF IInv, TypeOK
<1> QED
  BY <1>1, <1>2, <1>3, <1>4, <1>5, WentStep

(* A step that fails within a value.                                       *)
LEMMA UnframedFailure ==
    ASSUME IInv, Failing, pc # "discard" \/ pc' \in Errors,
           UNCHANGED <<opts, nextType, inTlv, props, frames, todo, after>>
    PROVE  IInv' /\ Accounted
<1>1. SeqsHaveSections'
  BY DEF IInv, SeqsHaveSections
<1>2. /\ nextType' \in TypeId /\ inTlv' \in BOOLEAN /\ props' \in Properties
      /\ frames' \in Seq(Frame) /\ todo' \in Nat /\ after' \in {"return", "end"}
  BY DEF IInv, TypeOK
<1> QED
  BY <1>1, <1>2, FailingStep

(* from_internal                                                           *)
LEMMA CallStep ==
    ASSUME IInv, Call
    PROVE  IInv' /\ Accounted
<1>1. /\ pc = "call" /\ pc' \in {"value", "TypePanic"}
      /\ UNCHANGED <<opts, reader, nextType, nextLfs, inTlv, sections, props, frames,
                     todo, after>>
  BY DEF Call
<1>2. Running /\ pc # "discard" /\ Ready
  BY <1>1, ReadyToRead DEF Running
<1>3. CASE pc' = "TypePanic"
  BY <1>1, <1>3, UnframedFailure DEF Failing, Panics
<1>4. CASE pc' = "value"
  <2>1. Went("value", 0, 0)
    BY <1>1, <1>2, <1>4, StayGoes
  <2>2. SeqsHaveSections' /\ LeafTypes'
    BY <1>1, <1>4 DEF IInv, SeqsHaveSections, LeafTypes
  <2>3. InTlvMatchesEnclosing'
    BY <1>1, <1>4 DEF IInv, AtStart, InTlvMatchesEnclosing
  <2>4. Leaf = 0 /\ Leaf' = 0
    BY <1>1, <1>4 DEF Leaf, InLeaf
  <2>5. Cardinality(Sectioned(frames')) + Leaf' = Cardinality(Sectioned(frames)) + Leaf + 0
    BY <1>1, <2>4, SectionedIsFinite DEF IInv, TypeOK
  <2>6. /\ nextType' \in TypeId /\ inTlv' \in BOOLEAN /\ props' \in Properties
        /\ frames' \in Seq(Frame) /\ todo' \in Nat /\ after' \in {"return", "end"}
        /\ opts' = opts /\ "value" \in Steps
    BY <1>1 DEF IInv, TypeOK, Steps
  <2> QED
    BY <1>2, <2>1, <2>2, <2>3, <2>5, <2>6, WentStep
<1> QED
  BY <1>1, <1>3, <1>4

(* The root value is complete.                                             *)
LEMMA FinishStep ==
    ASSUME IInv, Finish
    PROVE  IInv' /\ Accounted
<1>1. /\ pc = "return" /\ pc' = "ok"
      /\ UNCHANGED <<opts, reader, nextType, nextLfs, inTlv, sections, props, frames,
                     todo, after>>
  BY DEF Finish
<1>2. TypeOK' /\ SeqsHaveSections'
  BY <1>1 DEF IInv, TypeOK, SeqsHaveSections
<1>3. ~Running' /\ AtStart' /\ LeafTypes' /\ InTlvMatchesEnclosing'
  BY <1>1 DEF Running, AtStart, LeafTypes, InTlvMatchesEnclosing
<1>4. SectionsMatchFrames'
  BY <1>1 DEF IInv, SectionsMatchFrames, Current, Running, InLeaf
<1>5. Accounted
  BY <1>1 DEF Accounted, Owed
<1> QED
  BY <1>2, <1>3, <1>4, <1>5 DEF IInv, Supplied

(* deserialize_bool .. deserialize_f64, deserialize_enum                   *)
LEMMA FixedStep ==
    ASSUME IInv, DeserializeFixed
    PROVE  IInv' /\ Accounted
<1> DEFINE size == Types[nextType].size
<1>1. /\ pc = "value" /\ IsFixed(Types[nextType])
      /\ UNCHANGED <<opts, nextType, inTlv, props, frames, todo, after>>
  BY DEF DeserializeFixed
<1>2. Running /\ pc # "discard" /\ Ready
  BY <1>1, ReadyToRead DEF Running
<1>3. size \in Nat
  <2>1. Types[nextType] \in SomeIpFixed
    BY <1>1, TypeShapes DEF IInv, TypeOK
  <2> QED
    BY <2>1 DEF SomeIpFixed
<1> HIDE DEF size
<1>4. PICK out \in Outcomes(size) :
         \/ out # "ok" /\ Fail(out)
         \/ out = "ok" /\ pc' = "return" /\ Take(size) /\ UNCHANGED nextLfs
         \/ Fail("InvalidBool")
         \/ Fail("InvalidEnumValue")
  BY DEF DeserializeFixed, size
<1>5. CASE (out # "ok" /\ Fail(out)) \/ Fail("InvalidBool") \/ Fail("InvalidEnumValue")
  <2>1. out # "ok" => out \in Errors \cup Panics
    BY <1>2, <1>3, OutcomesAre
  <2>2. Failing
    BY <1>5, <2>1 DEF Fail, Failing, Errors
  <2> QED
    BY <1>1, <2>2, UnframedFailure
<1>6. CASE out = "ok" /\ pc' = "return" /\ Take(size) /\ UNCHANGED nextLfs
  <2>1. size <= Remaining
    BY <1>2, <1>3, <1>6, OutcomesAre
  <2>2. Went("return", 0, 0)
    BY <1>2, <1>3, <1>6, <2>1, TakeGoes DEF Ready, Usable
  <2>3. Leaf' = Leaf + 0
    BY <1>1, <1>6 DEF Leaf, InLeaf
  <2>4. todo' \in Nat /\ after' \in {"return", "end"}
    BY <1>1 DEF IInv, TypeOK
  <2> QED
    BY <1>1, <1>2, <2>2, <2>3, <2>4, UnframedStep
<1> QED
  BY <1>4, <1>5, <1>6

(* An Option outside a TLV struct.                                         *)
LEMMA OptionStep ==
    ASSUME IInv, DeserializeOption
    PROVE  IInv' /\ Accounted
<1>1. Failing /\ pc # "discard"
      /\ UNCHANGED <<opts, nextType, inTlv, props, frames, todo, after>>
  BY DEF DeserializeOption, Fail, Failing, Panics
<1> QED
  BY <1>1, UnframedFailure

(* The site of the next value, whatever the properties in force.           *)
LEMMA SiteShape ==
    ASSUME TypeOK, NEW scope \in Properties
    PROVE  Here \in Site /\ [Here EXCEPT !.props = scope] \in Site
BY DEF TypeOK, Here, Site

(* A string or byte slice begins with its section.                         *)
LEMMA LeafBegins ==
    ASSUME IInv, pc = "value", NEW next \in {"string", "str", "bytes"},
           Begin(WantedLengthField[Here], Types[nextType].max, next),
           UNCHANGED <<opts, nextType, inTlv, props, frames, todo, after>>,
           next \in {"string", "str"} => Types[nextType].kind = "string",
           next = "bytes" => Types[nextType].kind = "seq"
    PROVE  IInv' /\ Accounted
<1>1. Running /\ pc # "discard" /\ Ready
  BY ReadyToRead DEF Running
<1>2. WantedLengthField[Here] \in OptSize \cup {MissingPanic}
  BY SiteShape, WantedIsSize DEF IInv, TypeOK
<1>3. CASE Failing
  BY <1>1, <1>3, UnframedFailure
<1>4. CASE Went(next, 1, 0)
  <2>1. Leaf' = Leaf + 1
    BY <1>4 DEF Went, Leaf, InLeaf
  <2>2. todo' \in Nat /\ after' \in {"return", "end"}
    BY DEF IInv, TypeOK
  <2> QED
    BY <1>1, <1>4, <2>1, <2>2, UnframedStep
<1> QED
  BY <1>1, <1>2, <1>3, <1>4, BeginGoes

(* deserialize_string                                                      *)
LEMMA StringStep ==
    ASSUME IInv, DeserializeString
    PROVE  IInv' /\ Accounted
BY LeafBegins DEF DeserializeString

(* deserialize_str                                                         *)
LEMMA StrStep ==
    ASSUME IInv, DeserializeStr
    PROVE  IInv' /\ Accounted
BY LeafBegins DEF DeserializeStr

(* deserialize_bytes and deserialize_byte_buf                              *)
LEMMA BytesStep ==
    ASSUME IInv, DeserializeBytes
    PROVE  IInv' /\ Accounted
BY LeafBegins DEF DeserializeBytes, IsByteSequence

----------------------------------------------------------------------------
(***************************************************************************)
(* The content and the end of strings, byte slices and unknown fields.     *)
(***************************************************************************)

(* No more is wanted of a string or byte slice than its section has.       *)
LEMMA WantedFits ==
    ASSUME IInv, Ready, pc \in {"string", "str", "bytes"}
    PROVE  Wanted \in Nat /\ Wanted <= Remaining
<1>1. Types[nextType].max \in Nat
  <2>1. Types[nextType].kind \in {"string", "seq"} /\ nextType \in TypeId
    BY DEF IInv, LeafTypes, TypeOK
  <2> QED
    BY <2>1, TypeShapes DEF SomeIpString, SomeIpSequence
<1>2. Remaining \in Nat
  BY RemainingFits
<1> QED
  BY <1>1, <1>2 DEF Wanted, TooMuch

(* What is wanted is read, or the value fails.                             *)
LEMMA LeafRead ==
    ASSUME IInv, pc \in {"string", "str", "bytes"}, Failing \/ TakeLeaf,
           UNCHANGED <<opts, nextType, inTlv, props, frames, todo, after>>
    PROVE  IInv' /\ Accounted
<1>1. Running /\ pc # "discard" /\ Ready
  BY ReadyToRead DEF Running
<1>2. CASE Failing
  BY <1>1, <1>2, UnframedFailure
<1>3. CASE TakeLeaf
  <2>1. Wanted \in Nat /\ Wanted <= Remaining
    BY <1>1, WantedFits
  <2>2. Take(Wanted) /\ pc' \in {"skip", "end"} /\ nextLfs' = nextLfs
    BY <1>3 DEF TakeLeaf
  <2>3. Went(pc', 0, 0)
    BY <1>1, <2>1, <2>2, TakeGoes DEF Ready, Usable
  <2>4. Leaf' = Leaf + 0
    BY <2>2 DEF Leaf, InLeaf
  <2>5. todo' \in Nat /\ after' \in {"return", "end"}
    BY DEF IInv, TypeOK
  <2>6. CASE pc' = "skip"
    <3>1. Went("skip", 0, 0)
      BY <2>3, <2>6
    <3> QED
      BY <1>1, <2>4, <2>5, <3>1, UnframedStep
  <2>7. CASE pc' = "end"
    <3>1. Went("end", 0, 0)
      BY <2>3, <2>7
    <3> QED
      BY <1>1, <2>4, <2>5, <3>1, UnframedStep
  <2> QED
    BY <2>2, <2>6, <2>7
<1> QED
  BY <1>2, <1>3

(* The rest of deserialize_string.                                         *)
LEMMA ReadStringStep ==
    ASSUME IInv, ReadString
    PROVE  IInv' /\ Accounted
<1>1. pc = "string" /\ UNCHANGED <<opts, nextType, inTlv, props, frames, todo, after>>
  BY DEF ReadString
<1>2. \/ TakeLeaf
      \/ \E out \in {"NotEnoughData", "TooMuchData", "CannotCodeString", "IoError"} : Fail(out)
  BY DEF ReadString
<1>3. Failing \/ TakeLeaf
  BY <1>2 DEF Fail, Failing, Errors
<1> QED
  BY <1>1, <1>3, LeafRead

(* The rest of deserialize_str.                                            *)
LEMMA ReadStrStep ==
    ASSUME IInv, ReadStr
    PROVE  IInv' /\ Accounted
<1>1. pc = "str" /\ UNCHANGED <<opts, nextType, inTlv, props, frames, todo, after>>
  BY DEF ReadStr
<1>2. \/ TakeLeaf
      \/ \E out \in {"NotEnoughData", "TooMuchData", "CannotCodeString"} : Fail(out)
  BY DEF ReadStr
<1>3. Failing \/ TakeLeaf
  BY <1>2 DEF Fail, Failing, Errors
<1> QED
  BY <1>1, <1>3, LeafRead

(* The rest of deserialize_bytes.                                          *)
LEMMA ReadBytesStep ==
    ASSUME IInv, ReadBytes
    PROVE  IInv' /\ Accounted
<1>1. pc = "bytes" /\ UNCHANGED <<opts, nextType, inTlv, props, frames, todo, after>>
  BY DEF ReadBytes
<1>2. Ready
  BY <1>1, ReadyToRead DEF Running
<1>3. \/ TakeLeaf
      \/ Fail("TooMuchData")
      \/ \E out \in VecOutcomes(Wanted) : out # "ok" /\ Fail(out)
  BY DEF ReadBytes
<1>4. \A out \in VecOutcomes(Wanted) : out # "ok" => out \in Errors \cup Panics
  BY <1>1, <1>2, WantedFits, OutcomesAre
<1>5. Failing \/ TakeLeaf
  BY <1>3, <1>4 DEF Fail, Failing, Errors
<1> QED
  BY <1>1, <1>5, LeafRead

(* The excess is discarded.                                                *)
LEMMA SkipStep ==
    ASSUME IInv, Skip
    PROVE  IInv' /\ Accounted
<1>1. /\ pc = "skip" /\ DiscardFrom(Remaining, "end")
      /\ UNCHANGED <<opts, nextType, inTlv, props, frames>>
  BY DEF Skip
<1>2. Running /\ pc # "discard" /\ Ready
  BY <1>1, ReadyToRead DEF Running
<1>3. Remaining \in Nat
  BY <1>2, RemainingFits
<1>4. CASE Failing /\ UNCHANGED <<todo, after>>
  BY <1>1, <1>2, <1>4, UnframedFailure
<1>5. CASE Went("discard", 0, Remaining) /\ todo' = Remaining /\ after' = "end"
  <2>1. Leaf' = Leaf + 0
    BY <1>1, <1>5 DEF Went, Leaf, InLeaf
  <2> QED
    BY <1>1, <1>2, <1>3, <1>5, <2>1, UnframedStep
<1> QED
  BY <1>1, <1>2, <1>3, <1>4, <1>5, DiscardGoes

(* One call of Read::read.                                                 *)
LEMMA DiscardChunkStep ==
    ASSUME IInv, DiscardChunk
    PROVE  IInv' /\ Accounted
<1>1. /\ pc = "discard"
      /\ UNCHANGED <<opts, nextType, nextLfs, inTlv, sections, props, frames, after>>
  BY DEF DiscardChunk
<1>2. /\ Running /\ todo \in Nat /\ after \in {"return", "end"}
      /\ Usable(reader, sections, nextLfs, todo)
      /\ reader.remaining \in Nat /\ reader.available \in Nat
  BY <1>1 DEF Running, IInv, Supplied, Uncounted, TypeOK, Reader
<1>3. SeqsHaveSections' /\ LeafTypes' /\ InTlvMatchesEnclosing' /\ AtStart'
  <2>1. pc' \in {"discard", "return", "end"}
    BY <1>1, <1>2 DEF DiscardChunk
  <2> QED
    BY <1>1, <2>1 DEF IInv, SeqsHaveSections, LeafTypes, InTlvMatchesEnclosing, AtStart
<1>4. CASE todo > 0
  <2>1. PICK n \in Chunks : /\ todo' = todo - n
                            /\ reader' = [reader EXCEPT !.available = @ - n]
                            /\ pc' = pc
    BY <1>4 DEF DiscardChunk
  <2>2. n \in Nat /\ n <= todo /\ n <= reader.available
    <3>1. CASE CanBorrow(reader)
      BY <1>2, <2>1, <3>1 DEF Chunks, Usable, Backed
    <3>2. CASE ~CanBorrow(reader) /\ reader.available = 0
      BY <1>2, <2>1, <3>2 DEF Chunks
    <3>3. CASE ~CanBorrow(reader) /\ reader.available # 0
      <4>1. n \in 1 .. (IF todo <= reader.available THEN todo ELSE reader.available)
        BY <1>2, <2>1, <3>3, MinOfTwo DEF Chunks
      <4> QED
        BY <1>2, <4>1
    <3> QED
      BY <3>1, <3>2, <3>3
  <2>3. /\ reader' \in Reader /\ todo' \in Nat /\ todo' = todo - n
        /\ reader'.remaining = reader.remaining
        /\ reader'.available = reader.available - n
        /\ CanBorrow(reader') <=> CanBorrow(reader)
    <3>1. reader.available - n \in Nat /\ todo - n \in Nat
      BY <1>2, <2>2
    <3> QED
      BY <1>2, <2>1, <3>1 DEF Usable, Reader, CanBorrow
  <2>4. Backed(reader', todo')
    BY <1>2, <2>2, <2>3 DEF Usable, Backed
  <2>5. Usable(reader', sections', nextLfs', todo')
    BY <1>1, <1>2, <2>3, <2>4 DEF Usable
  <2>6. Supplied'
    BY <1>1, <2>1, <2>5 DEF Supplied, Uncounted
  <2>7. TypeOK'
    BY <1>1, <2>1, <2>3 DEF IInv, TypeOK, Running
  <2>8. SectionsMatchFrames'
    BY <1>1, <2>1 DEF IInv, SectionsMatchFrames, Current, Running, InLeaf
  <2>9. Owed' = Owed
    BY <1>1, <1>2, <2>1, <2>2, <2>3 DEF Owed
  <2> QED
    BY <1>3, <2>6, <2>7, <2>8, <2>9 DEF IInv, Accounted
<1>5. CASE todo = 0
  <2>1. pc' = after /\ reader' = reader /\ todo' = todo
    BY <1>5 DEF DiscardChunk
  <2>2. Supplied'
    BY <1>1, <1>2, <1>5, <2>1 DEF Supplied, Uncounted
  <2>3. TypeOK'
    BY <1>1, <1>2, <2>1 DEF IInv, TypeOK, Running
  <2>4. SectionsMatchFrames'
    BY <1>1, <1>2, <2>1 DEF IInv, SectionsMatchFrames, Current, Running, InLeaf
  <2>5. Owed' = Owed
    BY <1>1, <1>2, <1>5, <2>1 DEF Owed
  <2> QED
    BY <1>3, <2>2, <2>3, <2>4, <2>5 DEF IInv, Accounted
<1> QED
  BY <1>2, <1>4, <1>5

(* Read::read fails.                                                       *)
LEMMA DiscardFailsStep ==
    ASSUME IInv, DiscardFails
    PROVE  IInv' /\ Accounted
<1>1. /\ Failing /\ pc' \in Errors
      /\ UNCHANGED <<opts, nextType, inTlv, props, frames, todo, after>>
  BY DEF DiscardFails, Fail, Failing, Errors
<1> QED
  BY <1>1, UnframedFailure

(* The section of a string, byte slice or unknown field ends.              *)
LEMMA EndLeafStep ==
    ASSUME IInv, EndLeaf
    PROVE  IInv' /\ Accounted
<1>1. /\ pc = "end" /\ EndSection("return")
      /\ UNCHANGED <<opts, nextType, inTlv, props, frames, todo, after>>
  BY DEF EndLeaf
<1>2. Running /\ pc # "discard" /\ Ready
  BY <1>1, ReadyToRead DEF Running
<1>3. sections # <<>>
  <2>1. Cardinality(Sectioned(frames)) \in Nat
    BY SectionedIsFinite DEF IInv, TypeOK
  <2>2. Len(sections) = Cardinality(Sectioned(frames)) + 1
    BY <1>1, <1>2 DEF IInv, SectionsMatchFrames, Current, InLeaf
  <2> QED
    BY <2>1, <2>2
<1>4. CASE Failing
  BY <1>1, <1>2, <1>4, UnframedFailure
<1>5. CASE Went("return", -1, 0)
  <2>1. Leaf' = Leaf + (-1)
    BY <1>1, <1>5 DEF Went, Leaf, InLeaf
  <2>2. todo' \in Nat /\ after' \in {"return", "end"}
    BY <1>1 DEF IInv, TypeOK
  <2> QED
    BY <1>1, <1>2, <1>5, <2>1, <2>2, UnframedStep
<1> QED
  BY <1>1, <1>2, <1>3, <1>4, <1>5, EndSectionGoes

----------------------------------------------------------------------------
(***************************************************************************)
(* Sequences.                                                              *)
(***************************************************************************)

(* A step that panics behind a section or tag is the last one.             *)
LEMMA PanickedStep ==
    ASSUME IInv, Running, pc # "discard", NEW panic \in Panics, NEW more \in Int,
           Went(panic, more, 0),
           UNCHANGED <<opts, nextType, inTlv, props, frames, todo, after>>
    PROVE  IInv' /\ Accounted
<1>1. /\ pc' = panic
      /\ Usable(reader', sections', nextLfs', 0)
      /\ CompleteReaders => Balance(reader', 0) = Balance(reader, 0)
  BY DEF Went
<1>2. pc' \notin {"call", "value", "return", "string", "str", "bytes", "skip", "end",
                  "skipFixed", "skipField", "discard", "ok"}
  BY <1>1 DEF Panics
<1>3. ~Running' /\ ~Current'
  BY <1>2 DEF Running, Current
<1>4. TypeOK'
  BY <1>1 DEF IInv, TypeOK, Usable
<1>5. Accounted
  <2>1. Owed = Balance(reader, 0)
    BY ReadyToRead
  <2>2. reader'.remaining \in Int /\ reader'.available \in Int
    BY <1>4 DEF TypeOK, Reader
  <2>3. Owed' = Balance(reader', 0)
    BY <1>2, <2>2 DEF Owed, Balance
  <2> QED
    BY <1>1, <2>1, <2>3 DEF Accounted
<1>6. AtStart' /\ LeafTypes' /\ InTlvMatchesEnclosing'
  BY <1>2 DEF AtStart, LeafTypes, InTlvMatchesEnclosing
<1>7. Supplied' /\ SectionsMatchFrames'
  BY <1>3 DEF Supplied, SectionsMatchFrames
<1>8. SeqsHaveSections'
  BY DEF IInv, SeqsHaveSections
<1> QED
  BY <1>4, <1>5, <1>6, <1>7, <1>8 DEF IInv

(* An access that begins: its section, if any, is the only new one.        *)
LEMMA OpenStep ==
    ASSUME IInv, pc = "value", NEW f \in Frame, frames' = Append(frames, f),
           Types[f.type].kind = "seq" => f.section # "none",
           Went("return", Counts(f), 0),
           opts' = opts, nextType' = nextType, inTlv' = inTlv, props' \in Properties,
           UNCHANGED <<todo, after>>
    PROVE  IInv' /\ Accounted
<1>1. Running /\ pc' = "return"
  BY DEF Running, Went
<1>2. frames \in Seq(Frame) /\ Len(frames) \in Nat
  BY DEF IInv, TypeOK
<1>3. /\ frames' \in Seq(Frame)
      /\ \A i \in DOMAIN frames' : (i \in DOMAIN frames /\ frames'[i] = frames[i])
                                   \/ frames'[i] = f
  BY <1>2
<1>4. SeqsHaveSections'
  BY <1>3 DEF IInv, SeqsHaveSections
<1>5. Cardinality(Sectioned(frames')) + Leaf'
        = Cardinality(Sectioned(frames)) + Leaf + Counts(f)
  <2>1. Leaf = 0 /\ Leaf' = 0
    BY <1>1 DEF Leaf, InLeaf
  <2>2. Cardinality(Sectioned(frames')) = Cardinality(Sectioned(frames)) + Counts(f)
    BY <1>2, SectionedAppend
  <2>3. Cardinality(Sectioned(frames)) \in Nat /\ Counts(f) \in Nat
    BY <1>2, SectionedIsFinite DEF Counts
  <2> QED
    BY <2>1, <2>2, <2>3
<1>6. LeafTypes' /\ InTlvMatchesEnclosing'
  BY <1>1 DEF LeafTypes, InTlvMatchesEnclosing
<1>7. /\ nextType' \in TypeId /\ inTlv' \in BOOLEAN /\ todo' \in Nat
      /\ after' \in {"return", "end"} /\ Counts(f) \in Int
  BY DEF IInv, TypeOK, Counts
<1>8. "return" \in Steps
  BY DEF Steps
<1> QED
  BY <1>1, <1>3, <1>4, <1>5, <1>6, <1>7, <1>8, WentStep

(* The size_hint answers, or the code panics.                              *)
LEMMA HintIs == SizeHint = "return" \/ SizeHint \in Panics \ {"TypePanic", "AssertLen"}
<1>1. \A x : x # TooLong => Outcome(x) \in {"LengthPanic", "MissingPanic"}
  BY DEF Outcome
<1> QED
  BY <1>1 DEF SizeHint, Panics

(* deserialize_seq                                                         *)
LEMMA SeqStep ==
    ASSUME IInv, DeserializeSeq
    PROVE  IInv' /\ Accounted
<1> DEFINE wanted == WantedLengthField[Here]
           next == SizeHint
           f == [type |-> nextType, section |-> SectionOf(wanted), count |-> 0,
                 pending |-> FALSE, seen |-> {}, orig |-> NoProps, wasTlv |-> inTlv]
<1>1. /\ pc = "value"
      /\ Begin(wanted, ComputedLength, next)
      /\ frames' = IF pc' # "return" THEN frames ELSE Append(frames, f)
      /\ UNCHANGED <<opts, nextType, inTlv, props, todo, after>>
  BY DEF DeserializeSeq
<1>2. Running /\ pc # "discard" /\ Ready
  BY <1>1, ReadyToRead DEF Running
<1>3. wanted \in OptSize \cup {MissingPanic}
  BY SiteShape, WantedIsSize DEF IInv, TypeOK
<1>4. f \in Frame /\ f.section # "none"
  <2>1. NoProps \in Properties
    BY DEF NoProps, Properties, OptSize
  <2> QED
    BY <2>1 DEF IInv, TypeOK, Frame, SectionOf
<1> HIDE DEF wanted, next, f
<1>5. Failing \/ Went(next, 1, 0)
  BY <1>1, <1>2, <1>3, BeginGoes
<1>6. CASE Failing
  <2>1. pc' # "return"
    BY <1>6 DEF Failing, Errors, Panics
  <2> QED
    BY <1>1, <1>2, <1>6, <2>1, UnframedFailure
<1>7. CASE Went(next, 1, 0) /\ next \in Panics
  <2>1. pc' = next /\ pc' # "return"
    BY <1>7 DEF Went, Panics
  <2> QED
    BY <1>1, <1>2, <1>7, <2>1, PanickedStep
<1>8. CASE Went(next, 1, 0) /\ next = "return"
  <2>1. pc' = "return"
    BY <1>8 DEF Went
  <2>2. Counts(f) = 1
    BY <1>4 DEF Counts
  <2>3. frames' = Append(frames, f) /\ Went("return", Counts(f), 0)
    BY <1>1, <1>8, <2>1, <2>2
  <2>4. props' \in Properties
    BY <1>1 DEF IInv, TypeOK
  <2> QED
    BY <1>1, <1>4, <2>3, <2>4, OpenStep
<1>9. next = "return" \/ next \in Panics
  BY HintIs DEF next
<1> QED
  BY <1>5, <1>6, <1>7, <1>8, <1>9

(* The innermost access goes on: what its step leaves alone.               *)
LEMMA TopGoesOn ==
    ASSUME IInv, frames # <<>>, NEW f \in Frame, f.section = Top.section, f.type = Top.type,
           frames' = WithTop(frames, f)
    PROVE  /\ frames' \in Seq(Frame) /\ frames' # <<>>
           /\ TopType' = TopType
           /\ SeqsHaveSections'
           /\ Sectioned(frames') = Sectioned(frames)
<1>1. frames \in Seq(Frame) /\ Top = frames[Len(frames)]
  BY DEF IInv, TypeOK, Top
<1>2. /\ frames' \in Seq(Frame) /\ frames' # <<>> /\ Len(frames') = Len(frames)
      /\ \A i \in 1 .. Len(frames) : frames'[i] = IF i = Len(frames) THEN f ELSE frames[i]
      /\ Sectioned(frames') = Sectioned(frames)
  BY <1>1, TopExcept
<1>3. Len(frames) \in 1 .. Len(frames)
  BY <1>1
<1>4. Top' = f
  BY <1>2, <1>3 DEF Top
<1>5. TopType' = TopType
  BY <1>4 DEF TopType
<1>6. DOMAIN frames' = 1 .. Len(frames) /\ DOMAIN frames = 1 .. Len(frames)
  BY <1>1, <1>2
<1>7. \A i \in DOMAIN frames :
         frames'[i].type = frames[i].type /\ frames'[i].section = frames[i].section
  BY <1>1, <1>2, <1>6
<1>8. SeqsHaveSections'
  BY <1>6, <1>7 DEF IInv, SeqsHaveSections
<1> QED
  BY <1>2, <1>5, <1>8

(* A step of the innermost access that changes no section's number.        *)
LEMMA TopStep ==
    ASSUME IInv, Running, pc # "discard", ~InLeaf, frames # <<>>,
           NEW f \in Frame, f.section = Top.section, f.type = Top.type,
           frames' = WithTop(frames, f),
           NEW next \in {"value", "return", "skipFixed", "skipField", "discard"},
           NEW n \in Nat, Went(next, 0, n),
           next = "discard" => todo' = n /\ after' = "return",
           next # "discard" => n = 0,
           next = "skipField" => TopType.kind = "struct",
           next = "value" => inTlv' = (TopType.kind = "struct" /\ TopType.tlv),
           opts' = opts, props' = props, nextType' \in TypeId, inTlv' \in BOOLEAN,
           todo' \in Nat, after' \in {"return", "end"}
    PROVE  IInv' /\ Accounted
<1>1. pc' = next /\ next \in Steps
  BY DEF Went, Steps
<1>2. /\ frames' \in Seq(Frame) /\ frames' # <<>> /\ TopType' = TopType
      /\ SeqsHaveSections' /\ Sectioned(frames') = Sectioned(frames)
  BY TopGoesOn
<1>3. LeafTypes' /\ InTlvMatchesEnclosing'
  BY <1>1, <1>2 DEF LeafTypes, InTlvMatchesEnclosing
<1>4. Cardinality(Sectioned(frames')) + Leaf' = Cardinality(Sectioned(frames)) + Leaf + 0
  <2>1. Leaf = 0 /\ Leaf' = 0
    BY <1>1 DEF Leaf, InLeaf
  <2>2. Cardinality(Sectioned(frames)) \in Nat
    BY SectionedIsFinite DEF IInv, TypeOK
  <2> QED
    BY <1>2, <2>1, <2>2
<1>5. props' \in Properties
  BY DEF IInv, TypeOK
<1>6. 0 \in Int /\ (next = "discard" => todo' = n) /\ (next # "discard" => n = 0)
  OBVIOUS
<1> QED
  BY <1>1, <1>2, <1>3, <1>4, <1>5, <1>6, WentStep

(* next_element_seed, where there is data for an element.                  *)
LEMMA NextElementStep ==
    ASSUME IInv, NextElement
    PROVE  IInv' /\ Accounted
<1> DEFINE f == [Top EXCEPT !.pending = TRUE]
<1>1. /\ pc = "return" /\ frames # <<>> /\ TopType.kind = "seq"
      /\ frames' = [frames EXCEPT ![Len(frames)].pending = TRUE]
      /\ nextType' = TopType.elem /\ inTlv' = FALSE /\ pc' = "value"
      /\ UNCHANGED <<opts, reader, nextLfs, sections, props, todo, after>>
  BY DEF NextElement, AtSeq
<1>2. Running /\ pc # "discard" /\ ~InLeaf /\ Ready
  BY <1>1, ReadyToRead DEF Running, InLeaf
<1>3. Top \in Frame /\ Top = frames[Len(frames)] /\ Top.type \in TypeId /\ TopType = Types[Top.type]
  BY <1>1, TopIsFrame DEF IInv
<1>4. f \in Frame /\ f.section = Top.section /\ f.type = Top.type
  BY <1>3 DEF Frame
<1>5. frames' = WithTop(frames, f)
  BY <1>1, <1>3 DEF WithTop
<1> HIDE DEF f
<1>6. nextType' \in TypeId
  BY <1>1, <1>3, TypeShapes DEF SomeIpSequence
<1>7. Went("value", 0, 0)
  BY <1>1, <1>2, StayGoes
<1>8. /\ inTlv' = (TopType.kind = "struct" /\ TopType.tlv) /\ inTlv' \in BOOLEAN
      /\ todo' \in Nat /\ after' \in {"return", "end"} /\ 0 \in Nat
  BY <1>1 DEF IInv, TypeOK
<1> QED
  BY <1>1, <1>2, <1>4, <1>5, <1>6, <1>7, <1>8, TopStep

(* next_element_seed, behind the element.                                  *)
LEMMA ElementReadStep ==
    ASSUME IInv, ElementRead
    PROVE  IInv' /\ Accounted
<1> DEFINE f == [Top EXCEPT !.pending = FALSE, !.count = @ + 1]
<1>1. /\ pc = "return" /\ frames # <<>> /\ TopType.kind = "seq"
      /\ frames' = [frames EXCEPT ![Len(frames)].pending = FALSE,
                                  ![Len(frames)].count = @ + 1]
      /\ \/ Fail("TooMuchData") /\ UNCHANGED <<todo, after>>
         \/ DiscardFrom(Remaining, "return")
         \/ UNCHANGED <<reader, sections, nextLfs, todo, after, pc>>
      /\ UNCHANGED <<opts, nextType, inTlv, props>>
  BY DEF ElementRead, AtSeq
<1>2. Running /\ pc # "discard" /\ ~InLeaf /\ Ready
  BY <1>1, ReadyToRead DEF Running, InLeaf
<1>3. /\ Top \in Frame /\ Top = frames[Len(frames)] /\ Len(frames) \in DOMAIN frames
      /\ Top.count \in Nat
  BY <1>1, TopIsFrame DEF IInv
<1>4. f \in Frame /\ f.section = Top.section /\ f.type = Top.type
  <2>1. Top.count + 1 \in Nat
    BY <1>3
  <2> QED
    BY <1>3, <2>1 DEF Frame
<1>5. frames' = WithTop(frames, f)
  BY <1>1, <1>3 DEF WithTop, Frame
<1> HIDE DEF f
<1>6. /\ nextType' \in TypeId /\ inTlv' \in BOOLEAN /\ props' \in Properties /\ 0 \in Nat
      /\ todo \in Nat /\ after \in {"return", "end"}
  BY <1>1 DEF IInv, TypeOK
<1>7. CASE Failing /\ UNCHANGED <<todo, after>>
  <2>1. frames' \in Seq(Frame) /\ SeqsHaveSections'
    BY <1>1, <1>4, <1>5, TopGoesOn
  <2> QED
    BY <1>1, <1>2, <1>6, <1>7, <2>1, FailingStep
<1>8. CASE UNCHANGED <<reader, sections, nextLfs, todo, after, pc>>
  <2>1. Went("return", 0, 0)
    BY <1>1, <1>2, <1>8, StayGoes
  <2> QED
    BY <1>1, <1>2, <1>4, <1>5, <1>6, <1>8, <2>1, TopStep
<1>9. CASE Went("discard", 0, Remaining) /\ todo' = Remaining /\ after' = "return"
  <2>1. Remaining \in Nat
    BY <1>2, RemainingFits
  <2> QED
    BY <1>1, <1>2, <1>4, <1>5, <1>6, <1>9, <2>1, TopStep
<1>10. Fail("TooMuchData") => Failing
  BY DEF Fail, Failing, Errors
<1>11. Remaining \in Nat
  BY <1>2, RemainingFits
<1>12. CASE DiscardFrom(Remaining, "return")
  BY <1>2, <1>7, <1>9, <1>11, <1>12, DiscardGoes
<1> QED
  BY <1>1, <1>7, <1>8, <1>10, <1>12

(* An access ends, and so does its section if it has one.                  *)
LEMMA CloseStep ==
    ASSUME IInv, pc = "return", frames # <<>>, frames' = Front(frames),
           Went("return", 0 - Counts(Top), 0),
           opts' = opts, nextType' = nextType, inTlv' \in BOOLEAN, props' \in Properties,
           UNCHANGED <<todo, after>>
    PROVE  IInv' /\ Accounted
<1>1. Running /\ pc' = "return"
  BY DEF Running, Went
<1>2. frames \in Seq(Frame) /\ Top = frames[Len(frames)] /\ Top \in Frame
  BY TopIsFrame DEF IInv, TypeOK
<1>3. /\ frames' \in Seq(Frame) /\ Len(frames') = Len(frames) - 1
      /\ \A k \in 1 .. Len(frames) - 1 : frames'[k] = frames[k]
  BY <1>2, FrontIsSeq
<1>4. SeqsHaveSections'
  <2>1. DOMAIN frames' = 1 .. Len(frames) - 1 /\ DOMAIN frames = 1 .. Len(frames)
        /\ Len(frames) \in Nat
    BY <1>2, <1>3
  <2> QED
    BY <1>3, <2>1 DEF IInv, SeqsHaveSections
<1>5. Cardinality(Sectioned(frames')) + Leaf'
        = Cardinality(Sectioned(frames)) + Leaf + (0 - Counts(Top))
  <2>1. Leaf = 0 /\ Leaf' = 0
    BY <1>1 DEF Leaf, InLeaf
  <2>2. Cardinality(Sectioned(frames')) = Cardinality(Sectioned(frames)) - Counts(Top)
    BY <1>2, SectionedFront
  <2>3. Cardinality(Sectioned(frames)) \in Nat /\ Counts(Top) \in Nat
    BY <1>2, SectionedIsFinite DEF Counts
  <2> QED
    BY <2>1, <2>2, <2>3
<1>6. LeafTypes' /\ InTlvMatchesEnclosing'
  BY <1>1 DEF LeafTypes, InTlvMatchesEnclosing
<1>7. /\ nextType' \in TypeId /\ todo' \in Nat /\ after' \in {"return", "end"}
      /\ 0 - Counts(Top) \in Int
  BY DEF IInv, TypeOK, Counts
<1>8. "return" \in Steps
  BY DEF Steps
<1> QED
  BY <1>1, <1>3, <1>4, <1>5, <1>6, <1>7, <1>8, WentStep

(* An access with a section is not alone: there is a section to end.       *)
LEMMA SectionIsThere ==
    ASSUME IInv, pc = "return", frames # <<>>, Top.section # "none"
    PROVE  sections # <<>>
<1>1. frames \in Seq(Frame) /\ Top = frames[Len(frames)]
  BY DEF IInv, TypeOK, Top
<1>2. Cardinality(Sectioned(frames)) \in Nat /\ Cardinality(Sectioned(frames)) # 0
  BY <1>1, SectionedIsFinite, SectionedFront
<1>3. Len(sections) = Cardinality(Sectioned(frames)) + 0
  BY DEF IInv, SectionsMatchFrames, Current, Running, InLeaf
<1> QED
  BY <1>2, <1>3

(* An access that ends with an error leaves the others as they are.        *)
LEMMA CloseFails ==
    ASSUME IInv, pc = "return", frames # <<>>, Failing, frames' = Front(frames),
           opts' = opts, nextType' = nextType, inTlv' \in BOOLEAN, props' \in Properties,
           UNCHANGED <<todo, after>>
    PROVE  IInv' /\ Accounted
<1>1. frames \in Seq(Frame)
  BY DEF IInv, TypeOK
<1>2. /\ frames' \in Seq(Frame) /\ Len(frames') = Len(frames) - 1
      /\ \A k \in 1 .. Len(frames) - 1 : frames'[k] = frames[k]
  BY <1>1, FrontIsSeq
<1>3. SeqsHaveSections'
  <2>1. DOMAIN frames' = 1 .. Len(frames) - 1 /\ DOMAIN frames = 1 .. Len(frames)
        /\ Len(frames) \in Nat
    BY <1>1, <1>2
  <2> QED
    BY <1>2, <2>1 DEF IInv, SeqsHaveSections
<1>4. /\ nextType' \in TypeId /\ todo' \in Nat /\ after' \in {"return", "end"}
      /\ pc # "discard"
  BY DEF IInv, TypeOK
<1> QED
  BY <1>2, <1>3, <1>4, FailingStep

(* The section of a sequence is used up.                                   *)
LEMMA EndSeqStep ==
    ASSUME IInv, EndSeq
    PROVE  IInv' /\ Accounted
<1>1. /\ pc = "return" /\ frames # <<>> /\ TopType.kind = "seq"
      /\ Fail("NotEnoughData") \/ EndSection("return")
      /\ frames' = Front(frames)
      /\ UNCHANGED <<opts, nextType, inTlv, props, todo, after>>
  BY DEF EndSeq, AtSeq
<1>2. Ready
  BY <1>1, ReadyToRead DEF Running
<1>3. Top.section # "none"
  BY <1>1, TopIsFrame DEF IInv, SeqsHaveSections
<1>4. inTlv' \in BOOLEAN /\ props' \in Properties
  BY <1>1 DEF IInv, TypeOK
<1>5. CASE Failing
  BY <1>1, <1>4, <1>5, CloseFails
<1>6. CASE Went("return", -1, 0)
  <2>1. 0 - Counts(Top) = -1
    BY <1>3 DEF Counts
  <2>2. Went("return", 0 - Counts(Top), 0)
    BY <1>6, <2>1
  <2> QED
    BY <1>1, <1>4, <2>2, CloseStep
<1>7. Fail("NotEnoughData") => Failing
  BY DEF Fail, Failing, Errors
<1>8. EndSection("return") => Failing \/ Went("return", -1, 0)
  <2>1. sections # <<>>
    BY <1>1, <1>3, SectionIsThere
  <2> QED
    BY <1>2, <2>1, EndSectionGoes
<1> QED
  BY <1>1, <1>5, <1>6, <1>7, <1>8

----------------------------------------------------------------------------
(***************************************************************************)
(* Structs.                                                                *)
(***************************************************************************)

(* The type of a struct access.                                            *)
LEMMA StructShape ==
    ASSUME IInv, frames # <<>>, TopType.kind = "struct"
    PROVE  /\ TopType \in SomeIpStruct
           /\ TopType.tlv \in BOOLEAN /\ TopType.lfs \in OptSize
           /\ \A i \in DOMAIN TopType.fields : TopType.fields[i].type \in TypeId
<1>1. TopType \in SomeIpStruct
  BY TopIsFrame, TypeShapes DEF IInv
<1>2. /\ TopType.tlv \in BOOLEAN /\ TopType.lfs \in OptSize
      /\ TopType.fields \in Seq(Field)
  BY <1>1 DEF SomeIpStruct
<1>3. \A i \in DOMAIN TopType.fields : TopType.fields[i] \in Field
  BY <1>2
<1> QED
  BY <1>1, <1>2, <1>3 DEF Field

(* deserialize_struct                                                      *)
LEMMA StructStep ==
    ASSUME IInv, DeserializeStruct
    PROVE  IInv' /\ Accounted
<1> DEFINE ty == Types[nextType]
           scope == IF ty.props.set THEN ty.props ELSE props
           wanted == WantedLengthField[[Here EXCEPT !.props = scope]]
           f == [type |-> nextType, section |-> StructSection(wanted), count |-> 0,
                 pending |-> FALSE, seen |-> {},
                 orig |-> IF ty.props.set THEN props ELSE NoProps, wasTlv |-> inTlv]
<1>1. /\ pc = "value" /\ ty.kind = "struct" /\ props' = scope
      /\ \/ Failed(wanted) /\ Fail(Outcome(wanted))
         \/ ~Failed(wanted) /\ wanted # None /\ BeginSection(wanted, "return")
         \/ /\ wanted = None
            /\ pc' = "return"
            /\ UNCHANGED <<reader, sections, nextLfs>>
      /\ frames' = IF pc' # "return" THEN frames ELSE Append(frames, f)
      /\ UNCHANGED <<opts, nextType, inTlv, todo, after>>
  BY DEF DeserializeStruct
<1>2. Running /\ pc # "discard" /\ Ready
  BY <1>1, ReadyToRead DEF Running
<1>3. scope \in Properties
  <2>1. ty \in SomeIpStruct
    BY <1>1, TypeShapes DEF IInv, TypeOK
  <2> QED
    BY <2>1 DEF SomeIpStruct, IInv, TypeOK
<1>4. wanted \in OptSize \cup {MissingPanic}
  BY <1>3, SiteShape, WantedIsSize DEF IInv
<1>5. f \in Frame
  <2>1. NoProps \in Properties
    BY DEF NoProps, Properties, OptSize
  <2> QED
    BY <2>1 DEF IInv, TypeOK, Frame, StructSection
<1>6. /\ f.type = nextType /\ f.section = StructSection(wanted)
  OBVIOUS
<1>7. ty = Types[nextType]
  OBVIOUS
<1> HIDE DEF ty, scope, wanted, f
<1>8. CASE Failing
  <2>1. pc' # "return"
    BY <1>8 DEF Failing, Errors, Panics
  <2>2. /\ nextType' \in TypeId /\ inTlv' \in BOOLEAN /\ props' \in Properties
        /\ frames' \in Seq(Frame) /\ todo' \in Nat /\ after' \in {"return", "end"}
        /\ opts' = opts
    BY <1>1, <1>3, <2>1 DEF IInv, TypeOK
  <2>3. SeqsHaveSections'
    BY <1>1, <2>1 DEF IInv, SeqsHaveSections
  <2> QED
    BY <1>2, <1>8, <2>2, <2>3, FailingStep
<1>9. CASE Went("return", Counts(f), 0)
  <2>1. pc' = "return"
    BY <1>9 DEF Went
  <2>2. Types[f.type].kind # "seq"
    BY <1>1, <1>6, <1>7
  <2>3. frames' = Append(frames, f) /\ props' \in Properties
    BY <1>1, <1>3, <2>1
  <2> QED
    BY <1>1, <1>5, <1>9, <2>2, <2>3, OpenStep
<1>10. CASE Failed(wanted) /\ Fail(Outcome(wanted))
  BY <1>8, <1>10 DEF Fail, Failing, Outcome, Errors, Panics
<1>11. CASE ~Failed(wanted) /\ wanted # None /\ BeginSection(wanted, "return")
  <2>1. wanted \in LengthFieldSize
    BY <1>4, <1>11, SizesDoNotFail
  <2>2. Counts(f) = 1
    BY <1>6, <1>11 DEF Counts, StructSection
  <2>3. Failing \/ Went("return", 1, 0)
    BY <1>2, <1>11, <2>1, BeginSectionGoes
  <2> QED
    BY <1>8, <1>9, <2>2, <2>3
<1>12. CASE wanted = None /\ pc' = "return" /\ UNCHANGED <<reader, sections, nextLfs>>
  <2>1. Counts(f) = 0
    BY <1>6, <1>12 DEF Counts, StructSection
  <2>2. Went("return", 0, 0)
    BY <1>2, <1>12, StayGoes
  <2> QED
    BY <1>9, <2>1, <2>2
<1> QED
  BY <1>1, <1>10, <1>11, <1>12

(* next_element_seed of a struct                                           *)
LEMMA NextFieldStep ==
    ASSUME IInv, NextField
    PROVE  IInv' /\ Accounted
<1> DEFINE f == [Top EXCEPT !.count = @ + 1]
<1>1. /\ pc = "return" /\ frames # <<>> /\ TopType.kind = "struct" /\ TopType.tlv = FALSE
      /\ Top.count < Len(TopType.fields)
      /\ frames' = [frames EXCEPT ![Len(frames)].count = @ + 1]
      /\ nextType' = TopType.fields[Top.count + 1].type
      /\ inTlv' = FALSE /\ pc' = "value"
      /\ UNCHANGED <<opts, reader, nextLfs, sections, props, todo, after>>
  BY DEF NextField, AtStruct
<1>2. Running /\ pc # "discard" /\ ~InLeaf /\ Ready
  BY <1>1, ReadyToRead DEF Running, InLeaf
<1>3. Top \in Frame /\ Top = frames[Len(frames)] /\ Top.count \in Nat
  BY <1>1, TopIsFrame DEF IInv
<1>4. f \in Frame /\ f.section = Top.section /\ f.type = Top.type
  <2>1. Top.count + 1 \in Nat
    BY <1>3
  <2> QED
    BY <1>3, <2>1 DEF Frame
<1>5. frames' = WithTop(frames, f)
  BY <1>1, <1>3 DEF WithTop
<1> HIDE DEF f
<1>6. nextType' \in TypeId
  <2>1. TopType \in SomeIpStruct
        /\ \A i \in DOMAIN TopType.fields : TopType.fields[i].type \in TypeId
    BY <1>1, StructShape
  <2>2. TopType.fields \in Seq(Field)
    BY <2>1 DEF SomeIpStruct
  <2>3. Top.count + 1 \in DOMAIN TopType.fields
    BY <1>1, <1>3, <2>2
  <2> QED
    BY <1>1, <2>1, <2>3
<1>7. Went("value", 0, 0)
  BY <1>1, <1>2, StayGoes
<1>8. /\ inTlv' = (TopType.kind = "struct" /\ TopType.tlv) /\ inTlv' \in BOOLEAN
      /\ todo' \in Nat /\ after' \in {"return", "end"} /\ 0 \in Nat
  BY <1>1 DEF IInv, TypeOK
<1> QED
  BY <1>1, <1>2, <1>4, <1>5, <1>6, <1>7, <1>8, TopStep

(* The visitor misses a field.                                             *)
LEMMA FieldsCutShortStep ==
    ASSUME IInv, FieldsCutShort
    PROVE  IInv' /\ Accounted
<1>1. Failing /\ pc' \in Errors
      /\ UNCHANGED <<opts, nextType, inTlv, props, frames, todo, after>>
  BY DEF FieldsCutShort, Fail, Failing, Errors
<1> QED
  BY <1>1, UnframedFailure

(* The visitor misses a field of a TLV struct.                             *)
LEMMA FieldMissingStep ==
    ASSUME IInv, FieldMissing
    PROVE  IInv' /\ Accounted
<1>1. Failing /\ pc' \in Errors
      /\ UNCHANGED <<opts, nextType, inTlv, props, frames, todo, after>>
  BY DEF FieldMissing, Fail, Failing, Errors
<1> QED
  BY <1>1, UnframedFailure

(* read_next_tag fails.                                                    *)
LEMMA TagUnreadableStep ==
    ASSUME IInv, TagUnreadable
    PROVE  IInv' /\ Accounted
<1>1. pc = "return" /\ UNCHANGED <<opts, nextType, inTlv, props, frames, todo, after>>
  BY DEF TagUnreadable, AtStruct
<1>2. PICK out \in Outcomes(2) : out # "ok" /\ Fail(out)
  BY DEF TagUnreadable
<1>3. Ready
  BY <1>1, ReadyToRead DEF Running
<1>4. out \in Errors \cup Panics
  BY <1>2, <1>3, OutcomesAre
<1>5. Failing
  BY <1>2, <1>4 DEF Fail, Failing
<1> QED
  BY <1>1, <1>5, UnframedFailure

(* The length field that a tag announces.                                  *)
LEMMA AnnouncedIsSize ==
    \A wire \in WireType : LengthFieldOfWire(wire) \in OptSize
BY DEF LengthFieldOfWire, OptSize, LengthFieldSize, None

(* The tag of a field of the struct.                                       *)
LEMMA KnownFieldStep ==
    ASSUME IInv, AtStruct(TRUE), 2 <= Remaining, NEW wire \in WireType,
           NEW i \in DOMAIN TopType.fields, KnownField(i, wire)
    PROVE  IInv' /\ Accounted
<1> DEFINE f == [Top EXCEPT !.seen = @ \cup {i}]
<1>1. pc = "return" /\ frames # <<>> /\ TopType.kind = "struct" /\ TopType.tlv = TRUE
      /\ UNCHANGED <<opts, props, todo, after>>
  BY DEF KnownField, AtStruct
<1>2. Running /\ pc # "discard" /\ ~InLeaf /\ Ready
  BY <1>1, ReadyToRead DEF Running, InLeaf
<1>3. CASE /\ \E out \in {"Message", "InvalidWireType"} : Fail(out)
           /\ UNCHANGED <<frames, nextType, inTlv>>
  <2>1. Failing
    BY <1>3 DEF Fail, Failing, Errors
  <2> QED
    BY <1>1, <1>2, <1>3, <2>1, UnframedFailure
<1>4. CASE /\ Take(2)
           /\ nextLfs' = LengthFieldOfWire(wire)
           /\ nextType' = TopType.fields[i].type
           /\ inTlv' = TRUE
           /\ frames' = [frames EXCEPT ![Len(frames)].seen = @ \cup {i}]
           /\ pc' = "value"
  <2>1. Top \in Frame /\ Top = frames[Len(frames)]
    BY <1>1, TopIsFrame DEF IInv
  <2>2. TopType \in SomeIpStruct /\ TopType.fields[i].type \in TypeId
    BY <1>1, StructShape
  <2>3. i \in Nat
    <3>1. TopType.fields \in Seq(Field)
      BY <2>2 DEF SomeIpStruct
    <3> QED
      BY <3>1
  <2>4. f \in Frame /\ f.section = Top.section /\ f.type = Top.type
    BY <2>1, <2>3 DEF Frame
  <2>5. frames' = WithTop(frames, f)
    BY <1>4, <2>1 DEF WithTop
  <2> HIDE DEF f
  <2>6. Went("value", 0, 0)
    BY <1>2, <1>4, AnnouncedIsSize, TakeGoes
  <2>7. /\ inTlv' = (TopType.kind = "struct" /\ TopType.tlv) /\ inTlv' \in BOOLEAN
        /\ todo' \in Nat /\ after' \in {"return", "end"} /\ 0 \in Nat
        /\ nextType' \in TypeId
    BY <1>1, <1>4, <2>2 DEF IInv, TypeOK
  <2> QED
    BY <1>1, <1>2, <2>4, <2>5, <2>6, <2>7, TopStep
<1>5. \/ /\ \E out \in {"Message", "InvalidWireType"} : Fail(out)
         /\ UNCHANGED <<frames, nextType, inTlv>>
      \/ /\ Take(2)
         /\ nextLfs' = LengthFieldOfWire(wire)
         /\ nextType' = TopType.fields[i].type
         /\ inTlv' = TRUE
         /\ frames' = [frames EXCEPT ![Len(frames)].seen = @ \cup {i}]
         /\ pc' = "value"
  BY DEF KnownField
<1> QED
  BY <1>3, <1>4, <1>5

(* The tag of a field that the struct does not have.                       *)
LEMMA UnknownFieldStep ==
    ASSUME IInv, AtStruct(TRUE), 2 <= Remaining, NEW wire \in WireType,
           UnknownField(wire)
    PROVE  IInv' /\ Accounted
<1>1. /\ pc = "return" /\ frames # <<>> /\ TopType.kind = "struct"
      /\ Take(2) /\ nextType' = Top.type
      /\ \/ /\ pc' = "skipFixed" /\ wire < FromConfig
            /\ todo' = FixedSize[wire + 1] /\ nextLfs' = nextLfs
         \/ pc' = "skipField" /\ nextLfs' = LengthFieldOfWire(wire) /\ todo' = todo
      /\ UNCHANGED <<opts, inTlv, props, frames, after>>
  BY DEF UnknownField, AtStruct
<1>2. Running /\ pc # "discard" /\ ~InLeaf /\ Ready
  BY <1>1, ReadyToRead DEF Running, InLeaf
<1>3. /\ Top \in Frame /\ Top = frames[Len(frames)] /\ Top.type \in TypeId
      /\ frames \in Seq(Frame)
  BY <1>1, TopIsFrame DEF IInv, TypeOK
<1>4. frames' = WithTop(frames, Top)
  BY <1>1, <1>3 DEF WithTop
<1>5. nextLfs' \in OptSize
  BY <1>1, AnnouncedIsSize DEF IInv, TypeOK
<1>6. Went(pc', 0, 0)
  BY <1>1, <1>2, <1>5, TakeGoes
<1>7. todo' \in Nat
  <2>1. wire < FromConfig => wire + 1 \in 1 .. 4
    BY DEF WireType, FromConfig
  <2>2. \A k \in 1 .. 4 : FixedSize[k] \in Nat
    BY DEF FixedSize
  <2> QED
    BY <1>1, <2>1, <2>2 DEF IInv, TypeOK
<1>8. /\ inTlv' \in BOOLEAN /\ after' \in {"return", "end"} /\ 0 \in Nat
      /\ nextType' \in TypeId /\ opts' = opts /\ props' = props
  BY <1>1, <1>3 DEF IInv, TypeOK
<1>9. pc' \in {"skipFixed", "skipField"}
  BY <1>1
<1> HIDE DEF WithTop
<1>10. CASE pc' = "skipFixed"
  <2>1. Went("skipFixed", 0, 0)
    BY <1>6, <1>10
  <2> QED
    BY <1>1, <1>2, <1>3, <1>4, <1>7, <1>8, <2>1, TopStep
<1>11. CASE pc' = "skipField"
  <2>1. Went("skipField", 0, 0)
    BY <1>6, <1>11
  <2> QED
    BY <1>1, <1>2, <1>3, <1>4, <1>7, <1>8, <2>1, TopStep
<1> QED
  BY <1>9, <1>10, <1>11

(* next_key_seed and next_value_seed                                       *)
LEMMA NextKeyStep ==
    ASSUME IInv, NextKey
    PROVE  IInv' /\ Accounted
<1>1. AtStruct(TRUE) /\ pc = "return" /\ "ok" \in Outcomes(2)
  BY DEF NextKey, AtStruct
<1>2. 2 <= Remaining
  <2>1. Ready
    BY <1>1, ReadyToRead DEF Running
  <2> QED
    BY <1>1, <2>1, OutcomesAre
<1>3. PICK wire \in WireType :
         UnknownField(wire) \/ \E i \in DOMAIN TopType.fields : KnownField(i, wire)
  BY DEF NextKey
<1> QED
  BY <1>1, <1>2, <1>3, UnknownFieldStep, KnownFieldStep

(* An unknown field of fixed size.                                         *)
LEMMA SkipFixedStep ==
    ASSUME IInv, SkipFixed
    PROVE  IInv' /\ Accounted
<1>1. /\ pc = "skipFixed" /\ DiscardFrom(todo, "return")
      /\ UNCHANGED <<opts, nextType, inTlv, props, frames>>
  BY DEF SkipFixed
<1>2. Running /\ pc # "discard" /\ Ready /\ todo \in Nat
  BY <1>1, ReadyToRead DEF Running, IInv, TypeOK
<1>3. CASE Failing /\ UNCHANGED <<todo, after>>
  BY <1>1, <1>2, <1>3, UnframedFailure
<1>4. CASE Went("discard", 0, todo) /\ todo' = todo /\ after' = "return"
  <2>1. Leaf' = Leaf + 0
    BY <1>1, <1>4 DEF Went, Leaf, InLeaf
  <2> QED
    BY <1>1, <1>2, <1>4, <2>1, UnframedStep
<1> QED
  BY <1>1, <1>2, <1>3, <1>4, DiscardGoes

(* An unknown field with a length field.                                   *)
LEMMA SkipFieldStep ==
    ASSUME IInv, SkipField
    PROVE  IInv' /\ Accounted
<1> DEFINE size == ApplyDefaults(opts, TopType.lfs)
<1>1. /\ pc = "skipField"
      /\ \/ size = None /\ Fail("MissingPanic")
         \/ size # None /\ BeginSection(size, "skip")
      /\ UNCHANGED <<opts, nextType, inTlv, props, frames, todo, after>>
  BY DEF SkipField
<1>2. Running /\ pc # "discard" /\ Ready
  BY <1>1, ReadyToRead DEF Running
<1>3. size \in OptSize
  <2>1. TopType.lfs \in OptSize
    BY <1>1, StructShape DEF IInv, LeafTypes
  <2>2. opts.defaultLfs \in OptSize
    BY DEF IInv, TypeOK, Options
  <2> QED
    BY <2>1, <2>2 DEF ApplyDefaults, Or
<1> HIDE DEF size
<1>4. CASE Failing
  BY <1>1, <1>2, <1>4, UnframedFailure
<1>5. CASE Went("skip", 1, 0)
  <2>1. Leaf' = Leaf + 1
    BY <1>1, <1>5 DEF Went, Leaf, InLeaf
  <2>2. todo' \in Nat /\ after' \in {"return", "end"}
    BY <1>1 DEF IInv, TypeOK
  <2> QED
    BY <1>1, <1>2, <1>5, <2>1, <2>2, UnframedStep
<1>6. size # None => size \in LengthFieldSize
  BY <1>3, SizesDoNotFail
<1>7. Fail("MissingPanic") => Failing
  BY DEF Fail, Failing, Panics
<1>8. size # None /\ BeginSection(size, "skip") => Failing \/ Went("skip", 1, 0)
  BY <1>2, <1>6, BeginSectionGoes
<1> QED
  BY <1>1, <1>4, <1>5, <1>7, <1>8

(* All fields of a struct have been read.                                  *)
LEMMA EndStructStep ==
    ASSUME IInv, EndStruct
    PROVE  IInv' /\ Accounted
<1>1. /\ pc = "return" /\ frames # <<>>
      /\ \/ Top.section # "none" /\ EndSection("return")
         \/ Top.section = "none" /\ UNCHANGED <<reader, sections, nextLfs, pc>>
      /\ inTlv' = Top.wasTlv
      /\ props' = IF TopType.props.set THEN Top.orig ELSE props
      /\ frames' = Front(frames)
      /\ UNCHANGED <<opts, nextType, todo, after>>
  BY DEF EndStruct, AllFields, AtStruct
<1>2. Ready
  BY <1>1, ReadyToRead DEF Running
<1>3. inTlv' \in BOOLEAN /\ props' \in Properties
  <2>1. Top.wasTlv \in BOOLEAN /\ Top.orig \in Properties /\ props \in Properties
    BY <1>1, TopIsFrame DEF IInv, TypeOK
  <2> QED
    BY <1>1, <2>1
<1>4. CASE Failing
  BY <1>1, <1>3, <1>4, CloseFails
<1>5. CASE Went("return", 0 - Counts(Top), 0)
  BY <1>1, <1>3, <1>5, CloseStep
<1>6. CASE Top.section # "none" /\ EndSection("return")
  <2>1. sections # <<>>
    BY <1>1, <1>6, SectionIsThere
  <2>2. Failing \/ Went("return", -1, 0)
    BY <1>2, <1>6, <2>1, EndSectionGoes
  <2>3. 0 - Counts(Top) = -1
    BY <1>6 DEF Counts
  <2>4. Went("return", -1, 0) => Went("return", 0 - Counts(Top), 0)
    BY <2>3
  <2> QED
    BY <1>4, <1>5, <2>2, <2>4
<1>7. CASE Top.section = "none" /\ UNCHANGED <<reader, sections, nextLfs, pc>>
  <2>1. 0 - Counts(Top) = 0
    BY <1>7 DEF Counts
  <2>2. Went("return", 0, 0)
    BY <1>1, <1>2, <1>7, StayGoes
  <2>3. Went("return", 0 - Counts(Top), 0)
    BY <2>1, <2>2
  <2> QED
    BY <1>5, <2>3
<1> QED
  BY <1>1, <1>6, <1>7

----------------------------------------------------------------------------
(***************************************************************************)
(* The invariant, and what it implies.                                     *)
(***************************************************************************)

(* The deserializer starts with the whole of its reader and no section.    *)
LEMMA InitEstablishesIInv ==
    ASSUME Init
    PROVE  IInv
<1>1. TypeOK
  <2>1. opts \in Options /\ reader \in Reader /\ nextType \in TypeId
    BY DeserializerAssumption DEF Init
  <2>2. sections \in Seq(Nat) /\ frames \in Seq(Frame)
    BY DEF Init
  <2>3. NoProps \in Properties /\ None \in OptSize
    BY DEF NoProps, Properties, OptSize
  <2> QED
    BY <2>1, <2>2, <2>3 DEF Init, TypeOK, Running
<1>2. Supplied
  <2>1. reader.remaining \in Nat /\ reader.available \in Nat
    BY <1>1 DEF TypeOK, Reader
  <2>2. Covered(sections, reader.remaining)
    <3> DEFINE floors == [k \in 1 .. 1 |-> reader.remaining]
    <3>1. sections = <<>> /\ Len(sections) = 0
      BY DEF Init
    <3>2. floors \in [1 .. Len(sections) + 1 -> Nat]
          /\ floors[Len(sections) + 1] = reader.remaining
      BY <2>1, <3>1
    <3> HIDE DEF floors
    <3>3. Floors(sections, reader.remaining, floors)
      BY <3>1, <3>2 DEF Floors
    <3> QED
      BY <3>3 DEF Covered
  <2>3. Backed(reader, 0)
    BY <2>1, DeserializerAssumption DEF Init, Backed, CompleteReaders
  <2>4. Uncounted = 0
    BY DEF Init, Uncounted
  <2> QED
    BY <1>1, <2>2, <2>3, <2>4 DEF TypeOK, Supplied, Usable
<1>3. SectionsMatchFrames
  <2>1. Sectioned(frames) = {} /\ ~InLeaf /\ Len(sections) = 0
    BY DEF Init, Sectioned, InLeaf
  <2>2. Cardinality({}) = 0
    BY FS_EmptySet
  <2>3. Cardinality(Sectioned(frames)) = 0
    BY <2>1, <2>2
  <2> QED
    BY <2>1, <2>3 DEF SectionsMatchFrames
<1>4. SeqsHaveSections
  BY DEF Init, SeqsHaveSections
<1>5. AtStart /\ LeafTypes /\ InTlvMatchesEnclosing
  BY DEF Init, AtStart, LeafTypes, InTlvMatchesEnclosing
<1> QED
  BY <1>1, <1>2, <1>3, <1>4, <1>5 DEF IInv

(* A step that changes nothing.                                            *)
LEMMA StutterStep ==
    ASSUME IInv, UNCHANGED vars
    PROVE  IInv' /\ Accounted
<1> USE DEF vars
<1>1. TypeOK' /\ SeqsHaveSections' /\ AtStart' /\ LeafTypes' /\ InTlvMatchesEnclosing'
  BY DEF IInv, TypeOK, SeqsHaveSections, AtStart, LeafTypes, InTlvMatchesEnclosing,
         TopType, Top, Running
<1>2. Supplied'
  BY DEF IInv, Supplied, Running, Uncounted
<1>3. SectionsMatchFrames'
  BY DEF IInv, SectionsMatchFrames, Current, Running, InLeaf
<1>4. Accounted
  BY DEF Accounted, Owed
<1> QED
  BY <1>1, <1>2, <1>3, <1>4 DEF IInv

(* Every step keeps it, and accounts for the bytes it counts as read.      *)
LEMMA NextKeepsIInv ==
    ASSUME IInv, [Next]_vars
    PROVE  IInv' /\ Accounted
<1>1. CASE Call \/ DeserializeFixed \/ DeserializeOption \/ Finish
  BY <1>1, CallStep, FixedStep, OptionStep, FinishStep
<1>2. CASE DeserializeString \/ DeserializeStr \/ ReadString \/ ReadStr
  BY <1>2, StringStep, StrStep, ReadStringStep, ReadStrStep
<1>3. CASE DeserializeBytes \/ ReadBytes \/ EndLeaf
  BY <1>3, BytesStep, ReadBytesStep, EndLeafStep
<1>4. CASE Skip \/ DiscardChunk \/ DiscardFails
  BY <1>4, SkipStep, DiscardChunkStep, DiscardFailsStep
<1>5. CASE DeserializeSeq \/ NextElement \/ ElementRead \/ EndSeq
  BY <1>5, SeqStep, NextElementStep, ElementReadStep, EndSeqStep
<1>6. CASE DeserializeStruct \/ NextField \/ FieldsCutShort \/ EndStruct
  BY <1>6, StructStep, NextFieldStep, FieldsCutShortStep, EndStructStep
<1>7. CASE TagUnreadable \/ NextKey \/ FieldMissing
  BY <1>7, TagUnreadableStep, NextKeyStep, FieldMissingStep
<1>8. CASE SkipFixed \/ SkipField
  BY <1>8, SkipFixedStep, SkipFieldStep
<1>9. CASE UNCHANGED vars
  BY <1>9, StutterStep
<1> QED
  BY <1>1, <1>2, <1>3, <1>4, <1>5, <1>6, <1>7, <1>8, <1>9 DEF Next, Step, Stopped

(* IInv holds throughout.                                                  *)
THEOREM Invariant == Spec => []IInv
<1>1. Init => IInv
  BY InitEstablishesIInv
<1>2. IInv /\ [Next]_vars => IInv'
  BY NextKeepsIInv
<1> QED
  BY <1>1, <1>2, PTL DEF Spec

(* The state of the deserializer is always well typed: no read takes more  *)
(* than there is from the reader, from a section or from a discard.        *)
THEOREM TypeCorrect == Spec => []TypeOK
<1>1. IInv => TypeOK
  BY DEF IInv
<1> QED
  BY <1>1, Invariant, PTL

(* `length_delimited_sections.pop()` always finds the section that the     *)
(* value began, and a finished message leaves none.                        *)
THEOREM SectionsAlwaysMatchFrames == Spec => []SectionsMatchFrames
<1>1. IInv => SectionsMatchFrames
  BY DEF IInv
<1> QED
  BY <1>1, Invariant, PTL

(* is_in_tlv_struct is right whenever a value is deserialized.             *)
THEOREM InTlvAlwaysMatchesEnclosing == Spec => []InTlvMatchesEnclosing
<1>1. IInv => InTlvMatchesEnclosing
  BY DEF IInv
<1> QED
  BY <1>1, Invariant, PTL

(* The innermost section never has more bytes left than the reader,        *)
(* although only it is counted down: before_read protects the reader too.  *)
THEOREM SectionsAlwaysWithinReader == Spec => []SectionsWithinReader
<1>1. ASSUME IInv, Running
      PROVE  Remaining <= reader.remaining
  <2>1. /\ sections \in Seq(Nat) /\ reader.remaining \in Nat
        /\ Covered(sections, reader.remaining)
    BY <1>1 DEF IInv, Supplied, Usable, Reader
  <2>2. Remaining = Left(sections, reader.remaining)
    BY DEF Remaining, Left
  <2> QED
    BY <2>1, <2>2, CoveredFits
<1>2. IInv => SectionsWithinReader
  BY <1>1 DEF SectionsWithinReader
<1> QED
  BY <1>2, Invariant, PTL

(* Every byte counted as read is read, or the call fails, for any reader   *)
(* that has as many bytes as from_reader was told.                         *)
THEOREM EveryByteIsRead ==
    ASSUME CompleteReaders
    PROVE  Spec => EveryByteRead
<1>1. IInv /\ [Next]_vars => [pc' \in Errors \/ Owed' = Owed]_vars
  BY NextKeepsIInv DEF Accounted
<1> QED
  BY <1>1, Invariant, PTL DEF Spec, EveryByteRead

----------------------------------------------------------------------------
(***************************************************************************)
(* Transformation properties.                                              *)
(***************************************************************************)

(* Every open struct has kept the properties it has replaced, so that      *)
(* PropsScoped is restored however deep the structs are nested.            *)
ScopesKept == Current => Scoped(frames, props)

(* Steps that neither open nor close an access.                            *)
LEMMA ScopesStay ==
    ASSUME IInv, Running, ScopesKept, UNCHANGED <<frames, props>>
    PROVE  ScopesKept'
BY DEF ScopesKept, Current

(* Steps within the innermost access.                                      *)
LEMMA ScopesOfTop ==
    ASSUME IInv, IInv', ScopesKept, pc = "return", frames # <<>>, props' = props,
           NEW f, f.type = Top.type, f.orig = Top.orig,
           frames' = [frames EXCEPT ![Len(frames)] = f]
    PROVE  ScopesKept'
<1>1. /\ frames \in Seq(Frame) /\ frames' \in Seq(Frame) /\ Top = frames[Len(frames)]
      /\ Scoped(frames, props)
  BY DEF IInv, TypeOK, Top, ScopesKept, Current, Running
<1>2. /\ Len(frames') = Len(frames)
      /\ \A i \in 1 .. Len(frames) : frames'[i] = IF i = Len(frames) THEN f ELSE frames[i]
  BY <1>1
<1>3. \A i \in 1 .. Len(frames) : /\ frames'[i].type = frames[i].type
                                 /\ frames'[i].orig = frames[i].orig
  BY <1>1, <1>2
<1> QED
  BY <1>1, <1>2, <1>3, ScopedStays DEF ScopesKept

(* A sequence or struct begins, or fails to.                               *)
LEMMA ScopesPush ==
    ASSUME IInv, IInv', ScopesKept, pc = "value", NEW f,
           frames' = IF pc' # "return" THEN frames ELSE Append(frames, f),
           Current' => pc' = "return",
           IF BringsProps(f) THEN f.orig = props /\ props' = Types[f.type].props
           ELSE props' = props
    PROVE  ScopesKept'
<1>1. /\ frames \in Seq(Frame) /\ frames' \in Seq(Frame) /\ Scoped(frames, props)
  BY DEF IInv, TypeOK, ScopesKept, Current, Running
<1>2. CASE pc' = "return"
  <2>1. frames' = Append(frames, f)
    BY <1>2
  <2>2. Len(frames) + 1 \in DOMAIN frames' /\ frames'[Len(frames) + 1] = f
    BY <1>1, <2>1
  <2>3. f \in Frame
    BY <1>1, <2>2
  <2> QED
    BY <1>1, <2>1, <2>3, ScopedPush DEF ScopesKept
<1> QED
  BY <1>2 DEF ScopesKept

(* A sequence or struct ends.                                              *)
LEMMA ScopesPop ==
    ASSUME IInv, ScopesKept, pc = "return", frames # <<>>, frames' = Front(frames),
           props' = IF BringsProps(Top) THEN Top.orig ELSE props
    PROVE  ScopesKept'
<1>1. /\ frames \in Seq(Frame) /\ Scoped(frames, props)
      /\ Top = frames[Len(frames)]
  BY DEF IInv, TypeOK, ScopesKept, Current, Running, Top
<1> QED
  BY <1>1, ScopedPop DEF ScopesKept

(* How the begin of a section may end.                                     *)
LEMMA BeginEnds ==
    ASSUME Ready, NEW wanted \in OptSize \cup {MissingPanic}, NEW computed, NEW next,
           \/ Begin(wanted, computed, next)
           \/ Failed(wanted) /\ Fail(Outcome(wanted))
           \/ ~Failed(wanted) /\ wanted # None /\ BeginSection(wanted, next)
    PROVE  pc' \in {next} \cup Errors \cup Panics
<1>1. Failed(wanted) /\ Fail(Outcome(wanted)) => pc' \in Panics \cup Errors
  BY DEF Fail, Outcome, Panics, Errors
<1>2. ~Failed(wanted) /\ wanted # None /\ BeginSection(wanted, next)
        => pc' \in {next} \cup Errors \cup Panics
  <2>1. wanted \in OptSize /\ wanted # None => wanted \in LengthFieldSize
    BY SizesDoNotFail
  <2>2. ~Failed(wanted) => wanted \in OptSize
    BY SizesDoNotFail
  <2> QED
    BY <2>1, <2>2, BeginSectionGoes DEF Failing, Went
<1>3. Begin(wanted, computed, next) => pc' \in {next} \cup Errors \cup Panics
  BY BeginGoes DEF Failing, Went
<1> QED
  BY <1>1, <1>2, <1>3

(* deserialize_seq never counts as a struct with properties.               *)
LEMMA SeqScopes ==
    ASSUME IInv, IInv', ScopesKept, DeserializeSeq
    PROVE  ScopesKept'
<1> DEFINE wanted == WantedLengthField[Here]
           next == SizeHint
           f == [type |-> nextType, section |-> SectionOf(wanted), count |-> 0,
                 pending |-> FALSE, seen |-> {}, orig |-> NoProps, wasTlv |-> inTlv]
<1>1. /\ pc = "value" /\ props' = props /\ Types[nextType].kind = "seq"
      /\ Begin(wanted, ComputedLength, next)
      /\ frames' = IF pc' # "return" THEN frames ELSE Append(frames, f)
  BY DEF DeserializeSeq
<1>2. ~BringsProps(f)
  BY <1>1 DEF BringsProps
<1>3. Ready /\ wanted \in OptSize \cup {MissingPanic}
  <2>1. Here \in Site
    BY DEF IInv, TypeOK, Here, Site
  <2> QED
    BY <1>1, <2>1, ReadyToRead, WantedIsSize DEF Running
<1>4. pc' \in {next} \cup Errors \cup Panics
  <2> HIDE DEF wanted, next
  <2> QED
    BY <1>1, <1>3, BeginEnds
<1>5. Current' => pc' = "return"
  BY <1>4, HintIs DEF Current, Running, Errors, Panics
<1> HIDE DEF wanted, next, f
<1> QED
  BY <1>1, <1>2, <1>5, ScopesPush

(* deserialize_struct replaces the properties if the struct has its own.   *)
LEMMA StructScopes ==
    ASSUME IInv, IInv', ScopesKept, DeserializeStruct
    PROVE  ScopesKept'
<1> DEFINE ty == Types[nextType]
           scope == IF ty.props.set THEN ty.props ELSE props
           wanted == WantedLengthField[[Here EXCEPT !.props = scope]]
           f == [type |-> nextType, section |-> StructSection(wanted), count |-> 0,
                 pending |-> FALSE, seen |-> {},
                 orig |-> IF ty.props.set THEN props ELSE NoProps, wasTlv |-> inTlv]
<1>1. /\ pc = "value" /\ ty.kind = "struct" /\ props' = scope
      /\ \/ Failed(wanted) /\ Fail(Outcome(wanted))
         \/ ~Failed(wanted) /\ wanted # None /\ BeginSection(wanted, "return")
         \/ wanted = None /\ pc' = "return"
      /\ frames' = IF pc' # "return" THEN frames ELSE Append(frames, f)
  BY DEF DeserializeStruct
<1>2. /\ BringsProps(f) <=> ty.props.set
      /\ f.type = nextType
      /\ BringsProps(f) => f.orig = props
  BY <1>1 DEF BringsProps
<1>3. Ready /\ wanted \in OptSize \cup {MissingPanic}
  <2>1. scope \in Properties
    BY <1>1 DEF IInv, TypeOK
  <2> HIDE DEF scope
  <2>2. [Here EXCEPT !.props = scope] \in Site
    BY <2>1 DEF IInv, TypeOK, Here, Site
  <2> QED
    BY <1>1, <2>2, ReadyToRead, WantedIsSize DEF Running
<1>4. IF BringsProps(f) THEN f.orig = props /\ props' = Types[f.type].props
      ELSE props' = props
  BY <1>1, <1>2
<1> HIDE DEF wanted, f, scope
<1>5. pc' \in {"return"} \cup Errors \cup Panics
  BY <1>1, <1>3, BeginEnds
<1>6. Current' => pc' = "return"
  BY <1>5 DEF Current, Running, Errors, Panics
<1> QED
  BY <1>1, <1>4, <1>6, ScopesPush

(* The end of a sequence or struct restores the properties.                *)
LEMMA EndScopes ==
    ASSUME IInv, ScopesKept, EndSeq \/ EndStruct
    PROVE  ScopesKept'
<1>1. CASE EndSeq
  <2>1. /\ pc = "return" /\ frames # <<>> /\ TopType.kind = "seq" /\ props' = props
        /\ frames' = Front(frames)
    BY <1>1 DEF EndSeq, AtSeq
  <2>2. ~BringsProps(Top)
    BY <2>1 DEF BringsProps, TopType
  <2> QED
    BY <2>1, <2>2, ScopesPop
<1>2. CASE EndStruct
  <2>1. /\ pc = "return" /\ frames # <<>> /\ TopType.kind = "struct"
        /\ frames' = Front(frames)
        /\ props' = IF TopType.props.set THEN Top.orig ELSE props
    BY <1>2 DEF EndStruct, AllFields, AtStruct
  <2>2. BringsProps(Top) <=> TopType.props.set
    BY <2>1 DEF BringsProps, TopType
  <2> QED
    BY <2>1, <2>2, ScopesPop
<1> QED
  BY <1>1, <1>2

(* The elements and fields of an access change nothing that a scope        *)
(* depends on.                                                             *)
LEMMA InnerScopes ==
    ASSUME IInv, IInv', ScopesKept,
           NextElement \/ ElementRead \/ NextField \/ NextKey
    PROVE  ScopesKept'
<1>1. pc = "return" /\ frames # <<>> /\ props' = props
  BY DEF NextElement, ElementRead, AtSeq, NextField, NextKey, AtStruct, UnknownField, KnownField
<1>2. Top \in Frame /\ Top = frames[Len(frames)] /\ Len(frames) \in DOMAIN frames
  BY <1>1, TopIsFrame DEF IInv
<1>3. CASE frames' = frames
  BY <1>1, <1>3, ScopesStay DEF Running
<1>4. CASE NextElement
  <2> DEFINE f == [Top EXCEPT !.pending = TRUE]
  <2>1. frames' = [frames EXCEPT ![Len(frames)] = f]
    BY <1>2, <1>4 DEF NextElement
  <2>2. f.type = Top.type /\ f.orig = Top.orig
    BY <1>2 DEF Frame
  <2> HIDE DEF f
  <2> QED
    BY <1>1, <2>1, <2>2, ScopesOfTop
<1>5. CASE ElementRead
  <2> DEFINE f == [Top EXCEPT !.pending = FALSE, !.count = @ + 1]
  <2>1. frames' = [frames EXCEPT ![Len(frames)].pending = FALSE,
                                 ![Len(frames)].count = @ + 1]
    BY <1>5 DEF ElementRead
  <2>2. [frames EXCEPT ![Len(frames)].pending = FALSE][Len(frames)]
          = [Top EXCEPT !.pending = FALSE]
    BY <1>2
  <2>3. frames' = [frames EXCEPT ![Len(frames)] = f]
    BY <1>2, <2>1, <2>2
  <2>4. f.type = Top.type /\ f.orig = Top.orig
    BY <1>2 DEF Frame
  <2> HIDE DEF f
  <2> QED
    BY <1>1, <2>3, <2>4, ScopesOfTop
<1>6. CASE NextField
  <2> DEFINE f == [Top EXCEPT !.count = @ + 1]
  <2>1. frames' = [frames EXCEPT ![Len(frames)] = f]
    BY <1>2, <1>6 DEF NextField
  <2>2. f.type = Top.type /\ f.orig = Top.orig
    BY <1>2 DEF Frame
  <2> HIDE DEF f
  <2> QED
    BY <1>1, <2>1, <2>2, ScopesOfTop
<1>7. ASSUME NEW wire \in WireType, NEW i \in DOMAIN TopType.fields, KnownField(i, wire),
             frames' # frames
      PROVE  ScopesKept'
  <2> DEFINE f == [Top EXCEPT !.seen = @ \cup {i}]
  <2>1. frames' = [frames EXCEPT ![Len(frames)] = f]
    BY <1>2, <1>7 DEF KnownField
  <2>2. f.type = Top.type /\ f.orig = Top.orig
    BY <1>2 DEF Frame
  <2> HIDE DEF f
  <2> QED
    BY <1>1, <2>1, <2>2, ScopesOfTop
<1>8. CASE NextKey
  BY <1>3, <1>7, <1>8 DEF NextKey, UnknownField
<1> QED
  BY <1>4, <1>5, <1>6, <1>8

(* Every step keeps the scopes.                                            *)
LEMMA NextKeepsScopes ==
    ASSUME IInv, ScopesKept, [Next]_vars
    PROVE  ScopesKept'
<1>1. IInv'
  BY NextKeepsIInv
<1>2. ASSUME UNCHANGED <<frames, props>>, Running
      PROVE  ScopesKept'
  BY <1>2, ScopesStay
<1>3. CASE Call \/ DeserializeFixed \/ DeserializeOption \/ Finish
  BY <1>2, <1>3 DEF Call, DeserializeFixed, DeserializeOption, Finish, Running
<1>4. CASE DeserializeString \/ DeserializeStr \/ ReadString \/ ReadStr
  BY <1>2, <1>4 DEF DeserializeString, DeserializeStr, ReadString, ReadStr, Running
<1>5. CASE DeserializeBytes \/ ReadBytes \/ EndLeaf
  BY <1>2, <1>5 DEF DeserializeBytes, ReadBytes, EndLeaf, Running
<1>6. CASE Skip \/ DiscardChunk \/ DiscardFails
  BY <1>2, <1>6 DEF Skip, DiscardChunk, DiscardFails, Running
<1>7. CASE DeserializeSeq \/ DeserializeStruct \/ EndSeq \/ EndStruct
  BY <1>1, <1>7, SeqScopes, StructScopes, EndScopes
<1>8. CASE NextElement \/ ElementRead \/ NextField \/ NextKey
  BY <1>1, <1>8, InnerScopes
<1>9. CASE FieldsCutShort \/ TagUnreadable \/ FieldMissing
  BY <1>2, <1>9 DEF FieldsCutShort, TagUnreadable, FieldMissing, AtStruct, Running
<1>10. CASE SkipFixed \/ SkipField
  BY <1>2, <1>10 DEF SkipFixed, SkipField, Running
<1>11. CASE UNCHANGED vars
  BY <1>11 DEF vars, ScopesKept, Current, Running
<1> QED
  BY <1>3, <1>4, <1>5, <1>6, <1>7, <1>8, <1>9, <1>10, <1>11 DEF Next, Step, Stopped

(* The transformation properties in force are always those of the          *)
(* innermost open struct that has its own.                                 *)
THEOREM PropsAlwaysScoped == Spec => []PropsScoped
<1>1. Init => ScopesKept
  BY ScopedAtStart DEF Init, ScopesKept
<1>2. IInv /\ ScopesKept /\ [Next]_vars => ScopesKept'
  BY NextKeepsScopes
<1>3. ASSUME IInv, ScopesKept, Current
      PROVE  props = IF OwnProps = {} THEN NoProps
                     ELSE Types[frames[Max(OwnProps)].type].props
  <2>1. frames \in Seq(Frame) /\ InScope(frames, Len(frames), props)
    BY <1>3 DEF IInv, TypeOK, ScopesKept, Scoped
  <2>2. OwnProps = {i \in 1 .. Len(frames) : BringsProps(frames[i])}
    BY <2>1 DEF OwnProps, BringsProps
  <2>3. ASSUME NEW i \in 1 .. Len(frames), BringsProps(frames[i]),
               \A j \in i + 1 .. Len(frames) : ~BringsProps(frames[j])
        PROVE  OwnProps # {} /\ Max(OwnProps) = i
    <3>1. i \in OwnProps /\ \A j \in OwnProps : i >= j
      BY <2>2, <2>3
    <3>2. Max(OwnProps) \in OwnProps /\ \A j \in OwnProps : Max(OwnProps) >= j
      BY <3>1 DEF Max
    <3> QED
      BY <2>2, <3>1, <3>2
  <2> QED
    BY <2>1, <2>2, <2>3 DEF InScope
<1>4. IInv /\ ScopesKept => PropsScoped
  BY <1>3 DEF PropsScoped
<1> QED
  BY <1>1, <1>2, <1>4, Invariant, PTL DEF Spec

----------------------------------------------------------------------------
(***************************************************************************)
(* next_length_field_size.                                                 *)
(***************************************************************************)

(* The size that a tag announces is waiting for a value that will take it. *)
SizeIsTaken ==
    /\ AnnouncedSizeIsFresh
    /\ pc = "value" /\ nextLfs # None => ~IsWrapper(Types[nextType])

(* Nothing is announced.                                                   *)
LEMMA NothingAnnounced ==
    ASSUME nextLfs' = None \/ pc' \in Errors \cup Panics
    PROVE  SizeIsTaken'
BY DEF SizeIsTaken, AnnouncedSizeIsFresh, Running, Errors, Panics

(* Between values nothing is announced, and most steps leave it so.        *)
LEMMA NothingToTake ==
    ASSUME IInv, SizeIsTaken, Running, pc \notin {"value", "skipField"}
    PROVE  /\ nextLfs = None
           /\ nextLfs' = nextLfs => SizeIsTaken'
<1>1. nextLfs = None
  BY DEF SizeIsTaken, AnnouncedSizeIsFresh
<1> QED
  BY <1>1, NothingAnnounced

(* begin_length_delimited_section takes the size, or fails.                *)
LEMMA SectionTakesSize ==
    ASSUME Ready, NEW configured \in LengthFieldSize, NEW next,
           BeginSection(configured, next)
    PROVE  SizeIsTaken'
<1>1. PICK width \in {Or(nextLfs, configured)} : \E out \in Outcomes(width) :
         \/ out # "ok" /\ Fail(out)
         \/ Fail("AnnouncedTooShort")
         \/ nextLfs' = None
  BY DEF BeginSection
<1>2. width \in Nat
  BY <1>1 DEF Ready, Usable, Or, OptSize, LengthFieldSize, None
<1>3. pc' \in Errors \cup Panics \/ nextLfs' = None
  <2>1. PICK out \in Outcomes(width) : \/ out # "ok" /\ Fail(out)
                                       \/ Fail("AnnouncedTooShort")
                                       \/ nextLfs' = None
    BY <1>1
  <2>2. out # "ok" => out \in Errors \cup Panics
    BY <1>2, OutcomesAre
  <2> QED
    BY <2>1, <2>2 DEF Fail, Errors
<1> QED
  BY <1>3, NothingAnnounced

(* A value with a wanted length field takes the size too.                  *)
LEMMA ValueTakesSize ==
    ASSUME Ready, NEW wanted \in OptSize \cup {MissingPanic}, wanted # None,
           NEW computed, NEW next,
           \/ Begin(wanted, computed, next)
           \/ Failed(wanted) /\ Fail(Outcome(wanted))
           \/ ~Failed(wanted) /\ wanted # None /\ BeginSection(wanted, next)
    PROVE  SizeIsTaken'
<1>1. ASSUME Failed(wanted), Fail(Outcome(wanted))
      PROVE  SizeIsTaken'
  BY <1>1, NothingAnnounced DEF Fail, Outcome, Panics, Errors
<1>2. ASSUME ~Failed(wanted), BeginSection(wanted, next)
      PROVE  SizeIsTaken'
  <2>1. wanted \in LengthFieldSize
    BY <1>2, SizesDoNotFail
  <2> QED
    BY <1>2, <2>1, SectionTakesSize
<1> QED
  BY <1>1, <1>2 DEF Begin

(* A value that announces nothing leaves it so.                            *)
LEMMA ValueWithoutSize ==
    ASSUME Ready, nextLfs = None, NEW wanted \in OptSize \cup {MissingPanic},
           NEW computed, NEW next,
           \/ Begin(wanted, computed, next)
           \/ Failed(wanted) /\ Fail(Outcome(wanted))
           \/ ~Failed(wanted) /\ wanted # None /\ BeginSection(wanted, next)
    PROVE  SizeIsTaken'
<1>1. ASSUME Begin(None, computed, next)
      PROVE  nextLfs' = nextLfs
  BY <1>1, SizesDoNotFail DEF Begin, Fail, BeginKnownSection, OptSize
<1>2. CASE wanted = None
  <2>1. ~Failed(wanted)
    BY <1>2, SizesDoNotFail DEF OptSize
  <2> QED
    BY <1>1, <1>2, <2>1, NothingAnnounced
<1>3. CASE wanted # None
  BY <1>3, ValueTakesSize
<1> QED
  BY <1>2, <1>3

(* Both together, for the value that comes next.                           *)
LEMMA ValueBegins ==
    ASSUME IInv, SizeIsTaken, pc = "value", NEW s \in Site, s.type = nextType, s.tlv = inTlv,
           NEW computed, NEW next,
           \/ Begin(WantedLengthField[s], computed, next)
           \/ Failed(WantedLengthField[s]) /\ Fail(Outcome(WantedLengthField[s]))
           \/ /\ ~Failed(WantedLengthField[s]) /\ WantedLengthField[s] # None
              /\ BeginSection(WantedLengthField[s], next)
    PROVE  SizeIsTaken'
<1>1. Ready /\ WantedLengthField[s] \in OptSize \cup {MissingPanic}
  BY ReadyToRead, WantedIsSize DEF Running
<1>2. CASE nextLfs = None
  BY <1>1, <1>2, ValueWithoutSize
<1>3. CASE nextLfs # None
  <2>1. /\ inTlv /\ WireTypeOf(Types[nextType]) = FromConfig
        /\ ~IsWrapper(Types[nextType])
    BY <1>3 DEF SizeIsTaken, AnnouncedSizeIsFresh, Running
  <2>2. ~IsFixed(Types[nextType])
    BY <2>1 DEF WireTypeOf, WireOfFixed, FromConfig
  <2>3. WantedLengthField[s] # None
    BY <2>1, <2>2, DelimitedFieldHasLength
  <2> QED
    BY <1>1, <2>3, ValueTakesSize
<1> QED
  BY <1>2, <1>3

(* Values with a length field, of which the size is taken, and values      *)
(* without, of which none is announced.                                    *)
LEMMA ValuesTakeSize ==
    ASSUME IInv, SizeIsTaken,
           \/ DeserializeFixed \/ DeserializeOption \/ DeserializeString
           \/ DeserializeStr \/ DeserializeBytes \/ DeserializeSeq
    PROVE  SizeIsTaken'
<1>1. pc = "value" /\ Here \in Site /\ Here.type = nextType /\ Here.tlv = inTlv
  BY DEF IInv, TypeOK, Here, Site, DeserializeFixed, DeserializeOption, DeserializeString,
     DeserializeStr, DeserializeBytes, DeserializeSeq
<1>2. CASE DeserializeFixed
  <2>1. IsFixed(Types[nextType]) /\ nextLfs' = nextLfs
    BY <1>2 DEF DeserializeFixed, Fail
  <2>2. nextLfs = None
    BY <1>1, <2>1 DEF SizeIsTaken, AnnouncedSizeIsFresh, Running, WireTypeOf, WireOfFixed,
       FromConfig
  <2> QED
    BY <2>1, <2>2, NothingAnnounced
<1>3. CASE DeserializeOption
  BY <1>3, NothingAnnounced DEF DeserializeOption, Fail, Panics
<1> HIDE DEF Here
<1>4. CASE DeserializeString \/ DeserializeStr \/ DeserializeBytes
  BY <1>1, <1>4, ValueBegins DEF DeserializeString, DeserializeStr, DeserializeBytes
<1>5. CASE DeserializeSeq
  <2>1. Begin(WantedLengthField[Here], ComputedLength,
              SizeHint)
    BY <1>5 DEF DeserializeSeq
  <2> QED
    BY <1>1, <2>1, ValueBegins
<1> QED
  BY <1>2, <1>3, <1>4, <1>5

(* A struct takes the size, unless it has no length field.                 *)
LEMMA StructTakesSize ==
    ASSUME IInv, SizeIsTaken, DeserializeStruct
    PROVE  SizeIsTaken'
<1> DEFINE scope == IF Types[nextType].props.set THEN Types[nextType].props ELSE props
           site == [Here EXCEPT !.props = scope]
           wanted == WantedLengthField[site]
<1>1. /\ pc = "value" /\ Types[nextType].kind = "struct" /\ props' = scope
      /\ \/ Failed(wanted) /\ Fail(Outcome(wanted))
         \/ ~Failed(wanted) /\ wanted # None /\ BeginSection(wanted, "return")
         \/ wanted = None /\ nextLfs' = nextLfs
  BY DEF DeserializeStruct
<1>2. site \in Site /\ site.type = nextType /\ site.tlv = inTlv
  <2>1. scope \in Properties
    <3>1. IInv'
      BY StructStep
    <3> QED
      BY <1>1, <3>1 DEF IInv, TypeOK
  <2> HIDE DEF scope
  <2> QED
    BY <2>1 DEF IInv, TypeOK, Here, Site
<1> HIDE DEF site
<1>3. CASE wanted = None /\ nextLfs' = nextLfs
  <2>1. CASE nextLfs = None
    BY <1>3, <2>1, NothingAnnounced
  <2>2. CASE nextLfs # None
    <3>1. /\ inTlv /\ WireTypeOf(Types[nextType]) = FromConfig
          /\ ~IsWrapper(Types[nextType])
      BY <1>1, <2>2 DEF SizeIsTaken, AnnouncedSizeIsFresh, Running
    <3>2. ~IsFixed(Types[nextType])
      BY <1>1 DEF IsFixed
    <3>3. wanted # None
      BY <1>2, <3>1, <3>2, DelimitedFieldHasLength
    <3> QED
      BY <1>3, <3>3
  <2> QED
    BY <2>1, <2>2
<1>4. CASE \/ Failed(wanted) /\ Fail(Outcome(wanted))
           \/ ~Failed(wanted) /\ wanted # None /\ BeginSection(wanted, "return")
  BY <1>1, <1>2, <1>4, ValueBegins
<1> QED
  BY <1>1, <1>3, <1>4

(* The tag of a field announces the size of the field's length field.      *)
LEMMA KnownFieldAnnounces ==
    ASSUME IInv, NoWrapperInTlv, AtStruct(TRUE), NEW wire \in WireType,
           NEW i \in DOMAIN TopType.fields, KnownField(i, wire)
    PROVE  SizeIsTaken'
<1> DEFINE field == TopType.fields[i]
<1>1. pc = "return" /\ frames # <<>> /\ TopType.kind = "struct" /\ TopType.tlv = TRUE
  BY DEF AtStruct
<1>2. \/ pc' \in {"Message", "InvalidWireType"}
      \/ /\ Accepts(WireTypeOf(Types[field.type]), wire)
         /\ nextLfs' = LengthFieldOfWire(wire)
         /\ nextType' = field.type
         /\ inTlv' = TRUE
         /\ frames' = [frames EXCEPT ![Len(frames)].seen = @ \cup {i}]
         /\ pc' = "value"
  BY DEF KnownField, Fail
<1>3. CASE pc' \in {"Message", "InvalidWireType"}
  BY <1>3, NothingAnnounced DEF Errors
<1>4. CASE /\ Accepts(WireTypeOf(Types[field.type]), wire)
           /\ nextLfs' = LengthFieldOfWire(wire)
           /\ nextType' = field.type
           /\ inTlv' = TRUE
           /\ frames' = [frames EXCEPT ![Len(frames)].seen = @ \cup {i}]
           /\ pc' = "value"
  <2>1. Top = frames[Len(frames)] /\ Len(frames) \in DOMAIN frames /\ Top \in Frame
        /\ Top.type \in TypeId /\ TopType = Types[Top.type]
    BY <1>1, TopIsFrame DEF IInv
  <2>2. frames' # <<>> /\ TopType' = TopType
    <3> DEFINE frame == [Top EXCEPT !.seen = @ \cup {i}]
    <3>1. frames' = [frames EXCEPT ![Len(frames)] = frame]
      BY <1>4, <2>1
    <3>2. frames \in Seq(Frame) /\ frame.type = Top.type
      BY <2>1 DEF IInv, TypeOK, Frame
    <3> HIDE DEF frame
    <3>3. Len(frames') = Len(frames) /\ frames'[Len(frames)] = frame
      BY <2>1, <3>1, <3>2
    <3> QED
      BY <1>1, <3>2, <3>3 DEF TopType, Top
  <2>3. ~IsWrapper(Types[field.type])
    BY <1>1, <2>1 DEF NoWrapperInTlv
  <2>4. WireTypeOf(Types[field.type]) <= FromConfig
    BY DEF WireTypeOf, WireOfFixed, FromConfig
  <2>5. nextLfs' # None => WireTypeOf(Types[field.type]) = FromConfig
    BY <1>4, <2>4 DEF Accepts, LengthFieldOfWire, WireType, FromConfig, WireTypeOf, WireOfFixed
  <2> HIDE DEF field
  <2> QED
    BY <1>1, <1>4, <2>2, <2>3, <2>5 DEF SizeIsTaken, AnnouncedSizeIsFresh
<1> QED
  BY <1>2, <1>3, <1>4

(* That of an unknown field is for the length field that is skipped.       *)
LEMMA UnknownFieldAnnounces ==
    ASSUME IInv, SizeIsTaken, AtStruct(TRUE), NEW wire \in WireType, UnknownField(wire)
    PROVE  SizeIsTaken'
<1>1. /\ pc = "return" /\ frames # <<>> /\ TopType.kind = "struct" /\ TopType.tlv = TRUE
      /\ frames' = frames
      /\ pc' = "skipField" \/ nextLfs' = nextLfs
  BY DEF AtStruct, UnknownField
<1>2. CASE nextLfs' = nextLfs
  BY <1>1, <1>2, NothingToTake DEF Running
<1>3. CASE pc' = "skipField"
  BY <1>1, <1>3 DEF SizeIsTaken, AnnouncedSizeIsFresh, TopType, Top
<1> QED
  BY <1>1, <1>2, <1>3

(* Every step leaves the announced size to the value it is for.            *)
LEMMA NextTakesSize ==
    ASSUME NoWrapperInTlv, IInv, SizeIsTaken, [Next]_vars
    PROVE  SizeIsTaken'
<1>1. ASSUME Running, pc \notin {"value", "skipField"},
             nextLfs' = nextLfs \/ nextLfs' = None \/ pc' \in Errors
      PROVE  SizeIsTaken'
  BY <1>1, NothingToTake, NothingAnnounced
<1>2. CASE DeserializeFixed \/ DeserializeOption \/ DeserializeString
           \/ DeserializeStr \/ DeserializeBytes \/ DeserializeSeq \/ DeserializeStruct
  BY <1>2, ValuesTakeSize, StructTakesSize
<1>3. CASE Call \/ Finish \/ ReadString \/ ReadStr \/ ReadBytes \/ EndLeaf
  BY <1>1, <1>3 DEF Call, Finish, ReadString, ReadStr, ReadBytes, EndLeaf, Fail, TakeLeaf,
     EndSection, Running
<1>4. CASE Skip \/ DiscardChunk \/ DiscardFails \/ SkipFixed
  BY <1>1, <1>4 DEF Skip, DiscardChunk, DiscardFails, SkipFixed, DiscardFrom, Fail, Running
<1>5. CASE NextElement \/ ElementRead \/ EndSeq
  BY <1>1, <1>5 DEF NextElement, ElementRead, EndSeq, AtSeq, DiscardFrom, EndSection, Fail,
     Running
<1>6. CASE NextField \/ FieldsCutShort \/ TagUnreadable \/ FieldMissing \/ EndStruct
  BY <1>1, <1>6 DEF NextField, FieldsCutShort, TagUnreadable, FieldMissing, EndStruct,
     AllFields, AtStruct, EndSection, Fail, Running
<1>7. CASE NextKey
  BY <1>7, KnownFieldAnnounces, UnknownFieldAnnounces DEF NextKey
<1>8. CASE SkipField
  <2>1. Ready /\ TopType.lfs \in OptSize /\ opts.defaultLfs \in OptSize
    <3>1. frames # <<>> /\ TopType.kind = "struct" /\ pc = "skipField"
      BY <1>8 DEF IInv, LeafTypes, SkipField
    <3> QED
      BY <3>1, StructShape, ReadyToRead DEF Running, IInv, TypeOK, Options
  <2>2. PICK size \in {ApplyDefaults(opts, TopType.lfs)} :
          \/ Fail("MissingPanic")
          \/ size # None /\ BeginSection(size, "skip")
    BY <1>8 DEF SkipField
  <2>3. CASE Fail("MissingPanic")
    BY <2>3, NothingAnnounced DEF Fail, Panics
  <2>4. CASE size # None /\ BeginSection(size, "skip")
    <3>1. size \in LengthFieldSize
      BY <2>1, <2>2, <2>4, SizesDoNotFail DEF ApplyDefaults, Or
    <3> QED
      BY <2>1, <2>4, <3>1, SectionTakesSize
  <2> QED
    BY <2>2, <2>3, <2>4
<1>9. CASE UNCHANGED vars
  BY <1>9 DEF vars, SizeIsTaken, AnnouncedSizeIsFresh, Running, TopType, Top
<1> QED
  BY <1>2, <1>3, <1>4, <1>5, <1>6, <1>7, <1>8, <1>9 DEF Next, Step, Stopped

(* The length field size that a tag announces is used by the value behind  *)
(* the tag and by no other, unless a message wrapper is made a TLV field:  *)
(* it has no length field and would leave the size to one of its own       *)
(* fields.                                                                 *)
THEOREM AnnouncedSizeAlwaysFresh ==
    ASSUME NoWrapperInTlv
    PROVE  Spec => []AnnouncedSizeIsFresh
<1>1. Init => SizeIsTaken
  BY DEF Init, SizeIsTaken, AnnouncedSizeIsFresh
<1>2. IInv /\ SizeIsTaken /\ [Next]_vars => SizeIsTaken'
  BY NextTakesSize
<1>3. SizeIsTaken => AnnouncedSizeIsFresh
  BY DEF SizeIsTaken
<1> QED
  BY <1>1, <1>2, <1>3, Invariant, PTL DEF Spec

----------------------------------------------------------------------------
(***************************************************************************)
(* The windows.  What the reader has left when a section is at its end     *)
(* does not change while that section is open.                             *)
(***************************************************************************)
Computes(secs, left, ends) ==
    /\ DOMAIN ends = 1 .. Len(secs)
    /\ \A k \in 1 .. Len(secs) :
          ends[k] = (IF k = Len(secs) THEN left ELSE ends[k + 1]) - secs[k]

(* What is computed from the innermost section outwards are the floors.    *)
LEMMA ComputedAreFloors ==
    ASSUME NEW secs \in Seq(Nat), NEW left \in Nat, NEW floors, Floors(secs, left, floors),
           NEW ends, Computes(secs, left, ends)
    PROVE  \A k \in 1 .. Len(secs) : ends[k] = floors[k]
<1> DEFINE S == {n \in Nat : \A k \in 1 .. Len(secs) : Len(secs) - n <= k => ends[k] = floors[k]}
<1>1. /\ Len(secs) \in Nat
      /\ floors[Len(secs) + 1] = left
      /\ \A k \in 1 .. Len(secs) :
           /\ secs[k] \in Nat /\ floors[k] \in Nat /\ floors[k + 1] \in Nat
           /\ floors[k] + secs[k] = floors[k + 1]
  BY FloorsAt
<1>2. \A k \in 1 .. Len(secs) : floors[k] = floors[k + 1] - secs[k]
  BY <1>1
<1>3. ASSUME NEW k \in 1 .. Len(secs), k = Len(secs) \/ ends[k + 1] = floors[k + 1]
      PROVE  ends[k] = floors[k]
  BY <1>1, <1>2, <1>3 DEF Computes
<1>4. 0 \in S
  BY <1>1, <1>3
<1>5. ASSUME NEW n \in Nat, n \in S
      PROVE  n + 1 \in S
  <2> SUFFICES ASSUME NEW k \in 1 .. Len(secs), Len(secs) - (n + 1) <= k, k # Len(secs)
               PROVE  ends[k] = floors[k]
    BY <1>1, <1>3
  <2>1. k + 1 \in 1 .. Len(secs) /\ Len(secs) - n <= k + 1
    BY <1>1
  <2>2. ends[k + 1] = floors[k + 1]
    BY <1>5, <2>1
  <2> QED
    BY <1>3, <2>2
<1> HIDE DEF S
<1>6. Len(secs) \in S
  BY <1>1, <1>4, <1>5, NatInductive
<1> QED
  BY <1>1, <1>6 DEF S

(* Ends computes them.                                                     *)
LEMMA EndsAreFloors ==
    ASSUME NEW secs \in Seq(Nat), NEW left \in Nat, NEW floors, Floors(secs, left, floors)
    PROVE  /\ Ends(secs, left) \in Seq(Nat)
           /\ Len(Ends(secs, left)) = Len(secs)
           /\ \A k \in 1 .. Len(secs) : Ends(secs, left)[k] = floors[k]
<1> DEFINE ends == [k \in DOMAIN secs |-> floors[k]]
           Computed(f) == f = [k \in DOMAIN secs |->
                                 (IF k = Len(secs) THEN left ELSE f[k + 1]) - secs[k]]
           result == Ends(secs, left)
<1>1. /\ Len(secs) \in Nat /\ DOMAIN secs = 1 .. Len(secs)
      /\ floors[Len(secs) + 1] = left
      /\ \A k \in 1 .. Len(secs) :
           /\ secs[k] \in Nat /\ floors[k] \in Nat /\ floors[k + 1] \in Nat
           /\ floors[k] + secs[k] = floors[k + 1]
  BY FloorsAt
<1>2. Computed(ends)
  <2> SUFFICES ASSUME NEW k \in DOMAIN secs
               PROVE  ends[k] = (IF k = Len(secs) THEN left ELSE ends[k + 1]) - secs[k]
    OBVIOUS
  <2>1. ends[k] = floors[k] /\ (k # Len(secs) => ends[k + 1] = floors[k + 1])
    BY <1>1
  <2> HIDE DEF ends
  <2> QED
    BY <1>1, <2>1
<1>3. Computed(result)
  <2>1. result = CHOOSE f : Computed(f)
    BY DEF Ends
  <2> HIDE DEF ends, Computed, result
  <2> QED
    BY <1>2, <2>1
<1> HIDE DEF result, ends
<1>4. Computes(secs, left, result)
  BY <1>1, <1>3 DEF Computes
<1>5. \A k \in 1 .. Len(secs) : result[k] = floors[k]
  BY <1>4, ComputedAreFloors
<1>6. result \in [1 .. Len(secs) -> Nat]
  BY <1>1, <1>3, <1>5
<1>7. result \in Seq(Nat) /\ Len(result) = Len(secs)
  <2>1. result \in Seq(Nat)
    BY ONLY <1>1, <1>6, SeqDef
  <2> QED
    BY <1>1, <1>6, <2>1, LenProperties
<1> QED
  BY <1>5, <1>7 DEF result

(* What is said of the windows is true of them only.                       *)
EndsAre(secs, left, ends) ==
    /\ ends \in Seq(Nat) /\ Len(ends) = Len(secs)
    /\ \A k \in 1 .. Len(secs) :
          ends[k] + secs[k] = IF k = Len(secs) THEN left ELSE ends[k + 1]

(* Ends does.                                                              *)
LEMMA EndsExist ==
    ASSUME NEW secs \in Seq(Nat), NEW left \in Nat, Covered(secs, left)
    PROVE  EndsAre(secs, left, Ends(secs, left))
<1>1. PICK floors : Floors(secs, left, floors)
  BY DEF Covered
<1> DEFINE ends == Ends(secs, left)
<1>2. ends \in Seq(Nat) /\ Len(ends) = Len(secs) /\ \A k \in 1 .. Len(secs) : ends[k] = floors[k]
  BY <1>1, EndsAreFloors
<1>3. /\ Len(secs) \in Nat
      /\ floors[Len(secs) + 1] = left
      /\ \A k \in 1 .. Len(secs) : floors[k] + secs[k] = floors[k + 1]
  BY <1>1, FloorsAt
<1> HIDE DEF ends
<1>4. \A k \in 1 .. Len(secs) : ends[k] + secs[k] = IF k = Len(secs) THEN left ELSE ends[k + 1]
  <2> TAKE k \in 1 .. Len(secs)
  <2>1. CASE k = Len(secs)
    BY <1>2, <1>3, <2>1
  <2>2. CASE k # Len(secs)
    <3>1. k + 1 \in 1 .. Len(secs)
      BY <1>3, <2>2
    <3> QED
      BY <1>2, <1>3, <2>2, <3>1
  <2> QED
    BY <2>1, <2>2
<1> QED
  BY <1>2, <1>4 DEF EndsAre, ends

(* Nothing else does.                                                      *)
LEMMA EndsUnique ==
    ASSUME NEW secs \in Seq(Nat), NEW left \in Nat, NEW ends, EndsAre(secs, left, ends)
    PROVE  Ends(secs, left) = ends
<1> DEFINE floors == Append(ends, left)
<1>1. ends \in Seq(Nat) /\ Len(ends) = Len(secs) /\ Len(secs) \in Nat
  BY DEF EndsAre
<1>2. /\ floors \in Seq(Nat) /\ Len(floors) = Len(secs) + 1 /\ floors[Len(secs) + 1] = left
      /\ \A k \in 1 .. Len(secs) : floors[k] = ends[k]
  BY <1>1
<1> HIDE DEF floors
<1>3. floors \in [1 .. Len(secs) + 1 -> Nat]
  BY <1>1, <1>2
<1>4. \A k \in 1 .. Len(secs) : floors[k] + secs[k] = floors[k + 1]
  <2> TAKE k \in 1 .. Len(secs)
  <2>1. ends[k] + secs[k] = IF k = Len(secs) THEN left ELSE ends[k + 1]
    BY DEF EndsAre
  <2>2. k # Len(secs) => k + 1 \in 1 .. Len(secs)
    BY <1>1
  <2> QED
    BY <1>2, <2>1, <2>2
<1>5. Floors(secs, left, floors)
  BY <1>2, <1>3, <1>4 DEF Floors
<1> DEFINE result == Ends(secs, left)
<1>6. result \in Seq(Nat) /\ Len(result) = Len(secs) /\ \A k \in 1 .. Len(secs) : result[k] = ends[k]
  BY <1>2, <1>5, EndsAreFloors
<1> HIDE DEF result
<1>7. result = ends
  BY <1>1, <1>6, SeqEqual
<1> QED
  BY <1>7 DEF result

(* Reading within the innermost window.                                    *)
LEMMA LessKeepsEnds ==
    ASSUME NEW secs \in Seq(Nat), NEW left \in Nat, Covered(secs, left),
           NEW n \in Nat, n <= Left(secs, left)
    PROVE  Ends(Less(secs, n), left - n) = Ends(secs, left)
<1> DEFINE ends == Ends(secs, left)
           less == Less(secs, n)
<1>1. EndsAre(secs, left, ends)
  BY EndsExist
<1>2. less \in Seq(Nat) /\ Len(less) = Len(secs) /\ left - n \in Nat
  BY LessCovered
<1>3. /\ \A k \in 1 .. Len(secs) : less[k] = IF k = Len(secs) THEN secs[k] - n ELSE secs[k]
      /\ \A k \in 1 .. Len(secs) : secs[k] \in Nat
  BY DEF Less
<1> HIDE DEF ends, less
<1>4. EndsAre(less, left - n, ends)
  <2>1. /\ ends \in Seq(Nat) /\ Len(ends) = Len(secs)
        /\ \A k \in 1 .. Len(secs) :
              ends[k] + secs[k] = IF k = Len(secs) THEN left ELSE ends[k + 1]
    BY <1>1 DEF EndsAre
  <2>2. \A k \in 1 .. Len(secs) :
              ends[k] + less[k] = IF k = Len(less) THEN left - n ELSE ends[k + 1]
    <3> TAKE k \in 1 .. Len(secs)
    <3>1. ends[k] \in Nat
      BY ONLY <2>1, k \in 1 .. Len(secs), ElementOfSeq
    <3>2. ends[k] \in Nat /\ secs[k] \in Nat /\ Len(less) = Len(secs)
          /\ ends[k] + secs[k] = IF k = Len(secs) THEN left ELSE ends[k + 1]
      BY <1>2, <1>3, <2>1, <3>1
    <3>3. less[k] = IF k = Len(secs) THEN secs[k] - n ELSE secs[k]
      BY <1>3
    <3>4. ends[k] + less[k] = IF k = Len(secs) THEN left - n ELSE ends[k + 1]
      BY ONLY <3>2, <3>3, left \in Nat, n \in Nat, SMT
    <3> QED
      BY <3>2, <3>4
  <2> QED
    BY <1>2, <2>1, <2>2 DEF EndsAre
<1>5. Ends(less, left - n) = ends
  BY <1>2, <1>4, EndsUnique
<1> QED
  BY <1>5 DEF ends, less

(* A new window ends where the reader's bytes do, as it is counted them.   *)
LEMMA AppendAddsEnd ==
    ASSUME NEW secs \in Seq(Nat), NEW left \in Nat, Covered(secs, left), NEW len \in Nat
    PROVE  Ends(Append(secs, len), left + len) = Append(Ends(secs, left), left)
<1> DEFINE ends == Ends(secs, left)
           next == Append(secs, len)
           more == Append(ends, left)
<1>1. EndsAre(secs, left, ends)
  BY EndsExist
<1> HIDE DEF ends
<1>2. /\ ends \in Seq(Nat) /\ Len(ends) = Len(secs) /\ Len(secs) \in Nat
      /\ \A k \in 1 .. Len(secs) :
            ends[k] + secs[k] = IF k = Len(secs) THEN left ELSE ends[k + 1]
  BY <1>1 DEF EndsAre
<1>3. /\ next \in Seq(Nat) /\ Len(next) = Len(secs) + 1 /\ next[Len(secs) + 1] = len
      /\ \A k \in 1 .. Len(secs) : next[k] = secs[k]
  OBVIOUS
<1>4. /\ more \in Seq(Nat) /\ Len(more) = Len(secs) + 1 /\ more[Len(secs) + 1] = left
      /\ \A k \in 1 .. Len(secs) : more[k] = ends[k]
  BY <1>2
<1> HIDE DEF next, more
<1>5. \A k \in 1 .. Len(next) :
            more[k] + next[k] = IF k = Len(next) THEN left + len ELSE more[k + 1]
  <2> TAKE k \in 1 .. Len(next)
  <2>1. CASE k = Len(next)
    BY <1>3, <1>4, <2>1
  <2>2. CASE k # Len(next)
    <3>1. k \in 1 .. Len(secs) /\ (k # Len(secs) => k + 1 \in 1 .. Len(secs))
      BY <1>2, <1>3, <2>2
    <3> QED
      BY <1>2, <1>3, <1>4, <2>2, <3>1
  <2> QED
    BY <2>1, <2>2
<1>6. EndsAre(next, left + len, more)
  BY <1>3, <1>4, <1>5 DEF EndsAre
<1>7. Ends(next, left + len) = more
  BY <1>3, <1>6, EndsUnique
<1> QED
  BY <1>7 DEF next, more, ends

(* Leaving a window leaves the others.                                     *)
LEMMA FrontDropsEnd ==
    ASSUME NEW secs \in Seq(Nat), NEW left \in Nat, Covered(secs, left),
           secs # <<>>, Last(secs) = 0
    PROVE  Ends(Front(secs), left) = SubSeq(Ends(secs, left), 1, Len(secs) - 1)
<1> DEFINE ends == Ends(secs, left)
           fewer == SubSeq(ends, 1, Len(secs) - 1)
           front == Front(secs)
<1>1. EndsAre(secs, left, ends)
  BY EndsExist
<1> HIDE DEF ends
<1>2. /\ ends \in Seq(Nat) /\ Len(ends) = Len(secs) /\ Len(secs) \in Nat /\ Len(secs) # 0
      /\ secs[Len(secs)] = 0
      /\ \A k \in 1 .. Len(secs) :
            ends[k] + secs[k] = IF k = Len(secs) THEN left ELSE ends[k + 1]
  BY <1>1 DEF EndsAre, Last
<1>3. /\ front \in Seq(Nat) /\ Len(front) = Len(secs) - 1
      /\ \A k \in 1 .. Len(secs) - 1 : front[k] = secs[k]
  BY FrontIsSeq
<1>4. /\ fewer \in Seq(Nat) /\ Len(fewer) = Len(secs) - 1
      /\ \A k \in 1 .. Len(secs) - 1 : fewer[k] = ends[k]
  <2>1. /\ ends \in Seq(Nat) /\ Len(ends) = Len(secs)
        /\ Len(secs) \in Nat /\ Len(secs) - 1 \in Nat
    BY <1>2
  <2> HIDE DEF front
  <2> QED
    BY <2>1
<1> HIDE DEF fewer, front
<1>5. ends[Len(secs)] = left
  <2>1. Len(secs) \in 1 .. Len(secs) /\ ends[Len(secs)] \in Nat
    BY <1>2
  <2> QED
    BY <1>2, <2>1
<1>6. \A k \in 1 .. Len(secs) - 1 :
            fewer[k] + front[k] = IF k = Len(secs) - 1 THEN left ELSE fewer[k + 1]
  <2> TAKE k \in 1 .. Len(secs) - 1
  <2>1. Len(secs) \in Nat
    BY <1>2
  <2>2. k \in 1 .. Len(secs) /\ k # Len(secs)
    BY <2>1
  <2>3. fewer[k] + front[k] = ends[k + 1]
    BY <1>2, <1>3, <1>4, <2>2
  <2>4. CASE k = Len(secs) - 1
    <3>1. k + 1 = Len(secs)
      BY <2>1, <2>4
    <3> QED
      BY <1>5, <2>3, <2>4, <3>1
  <2>5. CASE k # Len(secs) - 1
    <3>1. k + 1 \in 1 .. Len(secs) - 1
      BY <2>1, <2>5
    <3> QED
      BY <1>4, <2>3, <2>5, <3>1
  <2> QED
    BY <2>4, <2>5
<1>7. EndsAre(front, left, fewer)
  BY <1>3, <1>4, <1>6 DEF EndsAre
<1>8. Ends(front, left) = fewer
  BY <1>3, <1>7, EndsUnique
<1> QED
  BY <1>8 DEF front, fewer, ends

(* What a step does to the reader and the sections.                        *)
Moves ==
    \/ reader'.remaining = reader.remaining /\ sections' = sections
    \/ \E n \in Nat :
          /\ n <= Remaining
          /\ reader'.remaining = reader.remaining - n
          /\ sections' = Less(sections, n)
    \/ \E n, len \in Nat :
          /\ n + len <= Remaining
          /\ reader'.remaining = reader.remaining - n
          /\ sections' = Append(Less(sections, n + len), len)
    \/ /\ sections # <<>> /\ Last(sections) = 0
       /\ reader'.remaining = reader.remaining
       /\ sections' = Front(sections)

(* The windows as they are seen before the step.                           *)
LEMMA WindowsAre ==
    ASSUME Ready
    PROVE  LET ends == Ends(sections, reader.remaining)
           IN  /\ ends \in Seq(Nat) /\ Len(ends) = Len(sections) /\ Len(sections) \in Nat
               /\ reader.remaining \in Nat /\ Remaining \in Nat
               /\ Remaining <= reader.remaining
               /\ W!Floor = reader.remaining - Remaining
               /\ W!Floor \in Nat
<1> DEFINE ends == Ends(sections, reader.remaining)
<1>1. /\ sections \in Seq(Nat) /\ Covered(sections, reader.remaining)
      /\ Remaining = Left(sections, reader.remaining)
      /\ Remaining \in Nat /\ reader.remaining \in Nat
      /\ Remaining <= reader.remaining
  BY RemainingFits DEF Ready, Usable
<1>2. EndsAre(sections, reader.remaining, ends)
  BY <1>1, EndsExist
<1>3. W!Floor = IF ends = <<>> THEN 0 ELSE ends[Len(ends)]
  BY DEF W!Floor
<1> HIDE DEF ends
<1>4. /\ ends \in Seq(Nat) /\ Len(ends) = Len(sections) /\ Len(sections) \in Nat
      /\ \A k \in 1 .. Len(sections) :
            ends[k] + sections[k] = IF k = Len(sections) THEN reader.remaining ELSE ends[k + 1]
  BY <1>1, <1>2 DEF EndsAre
<1>5. W!Floor = reader.remaining - Remaining
  <2>1. CASE sections = <<>>
    <3>1. ends = <<>>
      BY <1>4, <2>1
    <3> QED
      BY <1>1, <1>3, <2>1, <3>1 DEF Left
  <2>2. CASE sections # <<>>
    <3>1. /\ Len(sections) \in 1 .. Len(sections) /\ ends # <<>>
          /\ Remaining = sections[Len(sections)]
      BY <1>1, <1>4, <2>2 DEF Left, Last
    <3>2. ends[Len(sections)] \in Nat
      BY <1>4, <3>1, ElementOfSeq
    <3>3. ends[Len(sections)] + Remaining = reader.remaining
      BY <1>4, <3>1
    <3> QED
      BY <1>1, <1>3, <1>4, <3>1, <3>2, <3>3
  <2> QED
    BY <2>1, <2>2
<1> QED
  BY <1>1, <1>4, <1>5 DEF ends

(* Each is a step of the windows.                                          *)
LEMMA MovesImplement ==
    ASSUME Ready, pc # "ok", pc' # "ok", Moves
    PROVE  [W!Next]_W!vars
<1> DEFINE ends == Ends(sections, reader.remaining)
           next == Ends(sections', reader'.remaining)
           left == reader.remaining
<1>1. /\ ends \in Seq(Nat) /\ Len(ends) = Len(sections) /\ Len(sections) \in Nat
      /\ left \in Nat /\ Remaining \in Nat /\ Remaining <= left
      /\ W!Floor = left - Remaining /\ W!Floor \in Nat
  BY WindowsAre
<1>2. /\ sections \in Seq(Nat) /\ Covered(sections, left)
      /\ Remaining = Left(sections, left)
  BY RemainingFits DEF Ready, Usable
<1>3. CASE reader'.remaining = reader.remaining /\ sections' = sections
  BY <1>3 DEF W!vars
<1>4. ASSUME NEW n \in Nat, n <= Remaining, reader'.remaining = left - n,
             sections' = Less(sections, n)
      PROVE  [W!Next]_W!vars
  <2>1. next = ends
    BY <1>1, <1>2, <1>4, LessKeepsEnds
  <2>2. reader'.remaining \in W!Floor .. left
    BY <1>1, <1>4
  <2> QED
    BY <2>1, <2>2 DEF W!Next, W!Advance
<1>5. ASSUME NEW n \in Nat, NEW len \in Nat, n + len <= Remaining,
             reader'.remaining = left - n,
             sections' = Append(Less(sections, n + len), len)
      PROVE  [W!Next]_W!vars
  <2> DEFINE floor == left - (n + len)
             less == Less(sections, n + len)
  <2>1. n + len \in Nat /\ floor \in Nat /\ floor + len = left - n
        /\ reader'.remaining \in W!Floor .. left /\ floor \in W!Floor .. reader'.remaining
    BY <1>1, <1>5
  <2>2. less \in Seq(Nat) /\ Covered(less, floor) /\ Ends(less, floor) = ends
    BY <1>1, <1>2, <1>5, <2>1, LessCovered, LessKeepsEnds
  <2> HIDE DEF less, floor
  <2>3. Ends(Append(less, len), floor + len) = Append(ends, floor)
    BY <2>1, <2>2, AppendAddsEnd
  <2>4. next = Append(ends, floor)
    BY <1>5, <2>1, <2>3 DEF less
  <2> QED
    BY <2>1, <2>4 DEF W!Next, W!Enter
<1>6. CASE /\ sections # <<>> /\ Last(sections) = 0
           /\ reader'.remaining = reader.remaining
           /\ sections' = Front(sections)
  <2>1. next = SubSeq(ends, 1, Len(sections) - 1)
    <3>1. Ends(Front(sections), left) = SubSeq(ends, 1, Len(sections) - 1)
      BY <1>1, <1>2, <1>6, FrontDropsEnd
    <3> QED
      BY <1>6, <3>1
  <2>2. next = SubSeq(ends, 1, Len(ends) - 1)
    BY <1>1, <2>1
  <2>3. ends # <<>>
    BY <1>1, <1>2, <1>6
  <2>4. left = W!Floor
    BY <1>1, <1>2, <1>6 DEF Left
  <2> QED
    BY <1>6, <2>2, <2>3, <2>4 DEF W!Next, W!Leave
<1> QED
  BY <1>3, <1>4, <1>5, <1>6 DEF Moves

(* A step that leaves the reader and the sections alone.                   *)
LEMMA StillImplements ==
    ASSUME pc # "ok", pc' # "ok", reader'.remaining = reader.remaining, sections' = sections
    PROVE  [W!Next]_W!vars
BY DEF W!vars

(* Errors and panics are not the end of a value.                           *)
LEMMA FailingImplements ==
    ASSUME pc # "ok", Failing
    PROVE  [W!Next]_W!vars
<1>1. pc' # "ok"
  BY DEF Failing, Errors, Panics
<1> QED
  BY <1>1, StillImplements DEF Failing

(* Reading n bytes.                                                        *)
LEMMA TakeMoves ==
    ASSUME Ready, NEW n \in Nat, n <= Remaining, Take(n)
    PROVE  Moves
<1>1. reader \in Reader /\ n <= reader.remaining
  BY RemainingFits DEF Ready, Usable
<1>2. Advance(reader, n).remaining = reader.remaining - n
  BY <1>1, AdvanceReader
<1> QED
  BY <1>2 DEF Take, Moves

(* begin_known_length_delimited_section                                    *)
LEMMA BeginKnownMoves ==
    ASSUME Ready, NEW len \in Nat, NEW next, BeginKnownSection(len, next)
    PROVE  Failing \/ (Moves /\ pc' = next)
<1>1. CASE len > Remaining /\ Fail("TooShort")
  BY <1>1 DEF Fail, Failing, Errors
<1>2. CASE /\ len <= Remaining
           /\ pc' = next
           /\ sections' = Append(Less(sections, len), len)
           /\ UNCHANGED <<reader, nextLfs>>
  <2>1. 0 \in Nat /\ 0 + len = len /\ reader'.remaining = reader.remaining - 0
    BY <1>2, RemainingFits
  <2>2. 0 + len <= Remaining /\ sections' = Append(Less(sections, 0 + len), len)
    BY <1>2, <2>1
  <2>3. Moves
    BY <2>1, <2>2 DEF Moves
  <2> QED
    BY <1>2, <2>3
<1> QED
  BY <1>1, <1>2 DEF BeginKnownSection

(* begin_length_delimited_section                                          *)
LEMMA BeginSectionMoves ==
    ASSUME Ready, NEW configured \in LengthFieldSize, NEW next,
           BeginSection(configured, next)
    PROVE  Failing \/ (Moves /\ pc' = next)
<1> DEFINE width == Or(nextLfs, configured)
<1>1. width \in Nat
  BY DEF Ready, Usable, Or, OptSize, LengthFieldSize, None
<1> HIDE DEF width
<1>2. PICK out \in Outcomes(width) :
         \/ out # "ok" /\ Fail(out)
         \/ /\ out = "ok"
            /\ \E len \in 0 .. Min({Capacity(width), MaxLength}) :
                 \/ len > Remaining - width /\ Fail("AnnouncedTooShort")
                 \/ /\ len <= Remaining - width
                    /\ pc' = next
                    /\ reader' = Advance(reader, width)
                    /\ sections' = Append(Less(sections, width + len), len)
                    /\ nextLfs' = None
  BY DEF BeginSection, width
<1>3. CASE out # "ok" /\ Fail(out)
  <2>1. out \in Errors \cup Panics
    BY <1>1, <1>3, OutcomesAre
  <2> QED
    BY <1>3, <2>1 DEF Fail, Failing
<1>4. ASSUME NEW len \in 0 .. Min({Capacity(width), MaxLength}), Fail("AnnouncedTooShort")
      PROVE  Failing
  BY <1>4 DEF Fail, Failing, Errors
<1>5. ASSUME out = "ok", NEW len \in 0 .. Min({Capacity(width), MaxLength}),
             len <= Remaining - width,
             reader' = Advance(reader, width),
             sections' = Append(Less(sections, width + len), len)
      PROVE  Moves
  <2>1. /\ width <= Remaining /\ len \in Nat /\ Remaining \in Nat /\ reader.remaining \in Nat
        /\ Remaining <= reader.remaining
    BY <1>1, <1>5, OutcomesAre, RemainingFits
  <2>2. width + len <= Remaining /\ width <= reader.remaining
    BY <1>1, <1>5, <2>1
  <2>3. reader'.remaining = reader.remaining - width
    BY <1>1, <1>5, <2>2, AdvanceReader DEF Ready, Usable
  <2> QED
    BY <1>1, <1>5, <2>1, <2>2, <2>3 DEF Moves
<1> QED
  BY <1>2, <1>3, <1>4, <1>5

(* Either, or what comes instead.                                          *)
LEMMA BeginImplements ==
    ASSUME Ready, pc # "ok", NEW next, next # "ok",
           NEW wanted \in OptSize \cup {MissingPanic}, NEW computed,
           \/ Begin(wanted, computed, next)
           \/ Failed(wanted) /\ Fail(Outcome(wanted))
           \/ ~Failed(wanted) /\ wanted # None /\ BeginSection(wanted, next)
    PROVE  [W!Next]_W!vars
<1>1. ASSUME NEW x, Fail(Outcome(x))
      PROVE  Failing
  BY <1>1 DEF Fail, Failing, Outcome, Errors, Panics
<1>2. CASE ~Failed(wanted) /\ wanted # None /\ BeginSection(wanted, next)
  <2>1. wanted \in LengthFieldSize
    BY <1>2, SizesDoNotFail
  <2>2. Failing \/ (Moves /\ pc' = next)
    BY <1>2, <2>1, BeginSectionMoves
  <2> QED
    BY <2>2, FailingImplements, MovesImplement
<1>3. CASE ~Failed(computed) /\ BeginKnownSection(computed, next)
  <2>1. computed \in Nat
    BY <1>3 DEF Failed
  <2>2. Failing \/ (Moves /\ pc' = next)
    BY <1>3, <2>1, BeginKnownMoves
  <2> QED
    BY <2>2, FailingImplements, MovesImplement
<1> QED
  BY <1>1, <1>2, <1>3, FailingImplements DEF Begin

(* end_length_delimited_section                                            *)
LEMMA EndImplements ==
    ASSUME Ready, pc # "ok", sections # <<>>, NEW next, next # "ok", EndSection(next)
    PROVE  [W!Next]_W!vars
<1>1. CASE Fail("NotAllBytesConsumed")
  BY <1>1, FailingImplements DEF Fail, Failing, Errors
<1>2. CASE /\ Last(sections) = 0
           /\ pc' = next
           /\ sections' = Front(sections)
           /\ UNCHANGED <<reader, nextLfs>>
  BY <1>2, MovesImplement DEF Moves
<1> QED
  BY <1>1, <1>2 DEF EndSection

(* discard counts its bytes as read before it reads them.                  *)
LEMMA DiscardImplements ==
    ASSUME Ready, pc # "ok", NEW n \in Nat, NEW next, DiscardFrom(n, next)
    PROVE  [W!Next]_W!vars
<1>1. CASE Fail("TooShort")
  BY <1>1, FailingImplements DEF Fail, Failing, Errors
<1>2. CASE /\ Remaining >= n
           /\ pc' = "discard"
           /\ sections' = Less(sections, n)
           /\ reader' = [reader EXCEPT !.remaining = @ - n]
  <2>1. n <= Remaining
    BY <1>2, RemainingFits
  <2>2. reader'.remaining = reader.remaining - n
    BY <1>2 DEF Ready, Usable, Reader
  <2>3. Moves
    BY <1>2, <2>1, <2>2 DEF Moves
  <2> QED
    BY <1>2, <2>3, MovesImplement
<1> QED
  BY <1>1, <1>2 DEF DiscardFrom

(* Values without parts, the contents of strings and byte slices, and tags *)
(* are read within the innermost window.                                   *)
LEMMA ReadsImplement ==
    ASSUME IInv, \/ DeserializeFixed \/ ReadString \/ ReadStr \/ ReadBytes
    PROVE  [W!Next]_W!vars
<1>1. Running /\ Ready /\ pc # "ok"
  BY ReadyToRead DEF Running, DeserializeFixed, ReadString, ReadStr, ReadBytes
<1>2. ASSUME NEW n \in Nat, n <= Remaining, Take(n), pc' # "ok"
      PROVE  [W!Next]_W!vars
  BY <1>1, <1>2, TakeMoves, MovesImplement
<1>3. CASE DeserializeFixed
  <2> DEFINE size == Types[nextType].size
  <2>1. size \in Nat
    <3>1. Types[nextType] \in SomeIpFixed
      BY <1>3, TypeShapes DEF IInv, TypeOK, DeserializeFixed
    <3> QED
      BY <3>1 DEF SomeIpFixed
  <2> HIDE DEF size
  <2>2. PICK out \in Outcomes(size) :
           \/ out # "ok" /\ Fail(out)
           \/ out = "ok" /\ pc' = "return" /\ Take(size)
           \/ Fail("InvalidBool")
           \/ Fail("InvalidEnumValue")
    BY <1>3 DEF DeserializeFixed, size
  <2>3. (out # "ok" => out \in Errors \cup Panics) /\ (out = "ok" => size <= Remaining)
    BY <1>1, <2>1, OutcomesAre
  <2>4. \/ Failing
        \/ pc' = "return" /\ Take(size) /\ size <= Remaining
    BY <2>2, <2>3 DEF Fail, Failing, Errors
  <2> QED
    BY <1>1, <1>2, <2>1, <2>4, FailingImplements
<1>4. CASE ReadString \/ ReadStr \/ ReadBytes
  <2>1. pc \in {"string", "str", "bytes"}
    BY <1>4 DEF ReadString, ReadStr, ReadBytes
  <2>2. Wanted \in Nat /\ Wanted <= Remaining
    BY <1>1, <2>1, WantedFits
  <2>3. \/ TakeLeaf
        \/ \E out \in Errors : Fail(out)
        \/ \E out \in VecOutcomes(Wanted) : out # "ok" /\ Fail(out)
    BY <1>4 DEF ReadString, ReadStr, ReadBytes, Errors
  <2>4. \A out \in VecOutcomes(Wanted) : out # "ok" => out \in Errors \cup Panics
    BY <1>1, <2>2, OutcomesAre
  <2>5. Failing \/ TakeLeaf
    BY <2>3, <2>4 DEF Fail, Failing
  <2>6. CASE TakeLeaf
    BY <1>2, <2>2, <2>6 DEF TakeLeaf
  <2> QED
    BY <1>1, <2>5, <2>6, FailingImplements
<1> QED
  BY <1>3, <1>4

(* Values that are length delimited open a window.                         *)
LEMMA BeginsImplement ==
    ASSUME IInv,
           \/ DeserializeString \/ DeserializeStr \/ DeserializeBytes
           \/ DeserializeSeq \/ DeserializeStruct
    PROVE  [W!Next]_W!vars
<1>1. pc = "value" /\ Running /\ Ready /\ pc # "ok"
  BY ReadyToRead DEF Running, DeserializeString, DeserializeStr, DeserializeBytes,
     DeserializeSeq, DeserializeStruct
<1>2. WantedLengthField[Here] \in OptSize \cup {MissingPanic}
  BY SiteShape, WantedIsSize DEF IInv, TypeOK
<1>3. CASE DeserializeString \/ DeserializeStr \/ DeserializeBytes
  <2>1. PICK next \in {"string", "str", "bytes"} :
           Begin(WantedLengthField[Here], Types[nextType].max, next)
    BY <1>3 DEF DeserializeString, DeserializeStr, DeserializeBytes
  <2> QED
    BY <1>1, <1>2, <2>1, BeginImplements
<1>4. CASE DeserializeSeq
  <2>1. Begin(WantedLengthField[Here], ComputedLength, SizeHint)
    BY <1>4 DEF DeserializeSeq
  <2>2. SizeHint # "ok"
    BY HintIs DEF Panics
  <2> QED
    BY <1>1, <1>2, <2>1, <2>2, BeginImplements
<1>5. CASE DeserializeStruct
  <2> DEFINE ty == Types[nextType]
             scope == IF ty.props.set THEN ty.props ELSE props
             wanted == WantedLengthField[[Here EXCEPT !.props = scope]]
  <2>1. \/ Failed(wanted) /\ Fail(Outcome(wanted))
        \/ ~Failed(wanted) /\ wanted # None /\ BeginSection(wanted, "return")
        \/ pc' = "return" /\ UNCHANGED <<reader, sections>>
    BY <1>5 DEF DeserializeStruct
  <2>2. scope \in Properties
    <3>1. ty \in SomeIpStruct
      BY <1>5, TypeShapes DEF IInv, TypeOK, DeserializeStruct
    <3> QED
      BY <3>1 DEF SomeIpStruct, IInv, TypeOK
  <2>3. wanted \in OptSize \cup {MissingPanic}
    BY <2>2, SiteShape, WantedIsSize DEF IInv
  <2> HIDE DEF wanted
  <2>4. CASE pc' = "return" /\ UNCHANGED <<reader, sections>>
    BY <1>1, <2>4, StillImplements
  <2> QED
    BY <1>1, <2>1, <2>3, <2>4, BeginImplements
<1> QED
  BY <1>3, <1>4, <1>5

(* The excess of a value, and unknown fields, are skipped within theirs.   *)
LEMMA SkipsImplement ==
    ASSUME IInv, Skip \/ SkipFixed \/ SkipField \/ ElementRead
    PROVE  [W!Next]_W!vars
<1>1. Running /\ Ready /\ pc # "ok" /\ todo \in Nat /\ Remaining \in Nat
  <2>1. Running /\ pc # "discard" /\ pc # "ok"
    BY DEF Running, Skip, SkipFixed, SkipField, ElementRead, AtSeq
  <2>2. Ready
    BY <2>1, ReadyToRead
  <2> QED
    BY <2>1, <2>2, RemainingFits DEF IInv, TypeOK
<1>2. CASE Skip \/ SkipFixed
  <2>1. PICK n \in {Remaining, todo}, next \in {"end", "return"} : DiscardFrom(n, next)
    BY <1>2 DEF Skip, SkipFixed
  <2> QED
    BY <1>1, <2>1, DiscardImplements
<1>3. CASE ElementRead
  <2>1. \/ Fail("TooMuchData")
        \/ DiscardFrom(Remaining, "return")
        \/ UNCHANGED <<reader, sections, pc>>
    BY <1>3 DEF ElementRead
  <2>2. Fail("TooMuchData") => Failing
    BY DEF Fail, Failing, Errors
  <2>3. CASE UNCHANGED <<reader, sections, pc>>
    BY <1>1, <2>3, StillImplements
  <2> QED
    BY <1>1, <2>1, <2>2, <2>3, FailingImplements, DiscardImplements
<1>4. CASE SkipField
  <2> DEFINE size == ApplyDefaults(opts, TopType.lfs)
  <2>1. \/ Fail("MissingPanic")
        \/ size # None /\ BeginSection(size, "skip")
    BY <1>4 DEF SkipField
  <2>2. size \in OptSize
    <3>1. frames # <<>> /\ TopType.kind = "struct"
      BY <1>4 DEF IInv, LeafTypes, SkipField
    <3>2. TopType.lfs \in OptSize /\ opts.defaultLfs \in OptSize
      BY <3>1, StructShape DEF IInv, TypeOK, Options
    <3> QED
      BY <3>2 DEF ApplyDefaults, Or
  <2> HIDE DEF size
  <2>3. Fail("MissingPanic") => Failing
    BY DEF Fail, Failing, Panics
  <2>4. CASE size # None /\ BeginSection(size, "skip")
    <3>1. size \in LengthFieldSize /\ ~Failed(size)
      BY <2>2, <2>4, SizesDoNotFail
    <3> QED
      BY <1>1, <2>2, <2>4, <3>1, BeginImplements
  <2> QED
    BY <1>1, <2>1, <2>3, <2>4, FailingImplements
<1> QED
  BY <1>2, <1>3, <1>4

(* A window is left where its data ends.                                   *)
LEMMA EndsImplement ==
    ASSUME IInv, EndLeaf \/ EndSeq \/ EndStruct
    PROVE  [W!Next]_W!vars
<1>1. Running /\ Ready /\ pc # "ok"
  BY ReadyToRead DEF Running, EndLeaf, EndSeq, EndStruct, AtSeq, AllFields, AtStruct
<1>2. CASE EndLeaf
  <2>1. pc = "end" /\ EndSection("return")
    BY <1>2 DEF EndLeaf
  <2>2. sections # <<>>
    <3>1. Cardinality(Sectioned(frames)) \in Nat
      BY SectionedIsFinite DEF IInv, TypeOK
    <3>2. Len(sections) = Cardinality(Sectioned(frames)) + 1
      BY <1>1, <2>1 DEF IInv, SectionsMatchFrames, Current, InLeaf
    <3> QED
      BY <3>1, <3>2
  <2> QED
    BY <1>1, <2>1, <2>2, EndImplements
<1>3. CASE EndSeq
  <2>1. /\ pc = "return" /\ frames # <<>> /\ TopType.kind = "seq"
        /\ Fail("NotEnoughData") \/ EndSection("return")
    BY <1>3 DEF EndSeq, AtSeq
  <2>2. Top.section # "none"
    BY <2>1, TopIsFrame DEF IInv, SeqsHaveSections
  <2>3. sections # <<>>
    BY <2>1, <2>2, SectionIsThere
  <2>4. Fail("NotEnoughData") => Failing
    BY DEF Fail, Failing, Errors
  <2> QED
    BY <1>1, <2>1, <2>3, <2>4, EndImplements, FailingImplements
<1>4. CASE EndStruct
  <2>1. /\ pc = "return" /\ frames # <<>>
        /\ \/ Top.section # "none" /\ EndSection("return")
           \/ UNCHANGED <<reader, sections, pc>>
    BY <1>4 DEF EndStruct, AllFields, AtStruct
  <2>2. CASE Top.section # "none" /\ EndSection("return")
    BY <1>1, <2>1, <2>2, SectionIsThere, EndImplements
  <2>3. CASE UNCHANGED <<reader, sections, pc>>
    BY <1>1, <2>3, StillImplements
  <2> QED
    BY <2>1, <2>2, <2>3
<1> QED
  BY <1>2, <1>3, <1>4

(* Tags are read within the window of their struct.                        *)
LEMMA TagsImplement ==
    ASSUME IInv, TagUnreadable \/ NextKey
    PROVE  [W!Next]_W!vars
<1>1. Running /\ Ready /\ pc # "ok"
  BY ReadyToRead DEF Running, TagUnreadable, NextKey, AtStruct
<1>2. CASE TagUnreadable
  <2>1. PICK out \in Outcomes(2) : out # "ok" /\ Fail(out)
    BY <1>2 DEF TagUnreadable
  <2>2. out \in Errors \cup Panics
    BY <1>1, <2>1, OutcomesAre
  <2> QED
    BY <1>1, <2>1, <2>2, FailingImplements DEF Fail, Failing
<1>3. CASE NextKey
  <2>1. 2 <= Remaining
    BY <1>1, <1>3, OutcomesAre DEF NextKey
  <2>2. PICK wire \in WireType :
           UnknownField(wire) \/ \E i \in DOMAIN TopType.fields : KnownField(i, wire)
    BY <1>3 DEF NextKey
  <2>3. \/ Fail("Message") \/ Fail("InvalidWireType")
        \/ Take(2) /\ pc' \in {"value", "skipFixed", "skipField"}
    BY <2>2 DEF UnknownField, KnownField
  <2>4. Fail("Message") \/ Fail("InvalidWireType") => Failing
    BY DEF Fail, Failing, Errors
  <2>5. CASE Take(2) /\ pc' \in {"value", "skipFixed", "skipField"}
    BY <1>1, <2>1, <2>5, TakeMoves, MovesImplement
  <2> QED
    BY <1>1, <2>3, <2>4, <2>5, FailingImplements
<1> QED
  BY <1>2, <1>3

(* A finished value has left all its windows.                              *)
LEMMA FinishImplements ==
    ASSUME IInv, Finish
    PROVE  [W!Next]_W!vars
<1>1. pc = "return" /\ pc' = "ok" /\ frames = <<>> /\ UNCHANGED <<reader, sections>>
  BY DEF Finish
<1>2. Ready
  BY <1>1, ReadyToRead DEF Running
<1>3. Sectioned(frames) = {}
  BY <1>1 DEF Sectioned
<1>4. Len(sections) = 0
  <2>1. Len(sections) = Cardinality(Sectioned(frames)) + 0
    BY <1>1 DEF IInv, SectionsMatchFrames, Current, Running, InLeaf
  <2> QED
    BY <1>3, <2>1, FS_EmptySet
<1> DEFINE ends == Ends(sections, reader.remaining)
<1>5. ends \in Seq(Nat) /\ Len(ends) = Len(sections)
  BY <1>2, WindowsAre
<1> HIDE DEF ends
<1>6. ends = <<>>
  BY <1>4, <1>5, EmptySeq
<1> QED
  BY <1>1, <1>6 DEF ends, W!Next, W!End

(* Steps that do not read.                                                 *)
LEMMA OthersImplement ==
    ASSUME IInv,
           \/ Call \/ DeserializeOption \/ DiscardChunk \/ DiscardFails \/ NextElement
           \/ NextField \/ FieldsCutShort \/ FieldMissing
    PROVE  [W!Next]_W!vars
<1>1. pc # "ok"
  BY DEF Call, DeserializeOption, DiscardChunk, DiscardFails, NextElement, NextField,
     FieldsCutShort, FieldMissing, AtSeq, AtStruct
<1>2. CASE DeserializeOption \/ DiscardFails \/ FieldsCutShort \/ FieldMissing
  BY <1>1, <1>2, FailingImplements DEF DeserializeOption, DiscardFails, FieldsCutShort,
     FieldMissing, Fail, Failing, Errors, Panics
<1>3. CASE Call \/ NextElement \/ NextField
  BY <1>1, <1>3, StillImplements DEF Call, NextElement, NextField
<1>4. CASE DiscardChunk
  <2>1. sections' = sections /\ pc' \in {"discard", after}
    BY <1>4 DEF DiscardChunk
  <2>2. pc' # "ok"
    BY <2>1 DEF IInv, TypeOK
  <2>3. reader'.remaining = reader.remaining
    BY <1>4 DEF DiscardChunk, IInv, TypeOK, Reader
  <2> QED
    BY <1>1, <2>1, <2>2, <2>3, StillImplements
<1> QED
  BY <1>2, <1>3, <1>4

(* Every step is one of the windows, or none.                              *)
LEMMA NextImplements ==
    ASSUME IInv, [Next]_vars
    PROVE  [W!Next]_W!vars
<1>1. CASE UNCHANGED vars
  BY <1>1 DEF vars, W!vars
<1>2. CASE Finish
  BY <1>2, FinishImplements
<1> QED
  BY <1>1, <1>2, ReadsImplement, BeginsImplement, SkipsImplement, EndsImplement,
     TagsImplement, OthersImplement DEF Next, Step, Stopped

(* Counting down only the innermost section amounts to reading within      *)
(* nested windows, for all data: no read leaves a window that is open, a   *)
(* window is left at its end and none is open behind the value.            *)
THEOREM WindowsAreImplemented == Spec => ImplementsWindows
<1>1. Init => W!Init
  <2> SUFFICES ASSUME Init
               PROVE  W!Init
    OBVIOUS
  <2>1. sections = <<>> /\ reader \in Reader /\ pc = "call"
    BY DeserializerAssumption DEF Init
  <2>2. reader.remaining \in Nat
    BY <2>1 DEF Reader
  <2>3. sections \in Seq(Nat) /\ Covered(sections, reader.remaining)
    <3>1. IInv
      BY InitEstablishesIInv
    <3> QED
      BY <2>1, <3>1 DEF IInv, Supplied, Running, Usable
  <2>4. EndsAre(sections, reader.remaining, Ends(sections, reader.remaining))
    BY <2>2, <2>3, EndsExist
  <2> DEFINE ends == Ends(sections, reader.remaining)
  <2>5. ends \in Seq(Nat) /\ Len(ends) = 0
    BY <2>1, <2>4, EmptySeq DEF EndsAre
  <2> HIDE DEF ends
  <2>6. ends = <<>>
    BY <2>5, EmptySeq
  <2> QED
    BY <2>1, <2>2, <2>6 DEF ends, W!Init
<1>2. IInv /\ [Next]_vars => [W!Next]_W!vars
  BY NextImplements
<1> QED
  BY <1>1, <1>2, Invariant, PTL DEF Spec, ImplementsWindows, W!Spec

----------------------------------------------------------------------------
(***************************************************************************)
(* Sections of a computed length.                                          *)
(*                                                                         *)
(* Whether such a section suffices shows only at its end, and until then   *)
(* the sections within it, whose lengths come from the data, are begun and *)
(* ended.  So the comparison is made with the place where it ends: what is *)
(* due to the open accesses, from the innermost one outwards, reaches just *)
(* as far.                                                                 *)
(***************************************************************************)

(* The section of the k-th access is the one of this number.               *)
Rank(fs, k) == Cardinality({i \in Sectioned(fs) : i <= k})

LEMMA RankIs ==
    ASSUME NEW fs \in Seq(Frame), NEW k \in DOMAIN fs, fs[k].section # "none"
    PROVE  Rank(fs, k) \in 1 .. Cardinality(Sectioned(fs))
<1> DEFINE first == {i \in Sectioned(fs) : i <= k}
<1>1. IsFiniteSet(Sectioned(fs)) /\ Cardinality(Sectioned(fs)) \in Nat
  BY SectionedIsFinite
<1>2. first \subseteq Sectioned(fs) /\ k \in first
  BY DEF Sectioned
<1> HIDE DEF first
<1>3. /\ IsFiniteSet(first) /\ Cardinality(first) \in Nat
      /\ Cardinality(first) <= Cardinality(Sectioned(fs))
  BY <1>1, <1>2, FS_Subset, FS_CardinalityType
<1>4. Cardinality(first) # 0
  BY <1>2, <1>3, FS_EmptySet
<1> QED
  BY <1>1, <1>3, <1>4 DEF Rank, first

(* The last of them has the last section.                                  *)
LEMMA RankOfLast ==
    ASSUME NEW fs \in Seq(Frame), NEW k \in DOMAIN fs,
           \A i \in Sectioned(fs) : i <= k
    PROVE  Rank(fs, k) = Cardinality(Sectioned(fs))
<1>1. {i \in Sectioned(fs) : i <= k} = Sectioned(fs)
  OBVIOUS
<1> QED
  BY <1>1 DEF Rank

(* It does not depend on what happens to the accesses within.              *)
LEMMA RankStays ==
    ASSUME NEW fs \in Seq(Frame), NEW gs \in Seq(Frame), NEW k \in DOMAIN fs \cap DOMAIN gs,
           \A i \in 1 .. k : gs[i].section = fs[i].section
    PROVE  Rank(gs, k) = Rank(fs, k)
<1>1. {i \in Sectioned(gs) : i <= k} = {i \in Sectioned(fs) : i <= k}
  BY DEF Sectioned
<1> QED
  BY <1>1 DEF Rank

(* Every window ends before the reader's bytes do.                         *)
LEMMA EndsBelow ==
    ASSUME NEW secs \in Seq(Nat), NEW left \in Nat, Covered(secs, left),
           NEW k \in 1 .. Len(secs)
    PROVE  Ends(secs, left)[k] \in Nat /\ Ends(secs, left)[k] <= left
<1> DEFINE ends == Ends(secs, left)
           last == Len(secs)
           Below == {m \in Nat : m < last => ends[last - m] <= left}
<1>1. EndsAre(secs, left, ends)
  BY EndsExist
<1>2. last \in Nat /\ \A i \in 1 .. last : secs[i] \in Nat
  OBVIOUS
<1>3. \A i \in 1 .. last : ends[i] \in Nat
  BY <1>1 DEF EndsAre
<1>4. \A i \in 1 .. last : ends[i] + secs[i] = IF i = last THEN left ELSE ends[i + 1]
  BY <1>1 DEF EndsAre
<1> HIDE DEF ends, last
<1>5. 0 \in Below
  <2> SUFFICES ASSUME 0 < last
               PROVE  ends[last] <= left
    BY <1>2
  <2>1. last \in 1 .. last
    BY <1>2
  <2>2. ends[last] + secs[last] = left /\ ends[last] \in Nat /\ secs[last] \in Nat
    BY <1>2, <1>3, <1>4, <2>1
  <2> QED
    BY <2>2
<1>6. ASSUME NEW m \in Nat, m \in Below
      PROVE  m + 1 \in Below
  <2> SUFFICES ASSUME m + 1 < last
               PROVE  ends[last - (m + 1)] <= left
    OBVIOUS
  <2> DEFINE i == last - (m + 1)
  <2>1. i \in 1 .. last /\ i # last /\ i + 1 = last - m /\ i + 1 \in 1 .. last
    BY <1>2
  <2> HIDE DEF i
  <2>2. ends[i] + secs[i] = ends[i + 1]
    BY <1>4, <2>1
  <2>3. ends[i + 1] <= left
    BY <1>2, <1>6, <2>1
  <2>4. ends[i] \in Nat /\ secs[i] \in Nat /\ ends[i + 1] \in Nat
    BY <1>2, <1>3, <2>1
  <2>5. ends[i] <= left
    BY <2>2, <2>3, <2>4
  <2> QED
    BY <2>5 DEF i
<1>7. Nat \subseteq Below
  <2> HIDE DEF Below
  <2> QED BY <1>5, <1>6, NatInductive
<1>8. last - k \in Nat /\ last - k < last /\ last - (last - k) = k /\ k \in 1 .. last
  BY <1>2 DEF last
<1>9. last - k \in Below
  BY <1>7, <1>8
<1>10. ends[k] <= left
  BY <1>8, <1>9
<1> QED
  BY <1>3, <1>8, <1>10 DEF ends

(* The innermost window ends where its section does.                       *)
LEMMA EndAt ==
    ASSUME NEW secs \in Seq(Nat), NEW left \in Nat, Covered(secs, left), secs # <<>>
    PROVE  Ends(secs, left)[Len(secs)] = left - Last(secs)
<1> DEFINE ends == Ends(secs, left)
<1>1. EndsAre(secs, left, ends)
  BY EndsExist
<1> HIDE DEF ends
<1>2. Len(secs) \in 1 .. Len(secs) /\ Last(secs) = secs[Len(secs)] /\ Last(secs) \in Nat
  BY FrontIsSeq DEF Last
<1>3. ends[Len(secs)] + secs[Len(secs)] = left /\ ends[Len(secs)] \in Nat
  BY <1>1, <1>2 DEF EndsAre
<1> QED
  BY <1>2, <1>3 DEF ends

(* What is due to the accesses `fs` and to the value that is being read    *)
(* ends where the computed sections do.                                    *)
Aligned(fs, dues, secs, left, due) ==
    /\ dues \in Seq(Nat) /\ Len(dues) = Len(fs)
    /\ due \in Nat /\ due <= left
    /\ Covered(dues, left - due)
    /\ \A k \in DOMAIN fs : fs[k].section = "computed" =>
          Ends(secs, left)[Rank(fs, k)] = Ends(dues, left - due)[k]

(* The sections of the accesses, and one more of a leaf.                   *)
Holds(fs, secs, left, more) ==
    /\ fs \in Seq(Frame)
    /\ secs \in Seq(Nat)
    /\ left \in Nat
    /\ Covered(secs, left)
    /\ Len(secs) = Cardinality(Sectioned(fs)) + more

(* The windows of the accesses stay where they are.                        *)
EndsStay(fs, secs, left, next, rest) ==
    \A k \in 1 .. Cardinality(Sectioned(fs)) : Ends(next, rest)[k] = Ends(secs, left)[k]

LEMMA AlignedMoves ==
    ASSUME NEW fs \in Seq(Frame), NEW dues, NEW secs, NEW left \in Nat, NEW due,
           Aligned(fs, dues, secs, left, due),
           NEW next, NEW rest \in Nat, NEW owed \in Nat, owed <= rest,
           rest - owed = left - due, EndsStay(fs, secs, left, next, rest)
    PROVE  Aligned(fs, dues, next, rest, owed)
<1>1. ASSUME NEW k \in DOMAIN fs, fs[k].section = "computed"
      PROVE  Ends(next, rest)[Rank(fs, k)] = Ends(dues, rest - owed)[k]
  <2>1. Rank(fs, k) \in 1 .. Cardinality(Sectioned(fs))
    BY <1>1, RankIs
  <2>2. Ends(next, rest)[Rank(fs, k)] = Ends(secs, left)[Rank(fs, k)]
    BY <2>1 DEF EndsStay
  <2> QED
    BY <1>1, <2>2 DEF Aligned
<1> QED
  BY <1>1 DEF Aligned

(* A read of what is due, within the innermost section.                    *)
LEMMA AlignedReads ==
    ASSUME NEW fs, NEW dues, NEW secs, NEW left, NEW due, NEW more \in {0, 1},
           Holds(fs, secs, left, more), Aligned(fs, dues, secs, left, due),
           NEW n \in Nat, n <= due, n <= Left(secs, left)
    PROVE  Aligned(fs, dues, Less(secs, n), left - n, due - n)
<1>1. fs \in Seq(Frame) /\ secs \in Seq(Nat) /\ left \in Nat /\ Covered(secs, left)
  BY DEF Holds
<1>2. due \in Nat /\ due <= left
  BY DEF Aligned
<1>3. Ends(Less(secs, n), left - n) = Ends(secs, left)
  BY <1>1, LessKeepsEnds
<1>4. EndsStay(fs, secs, left, Less(secs, n), left - n)
  BY <1>3 DEF EndsStay
<1>5. /\ left - n \in Nat /\ due - n \in Nat /\ due - n <= left - n
      /\ left - n - (due - n) = left - due
  BY <1>1, <1>2
<1> QED
  BY <1>1, <1>4, <1>5, AlignedMoves

(* A section begins, of `len` bytes behind a length field of `width`.      *)
LEMMA BeginStays ==
    ASSUME NEW fs, NEW secs, NEW left, Holds(fs, secs, left, 0),
           NEW width \in Nat, NEW len \in Nat, width + len <= Left(secs, left)
    PROVE  /\ EndsStay(fs, secs, left, Append(Less(secs, width + len), len), left - width)
           /\ Ends(Append(Less(secs, width + len), len), left - width)[Len(secs) + 1]
                = left - width - len
<1> DEFINE n == width + len
           less == Less(secs, n)
           next == Append(less, len)
<1>1. fs \in Seq(Frame) /\ secs \in Seq(Nat) /\ left \in Nat /\ Covered(secs, left)
  BY DEF Holds
<1>2. n \in Nat /\ n <= Left(secs, left)
  OBVIOUS
<1> HIDE DEF n
<1>3. /\ less \in Seq(Nat) /\ Len(less) = Len(secs) /\ left - n \in Nat
      /\ Covered(less, left - n)
  BY <1>1, <1>2, LessCovered
<1>4. Ends(less, left - n) = Ends(secs, left)
  BY <1>1, <1>2, LessKeepsEnds
<1> HIDE DEF less
<1>5. Ends(next, left - n + len) = Append(Ends(less, left - n), left - n)
  BY <1>3, AppendAddsEnd
<1>6. left - n + len = left - width /\ left - n = left - width - len
  BY <1>1 DEF n
<1>7. Ends(next, left - width) = Append(Ends(secs, left), left - n)
  BY <1>4, <1>5, <1>6
<1>8. Ends(secs, left) \in Seq(Nat) /\ Len(Ends(secs, left)) = Len(secs)
  BY <1>1, EndsExist DEF EndsAre
<1> DEFINE ends == Ends(secs, left)
<1> HIDE DEF ends
<1>9. /\ Append(ends, left - n)[Len(secs) + 1] = left - n
      /\ \A k \in 1 .. Len(secs) : Append(ends, left - n)[k] = ends[k]
  BY <1>8 DEF ends
<1>10. Cardinality(Sectioned(fs)) = Len(secs)
  BY <1>1, SectionedIsFinite DEF Holds
<1> QED
  BY <1>6, <1>7, <1>9, <1>10 DEF EndsStay, ends, next, less, n

(* A section ends.                                                         *)
LEMMA EndStays ==
    ASSUME NEW secs, NEW left, NEW gs \in Seq(Frame),
           secs \in Seq(Nat), left \in Nat, Covered(secs, left),
           secs # <<>>, Last(secs) = 0, Len(secs) = Cardinality(Sectioned(gs)) + 1
    PROVE  EndsStay(gs, secs, left, Front(secs), left)
<1> DEFINE ends == Ends(secs, left)
<1>1. Ends(Front(secs), left) = SubSeq(ends, 1, Len(secs) - 1)
  BY FrontDropsEnd
<1>2. ends \in Seq(Nat) /\ Len(ends) = Len(secs)
  BY EndsExist DEF EndsAre
<1> HIDE DEF ends
<1>3. \A k \in 1 .. Len(secs) - 1 : SubSeq(ends, 1, Len(secs) - 1)[k] = ends[k]
  BY <1>2
<1>4. \A k \in 1 .. Cardinality(Sectioned(gs)) : k \in 1 .. Len(secs) - 1
  BY SectionedIsFinite
<1> QED
  BY <1>1, <1>3, <1>4 DEF EndsStay, ends

(* An access begins: `rest` is due to it of what was due to the value, and *)
(* the length field has been read.                                         *)
LEMMA AlignedOpens ==
    ASSUME NEW fs, NEW dues, NEW secs, NEW left, NEW f \in Frame, NEW next,
           NEW rest \in Nat, NEW width \in Nat, NEW len \in Nat,
           Holds(fs, secs, left, 0), Aligned(fs, dues, secs, left, rest + width),
           \/ f.section = "none" /\ width = 0 /\ next = secs
           \/ /\ f.section # "none"
              /\ f.section = "computed" => width = 0 /\ len = rest
              /\ width + len <= Left(secs, left)
              /\ next = Append(Less(secs, width + len), len)
    PROVE  Aligned(Append(fs, f), Append(dues, rest), next, left - width, 0)
<1> DEFINE gs == Append(fs, f)
           more == Append(dues, rest)
           end == left - (rest + width)
<1>1. /\ fs \in Seq(Frame) /\ secs \in Seq(Nat) /\ left \in Nat /\ Covered(secs, left)
      /\ Len(secs) = Cardinality(Sectioned(fs))
  <2>1. /\ fs \in Seq(Frame) /\ secs \in Seq(Nat) /\ left \in Nat /\ Covered(secs, left)
        /\ Len(secs) = Cardinality(Sectioned(fs)) + 0
    BY DEF Holds
  <2> QED
    BY <2>1, SectionedIsFinite
<1>2. /\ dues \in Seq(Nat) /\ Len(dues) = Len(fs) /\ Len(fs) \in Nat
      /\ rest + width <= left /\ Covered(dues, end)
      /\ \A k \in DOMAIN fs : fs[k].section = "computed" =>
            Ends(secs, left)[Rank(fs, k)] = Ends(dues, end)[k]
  BY <1>1 DEF Aligned
<1>3. end \in Nat /\ left - width \in Nat /\ end + rest = left - width
  BY <1>1, <1>2
<1>4. /\ gs \in Seq(Frame) /\ Len(gs) = Len(fs) + 1 /\ gs[Len(fs) + 1] = f
      /\ \A k \in 1 .. Len(fs) : gs[k] = fs[k]
      /\ DOMAIN gs = 1 .. Len(fs) + 1
  BY <1>1
<1> HIDE DEF end
<1>5. more \in Seq(Nat) /\ Len(more) = Len(gs) /\ Covered(more, left - width)
  BY <1>2, <1>3, <1>4, AppendCovered
<1>6. Ends(more, left - width) = Append(Ends(dues, end), end)
  <2>1. Ends(Append(dues, rest), end + rest) = Append(Ends(dues, end), end)
    BY <1>2, <1>3, AppendAddsEnd
  <2> QED
    BY <1>3, <2>1
<1>7. Ends(dues, end) \in Seq(Nat) /\ Len(Ends(dues, end)) = Len(fs)
  BY <1>2, <1>3, EndsExist DEF EndsAre
<1>8. /\ \A k \in 1 .. Len(fs) : Ends(more, left - width)[k] = Ends(dues, end)[k]
      /\ Ends(more, left - width)[Len(fs) + 1] = end
  <2> DEFINE ends == Ends(dues, end)
  <2> HIDE DEF ends
  <2>1. /\ \A k \in 1 .. Len(fs) : Append(ends, end)[k] = ends[k]
        /\ Append(ends, end)[Len(fs) + 1] = end
    BY <1>2, <1>7 DEF ends
  <2> QED
    BY <1>6, <2>1 DEF ends
<1>9. EndsStay(fs, secs, left, next, left - width)
  <2>1. CASE f.section = "none"
    BY <1>1, <2>1 DEF EndsStay
  <2>2. CASE f.section # "none"
    <3>1. width + len <= Left(secs, left) /\ next = Append(Less(secs, width + len), len)
      BY <2>2
    <3>2. EndsStay(fs, secs, left, Append(Less(secs, width + len), len), left - width)
      BY <3>1, BeginStays
    <3> QED
      BY <3>1, <3>2
  <2> QED
    BY <2>1, <2>2
<1> HIDE DEF gs, more
<1>10. ASSUME NEW k \in DOMAIN gs, gs[k].section = "computed"
       PROVE  Ends(next, left - width)[Rank(gs, k)] = Ends(more, left - width)[k]
  <2>1. CASE k \in 1 .. Len(fs)
    <3>1. k \in DOMAIN fs /\ fs[k].section = "computed"
      BY <1>1, <1>4, <1>10, <2>1
    <3>2. Rank(gs, k) = Rank(fs, k)
      <4>1. k \in DOMAIN fs \cap DOMAIN gs /\ \A i \in 1 .. k : gs[i].section = fs[i].section
        BY <1>2, <1>4, <2>1, <3>1
      <4> QED
        BY <1>1, <1>4, <4>1, RankStays
    <3>3. Rank(fs, k) \in 1 .. Cardinality(Sectioned(fs))
      BY <1>1, <3>1, RankIs
    <3>4. Ends(next, left - width)[Rank(fs, k)] = Ends(secs, left)[Rank(fs, k)]
      BY <1>9, <3>3 DEF EndsStay
    <3> QED
      BY <1>2, <1>8, <2>1, <3>1, <3>2, <3>4
  <2>2. CASE k = Len(fs) + 1
    <3>1. f.section = "computed"
      BY <1>4, <1>10, <2>2
    <3>2. Rank(gs, k) = Cardinality(Sectioned(gs))
      <4>1. \A i \in Sectioned(gs) : i <= k
        BY <1>2, <1>4, <2>2 DEF Sectioned
      <4> QED
        BY <1>4, <1>10, <4>1, RankOfLast
    <3>3. Cardinality(Sectioned(gs)) = Len(secs) + 1
      BY <1>1, <3>1, SectionedAppend DEF Counts, gs
    <3>4. Ends(next, left - width)[Len(secs) + 1] = left - width - len
      <4>1. width + len <= Left(secs, left) /\ next = Append(Less(secs, width + len), len)
        BY <3>1
      <4>2. Ends(Append(Less(secs, width + len), len), left - width)[Len(secs) + 1]
              = left - width - len
        BY <4>1, BeginStays
      <4> QED
        BY <4>1, <4>2
    <3>5. left - width - len = end
      BY <1>1, <3>1 DEF end
    <3> QED
      BY <1>8, <2>2, <3>2, <3>3, <3>4, <3>5
  <2> QED
    BY <1>2, <1>4, <1>10, <2>1, <2>2
<1>11. left - width - 0 = left - width /\ 0 <= left - width
  BY <1>3
<1> QED
  BY <1>3, <1>5, <1>10, <1>11 DEF Aligned, gs, more

(* An access ends to which nothing is due any more.                        *)
LEMMA AlignedCloses ==
    ASSUME NEW fs, NEW dues, NEW secs, NEW left, NEW next, fs # <<>>,
           Holds(fs, secs, left, 0), Aligned(fs, dues, secs, left, 0), Last(dues) = 0,
           IF fs[Len(fs)].section = "none" THEN next = secs
           ELSE secs # <<>> /\ Last(secs) = 0 /\ next = Front(secs)
    PROVE  Aligned(Front(fs), Front(dues), next, left, 0)
<1> DEFINE gs == Front(fs)
           fewer == Front(dues)
<1>1. /\ fs \in Seq(Frame) /\ secs \in Seq(Nat) /\ left \in Nat /\ Covered(secs, left)
      /\ Len(secs) = Cardinality(Sectioned(fs))
  <2>1. /\ fs \in Seq(Frame) /\ secs \in Seq(Nat) /\ left \in Nat /\ Covered(secs, left)
        /\ Len(secs) = Cardinality(Sectioned(fs)) + 0
    BY DEF Holds
  <2> QED
    BY <2>1, SectionedIsFinite
<1>2. /\ dues \in Seq(Nat) /\ Len(dues) = Len(fs) /\ Covered(dues, left)
      /\ \A k \in DOMAIN fs : fs[k].section = "computed" =>
            Ends(secs, left)[Rank(fs, k)] = Ends(dues, left)[k]
  <2>1. left - 0 = left
    BY <1>1
  <2> QED
    BY <2>1 DEF Aligned
<1>3. /\ gs \in Seq(Frame) /\ Len(gs) = Len(fs) - 1 /\ Len(fs) \in Nat
      /\ \A k \in 1 .. Len(fs) - 1 : gs[k] = fs[k]
      /\ DOMAIN gs = 1 .. Len(fs) - 1 /\ DOMAIN fs = 1 .. Len(fs)
  <2>1. /\ gs \in Seq(Frame) /\ Len(gs) = Len(fs) - 1
        /\ \A k \in 1 .. Len(fs) - 1 : gs[k] = fs[k]
    BY <1>1, FrontIsSeq
  <2> HIDE DEF gs
  <2> QED
    BY <1>1, <2>1
<1>4. dues # <<>> /\ Len(fs) # 0
  BY <1>1, <1>2
<1>5. fewer \in Seq(Nat) /\ Len(fewer) = Len(gs) /\ Covered(fewer, left)
  BY <1>1, <1>2, <1>3, <1>4, FrontCovered
<1>6. Ends(fewer, left) = SubSeq(Ends(dues, left), 1, Len(dues) - 1)
  BY <1>1, <1>2, <1>4, FrontDropsEnd
<1>7. Ends(dues, left) \in Seq(Nat) /\ Len(Ends(dues, left)) = Len(fs)
  BY <1>1, <1>2, EndsExist DEF EndsAre
<1>8. \A k \in 1 .. Len(fs) - 1 : Ends(fewer, left)[k] = Ends(dues, left)[k]
  <2> DEFINE ends == Ends(dues, left)
  <2> HIDE DEF ends
  <2>1. \A k \in 1 .. Len(fs) - 1 : SubSeq(ends, 1, Len(fs) - 1)[k] = ends[k]
    BY <1>3, <1>7 DEF ends
  <2> QED
    BY <1>2, <1>6, <2>1 DEF ends
<1>9. EndsStay(gs, secs, left, next, left)
  <2>1. Cardinality(Sectioned(gs)) = Cardinality(Sectioned(fs)) - Counts(fs[Len(fs)])
    BY <1>1, SectionedFront
  <2>2. CASE fs[Len(fs)].section = "none"
    BY <2>2 DEF EndsStay
  <2>3. CASE fs[Len(fs)].section # "none"
    <3>1. Len(secs) \in Nat /\ Len(secs) = Cardinality(Sectioned(gs)) + 1
      BY <1>1, <2>1, <2>3 DEF Counts
    <3> HIDE DEF gs
    <3> QED
      BY <1>1, <1>3, <2>3, <3>1, EndStays
  <2> QED
    BY <2>2, <2>3
<1> HIDE DEF gs, fewer
<1>10. ASSUME NEW k \in DOMAIN gs, gs[k].section = "computed"
       PROVE  Ends(next, left)[Rank(gs, k)] = Ends(fewer, left)[k]
  <2>1. k \in DOMAIN fs /\ fs[k].section = "computed"
    BY <1>3, <1>10
  <2>2. Rank(gs, k) = Rank(fs, k)
    <3>1. k \in DOMAIN fs \cap DOMAIN gs /\ \A i \in 1 .. k : gs[i].section = fs[i].section
      BY <1>3, <1>10, <2>1
    <3> QED
      BY <1>1, <1>3, <3>1, RankStays
  <2>3. Rank(gs, k) \in 1 .. Cardinality(Sectioned(gs))
    BY <1>3, <1>10, RankIs
  <2>4. Ends(next, left)[Rank(gs, k)] = Ends(secs, left)[Rank(gs, k)]
    BY <1>9, <2>3 DEF EndsStay
  <2> QED
    BY <1>2, <1>3, <1>8, <1>10, <2>1, <2>2, <2>4
<1>11. left - 0 = left /\ 0 <= left
  BY <1>1
<1> QED
  BY <1>1, <1>5, <1>10, <1>11 DEF Aligned, gs, fewer

(* The innermost access asks for a part: what was due to the access is due *)
(* to the part.                                                            *)
LEMMA AlignedSpends ==
    ASSUME NEW fs, NEW dues, NEW secs, NEW left, NEW f \in Frame, fs # <<>>,
           f.section = fs[Len(fs)].section,
           Holds(fs, secs, left, 0), Aligned(fs, dues, secs, left, 0),
           NEW n \in Nat, n <= Last(dues)
    PROVE  Aligned(WithTop(fs, f), Less(dues, n), secs, left, n)
<1> DEFINE gs == WithTop(fs, f)
           less == Less(dues, n)
<1>1. fs \in Seq(Frame) /\ secs \in Seq(Nat) /\ left \in Nat /\ left - 0 = left
  BY DEF Holds
<1>2. /\ dues \in Seq(Nat) /\ Len(dues) = Len(fs) /\ Covered(dues, left)
      /\ \A k \in DOMAIN fs : fs[k].section = "computed" =>
            Ends(secs, left)[Rank(fs, k)] = Ends(dues, left)[k]
  BY <1>1 DEF Aligned
<1>3. /\ gs \in Seq(Frame) /\ Len(gs) = Len(fs) /\ Sectioned(gs) = Sectioned(fs)
      /\ \A i \in 1 .. Len(fs) : gs[i] = IF i = Len(fs) THEN f ELSE fs[i]
      /\ DOMAIN gs = 1 .. Len(fs) /\ DOMAIN fs = 1 .. Len(fs)
  BY <1>1, TopExcept
<1>4. dues # <<>> /\ n <= Left(dues, left)
  BY <1>1, <1>2 DEF Left
<1>5. Left(dues, left) \in Nat /\ Left(dues, left) <= left
  BY <1>1, <1>2, CoveredFits
<1>6. /\ less \in Seq(Nat) /\ Len(less) = Len(gs) /\ left - n \in Nat
      /\ Covered(less, left - n)
  BY <1>1, <1>2, <1>3, <1>4, LessCovered
<1>7. Ends(less, left - n) = Ends(dues, left)
  BY <1>1, <1>2, <1>4, LessKeepsEnds
<1> HIDE DEF gs, less
<1>8. ASSUME NEW k \in DOMAIN gs, gs[k].section = "computed"
      PROVE  Ends(secs, left)[Rank(gs, k)] = Ends(less, left - n)[k]
  <2>1. k \in DOMAIN fs /\ fs[k].section = "computed"
    BY <1>3, <1>8
  <2>2. Rank(gs, k) = Rank(fs, k)
    BY <1>3 DEF Rank
  <2> QED
    BY <1>2, <1>7, <2>1, <2>2
<1>9. n <= left
  BY <1>1, <1>4, <1>5
<1> QED
  BY <1>1, <1>6, <1>8, <1>9 DEF Aligned, gs, less

(* The innermost section has what is due, if its length is computed.       *)
LEMMA AlignedSuffices ==
    ASSUME NEW fs, NEW dues, NEW secs, NEW left, NEW due,
           Holds(fs, secs, left, 0), Aligned(fs, dues, secs, left, due),
           NEW k \in DOMAIN fs, fs[k].section = "computed", \A i \in Sectioned(fs) : i <= k
    PROVE  /\ secs # <<>>
           /\ due <= Last(secs)
           /\ k = Len(fs) => Last(secs) = Last(dues) + due
<1>1. /\ fs \in Seq(Frame) /\ secs \in Seq(Nat) /\ left \in Nat /\ Covered(secs, left)
      /\ Len(secs) = Cardinality(Sectioned(fs))
  <2>1. /\ fs \in Seq(Frame) /\ secs \in Seq(Nat) /\ left \in Nat /\ Covered(secs, left)
        /\ Len(secs) = Cardinality(Sectioned(fs)) + 0
    BY DEF Holds
  <2> QED
    BY <2>1, SectionedIsFinite
<1>2. /\ dues \in Seq(Nat) /\ Len(dues) = Len(fs) /\ due \in Nat /\ due <= left
      /\ Covered(dues, left - due)
      /\ Ends(secs, left)[Rank(fs, k)] = Ends(dues, left - due)[k]
  BY DEF Aligned
<1>3. Rank(fs, k) = Len(secs) /\ Len(secs) # 0
  <2>1. Rank(fs, k) \in 1 .. Cardinality(Sectioned(fs))
    BY <1>1, RankIs
  <2> QED
    BY <1>1, <2>1, RankOfLast
<1>4. secs # <<>>
  BY <1>3
<1>5. Ends(secs, left)[Len(secs)] = left - Last(secs) /\ Last(secs) \in Nat
  BY <1>1, <1>4, EndAt, FrontIsSeq
<1>6. left - due \in Nat /\ k \in 1 .. Len(dues)
  BY <1>1, <1>2
<1>7. Ends(dues, left - due)[k] \in Nat /\ Ends(dues, left - due)[k] <= left - due
  BY <1>2, <1>6, EndsBelow
<1>8. due <= Last(secs)
  BY <1>1, <1>2, <1>3, <1>5, <1>7
<1>9. ASSUME k = Len(fs)
      PROVE  Last(secs) = Last(dues) + due
  <2>1. dues # <<>>
    BY <1>6
  <2>2. Ends(dues, left - due)[k] = left - due - Last(dues) /\ Last(dues) \in Nat
    BY <1>2, <1>6, <1>9, <2>1, EndAt, FrontIsSeq
  <2>3. left - Last(secs) = left - due - Last(dues)
    BY <1>2, <1>3, <1>5, <2>2
  <2>4. left \in Nat /\ due \in Nat /\ Last(secs) \in Nat /\ Last(dues) \in Nat
    BY <1>1, <1>2, <1>5, <2>2
  <2> QED
    BY ONLY <2>3, <2>4
<1> QED
  BY <1>4, <1>8, <1>9

(* The site of a type outside of TLV structs, its greatest length and      *)
(* those of its fields.                                                    *)
Plain(o, p, t) == [opts |-> o, type |-> t, tlv |-> FALSE, props |-> p]
Size(o, p, t) == MaxLen[Plain(o, p, t)]
Lens(o, p, t) == FieldLens(Plain(o, p, t), MaxLen)

HasProps(t) == Types[t].kind = "struct" /\ Types[t].props.set

(* A value whose length is computed.                                       *)
ConstValue(o, p, t) ==
    t \in TypeId /\ IsConstSize[t] /\ Size(o, p, t) \in Nat /\ ~HasProps(t)

(* The computed length of a sequence leaves out transformation properties  *)
(* that its elements have of their own: such properties may not occur in a *)
(* type of constant size.                                                  *)
NoPropsInConst ==
    \A t \in TypeId : IsConstSize[t] =>
        /\ Types[t].kind = "seq" => ~HasProps(Types[t].elem)
        /\ Types[t].kind = "struct" =>
              \A i \in DOMAIN Types[t].fields : ~HasProps(Types[t].fields[i].type)

(* The elements or fields that an access has begun, and the bytes of the   *)
(* others.                                                                 *)
Begun(f) == f.count + (IF f.pending THEN 1 ELSE 0)
RestOf(o, p, f) ==
    IF Types[f.type].kind = "seq"
    THEN (Types[f.type].max - Begun(f)) * Size(o, p, Types[f.type].elem)
    ELSE SumOf(Lens(o, p, f.type)) - Sums(Lens(o, p, f.type))[f.count]

(* An access to such a value.                                              *)
Steady(o, p, f) ==
    /\ ConstValue(o, p, f.type)
    /\ Types[f.type].kind \in {"seq", "struct"}
    /\ Types[f.type].kind = "seq" => f.section = "computed" /\ Begun(f) <= Types[f.type].max
    /\ Types[f.type].kind = "struct" => f.count <= Len(Types[f.type].fields)

LEMMA PlainIs ==
    ASSUME NEW o \in Options, NEW p \in Properties, NEW t \in TypeId
    PROVE  /\ Plain(o, p, t) \in Site /\ Plain(o, p, t).type = t /\ ~Plain(o, p, t).tlv
           /\ \A e \in TypeId : PartSite(Plain(o, p, t), e, FALSE) = Plain(o, p, e)
<1> DEFINE s == Plain(o, p, t)
<1>1. s \in Site /\ s.type = t /\ ~s.tlv /\ s.opts = o /\ s.props = p
  BY DEF Plain, Site
<1> HIDE DEF s
<1>2. ASSUME NEW e \in TypeId
      PROVE  PartSite(s, e, FALSE) = Plain(o, p, e)
  <2>1. PartSite(s, e, FALSE) = [opts |-> s.opts, type |-> e, tlv |-> FALSE, props |-> s.props]
    BY <1>1, PartSiteIs
  <2> QED
    BY <1>1, <2>1 DEF Plain
<1> QED
  BY <1>1, <1>2 DEF s

(* A sequence and its elements.                                            *)
LEMMA ConstSeq ==
    ASSUME NEW o \in Options, NEW p \in Properties, NEW t, ConstValue(o, p, t),
           Types[t].kind = "seq"
    PROVE  /\ Types[t].elem \in TypeId /\ Types[t].max \in Nat /\ Types[t].min = Types[t].max
           /\ Size(o, p, Types[t].elem) \in Nat
           /\ Size(o, p, t) = Types[t].max * Size(o, p, Types[t].elem)
           /\ NoPropsInConst => ConstValue(o, p, Types[t].elem)
<1> DEFINE s == Plain(o, p, t)
           elem == Types[t].elem
<1>1. t \in TypeId /\ IsConstSize[t] /\ MaxLen[s] \in Nat
  BY DEF ConstValue, Size
<1>2. s \in Site /\ s.type = t /\ ~s.tlv
  BY <1>1, PlainIs
<1>3. Types[t] \in SomeIpSequence
  BY <1>1, TypeShapes
<1>4. elem \in TypeId /\ Types[t].max \in Nat
  BY <1>3 DEF SomeIpSequence
<1>5. PartSite(s, elem, FALSE) = Plain(o, p, elem)
  BY <1>1, <1>4, PlainIs
<1> HIDE DEF s
<1>6. /\ IsConstSize[elem] /\ Types[t].min = Types[t].max
      /\ MaxLen[PartSite(s, elem, FALSE)] \in Nat
      /\ MaxLen[s] = Types[t].max * MaxLen[PartSite(s, elem, FALSE)]
  BY <1>1, <1>2, ConstSizes
<1>7. NoPropsInConst => ~HasProps(elem)
  BY <1>1 DEF NoPropsInConst
<1> QED
  BY <1>4, <1>5, <1>6, <1>7 DEF ConstValue, Size, s

(* A struct and its fields.                                                *)
LEMMA ConstStruct ==
    ASSUME NEW o \in Options, NEW p \in Properties, NEW t, ConstValue(o, p, t),
           Types[t].kind = "struct"
    PROVE  /\ Types[t].tlv = FALSE
           /\ Types[t].fields \in Seq(Field)
           /\ Lens(o, p, t) \in Seq(Int) /\ Len(Lens(o, p, t)) = Len(Types[t].fields)
           /\ SumOf(Lens(o, p, t)) \in Nat
           /\ WantedLengthField[Plain(o, p, t)] \in OptSize
           /\ Size(o, p, t) = SumOf(Lens(o, p, t)) + WantedLengthField[Plain(o, p, t)]
           /\ \A i \in DOMAIN Types[t].fields :
                 /\ Lens(o, p, t)[i] = Size(o, p, Types[t].fields[i].type)
                 /\ NoPropsInConst => ConstValue(o, p, Types[t].fields[i].type)
<1> DEFINE s == Plain(o, p, t)
           ty == Types[t]
           lens == Lens(o, p, t)
<1>1. t \in TypeId /\ IsConstSize[t] /\ MaxLen[s] \in Nat
  BY DEF ConstValue, Size
<1>2. s \in Site /\ s.type = t /\ ~s.tlv
  BY <1>1, PlainIs
<1>3. ty.tlv \in BOOLEAN /\ ty.fields \in Seq(Field)
  BY <1>1, TypeShapes DEF SomeIpStruct
<1>4. \A i \in DOMAIN ty.fields :
         /\ ty.fields[i].type \in TypeId
         /\ PartSite(s, ty.fields[i].type, FALSE) = Plain(o, p, ty.fields[i].type)
  <2> TAKE i \in DOMAIN ty.fields
  <2> DEFINE part == ty.fields[i].type
  <2>1. part \in TypeId
    BY <1>1, PartsAreSmaller
  <2> HIDE DEF part
  <2>2. PartSite(s, part, FALSE) = Plain(o, p, part)
    BY <1>1, <2>1, PlainIs
  <2> QED
    BY <2>1, <2>2 DEF part
<1> HIDE DEF s
<1>5. ~ty.tlv /\ WantedLengthField[s] \in OptSize
  BY <1>1, <1>2, ConstWanted
<1>6. /\ \A i \in DOMAIN ty.fields : IsConstSize[ty.fields[i].type]
      /\ SumOf(FieldLens(s, MaxLen)) \in Nat
      /\ MaxLen[s] = SumOf(FieldLens(s, MaxLen)) + WantedLengthField[s]
  BY <1>1, <1>2, ConstSizes
<1>7. lens = FieldLens(s, MaxLen)
  BY DEF Lens, s
<1> HIDE DEF lens
<1>8. lens \in Seq(Int)
  <2>1. Types[s.type].kind = "struct" /\ MaxLen \in [Site -> Int]
    BY <1>2, MaxLenIs
  <2> QED
    BY <1>2, <1>7, <2>1, FieldLensAre
<1>9. lens = [i \in DOMAIN ty.fields |-> Size(o, p, ty.fields[i].type)]
  <2>1. ty.tlv = FALSE
    BY <1>3, <1>5
  <2>2. lens = [i \in DOMAIN ty.fields |-> MaxLen[PartSite(s, ty.fields[i].type, FALSE)]]
    BY <1>2, <1>7, <2>1 DEF FieldLens
  <2> HIDE DEF ty
  <2> QED
    BY <1>4, <2>2 DEF Size
<1>10. DOMAIN lens = DOMAIN ty.fields /\ \A i \in DOMAIN ty.fields : lens[i] = Size(o, p, ty.fields[i].type)
  BY <1>9
<1>11. Len(lens) = Len(ty.fields)
  BY <1>3, <1>8, <1>10, LenProperties
<1>12. \A i \in DOMAIN ty.fields : lens[i] \in Nat
  <2>1. \A i \in 1 .. Len(lens) : lens[i] \in Nat
    BY <1>6, <1>7, <1>8, SumsGrow
  <2> QED
    BY <1>3, <1>11, <2>1
<1>13. \A i \in DOMAIN ty.fields : NoPropsInConst => ConstValue(o, p, ty.fields[i].type)
  <2> TAKE i \in DOMAIN ty.fields
  <2>1. NoPropsInConst => ~HasProps(ty.fields[i].type)
    BY <1>1 DEF NoPropsInConst
  <2> QED
    BY <1>4, <1>6, <1>10, <1>12, <2>1 DEF ConstValue
<1>14. Size(o, p, t) = MaxLen[s]
  BY DEF Size, s
<1> QED
  BY <1>3, <1>5, <1>6, <1>7, <1>8, <1>10, <1>11, <1>13, <1>14 DEF s, lens

LEMMA OneLess ==
    ASSUME NEW n \in Nat, NEW size \in Nat, n # 0
    PROVE  /\ n * size \in Nat /\ (n - 1) * size \in Nat
           /\ (n - 1) * size = n * size - size
OBVIOUS

(* What is due to an access is a number of bytes.                          *)
LEMMA RestFits ==
    ASSUME NEW o \in Options, NEW p \in Properties, NEW f \in Frame, Steady(o, p, f)
    PROVE  RestOf(o, p, f) \in Nat
<1> DEFINE ty == Types[f.type]
           lens == Lens(o, p, f.type)
<1>1. ConstValue(o, p, f.type) /\ f.count \in Nat /\ Begun(f) \in Nat
  BY DEF Steady, Frame, Begun
<1>2. CASE ty.kind = "seq"
  <2>1. ty.max \in Nat /\ Size(o, p, ty.elem) \in Nat
    BY <1>1, <1>2, ConstSeq
  <2>2. ty.max - Begun(f) \in Nat
    BY <1>1, <1>2, <2>1 DEF Steady
  <2>3. (ty.max - Begun(f)) * Size(o, p, ty.elem) \in Nat
    <3> DEFINE n == ty.max - Begun(f)
               size == Size(o, p, ty.elem)
    <3> HIDE DEF n, size
    <3>1. n \in Nat /\ size \in Nat => n * size \in Nat
      OBVIOUS
    <3> QED
      BY <2>1, <2>2, <3>1 DEF n, size
  <2> QED
    BY <1>2, <2>3 DEF RestOf
<1>3. CASE ty.kind = "struct"
  <2>1. lens \in Seq(Int) /\ Len(lens) = Len(ty.fields) /\ SumOf(lens) \in Nat
    BY <1>1, <1>3, ConstStruct
  <2>2. f.count \in 0 .. Len(lens)
    BY <1>1, <1>3, <2>1 DEF Steady
  <2> HIDE DEF lens
  <2>3. Sums(lens)[f.count] \in Nat /\ Sums(lens)[f.count] <= SumOf(lens)
    BY <2>1, <2>2, SumsGrow
  <2>4. RestOf(o, p, f) = SumOf(lens) - Sums(lens)[f.count]
    BY <1>3 DEF RestOf, lens
  <2> QED
    BY <2>1, <2>3, <2>4
<1> QED
  BY <1>2, <1>3 DEF Steady

(* An access begins: all but the length field is due to it.                *)
LEMMA SeqBegins ==
    ASSUME NEW o \in Options, NEW p \in Properties, NEW f \in Frame,
           ConstValue(o, p, f.type), Types[f.type].kind = "seq", f.section = "computed",
           f.count = 0, f.pending = FALSE
    PROVE  Steady(o, p, f) /\ RestOf(o, p, f) = Size(o, p, f.type)
<1>1. /\ Types[f.type].max \in Nat
      /\ Size(o, p, f.type) = Types[f.type].max * Size(o, p, Types[f.type].elem)
  BY ConstSeq
<1>2. Begun(f) = 0
  BY DEF Begun
<1>3. Types[f.type].max - 0 = Types[f.type].max /\ 0 <= Types[f.type].max
  BY <1>1
<1> QED
  BY <1>1, <1>2, <1>3 DEF Steady, RestOf

LEMMA StructBegins ==
    ASSUME NEW o \in Options, NEW p \in Properties, NEW f \in Frame,
           ConstValue(o, p, f.type), Types[f.type].kind = "struct", f.count = 0
    PROVE  /\ Steady(o, p, f)
           /\ WantedLengthField[Plain(o, p, f.type)] \in OptSize
           /\ Size(o, p, f.type) = RestOf(o, p, f) + WantedLengthField[Plain(o, p, f.type)]
<1> DEFINE t == f.type
           lens == Lens(o, p, t)
           wanted == WantedLengthField[Plain(o, p, t)]
<1>1. /\ lens \in Seq(Int) /\ SumOf(lens) \in Nat /\ wanted \in OptSize
      /\ Size(o, p, t) = SumOf(lens) + wanted /\ Types[t].fields \in Seq(Field)
  <2>1. ConstValue(o, p, t) /\ Types[t].kind = "struct"
    OBVIOUS
  <2> HIDE DEF t
  <2> QED
    BY <2>1, ConstStruct
<1> HIDE DEF lens, wanted
<1>2. Sums(lens)[0] = 0
  BY <1>1, SumsAre
<1>3. RestOf(o, p, f) = SumOf(lens)
  BY <1>1, <1>2 DEF RestOf, lens
<1>4. Len(Types[f.type].fields) \in Nat
  BY <1>1
<1>5. f.count <= Len(Types[f.type].fields)
  BY <1>4
<1> QED
  BY <1>1, <1>3, <1>5 DEF Steady, wanted

(* An access to a sequence goes on to the next element, and behind it.     *)
LEMMA ElementBegins ==
    ASSUME NEW o \in Options, NEW p \in Properties, NEW f \in Frame, Steady(o, p, f),
           Types[f.type].kind = "seq", ~f.pending, RestOf(o, p, f) > 0,
           NEW g \in Frame, g = [f EXCEPT !.pending = TRUE]
    PROVE  /\ Steady(o, p, g)
           /\ Size(o, p, Types[f.type].elem) \in Nat
           /\ Size(o, p, Types[f.type].elem) <= RestOf(o, p, f)
           /\ RestOf(o, p, g) = RestOf(o, p, f) - Size(o, p, Types[f.type].elem)
<1> DEFINE size == Size(o, p, Types[f.type].elem)
           n == Types[f.type].max - f.count
<1>1. Types[f.type].max \in Nat /\ size \in Nat
  BY ConstSeq DEF Steady
<1>2. /\ f.count \in Nat /\ Begun(f) = f.count
      /\ g.type = f.type /\ g.section = f.section /\ Begun(g) = f.count + 1
  BY DEF Frame, Begun
<1>3. n \in Nat
  BY <1>1, <1>2 DEF Steady
<1>4. RestOf(o, p, f) = n * size
  BY <1>2 DEF RestOf
<1>5. Types[f.type].max - Begun(g) = n - 1
  BY <1>1, <1>2
<1>6. RestOf(o, p, g) = (n - 1) * size
  BY <1>2, <1>5 DEF RestOf
<1> HIDE DEF n, size
<1>7. n # 0
  <2> SUFFICES ASSUME n = 0 PROVE FALSE
    OBVIOUS
  <2>1. n * size = 0
    BY <1>1
  <2> QED
    BY <1>4, <2>1
<1>8. n * size \in Nat /\ (n - 1) * size \in Nat /\ (n - 1) * size = n * size - size
  BY <1>1, <1>3, <1>7, OneLess
<1>9. Steady(o, p, g)
  <2>1. Begun(g) <= Types[f.type].max
    BY <1>1, <1>2, <1>3, <1>7 DEF n
  <2> QED
    BY <1>2, <2>1 DEF Steady
<1>10. size <= n * size
  <2> DEFINE a == n * size
             b == (n - 1) * size
  <2> HIDE DEF a, b
  <2>1. a \in Nat /\ b \in Nat /\ b = a - size
    BY <1>8 DEF a, b
  <2>2. size <= a
    BY ONLY <1>1, <2>1
  <2> QED
    BY <2>2 DEF a
<1> QED
  BY <1>1, <1>4, <1>6, <1>8, <1>9, <1>10 DEF size

LEMMA ElementEnds ==
    ASSUME NEW o \in Options, NEW p \in Properties, NEW f \in Frame, Steady(o, p, f),
           Types[f.type].kind = "seq", f.pending,
           NEW g \in Frame, g = [f EXCEPT !.pending = FALSE, !.count = @ + 1]
    PROVE  /\ Steady(o, p, g)
           /\ RestOf(o, p, g) = RestOf(o, p, f)
           /\ f.count + 1 <= Types[f.type].max
<1>1. /\ f.count \in Nat /\ Begun(f) = f.count + 1
      /\ g.type = f.type /\ g.section = f.section /\ Begun(g) = f.count + 1
  BY DEF Frame, Begun
<1>2. f.count + 1 <= Types[f.type].max
  BY <1>1 DEF Steady
<1> QED
  BY <1>1, <1>2 DEF Steady, RestOf

(* An access to a struct goes on to the next field.                        *)
LEMMA FieldBegins ==
    ASSUME NEW o \in Options, NEW p \in Properties, NEW f \in Frame, Steady(o, p, f),
           Types[f.type].kind = "struct", f.count < Len(Types[f.type].fields),
           NEW g \in Frame, g = [f EXCEPT !.count = @ + 1],
           NEW t, t = Types[f.type].fields[f.count + 1].type
    PROVE  /\ Steady(o, p, g)
           /\ NoPropsInConst => ConstValue(o, p, t)
           /\ Size(o, p, t) \in Nat
           /\ Size(o, p, t) <= RestOf(o, p, f)
           /\ RestOf(o, p, g) = RestOf(o, p, f) - Size(o, p, t)
<1> DEFINE lens == Lens(o, p, f.type)
           n == f.count
<1>1. n \in Nat /\ g.type = f.type /\ g.count = n + 1 /\ g.section = f.section
  BY DEF Frame
<1>2. /\ lens \in Seq(Int) /\ Len(lens) = Len(Types[f.type].fields) /\ SumOf(lens) \in Nat
      /\ Types[f.type].fields \in Seq(Field)
      /\ \A i \in DOMAIN Types[f.type].fields :
            /\ lens[i] = Size(o, p, Types[f.type].fields[i].type)
            /\ NoPropsInConst => ConstValue(o, p, Types[f.type].fields[i].type)
  BY ConstStruct DEF Steady
<1> HIDE DEF lens
<1>3. /\ n + 1 \in DOMAIN Types[f.type].fields
      /\ n + 1 \in 1 .. Len(lens) /\ n \in 0 .. Len(lens) /\ n + 1 \in 0 .. Len(lens)
  <2> DEFINE fields == Types[f.type].fields
  <2>1. fields \in Seq(Field) /\ Len(lens) = Len(fields) /\ n < Len(fields)
    BY <1>2
  <2> HIDE DEF fields, n
  <2>2. Len(fields) \in Nat /\ DOMAIN fields = 1 .. Len(fields)
    BY <2>1
  <2>3. n \in Nat
    BY <1>1
  <2>4. n + 1 \in 1 .. Len(fields) /\ n \in 0 .. Len(fields) /\ n + 1 \in 0 .. Len(fields)
    BY ONLY <2>1, <2>2, <2>3
  <2> QED
    BY <2>1, <2>2, <2>4 DEF fields
<1>4. /\ lens[n + 1] \in Nat /\ Sums(lens)[n + 1] = Sums(lens)[n + 1 - 1] + lens[n + 1]
      /\ Sums(lens)[n + 1] \in Nat /\ Sums(lens)[n + 1] <= SumOf(lens) /\ Sums(lens)[n] \in Nat
  <2>1. lens \in Seq(Int) /\ SumOf(lens) \in Nat
    BY <1>2
  <2> HIDE DEF n
  <2> QED
    BY <1>3, <2>1, SumsGrow
<1>5. n + 1 - 1 = n
  BY <1>1
<1>6. lens[n + 1] = Size(o, p, t) /\ (NoPropsInConst => ConstValue(o, p, t))
  BY <1>2, <1>3
<1>7. RestOf(o, p, f) = SumOf(lens) - Sums(lens)[n]
  BY DEF RestOf, lens
<1>8. RestOf(o, p, g) = SumOf(lens) - Sums(lens)[n + 1]
  BY <1>1 DEF RestOf, lens
<1>9. Steady(o, p, g)
  BY <1>1, <1>2, <1>3 DEF Steady
<1>10. Size(o, p, t) <= RestOf(o, p, f) /\ RestOf(o, p, g) = RestOf(o, p, f) - Size(o, p, t)
  <2> DEFINE a == Sums(lens)[n]
             b == Sums(lens)[n + 1]
             c == SumOf(lens)
             l == lens[n + 1]
  <2> HIDE DEF a, b, c, l
  <2>1. a \in Nat /\ b \in Nat /\ c \in Nat /\ l \in Nat /\ b = a + l /\ b <= c
    BY <1>2, <1>4, <1>5 DEF a, b, c, l
  <2>2. l <= c - a /\ c - b = c - a - l
    BY ONLY <2>1
  <2> QED
    BY <1>6, <1>7, <1>8, <2>2 DEF a, b, c, l
<1> QED
  BY <1>4, <1>6, <1>9, <1>10

(* Nothing is due to an access that ends.                                  *)
LEMMA AccessEnds ==
    ASSUME NEW o \in Options, NEW p \in Properties, NEW f \in Frame, Steady(o, p, f),
           \/ /\ Types[f.type].kind = "seq" /\ ~f.pending
              /\ f.count >= Types[f.type].min
           \/ Types[f.type].kind = "struct" /\ f.count = Len(Types[f.type].fields)
    PROVE  RestOf(o, p, f) = 0
<1>1. CASE Types[f.type].kind = "seq"
  <2>1. /\ Types[f.type].max \in Nat /\ Types[f.type].min = Types[f.type].max
        /\ Size(o, p, Types[f.type].elem) \in Nat
    BY <1>1, ConstSeq DEF Steady
  <2>2. f.count \in Nat /\ Begun(f) = f.count
    BY <1>1 DEF Frame, Begun
  <2>3. Types[f.type].max - Begun(f) = 0
    BY <1>1, <2>1, <2>2 DEF Steady
  <2>4. 0 * Size(o, p, Types[f.type].elem) = 0
    BY <2>1
  <2> QED
    BY <1>1, <2>3, <2>4 DEF RestOf
<1>2. CASE Types[f.type].kind = "struct"
  <2> DEFINE lens == Lens(o, p, f.type)
  <2>1. Len(lens) = Len(Types[f.type].fields) /\ SumOf(lens) \in Nat
    BY <1>2, ConstStruct DEF Steady
  <2> HIDE DEF lens
  <2>2. RestOf(o, p, f) = SumOf(lens) - Sums(lens)[Len(lens)]
    BY <1>2, <2>1 DEF RestOf, lens
  <2> QED
    BY <2>1, <2>2 DEF SumOf
<1> QED
  BY <1>1, <1>2

----------------------------------------------------------------------------
(***************************************************************************)
(* The invariant.  From the first section of a computed length on, every   *)
(* access has a computed length itself, and together they are aligned.     *)
(***************************************************************************)
Within(fs, i) == \E k \in 1 .. i : fs[k].section = "computed"
Dues(o, p, fs) == [i \in DOMAIN fs |-> IF Within(fs, i) THEN RestOf(o, p, fs[i]) ELSE 0]

Exactly(o, p, fs, secs, left, due) ==
    /\ \A i \in DOMAIN fs : Within(fs, i) => Steady(o, p, fs[i])
    /\ Aligned(fs, Dues(o, p, fs), secs, left, due)

Computing == Within(frames, Len(frames))

(* The bytes of the value that is being read.                              *)
Pending ==
    IF ~Computing THEN 0
    ELSE IF pc = "value" THEN Size(opts, props, nextType)
    ELSE IF InLeaf THEN Last(sections) ELSE 0

Exact ==
    Running /\ Computing =>
        /\ Exactly(opts, props, frames, sections, reader.remaining, Pending)
        /\ pc = "value" => ConstValue(opts, props, nextType)
        /\ pc \notin {"skipFixed", "skipField"}
        /\ pc = "discard" => after = "end"

LEMMA DuesAre ==
    ASSUME NEW o \in Options, NEW p \in Properties, NEW fs \in Seq(Frame),
           \A i \in DOMAIN fs : Within(fs, i) => Steady(o, p, fs[i])
    PROVE  Dues(o, p, fs) \in Seq(Nat) /\ Len(Dues(o, p, fs)) = Len(fs)
<1>1. \A i \in DOMAIN fs : (IF Within(fs, i) THEN RestOf(o, p, fs[i]) ELSE 0) \in Nat
  <2> TAKE i \in DOMAIN fs
  <2>1. fs[i] \in Frame
    OBVIOUS
  <2>2. Within(fs, i) => RestOf(o, p, fs[i]) \in Nat
    BY <2>1, RestFits
  <2> QED
    BY <2>2
<1>2. DOMAIN fs = 1 .. Len(fs) /\ Len(fs) \in Nat
  OBVIOUS
<1>3. Dues(o, p, fs) \in [1 .. Len(fs) -> Nat]
  BY <1>1, <1>2 DEF Dues
<1> QED
  BY <1>2, <1>3

(* Where nothing is due, the reader's bytes are covered.                   *)
LEMMA NothingCovers ==
    ASSUME NEW dues \in Seq(Nat), \A i \in DOMAIN dues : dues[i] = 0, NEW left \in Nat
    PROVE  Covered(dues, left)
<1> DEFINE floors == [i \in 1 .. Len(dues) + 1 |-> left]
<1>1. Len(dues) \in Nat /\ DOMAIN dues = 1 .. Len(dues)
  OBVIOUS
<1>2. Floors(dues, left, floors)
  BY <1>1 DEF Floors
<1> QED
  BY <1>2 DEF Covered

(* Outside of computed sections nothing is due.                            *)
LEMMA ExactOutside ==
    ASSUME NEW o \in Options, NEW p \in Properties, NEW fs \in Seq(Frame),
           ~Within(fs, Len(fs)), NEW secs, NEW left \in Nat, NEW due \in Nat, due <= left
    PROVE  Exactly(o, p, fs, secs, left, due)
<1>1. DOMAIN fs = 1 .. Len(fs) /\ Len(fs) \in Nat
  OBVIOUS
<1>2. /\ \A i \in DOMAIN fs : ~Within(fs, i)
      /\ \A k \in DOMAIN fs : fs[k].section # "computed"
  BY <1>1 DEF Within
<1>3. Dues(o, p, fs) \in Seq(Nat) /\ Len(Dues(o, p, fs)) = Len(fs)
  BY <1>2, DuesAre
<1>4. \A i \in DOMAIN Dues(o, p, fs) : Dues(o, p, fs)[i] = 0
  BY <1>2 DEF Dues
<1>5. left - due \in Nat
  OBVIOUS
<1>6. Covered(Dues(o, p, fs), left - due)
  BY <1>3, <1>4, <1>5, NothingCovers
<1> QED
  BY <1>2, <1>3, <1>6 DEF Exactly, Aligned

LEMMA ExactOpens ==
    ASSUME NEW o \in Options, NEW p \in Properties, NEW fs, NEW secs, NEW left,
           NEW f \in Frame, NEW next, NEW width \in Nat, NEW len \in Nat,
           Holds(fs, secs, left, 0), Exactly(o, p, fs, secs, left, RestOf(o, p, f) + width),
           Steady(o, p, f), Within(fs, Len(fs)) \/ f.section = "computed",
           \/ f.section = "none" /\ width = 0 /\ next = secs
           \/ /\ f.section # "none"
              /\ f.section = "computed" => width = 0 /\ len = RestOf(o, p, f)
              /\ width + len <= Left(secs, left)
              /\ next = Append(Less(secs, width + len), len)
    PROVE  Exactly(o, p, Append(fs, f), next, left - width, 0)
<1> DEFINE rest == RestOf(o, p, f)
           gs == Append(fs, f)
<1>1. fs \in Seq(Frame) /\ Len(fs) \in Nat /\ DOMAIN fs = 1 .. Len(fs)
  BY DEF Holds
<1>2. /\ gs \in Seq(Frame) /\ Len(gs) = Len(fs) + 1 /\ gs[Len(fs) + 1] = f
      /\ \A k \in 1 .. Len(fs) : gs[k] = fs[k]
      /\ DOMAIN gs = 1 .. Len(fs) + 1
  BY <1>1
<1>3. rest \in Nat
  BY RestFits
<1> HIDE DEF gs
<1>4. \A i \in 1 .. Len(fs) : Within(gs, i) <=> Within(fs, i)
  BY <1>1, <1>2 DEF Within
<1>5. Within(gs, Len(fs) + 1)
  <2>1. CASE f.section = "computed"
    BY <1>1, <1>2, <2>1 DEF Within
  <2>2. CASE Within(fs, Len(fs))
    BY <1>1, <1>2, <2>2 DEF Within
  <2> QED
    BY <2>1, <2>2
<1>6. \A i \in DOMAIN gs : Within(gs, i) => Steady(o, p, gs[i])
  <2> TAKE i \in DOMAIN gs
  <2>1. CASE i \in 1 .. Len(fs)
    BY <1>1, <1>2, <1>4, <2>1 DEF Exactly
  <2>2. CASE i = Len(fs) + 1
    BY <1>2, <2>2
  <2> QED
    BY <1>1, <1>2, <2>1, <2>2
<1>7. Dues(o, p, gs) = Append(Dues(o, p, fs), rest)
  <2>1. Dues(o, p, fs) \in Seq(Nat) /\ Len(Dues(o, p, fs)) = Len(fs)
    BY <1>1, DuesAre DEF Exactly
  <2>2. Dues(o, p, gs) \in Seq(Nat) /\ Len(Dues(o, p, gs)) = Len(gs)
    BY <1>2, <1>6, DuesAre
  <2>3. ASSUME NEW i \in 1 .. Len(fs)
        PROVE  Dues(o, p, gs)[i] = Dues(o, p, fs)[i]
    <3>1. i \in DOMAIN fs /\ i \in DOMAIN gs /\ gs[i] = fs[i]
      BY <1>1, <1>2, <2>3
    <3> QED
      BY <1>4, <3>1 DEF Dues
  <2>4. Dues(o, p, gs)[Len(fs) + 1] = rest
    <3>1. Len(fs) + 1 \in DOMAIN gs
      BY <1>1, <1>2
    <3> QED
      BY <1>2, <1>5, <3>1 DEF Dues
  <2> HIDE DEF rest
  <2> DEFINE a == Dues(o, p, gs)
             b == Dues(o, p, fs)
  <2> HIDE DEF a, b
  <2>5. a \in Seq(Nat) /\ b \in Seq(Nat) /\ Len(b) = Len(fs) /\ Len(a) = Len(b) + 1
    BY <1>2, <2>1, <2>2 DEF a, b
  <2>6. a[Len(b) + 1] = rest /\ \A i \in 1 .. Len(b) : a[i] = b[i]
    BY <2>3, <2>4, <2>5 DEF a, b
  <2>7. a = Append(b, rest)
    BY <1>3, <2>5, <2>6
  <2> QED
    BY <2>7 DEF a, b
<1>8. Aligned(gs, Append(Dues(o, p, fs), rest), next, left - width, 0)
  <2>1. Aligned(fs, Dues(o, p, fs), secs, left, rest + width)
    BY DEF Exactly
  <2>2. \/ f.section = "none" /\ width = 0 /\ next = secs
        \/ /\ f.section # "none"
           /\ f.section = "computed" => width = 0 /\ len = rest
           /\ width + len <= Left(secs, left)
           /\ next = Append(Less(secs, width + len), len)
    OBVIOUS
  <2> HIDE DEF rest
  <2> QED
    BY <1>3, <2>1, <2>2, AlignedOpens DEF gs
<1> QED
  BY <1>6, <1>7, <1>8 DEF Exactly, gs

LEMMA ExactCloses ==
    ASSUME NEW o \in Options, NEW p \in Properties, NEW fs, NEW secs, NEW left, NEW next,
           fs # <<>>, Holds(fs, secs, left, 0), Exactly(o, p, fs, secs, left, 0),
           Within(fs, Len(fs)), RestOf(o, p, fs[Len(fs)]) = 0,
           IF fs[Len(fs)].section = "none" THEN next = secs
           ELSE secs # <<>> /\ Last(secs) = 0 /\ next = Front(secs)
    PROVE  Exactly(o, p, Front(fs), next, left, 0)
<1> DEFINE gs == Front(fs)
           dues == Dues(o, p, fs)
<1>1. fs \in Seq(Frame) /\ Len(fs) \in Nat /\ DOMAIN fs = 1 .. Len(fs) /\ Len(fs) # 0
  BY DEF Holds
<1>2. /\ gs \in Seq(Frame) /\ Len(gs) = Len(fs) - 1 /\ DOMAIN gs = 1 .. Len(fs) - 1
      /\ \A k \in 1 .. Len(fs) - 1 : gs[k] = fs[k]
  <2>1. /\ gs \in Seq(Frame) /\ Len(gs) = Len(fs) - 1
        /\ \A k \in 1 .. Len(fs) - 1 : gs[k] = fs[k]
    BY <1>1, FrontIsSeq
  <2> HIDE DEF gs
  <2> QED
    BY <1>1, <2>1
<1> HIDE DEF gs
<1>3. \A i \in 1 .. Len(fs) - 1 : Within(gs, i) <=> Within(fs, i)
  BY <1>1, <1>2 DEF Within
<1>4. \A i \in DOMAIN gs : i \in DOMAIN fs /\ gs[i] = fs[i]
  BY <1>1, <1>2
<1>5. \A i \in DOMAIN gs : Within(gs, i) => Steady(o, p, gs[i])
  BY <1>2, <1>3, <1>4 DEF Exactly
<1>6. dues \in Seq(Nat) /\ Len(dues) = Len(fs)
  BY <1>1, DuesAre DEF Exactly
<1>7. dues # <<>> /\ Last(dues) = 0
  <2>1. dues[Len(fs)] = 0
    BY <1>1 DEF Dues
  <2> QED
    BY <1>1, <1>6, <2>1 DEF Last
<1>8. Dues(o, p, gs) = Front(dues)
  <2>1. Dues(o, p, gs) \in Seq(Nat) /\ Len(Dues(o, p, gs)) = Len(gs)
    BY <1>2, <1>5, DuesAre
  <2>2. ASSUME NEW i \in 1 .. Len(fs) - 1
        PROVE  Dues(o, p, gs)[i] = dues[i]
    <3>1. i \in DOMAIN fs /\ i \in DOMAIN gs /\ gs[i] = fs[i]
      BY <1>1, <1>2, <2>2
    <3> QED
      BY <1>3, <3>1 DEF Dues
  <2> DEFINE a == Dues(o, p, gs)
  <2> HIDE DEF a, dues
  <2>3. /\ Front(dues) \in Seq(Nat) /\ Len(Front(dues)) = Len(dues) - 1
        /\ \A k \in 1 .. Len(dues) - 1 : Front(dues)[k] = dues[k]
    BY <1>6, <1>7, FrontIsSeq
  <2>4. a \in Seq(Nat) /\ Len(a) = Len(dues) - 1 /\ \A k \in 1 .. Len(dues) - 1 : a[k] = dues[k]
    BY <1>2, <1>6, <2>1, <2>2 DEF a
  <2> DEFINE b == Front(dues)
  <2>5. b \in Seq(Nat) /\ Len(b) = Len(a) /\ \A k \in 1 .. Len(a) : b[k] = a[k]
    BY <2>3, <2>4
  <2> HIDE DEF b
  <2>6. a = b
    BY <2>4, <2>5
  <2> QED
    BY <2>6 DEF a, b
<1>9. Aligned(Front(fs), Front(dues), next, left, 0)
  <2>1. Aligned(fs, dues, secs, left, 0)
    BY DEF Exactly
  <2> HIDE DEF dues
  <2> QED
    BY <1>7, <2>1, AlignedCloses
<1> QED
  BY <1>5, <1>8, <1>9 DEF Exactly, gs

LEMMA ExactSpends ==
    ASSUME NEW o \in Options, NEW p \in Properties, NEW fs, NEW secs, NEW left,
           NEW f \in Frame, NEW n \in Nat,
           fs # <<>>, Holds(fs, secs, left, 0), Exactly(o, p, fs, secs, left, 0),
           Within(fs, Len(fs)), f.section = fs[Len(fs)].section, Steady(o, p, f),
           n <= RestOf(o, p, fs[Len(fs)]), RestOf(o, p, f) = RestOf(o, p, fs[Len(fs)]) - n
    PROVE  Exactly(o, p, WithTop(fs, f), secs, left, n)
<1> DEFINE gs == WithTop(fs, f)
           dues == Dues(o, p, fs)
<1>1. /\ fs \in Seq(Frame) /\ Len(fs) \in Nat /\ DOMAIN fs = 1 .. Len(fs) /\ Len(fs) # 0
      /\ Len(fs) \in 1 .. Len(fs)
  BY DEF Holds
<1>2. /\ gs \in Seq(Frame) /\ Len(gs) = Len(fs) /\ DOMAIN gs = 1 .. Len(fs)
      /\ \A i \in 1 .. Len(fs) : gs[i] = IF i = Len(fs) THEN f ELSE fs[i]
  <2>1. /\ gs \in Seq(Frame) /\ Len(gs) = Len(fs)
        /\ \A i \in 1 .. Len(fs) : gs[i] = IF i = Len(fs) THEN f ELSE fs[i]
    BY <1>1, TopExcept
  <2> HIDE DEF gs
  <2>2. DOMAIN gs = 1 .. Len(gs)
    BY <2>1
  <2> QED
    BY <2>1, <2>2
<1> HIDE DEF gs
<1>3. \A i \in 1 .. Len(fs) : gs[i].section = fs[i].section
  BY <1>2
<1>4. \A i \in 1 .. Len(fs) : Within(gs, i) <=> Within(fs, i)
  BY <1>1, <1>3 DEF Within
<1>5. \A i \in DOMAIN gs : Within(gs, i) => Steady(o, p, gs[i])
  <2> TAKE i \in DOMAIN gs
  <2>1. CASE i = Len(fs)
    BY <1>2, <2>1
  <2>2. CASE i # Len(fs)
    BY <1>1, <1>2, <1>4, <2>2 DEF Exactly
  <2> QED
    BY <2>1, <2>2
<1>6. dues \in Seq(Nat) /\ Len(dues) = Len(fs)
  BY <1>1, DuesAre DEF Exactly
<1>7. dues # <<>> /\ Last(dues) = RestOf(o, p, fs[Len(fs)]) /\ Last(dues) = dues[Len(dues)]
  <2>1. dues[Len(fs)] = RestOf(o, p, fs[Len(fs)])
    BY <1>1 DEF Dues
  <2> HIDE DEF dues
  <2> QED
    BY <1>1, <1>6, <2>1 DEF Last
<1>8. Dues(o, p, gs) = Less(dues, n)
  <2>1. Dues(o, p, gs) \in Seq(Nat) /\ Len(Dues(o, p, gs)) = Len(gs)
    BY <1>2, <1>5, DuesAre
  <2>2. ASSUME NEW i \in 1 .. Len(fs), i # Len(fs)
        PROVE  Dues(o, p, gs)[i] = dues[i]
    <3>1. i \in DOMAIN fs /\ i \in DOMAIN gs /\ gs[i] = fs[i]
      BY <1>1, <1>2, <2>2
    <3> QED
      BY <1>4, <3>1 DEF Dues
  <2>3. Dues(o, p, gs)[Len(fs)] = dues[Len(fs)] - n
    <3>1. Len(fs) \in DOMAIN gs /\ gs[Len(fs)] = f /\ Within(gs, Len(fs))
      BY <1>1, <1>2, <1>4
    <3>2. Dues(o, p, gs)[Len(fs)] = RestOf(o, p, f)
      BY <3>1 DEF Dues
    <3> HIDE DEF dues
    <3> QED
      BY <1>6, <1>7, <3>2
  <2> DEFINE a == Dues(o, p, gs)
  <2> HIDE DEF a, dues
  <2>4. Less(dues, n) = [dues EXCEPT ![Len(dues)] = dues[Len(dues)] - n]
    BY <1>7 DEF Less
  <2>5. a \in Seq(Nat) /\ Len(a) = Len(fs) /\ Len(dues) = Len(fs)
    BY <1>2, <1>6, <2>1 DEF a
  <2>6. DOMAIN a = 1 .. Len(fs) /\ DOMAIN dues = 1 .. Len(fs)
    BY <1>6, <2>5
  <2>7. \A i \in DOMAIN dues : a[i] = IF i = Len(dues) THEN dues[i] - n ELSE dues[i]
    <3> TAKE i \in DOMAIN dues
    <3>1. i \in 1 .. Len(fs)
      BY <2>6
    <3>2. CASE i = Len(fs)
      BY <2>3, <2>5, <3>2 DEF a
    <3>3. CASE i # Len(fs)
      BY <2>2, <2>5, <3>1, <3>3 DEF a
    <3> QED
      BY <3>2, <3>3
  <2>8. a = [i \in DOMAIN dues |-> IF i = Len(dues) THEN dues[i] - n ELSE dues[i]]
    BY <2>5, <2>6, <2>7
  <2> QED
    BY <2>4, <2>8 DEF a
<1>9. Aligned(WithTop(fs, f), Less(dues, n), secs, left, n)
  <2>1. Aligned(fs, dues, secs, left, 0) /\ n <= Last(dues)
    BY <1>7 DEF Exactly
  <2> HIDE DEF dues
  <2> QED
    BY <2>1, AlignedSpends
<1> QED
  BY <1>5, <1>8, <1>9 DEF Exactly, gs

----------------------------------------------------------------------------
(***************************************************************************)
(* Each step keeps the invariant, and no computed section is too short.    *)
(***************************************************************************)
Kept == Exact' /\ ComputedSectionsSuffice'

(* The innermost section.                                                  *)
LEMMA LastSectionIs ==
    ASSUME NEW fs \in Seq(Frame), Sectioned(fs) # {}
    PROVE  /\ Max(Sectioned(fs)) \in Sectioned(fs)
           /\ \A i \in Sectioned(fs) : i <= Max(Sectioned(fs))
<1> DEFINE own == Sectioned(fs)
           Has == {m \in Nat : (\E i \in own : i <= m) =>
                                 \E k \in own : \A i \in own : i <= m => i <= k}
<1>1. own \subseteq 1 .. Len(fs) /\ Len(fs) \in Nat
  BY DEF Sectioned
<1> HIDE DEF own
<1>2. 0 \in Has
  BY <1>1
<1>3. ASSUME NEW m \in Nat, m \in Has
      PROVE  m + 1 \in Has
  <2>1. CASE m + 1 \in own
    BY <1>1, <2>1
  <2>2. CASE m + 1 \notin own
    <3>1. \A i \in own : i <= m + 1 <=> i <= m
      BY <1>1, <2>2
    <3> QED
      BY <1>3, <3>1
  <2> QED
    BY <2>1, <2>2
<1>4. Nat \subseteq Has
  <2> HIDE DEF Has
  <2> QED BY <1>2, <1>3, NatInductive
<1>5. Len(fs) \in Has
  BY <1>1, <1>4
<1>6. \A i \in own : i <= Len(fs)
  BY <1>1
<1>7. \E i \in own : i <= Len(fs)
  BY <1>6 DEF own
<1>8. \E k \in own : \A i \in own : k >= i
  <2>1. PICK k \in own : \A i \in own : i <= Len(fs) => i <= k
    BY <1>5, <1>7
  <2> QED
    BY <1>1, <1>6, <2>1
<1>9. Max(own) \in own /\ \A i \in own : Max(own) >= i
  BY <1>8 DEF Max
<1> QED
  BY <1>1, <1>9 DEF own

(* A failure for another reason.                                           *)
LEMMA OtherFailure ==
    ASSUME pc' \in Errors \cup Panics \cup {"ok"}, pc' # "TooShort"
    PROVE  Kept
BY DEF Kept, Exact, ComputedSectionsSuffice, Running, Errors, Panics

(* A step to where no length is computed.                                  *)
LEMMA OutsideKeeps ==
    ASSUME IInv', ~Computing'
    PROVE  Kept
<1>1. frames' \in Seq(Frame) /\ ~Within(frames', Len(frames'))
  BY DEF IInv, TypeOK, Computing
<1>2. ASSUME Sectioned(frames') # {}
      PROVE  frames'[Max(Sectioned(frames'))].section = "announced"
  <2> DEFINE k == Max(Sectioned(frames'))
  <2>1. k \in Sectioned(frames')
    BY <1>1, <1>2, LastSectionIs
  <2> HIDE DEF k
  <2>2. k \in 1 .. Len(frames') /\ frames'[k] \in Frame /\ frames'[k].section # "none"
    BY <1>1, <2>1 DEF Sectioned
  <2>3. frames'[k].section # "computed"
    BY <1>1, <2>2 DEF Within
  <2> QED
    BY <2>2, <2>3 DEF Frame, k
<1> QED
  BY <1>2 DEF Kept, Exact, ComputedSectionsSuffice

(* What the invariant says where no leaf is open.                          *)
LEMMA HeldAre ==
    ASSUME IInv, Running, pc # "discard"
    PROVE  /\ Holds(frames, sections, reader.remaining, Leaf)
           /\ Ready /\ Remaining = Left(sections, reader.remaining)
           /\ opts \in Options /\ props \in Properties /\ frames \in Seq(Frame)
           /\ Leaf \in {0, 1}
<1>1. Ready
  BY ReadyToRead
<1>2. Remaining = Left(sections, reader.remaining) /\ reader.remaining \in Nat
  BY <1>1, RemainingFits
<1>3. Len(sections) = Cardinality(Sectioned(frames)) + Leaf
  BY DEF IInv, SectionsMatchFrames, Current, Leaf
<1>4. Leaf \in {0, 1}
  BY DEF Leaf
<1> QED
  BY <1>1, <1>2, <1>3, <1>4 DEF IInv, TypeOK, Ready, Usable, Holds

(* What is missing is missing to a section of an announced length.         *)
LEMMA ShortIsAnnounced ==
    ASSUME IInv, Exact, Running, pc # "discard", ~InLeaf, frames' = frames,
           Computing => Remaining < Pending
    PROVE  ComputedSectionsSuffice'
<1>1. /\ Holds(frames, sections, reader.remaining, 0)
      /\ Remaining = Left(sections, reader.remaining) /\ frames \in Seq(Frame)
  BY HeldAre DEF Leaf
<1>2. SUFFICES ASSUME Sectioned(frames) # {}
               PROVE  frames[Max(Sectioned(frames))].section = "announced"
  BY DEF ComputedSectionsSuffice
<1> DEFINE k == Max(Sectioned(frames))
<1>3. k \in Sectioned(frames) /\ \A i \in Sectioned(frames) : i <= k
  BY <1>1, <1>2, LastSectionIs
<1> HIDE DEF k
<1>4. k \in 1 .. Len(frames) /\ k \in DOMAIN frames /\ frames[k] \in Frame
      /\ frames[k].section # "none" /\ Len(frames) \in Nat
  BY <1>1, <1>3 DEF Sectioned
<1>5. ASSUME frames[k].section = "computed"
      PROVE  FALSE
  <2>1. Computing
    BY <1>4, <1>5 DEF Computing, Within
  <2>2. Aligned(frames, Dues(opts, props, frames), sections, reader.remaining, Pending)
    BY <2>1 DEF Exact, Exactly
  <2>3. sections # <<>> /\ Pending <= Last(sections)
    BY <1>1, <1>3, <1>4, <1>5, <2>2, AlignedSuffices
  <2>4. Pending \in Nat /\ Last(sections) \in Nat
    BY <1>1, <2>2, <2>3, FrontIsSeq DEF Aligned, Holds
  <2>5. Remaining = Last(sections)
    BY <2>3 DEF Remaining
  <2> QED
    BY <2>1, <2>3, <2>4, <2>5
<1> QED
  BY <1>4, <1>5 DEF Frame, k

LEMMA UnframedOutside ==
    ASSUME IInv', ~Computing, frames' = frames
    PROVE  Kept
<1>1. ~Computing'
  BY DEF Computing, Within
<1> QED
  BY <1>1, OutsideKeeps

LEMMA ExactAgain ==
    ASSUME pc' # "TooShort", opts' = opts, props' = props,
           Exactly(opts, props, frames', sections', reader'.remaining, Pending'),
           pc' = "value" => ConstValue(opts, props, nextType'),
           pc' \notin {"skipFixed", "skipField"},
           pc' = "discard" => after' = "end"
    PROVE  Kept
BY DEF Kept, Exact, ComputedSectionsSuffice

(* Only what is not there is missing.                                      *)
LEMMA OutcomesShort ==
    ASSUME Ready, NEW n \in Nat, "TooShort" \in Outcomes(n) \cup VecOutcomes(n)
    PROVE  Remaining < n
<1>1. Remaining \in Nat /\ reader.remaining \in Nat /\ Remaining <= reader.remaining
  BY RemainingFits
<1> QED
  BY <1>1 DEF Outcomes, VecOutcomes, ReadOutcomes, ReadVecOutcomes

(* The access that asks for the parts of a value of computed length.       *)
LEMMA TopIsSteady ==
    ASSUME IInv, Exact, Running, Computing
    PROVE  /\ frames # <<>> /\ Within(frames, Len(frames)) /\ Steady(opts, props, Top)
           /\ Exactly(opts, props, frames, sections, reader.remaining, Pending)
           /\ Top = frames[Len(frames)] /\ Top \in Frame /\ TopType = Types[Top.type]
           /\ ~HasProps(Top.type)
           /\ TopType.kind = "struct" => TopType.tlv = FALSE
<1>1. frames \in Seq(Frame) /\ opts \in Options /\ props \in Properties
  BY DEF IInv, TypeOK
<1>2. Within(frames, Len(frames))
  BY DEF Computing
<1>3. frames # <<>> /\ Len(frames) \in DOMAIN frames
  BY <1>1, <1>2 DEF Within
<1>4. Exactly(opts, props, frames, sections, reader.remaining, Pending)
  BY DEF Exact
<1>5. Steady(opts, props, frames[Len(frames)])
  BY <1>2, <1>3, <1>4 DEF Exactly
<1>6. Top = frames[Len(frames)] /\ Top \in Frame /\ TopType = Types[Top.type]
  BY <1>3, TopIsFrame DEF IInv
<1>7. ConstValue(opts, props, Top.type)
  BY <1>5, <1>6 DEF Steady
<1>8. TopType.kind = "struct" => TopType.tlv = FALSE
  BY <1>1, <1>6, <1>7, ConstStruct
<1> QED
  BY <1>2, <1>3, <1>4, <1>5, <1>6, <1>7, <1>8 DEF ConstValue

(* Such a part has no tag, and so no announced size.                       *)
LEMMA HereIsPlain ==
    ASSUME IInv, SizeIsTaken, Exact, Computing, pc = "value"
    PROVE  /\ nextLfs = None /\ inTlv = FALSE
           /\ Here = Plain(opts, props, nextType) /\ Here \in Site
           /\ ConstValue(opts, props, nextType)
           /\ Pending = Size(opts, props, nextType)
           /\ Types[nextType].kind # "struct" => WantedLengthField[Here] = None
<1>1. Running
  BY DEF Running
<1>2. TopType.kind = "struct" => TopType.tlv = FALSE
  BY <1>1, TopIsSteady
<1>3. nextLfs = None
  BY <1>1, <1>2 DEF SizeIsTaken, AnnouncedSizeIsFresh
<1>4. inTlv = FALSE
  BY <1>2 DEF IInv, InTlvMatchesEnclosing
<1>5. Here = Plain(opts, props, nextType)
  BY <1>4 DEF Here, Plain
<1>6. ConstValue(opts, props, nextType)
  BY <1>1 DEF Exact
<1>7. Here \in Site /\ ~Here.tlv /\ Here.type = nextType
  BY <1>4, SiteShape DEF IInv, TypeOK, Here
<1>8. Types[nextType].kind # "struct" => WantedLengthField[Here] = None
  BY <1>6, <1>7, ConstWanted DEF ConstValue
<1> QED
  BY <1>3, <1>4, <1>5, <1>6, <1>7, <1>8 DEF Pending

LEMMA FixedKeeps ==
    ASSUME IInv, IInv', SizeIsTaken, Exact, DeserializeFixed
    PROVE  Kept
<1> DEFINE size == Types[nextType].size
<1>1. /\ pc = "value" /\ IsFixed(Types[nextType])
      /\ UNCHANGED <<opts, nextType, inTlv, props, frames, todo, after>>
  BY DEF DeserializeFixed
<1>2. Running /\ pc # "discard" /\ ~InLeaf /\ Leaf = 0
  BY <1>1 DEF Running, InLeaf, Leaf
<1>3. /\ Holds(frames, sections, reader.remaining, 0)
      /\ Ready /\ Remaining = Left(sections, reader.remaining)
      /\ opts \in Options /\ props \in Properties /\ frames \in Seq(Frame)
  BY <1>2, HeldAre
<1>4. CASE ~Computing
  BY <1>1, <1>4, UnframedOutside
<1>5. CASE Computing
  <2>1. /\ ConstValue(opts, props, nextType) /\ Pending = Size(opts, props, nextType)
        /\ Here = Plain(opts, props, nextType) /\ Here \in Site /\ inTlv = FALSE
    BY <1>1, <1>5, HereIsPlain
  <2>2. Pending = size /\ size \in Nat
    <3>1. MaxLen[Here] = Pending /\ Here.type = nextType /\ ~Here.tlv
      BY <2>1 DEF Size, Here
    <3>2. IsConstSize[nextType] /\ Pending \in Nat
      BY <2>1 DEF ConstValue
    <3>3. MaxLen[Here] = size
      BY <1>1, <2>1, <3>1, <3>2, ConstSizes
    <3> QED
      BY <3>1, <3>2, <3>3
  <2> HIDE DEF size
  <2>3. PICK out \in Outcomes(size) :
           \/ out # "ok" /\ Fail(out)
           \/ out = "ok" /\ pc' = "return" /\ Take(size) /\ UNCHANGED nextLfs
           \/ Fail("InvalidBool")
           \/ Fail("InvalidEnumValue")
    BY DEF DeserializeFixed, size
  <2>4. CASE out # "ok" /\ Fail(out)
    <3>1. CASE out = "TooShort"
      <4>1. Remaining < size
        BY <1>3, <2>2, <3>1, OutcomesShort
      <4>2. ComputedSectionsSuffice'
        BY <1>1, <1>2, <2>2, <4>1, ShortIsAnnounced
      <4>3. ~Running'
        BY <2>4, <3>1 DEF Fail, Running
      <4> QED
        BY <4>2, <4>3 DEF Kept, Exact
    <3>2. CASE out # "TooShort"
      <4>1. out \in Errors \cup Panics
        BY <1>3, <2>2, <2>4, OutcomesAre
      <4> QED
        BY <2>4, <3>2, <4>1, OtherFailure DEF Fail
    <3> QED
      BY <3>1, <3>2
  <2>5. CASE Fail("InvalidBool") \/ Fail("InvalidEnumValue")
    BY <2>5, OtherFailure DEF Fail, Errors
  <2>6. CASE out = "ok" /\ pc' = "return" /\ Take(size) /\ UNCHANGED nextLfs
    <3>1. size <= Remaining
      BY <1>3, <2>2, <2>6, OutcomesAre
    <3>2. Exactly(opts, props, frames, sections, reader.remaining, size)
      BY <1>2, <1>5, <2>2, TopIsSteady
    <3>3. Exactly(opts, props, frames, Less(sections, size), reader.remaining - size, size - size)
      <4>1. Aligned(frames, Dues(opts, props, frames), sections, reader.remaining, size)
        BY <3>2 DEF Exactly
      <4>2. Aligned(frames, Dues(opts, props, frames), Less(sections, size),
                    reader.remaining - size, size - size)
        BY <1>3, <2>2, <3>1, <4>1, AlignedReads
      <4> QED
        BY <3>2, <4>2 DEF Exactly
    <3>4. sections' = Less(sections, size) /\ reader'.remaining = reader.remaining - size
      <4>1. reader \in Reader /\ reader.remaining \in Nat /\ Remaining <= reader.remaining
            /\ Remaining \in Nat
        BY <1>3, RemainingFits DEF Ready, Usable
      <4>2. size <= reader.remaining
        BY <2>2, <3>1, <4>1
      <4> QED
        BY <2>2, <2>6, <4>1, <4>2, AdvanceReader DEF Take
    <3>5. Pending' = 0 /\ size - size = 0
      BY <2>2, <2>6 DEF Pending, InLeaf
    <3> QED
      BY <1>1, <2>6, <3>3, <3>4, <3>5, ExactAgain
  <2> QED
    BY <2>3, <2>4, <2>5, <2>6
<1> QED
  BY <1>4, <1>5

(* A string or byte slice of computed length begins.                       *)
LEMMA LeafSize ==
    ASSUME IInv, SizeIsTaken, Exact, Computing, pc = "value",
           Types[nextType].kind = "string" \/ IsByteSequence(Types[nextType])
    PROVE  /\ Types[nextType].max = Pending /\ Pending \in Nat
           /\ WantedLengthField[Here] = None
<1> DEFINE ty == Types[nextType]
<1>1. /\ ConstValue(opts, props, nextType) /\ Pending = Size(opts, props, nextType)
      /\ Here = Plain(opts, props, nextType) /\ Here \in Site /\ inTlv = FALSE
      /\ ty.kind # "struct" => WantedLengthField[Here] = None
  BY HereIsPlain
<1>2. MaxLen[Here] = Pending /\ Here.type = nextType /\ ~Here.tlv
  BY <1>1 DEF Size, Here
<1>3. nextType \in TypeId /\ IsConstSize[nextType] /\ Pending \in Nat
      /\ opts \in Options /\ props \in Properties
  BY <1>1 DEF ConstValue, IInv, TypeOK
<1>4. CASE ty.kind = "string"
  <2>1. MaxLen[Here] = ty.max
    BY <1>1, <1>2, <1>3, <1>4, ConstSizes
  <2> QED
    BY <1>1, <1>2, <1>3, <1>4, <2>1
<1>5. CASE IsByteSequence(ty)
  <2>1. ty.kind = "seq" /\ Types[ty.elem] = [kind |-> "prim", size |-> 1]
    BY <1>5 DEF IsByteSequence
  <2>2. /\ ty.elem \in TypeId /\ ty.max \in Nat /\ Size(opts, props, ty.elem) \in Nat
        /\ Pending = ty.max * Size(opts, props, ty.elem)
    BY <1>1, <1>3, <2>1, ConstSeq
  <2> DEFINE s == Plain(opts, props, ty.elem)
  <2>3. s \in Site /\ s.type = ty.elem /\ ~s.tlv
    BY <1>3, <2>2, PlainIs
  <2>4. MaxLen[s] \in Nat
    BY <2>2 DEF Size
  <2>5. IsConstSize[ty.elem]
    <3>1. IsConstSize[ty.elem] = ConstSizeOf(Types[ty.elem], IsConstSize)
      BY <2>2, ConstSizeIs
    <3> QED
      BY <2>1, <3>1 DEF ConstSizeOf
  <2> HIDE DEF s
  <2>6. IsFixed(Types[s.type]) /\ Types[s.type].size = 1
    BY <2>1, <2>3 DEF IsFixed
  <2>7. MaxLen[s] = 1
    BY <2>3, <2>4, <2>5, <2>6, ConstSizes
  <2>8. Size(opts, props, ty.elem) = 1
    BY <2>7 DEF Size, s
  <2>9. Pending = ty.max
    BY <2>2, <2>8
  <2> QED
    BY <1>1, <1>3, <2>1, <2>9
<1> QED
  BY <1>4, <1>5

LEMMA LeafKeeps ==
    ASSUME IInv, IInv', SizeIsTaken, Exact, pc = "value", NEW next \in {"string", "str", "bytes"},
           Types[nextType].kind = "string" \/ IsByteSequence(Types[nextType]),
           Begin(WantedLengthField[Here], Types[nextType].max, next),
           UNCHANGED <<opts, nextType, inTlv, props, frames, todo, after>>
    PROVE  Kept
<1> DEFINE max == Types[nextType].max
<1>1. Running /\ pc # "discard" /\ ~InLeaf /\ Leaf = 0
  BY DEF Running, InLeaf, Leaf
<1>2. /\ Holds(frames, sections, reader.remaining, 0)
      /\ Ready /\ Remaining = Left(sections, reader.remaining)
      /\ opts \in Options /\ props \in Properties /\ frames \in Seq(Frame)
  BY <1>1, HeldAre
<1>3. CASE ~Computing
  BY <1>3, UnframedOutside
<1>4. CASE Computing
  <2>1. max = Pending /\ Pending \in Nat /\ WantedLengthField[Here] = None
    BY <1>4, LeafSize
  <2> HIDE DEF max
  <2>2. BeginKnownSection(max, next)
    <3>1. ~Failed(None) /\ ~Failed(max)
      BY <2>1, SizesDoNotFail DEF OptSize, Failed
    <3> QED
      BY <2>1, <3>1 DEF Begin, max
  <2>3. CASE max > Remaining /\ Fail("TooShort")
    <3>1. Remaining < Pending
      BY <1>2, <2>1, <2>3, RemainingFits
    <3>2. ComputedSectionsSuffice'
      BY <1>1, <3>1, ShortIsAnnounced
    <3>3. ~Running'
      BY <2>3 DEF Fail, Running
    <3> QED
      BY <3>2, <3>3 DEF Kept, Exact
  <2>4. CASE /\ max <= Remaining /\ pc' = next
             /\ sections' = Append(Less(sections, max), max)
             /\ UNCHANGED <<reader, nextLfs>>
    <3> DEFINE left == reader.remaining
               dues == Dues(opts, props, frames)
               secs == Append(Less(sections, max), max)
    <3>1. Exactly(opts, props, frames, sections, left, max)
      BY <1>1, <1>4, <2>1, TopIsSteady
    <3>2. left \in Nat /\ 0 + max = max /\ max \in Nat /\ left - 0 = left /\ max <= left
      BY <1>2, <2>1, <2>4, RemainingFits DEF Holds
    <3>3. EndsStay(frames, sections, left, secs, left)
      <4>1. 0 + max <= Left(sections, left)
        BY <1>2, <2>4, <3>2
      <4>2. EndsStay(frames, sections, left,
                     Append(Less(sections, 0 + max), max), left - 0)
        BY <1>2, <3>2, <4>1, BeginStays
      <4> QED
        BY <3>2, <4>2
    <3>4. Aligned(frames, dues, secs, left, max)
      <4>1. Aligned(frames, dues, sections, left, max)
        BY <3>1 DEF Exactly
      <4> HIDE DEF left, dues, secs
      <4> QED
        BY <1>2, <3>2, <3>3, <4>1, AlignedMoves
    <3>5. Exactly(opts, props, frames, secs, left, max)
      BY <3>1, <3>4 DEF Exactly
    <3>6. Pending' = max
      <4>1. Less(sections, max) \in Seq(Nat)
        <5>1. max <= Left(sections, left) /\ Covered(sections, left) /\ sections \in Seq(Nat)
          BY <1>2, <2>4 DEF Holds
        <5> QED
          BY <3>2, <5>1, LessCovered
      <4>2. Last(secs) = max
        BY <3>2, <4>1 DEF Last
      <4>3. Computing'
        BY <1>4 DEF Computing, Within
      <4> QED
        BY <2>4, <4>2, <4>3 DEF Pending, InLeaf
    <3> QED
      BY <2>4, <3>5, <3>6, ExactAgain
  <2> QED
    BY <2>2, <2>3, <2>4 DEF BeginKnownSection
<1> QED
  BY <1>3, <1>4

(* The bytes of a string or byte slice are taken, or passed over.          *)
LEMMA LeafSpends ==
    ASSUME IInv, Exact, Running, Computing, pc # "discard", InLeaf,
           NEW n \in Nat, n <= Remaining,
           sections' = Less(sections, n), reader'.remaining = reader.remaining - n,
           UNCHANGED <<opts, props, frames>>,
           pc' \in {"skip", "end", "discard"}, pc' = "discard" => after' = "end"
    PROVE  Kept
<1> DEFINE left == reader.remaining
           dues == Dues(opts, props, frames)
           due == Last(sections)
<1>1. /\ Holds(frames, sections, left, 1)
      /\ Ready /\ Remaining = Left(sections, left)
      /\ frames \in Seq(Frame)
  BY HeldAre DEF Leaf
<1>2. pc # "value" /\ Pending = due
  BY DEF Pending, InLeaf
<1>3. sections # <<>> /\ sections \in Seq(Nat)
  <2>1. sections \in Seq(Nat) /\ Len(sections) = Cardinality(Sectioned(frames)) + 1
    BY <1>1 DEF Holds
  <2>2. Cardinality(Sectioned(frames)) \in Nat
    BY <1>1, SectionedIsFinite
  <2> QED
    BY <2>1, <2>2
<1>4. Remaining = due /\ due \in Nat
  BY <1>3, FrontIsSeq DEF Remaining
<1>5. Exactly(opts, props, frames, sections, left, due)
  BY <1>2, TopIsSteady
<1> HIDE DEF due
<1>6. Aligned(frames, dues, Less(sections, n), left - n, due - n)
  <2>1. Aligned(frames, dues, sections, left, due)
    BY <1>5 DEF Exactly
  <2>2. n <= due /\ n <= Left(sections, left)
    BY <1>1, <1>4
  <2> HIDE DEF dues, left
  <2> QED
    BY <1>1, <2>1, <2>2, AlignedReads
<1>7. Exactly(opts, props, frames, Less(sections, n), left - n, due - n)
  BY <1>5, <1>6 DEF Exactly
<1>8. Last(Less(sections, n)) = due - n
  <2>1. Left(Less(sections, n), left - n) = Remaining - n /\ Len(Less(sections, n)) = Len(sections)
    BY <1>1, ReadKeeps
  <2>2. Less(sections, n) # <<>>
    BY <1>3, <2>1
  <2> QED
    BY <1>4, <2>1, <2>2 DEF Left
<1>9. Pending' = due - n
  <2>1. Computing'
    BY DEF Computing, Within
  <2> QED
    BY <1>8, <2>1 DEF Pending, InLeaf
<1> QED
  BY <1>7, <1>9, ExactAgain

LEMMA LeafReadKeeps ==
    ASSUME IInv, IInv', Exact, pc \in {"string", "str", "bytes"},
           TakeLeaf \/ (pc' \in Errors \cup Panics /\ pc' # "TooShort"),
           UNCHANGED <<opts, nextType, inTlv, props, frames, todo, after>>
    PROVE  Kept
<1>1. CASE pc' \in Errors \cup Panics /\ pc' # "TooShort"
  BY <1>1, OtherFailure
<1>2. CASE ~Computing
  BY <1>2, UnframedOutside
<1>3. CASE TakeLeaf /\ Computing
  <2>1. Running /\ pc # "discard" /\ InLeaf
    BY DEF Running, InLeaf
  <2>2. Ready
    BY <2>1, ReadyToRead
  <2>3. Wanted \in Nat /\ Wanted <= Remaining
    BY <2>2, WantedFits
  <2>4. sections' = Less(sections, Wanted) /\ reader' = Advance(reader, Wanted)
        /\ pc' \in {"skip", "end"}
    BY <1>3 DEF TakeLeaf, Take
  <2>5. reader'.remaining = reader.remaining - Wanted
    <3>1. reader \in Reader /\ reader.remaining \in Nat /\ Remaining <= reader.remaining
          /\ Remaining \in Nat
      BY <2>2, RemainingFits DEF Ready, Usable
    <3>2. Wanted <= reader.remaining
      BY <2>3, <3>1
    <3> QED
      BY <2>3, <2>4, <3>1, <3>2, AdvanceReader
  <2> QED
    BY <1>3, <2>1, <2>3, <2>4, <2>5, LeafSpends
<1> QED
  BY <1>1, <1>2, <1>3

LEMMA ReadsKeep ==
    ASSUME IInv, IInv', Exact, ReadString \/ ReadStr \/ ReadBytes
    PROVE  Kept
<1>1. CASE ReadString
  <2>1. /\ pc = "string"
        /\ \/ Fail("NotEnoughData") \/ Fail("TooMuchData") \/ Fail("CannotCodeString")
           \/ Fail("IoError") \/ TakeLeaf
        /\ UNCHANGED <<opts, nextType, inTlv, props, frames, todo, after>>
    BY <1>1 DEF ReadString
  <2> QED
    BY <2>1, LeafReadKeeps DEF Fail, Errors
<1>2. CASE ReadStr
  <2>1. /\ pc = "str"
        /\ \/ Fail("NotEnoughData") \/ Fail("TooMuchData") \/ Fail("CannotCodeString")
           \/ TakeLeaf
        /\ UNCHANGED <<opts, nextType, inTlv, props, frames, todo, after>>
    BY <1>2 DEF ReadStr
  <2> QED
    BY <2>1, LeafReadKeeps DEF Fail, Errors
<1>3. CASE ReadBytes
  <2>1. /\ pc = "bytes"
        /\ \/ Fail("TooMuchData")
           \/ \E out \in VecOutcomes(Wanted) : out # "ok" /\ Fail(out)
           \/ TakeLeaf
        /\ UNCHANGED <<opts, nextType, inTlv, props, frames, todo, after>>
    BY <1>3 DEF ReadBytes
  <2>2. Ready /\ Wanted \in Nat /\ Wanted <= Remaining /\ Remaining \in Nat
    BY <2>1, ReadyToRead, WantedFits, RemainingFits DEF Running
  <2>3. ASSUME NEW out \in VecOutcomes(Wanted), out # "ok", Fail(out)
        PROVE  pc' \in Errors \cup Panics /\ pc' # "TooShort"
    <3>1. out \in Errors \cup Panics
      BY <2>2, <2>3, OutcomesAre
    <3>2. out # "TooShort"
      <4>1. ~(Remaining < Wanted)
        BY <2>2
      <4> QED
        BY <2>2, <2>3, <4>1, OutcomesShort
    <3> QED
      BY <2>3, <3>1, <3>2 DEF Fail
  <2> QED
    BY <2>1, <2>3, LeafReadKeeps DEF Fail, Errors
<1> QED
  BY <1>1, <1>2, <1>3

LEMMA SkipKeeps ==
    ASSUME IInv, IInv', Exact, Skip
    PROVE  Kept
<1>1. pc = "skip" /\ DiscardFrom(Remaining, "end")
      /\ UNCHANGED <<opts, nextType, inTlv, props, frames>>
  BY DEF Skip
<1>2. Running /\ pc # "discard" /\ InLeaf
  BY <1>1 DEF Running, InLeaf
<1>3. Ready /\ Remaining \in Nat
  BY <1>2, ReadyToRead, RemainingFits
<1>4. ~(Remaining < Remaining) /\ Remaining <= Remaining
  BY <1>3
<1>5. /\ pc' = "discard" /\ after' = "end" /\ sections' = Less(sections, Remaining)
      /\ reader' = [reader EXCEPT !.remaining = @ - Remaining]
  BY <1>1, <1>4 DEF DiscardFrom
<1>6. reader'.remaining = reader.remaining - Remaining
  BY <1>3, <1>5 DEF Ready, Usable, Reader
<1>7. CASE ~Computing
  BY <1>1, <1>7, UnframedOutside
<1>8. CASE Computing
  BY <1>1, <1>2, <1>3, <1>4, <1>5, <1>6, <1>8, LeafSpends
<1> QED
  BY <1>7, <1>8

LEMMA DiscardKeeps ==
    ASSUME IInv, IInv', Exact, DiscardChunk
    PROVE  Kept
<1>1. /\ pc = "discard" /\ pc' \in {pc, after}
      /\ \/ reader' = reader
         \/ \E n \in Chunks : reader' = [reader EXCEPT !.available = @ - n]
      /\ UNCHANGED <<opts, nextType, nextLfs, inTlv, sections, props, frames, after>>
  BY DEF DiscardChunk
<1>2. reader'.remaining = reader.remaining
  BY <1>1 DEF IInv, TypeOK, Reader
<1>3. CASE ~Computing
  BY <1>1, <1>3, UnframedOutside
<1>4. CASE Computing
  <2>1. Running
    BY <1>1 DEF Running
  <2>2. after = "end"
    BY <1>1, <1>4, <2>1 DEF Exact
  <2>3. Pending' = Pending
    BY <1>1, <2>2 DEF Pending, Computing, Within, InLeaf
  <2>4. Exactly(opts, props, frames, sections, reader.remaining, Pending)
    BY <1>4, <2>1, TopIsSteady
  <2>5. Exactly(opts, props, frames', sections', reader'.remaining, Pending')
    BY <1>1, <1>2, <2>3, <2>4
  <2> QED
    BY <1>1, <2>2, <2>5, ExactAgain
<1> QED
  BY <1>3, <1>4

LEMMA EndLeafKeeps ==
    ASSUME IInv, IInv', Exact, EndLeaf
    PROVE  Kept
<1>1. pc = "end" /\ EndSection("return")
      /\ UNCHANGED <<opts, nextType, inTlv, props, frames, todo, after>>
  BY DEF EndLeaf
<1>2. Running /\ pc # "discard" /\ InLeaf
  BY <1>1 DEF Running, InLeaf
<1>3. CASE ~Computing
  BY <1>1, <1>3, UnframedOutside
<1>4. CASE Fail("NotAllBytesConsumed")
  BY <1>4, OtherFailure DEF Fail, Errors
<1>5. CASE /\ Computing /\ Last(sections) = 0
           /\ pc' = "return" /\ sections' = Front(sections)
           /\ UNCHANGED <<reader, nextLfs>>
  <2> DEFINE left == reader.remaining
             dues == Dues(opts, props, frames)
  <2>1. Holds(frames, sections, left, 1)
    BY <1>2, HeldAre DEF Leaf
  <2>2. /\ frames \in Seq(Frame) /\ sections \in Seq(Nat) /\ left \in Nat
        /\ Covered(sections, left) /\ Len(sections) = Cardinality(Sectioned(frames)) + 1
    BY <2>1 DEF Holds
  <2>3. sections # <<>>
    <3>1. Cardinality(Sectioned(frames)) \in Nat
      BY <2>2, SectionedIsFinite
    <3> QED
      BY <2>2, <3>1
  <2>4. EndsStay(frames, sections, left, Front(sections), left)
    BY <1>5, <2>2, <2>3, EndStays
  <2>5. Pending = 0 /\ Pending' = 0
    BY <1>1, <1>2, <1>5 DEF Pending, InLeaf
  <2>6. Exactly(opts, props, frames, sections, left, 0)
    BY <1>2, <1>5, <2>5, TopIsSteady
  <2>7. Aligned(frames, dues, Front(sections), left, 0)
    <3>1. Aligned(frames, dues, sections, left, 0) /\ 0 <= left /\ 0 \in Nat
          /\ left - 0 = left - 0
      BY <2>2, <2>6 DEF Exactly
    <3> HIDE DEF dues, left
    <3> QED
      BY <2>2, <2>4, <3>1, AlignedMoves
  <2>8. Exactly(opts, props, frames, Front(sections), left, 0)
    BY <2>6, <2>7 DEF Exactly
  <2>9. Exactly(opts, props, frames', sections', reader'.remaining, Pending')
    BY <1>1, <1>5, <2>5, <2>8
  <2> QED
    BY <1>1, <1>5, <2>9, ExactAgain
<1> QED
  BY <1>1, <1>3, <1>4, <1>5 DEF EndSection

(* Where nothing is read.                                                  *)
LEMMA OthersKeep ==
    ASSUME IInv, IInv', Exact,
           \/ Call \/ Finish \/ DeserializeOption \/ DiscardFails \/ FieldsCutShort
           \/ FieldMissing
    PROVE  Kept
<1>1. CASE Call
  <2>1. frames' = frames /\ frames = <<>>
    BY <1>1 DEF Call, IInv, AtStart
  <2>2. ~Computing
    BY <2>1 DEF Computing, Within
  <2> QED
    BY <2>1, <2>2, UnframedOutside
<1>2. CASE ~Call
  <2>1. pc' \in {"ok", "TypePanic", "IoError", "Message"}
    BY <1>2 DEF Finish, DeserializeOption, DiscardFails, FieldsCutShort, FieldMissing, Fail
  <2> QED
    BY <2>1, OtherFailure DEF Errors, Panics
<1> QED
  BY <1>1, <1>2

(* A sequence whose section has a computed length.                         *)
LEMMA ComputedSeq ==
    ASSUME IInv, pc = "value", Types[nextType].kind = "seq",
           WantedLengthField[Here] = None, ~Failed(ComputedLength)
    PROVE  /\ ConstValue(opts, props, nextType)
           /\ ComputedLength = Size(opts, props, nextType)
<1> DEFINE ty == Types[nextType]
           elem == Types[nextType].elem
<1>1. /\ nextType \in TypeId /\ opts \in Options /\ props \in Properties
      /\ Here \in Site /\ Here.type = nextType /\ Here.tlv = inTlv /\ inTlv \in BOOLEAN
  BY SiteShape DEF IInv, TypeOK, Here
<1>2. WantedLengthField[Here] = WantedOf(Here, ty)
  BY <1>1 DEF WantedLengthField
<1>3. ~NeedsLengthField(Here, ty)
  <2>1. Or(ConfiguredLengthField(Here, ty), MissingPanic) # None
    BY DEF Or, MissingPanic, None
  <2> QED
    BY <1>2, <2>1 DEF WantedOf, IsFixed, IsWrapper, IsStruct
<1>4. inTlv = FALSE /\ IsConstSize[nextType]
  BY <1>1, <1>3 DEF NeedsLengthField, IsStruct
<1>5. Here = Plain(opts, props, nextType)
  BY <1>4 DEF Here, Plain
<1>6. ElementSite = PartSite(Here, elem, FALSE)
  BY DEF ElementSite, PartSite
<1>7. MaxLen[Here] = ContentOf(Here, ty, MaxLen)
  <2>1. MaxLen[Here] = WithLengthField(Here, WantedLengthField[Here], ContentOf(Here, ty, MaxLen))
    BY <1>1, MaxLenIs DEF MaxLenOf
  <2>2. ~Failed(None)
    BY SizesDoNotFail DEF OptSize
  <2> QED
    BY <2>1, <2>2 DEF WithLengthField
<1>8. ContentOf(Here, ty, MaxLen) = TimesLen(ty.max, MaxLen[PartSite(Here, elem, FALSE)])
  BY DEF ContentOf, PartSite
<1>9. ComputedLength = MaxLen[Here]
  BY <1>6, <1>7, <1>8 DEF ComputedLength
<1>10. MaxLen[Here] = Size(opts, props, nextType)
  BY <1>5 DEF Size
<1>11. Size(opts, props, nextType) \in Nat
  BY <1>9, <1>10 DEF Failed
<1>12. ~HasProps(nextType)
  BY DEF HasProps
<1> QED
  BY <1>1, <1>4, <1>9, <1>10, <1>11, <1>12 DEF ConstValue

LEMMA SeqKeeps ==
    ASSUME IInv, IInv', SizeIsTaken, Exact, DeserializeSeq
    PROVE  Kept
<1> DEFINE wanted == WantedLengthField[Here]
           next == SizeHint
           f == [type |-> nextType, section |-> SectionOf(wanted), count |-> 0,
                 pending |-> FALSE, seen |-> {}, orig |-> NoProps, wasTlv |-> inTlv]
           left == reader.remaining
           size == Size(opts, props, nextType)
<1>1. /\ pc = "value" /\ Types[nextType].kind = "seq"
      /\ Begin(wanted, ComputedLength, next)
      /\ frames' = IF pc' # "return" THEN frames ELSE Append(frames, f)
      /\ UNCHANGED <<opts, nextType, inTlv, props, todo, after>>
  BY DEF DeserializeSeq
<1>2. Running /\ pc # "discard" /\ ~InLeaf /\ Leaf = 0
  BY <1>1 DEF Running, InLeaf, Leaf
<1>3. /\ Holds(frames, sections, left, 0)
      /\ Ready /\ Remaining = Left(sections, left)
      /\ opts \in Options /\ props \in Properties /\ frames \in Seq(Frame)
      /\ Len(frames) \in Nat
  BY <1>2, HeldAre
<1>4. f \in Frame
  <2>1. NoProps \in Properties
    BY DEF NoProps, Properties, OptSize
  <2> QED
    BY <2>1 DEF IInv, TypeOK, Frame, SectionOf
<1>5. /\ f.type = nextType /\ f.section = SectionOf(wanted) /\ f.count = 0
      /\ f.pending = FALSE
  OBVIOUS
<1>6. next = "return" \/ next \in Panics
  BY HintIs
<1> HIDE DEF f, next
<1>7. CASE ~Computing /\ pc' # "return"
  BY <1>1, <1>7, UnframedOutside
<1>8. CASE ~Computing /\ wanted # None
  <2>1. f.section # "computed"
    BY <1>5, <1>8 DEF SectionOf
  <2>2. ~Computing'
    <3>1. CASE frames' = frames
      BY <1>8, <3>1 DEF Computing, Within
    <3>2. CASE frames' = Append(frames, f)
      <4>1. /\ Len(frames') = Len(frames) + 1 /\ frames'[Len(frames) + 1] = f
            /\ \A k \in 1 .. Len(frames) : frames'[k] = frames[k]
        BY <1>3, <3>2
      <4> QED
        BY <1>3, <1>8, <2>1, <4>1 DEF Computing, Within
    <3> QED
      BY <1>1, <3>1, <3>2
  <2> QED
    BY <2>2, OutsideKeeps
<1>9. CASE wanted = None
  <2>1. ~Failed(None)
    BY SizesDoNotFail DEF OptSize
  <2>2. CASE Failed(ComputedLength)
    <3>1. Fail(Outcome(ComputedLength))
      BY <1>1, <1>9, <2>1, <2>2 DEF Begin
    <3> QED
      BY <3>1, OtherFailure DEF Fail, Outcome, Errors, Panics
  <2>3. CASE ~Failed(ComputedLength)
    <3>1. ConstValue(opts, props, nextType) /\ ComputedLength = size
      BY <1>1, <1>9, <2>3, ComputedSeq
    <3>2. BeginKnownSection(size, next)
      BY <1>1, <1>9, <2>1, <2>3, <3>1 DEF Begin
    <3>3. size \in Nat
      BY <3>1 DEF ConstValue
    <3>4. Computing => Pending = size
      BY <1>1 DEF Pending
    <3>5. Remaining \in Nat /\ left \in Nat /\ Remaining <= left
      BY <1>3, RemainingFits
    <3> HIDE DEF size, left
    <3>6. CASE size > Remaining /\ Fail("TooShort")
      <4>1. ~Running' /\ frames' = frames
        BY <1>1, <3>6 DEF Fail, Running
      <4>2. ComputedSectionsSuffice'
        BY <1>2, <3>3, <3>4, <3>5, <3>6, <4>1, ShortIsAnnounced
      <4> QED
        BY <4>1, <4>2 DEF Kept, Exact
    <3>7. CASE size <= Remaining /\ pc' = next /\ next \in Panics
      BY <3>7, OtherFailure DEF Panics
    <3>8. CASE /\ size <= Remaining /\ pc' = "return"
               /\ sections' = Append(Less(sections, size), size)
               /\ reader' = reader
      <4>1. Exactly(opts, props, frames, sections, left, size)
        <5>1. CASE Computing
          BY <1>2, <3>4, <5>1, TopIsSteady DEF left
        <5>2. CASE ~Computing
          <6>1. size <= left
            BY <3>3, <3>5, <3>8
          <6> QED
            BY <1>3, <3>3, <3>5, <5>2, <6>1, ExactOutside DEF Computing
        <5> QED
          BY <5>1, <5>2
      <4>2. f.section = "computed"
        BY <1>5, <1>9 DEF SectionOf
      <4>3. Steady(opts, props, f) /\ RestOf(opts, props, f) = size
        BY <1>1, <1>3, <1>4, <1>5, <3>1, <4>2, SeqBegins DEF size
      <4>4. 0 + size = size /\ size + 0 = size /\ left - 0 = left /\ 0 \in Nat
        BY <3>3, <3>5
      <4>5. Exactly(opts, props, Append(frames, f), sections', left - 0, 0)
        <5>1. Exactly(opts, props, frames, sections, left, RestOf(opts, props, f) + 0)
          BY <4>1, <4>3, <4>4
        <5>2. 0 + size <= Left(sections, left)
          BY <1>3, <3>8, <4>4 DEF left
        <5>3. sections' = Append(Less(sections, 0 + size), size)
          BY <3>8, <4>4
        <5>4. Holds(frames, sections, left, 0)
          BY <1>3 DEF left
        <5> QED
          BY <1>3, <1>4, <3>3, <4>2, <4>3, <4>4, <5>1, <5>2, <5>3, <5>4, ExactOpens
      <4>6. frames' = Append(frames, f) /\ reader'.remaining = left
        BY <1>1, <3>8 DEF left
      <4>7. Pending' = 0
        BY <3>8 DEF Pending, InLeaf
      <4>8. Exactly(opts, props, frames', sections', reader'.remaining, Pending')
        BY <4>4, <4>5, <4>6, <4>7
      <4> QED
        BY <1>1, <3>8, <4>8, ExactAgain
    <3> QED
      BY <1>6, <3>2, <3>6, <3>7, <3>8 DEF BeginKnownSection
  <2> QED
    BY <2>2, <2>3
<1>10. CASE Computing /\ wanted # None
  BY <1>1, <1>10, HereIsPlain
<1> QED
  BY <1>8, <1>9, <1>10

(* An element is asked for, and has been read.                             *)
LEMMA ElementsKeep ==
    ASSUME NoPropsInConst, IInv, IInv', SizeIsTaken, Exact, NextElement \/ ElementRead
    PROVE  Kept
<1> DEFINE left == reader.remaining
<1>1. /\ pc = "return" /\ frames # <<>> /\ TopType.kind = "seq"
      /\ UNCHANGED <<opts, props>>
  BY DEF NextElement, ElementRead, AtSeq
<1>2. Running /\ pc # "discard" /\ ~InLeaf /\ Leaf = 0 /\ pc # "value"
  BY <1>1 DEF Running, InLeaf, Leaf
<1>3. /\ Holds(frames, sections, left, 0)
      /\ Ready /\ Remaining = Left(sections, left)
      /\ opts \in Options /\ props \in Properties /\ frames \in Seq(Frame)
      /\ Len(frames) \in 1 .. Len(frames)
  <2>1. Len(frames) \in Nat /\ Len(frames) # 0
    BY <1>1 DEF IInv, TypeOK
  <2> QED
    BY <1>2, <2>1, HeldAre
<1>4. Top \in Frame /\ Top = frames[Len(frames)] /\ TopType = Types[Top.type] /\ Top.count \in Nat
  BY <1>1, TopIsFrame DEF IInv
<1>5. ASSUME NEW f \in Frame, f.section = Top.section, frames' = WithTop(frames, f), ~Computing
      PROVE  Kept
  <2>1. /\ Len(frames') = Len(frames)
        /\ \A i \in 1 .. Len(frames) : frames'[i] = IF i = Len(frames) THEN f ELSE frames[i]
    BY <1>1, <1>3, <1>4, <1>5, TopExcept
  <2>2. ~Computing'
    BY <1>4, <1>5, <2>1 DEF Computing, Within
  <2> QED
    BY <2>2, OutsideKeeps
<1>6. Computing => /\ Within(frames, Len(frames)) /\ Steady(opts, props, Top)
                   /\ Exactly(opts, props, frames, sections, left, 0)
                   /\ Top.section = "computed"
  <2> SUFFICES ASSUME Computing
               PROVE  /\ Within(frames, Len(frames)) /\ Steady(opts, props, Top)
                      /\ Exactly(opts, props, frames, sections, left, 0)
                      /\ Top.section = "computed"
    OBVIOUS
  <2>1. /\ Within(frames, Len(frames)) /\ Steady(opts, props, Top)
        /\ Exactly(opts, props, frames, sections, left, Pending)
    BY <1>2, TopIsSteady
  <2>2. Pending = 0
    BY <1>2 DEF Pending
  <2> QED
    BY <1>1, <1>4, <2>1, <2>2 DEF Steady
<1>7. CASE NextElement
  <2> DEFINE f == [Top EXCEPT !.pending = TRUE]
             elem == Types[Top.type].elem
  <2>1. /\ ~Top.pending /\ Remaining > 0
        /\ frames' = [frames EXCEPT ![Len(frames)].pending = TRUE]
        /\ nextType' = elem /\ pc' = "value"
        /\ UNCHANGED <<opts, reader, nextLfs, sections, props, todo, after>>
    BY <1>4, <1>7 DEF NextElement
  <2>2. f \in Frame /\ f.section = Top.section
    BY <1>4 DEF Frame
  <2>3. frames' = WithTop(frames, f)
    BY <1>4, <2>1 DEF WithTop
  <2>4. f = [Top EXCEPT !.pending = TRUE]
    OBVIOUS
  <2> HIDE DEF f
  <2>5. CASE ~Computing
    BY <1>5, <2>2, <2>3, <2>5
  <2>6. CASE Computing
    <3>1. /\ Within(frames, Len(frames)) /\ Steady(opts, props, Top)
          /\ Exactly(opts, props, frames, sections, left, 0) /\ Top.section = "computed"
      BY <1>6, <2>6
    <3>2. RestOf(opts, props, Top) = Remaining
      <4> DEFINE dues == Dues(opts, props, frames)
      <4>1. dues \in Seq(Nat) /\ Len(dues) = Len(frames)
        BY <1>3, <3>1, DuesAre DEF Exactly
      <4>2. dues[Len(frames)] = RestOf(opts, props, Top)
        BY <1>3, <1>4, <3>1 DEF Dues
      <4>3. Aligned(frames, dues, sections, left, 0)
        BY <3>1 DEF Exactly
      <4>4. \A i \in Sectioned(frames) : i <= Len(frames)
        BY <1>3 DEF Sectioned
      <4> HIDE DEF dues
      <4>5. sections # <<>> /\ Last(sections) = Last(dues) + 0
        BY <1>3, <1>4, <3>1, <4>3, <4>4, AlignedSuffices
      <4>6. Last(dues) = RestOf(opts, props, Top) /\ Last(dues) \in Nat
        BY <1>3, <4>1, <4>2 DEF Last
      <4> QED
        BY <4>5, <4>6 DEF Remaining
    <3>3. /\ Steady(opts, props, f)
          /\ Size(opts, props, elem) \in Nat
          /\ Size(opts, props, elem) <= RestOf(opts, props, Top)
          /\ RestOf(opts, props, f) = RestOf(opts, props, Top) - Size(opts, props, elem)
      BY <1>1, <1>3, <1>4, <2>1, <2>2, <2>4, <3>1, <3>2, ElementBegins
    <3>4. ConstValue(opts, props, elem)
      BY <1>1, <1>3, <1>4, <3>1, ConstSeq DEF Steady
    <3> DEFINE size == Size(opts, props, elem)
    <3>5. Exactly(opts, props, WithTop(frames, f), sections, left, size)
      <4> HIDE DEF elem, left, size
      <4>1. f.section = frames[Len(frames)].section
        BY <1>4, <2>2
      <4> QED
        BY <1>1, <1>3, <1>4, <2>2, <3>1, <3>3, <4>1, ExactSpends DEF size
    <3>6. Computing'
      <4>1. /\ Len(frames') = Len(frames) /\ frames'[Len(frames)] = f
        BY <1>1, <1>3, <1>4, <2>2, <2>3, TopExcept
      <4> QED
        BY <1>3, <2>2, <3>1, <4>1 DEF Computing, Within
    <3>7. Pending' = size
      BY <2>1, <3>6 DEF Pending
    <3>8. Exactly(opts, props, frames', sections', reader'.remaining, Pending')
      BY <2>1, <2>3, <3>5, <3>7
    <3> QED
      BY <2>1, <3>4, <3>8, ExactAgain
  <2> QED
    BY <2>5, <2>6
<1>8. CASE ElementRead
  <2> DEFINE f == [Top EXCEPT !.pending = FALSE, !.count = @ + 1]
  <2>1. /\ Top.pending
        /\ frames' = [frames EXCEPT ![Len(frames)].pending = FALSE,
                                    ![Len(frames)].count = @ + 1]
        /\ \/ Fail("TooMuchData")
           \/ Excess
           \/ UNCHANGED <<reader, sections, nextLfs, todo, after, pc>>
    BY <1>8 DEF ElementRead
  <2>2. f \in Frame /\ f.section = Top.section
    <3>1. Top.count + 1 \in Nat
      BY <1>4
    <3> QED
      BY <1>4, <3>1 DEF Frame
  <2>3. frames' = WithTop(frames, f)
    BY <1>1, <1>4, <2>1, <1>3 DEF WithTop, Frame
  <2>4. f = [Top EXCEPT !.pending = FALSE, !.count = @ + 1]
    OBVIOUS
  <2> HIDE DEF f
  <2>5. CASE ~Computing
    BY <1>5, <2>2, <2>3, <2>5
  <2>6. CASE Fail("TooMuchData")
    BY <2>6, OtherFailure DEF Fail, Errors
  <2>7. CASE Computing
    <3>1. /\ Within(frames, Len(frames)) /\ Steady(opts, props, Top)
          /\ Exactly(opts, props, frames, sections, left, 0) /\ Top.section = "computed"
      BY <1>6, <2>7
    <3>2. /\ Steady(opts, props, f)
          /\ RestOf(opts, props, f) = RestOf(opts, props, Top)
          /\ Top.count + 1 <= Types[Top.type].max
      <4>1. /\ Types[Top.type].kind = "seq" /\ Top.pending /\ Top \in Frame
            /\ opts \in Options /\ props \in Properties /\ f \in Frame
        BY <1>1, <1>3, <1>4, <2>1, <2>2
      <4>2. Steady(opts, props, Top)
        BY <3>1
      <4> QED
        BY ONLY <2>4, <4>1, <4>2, ElementEnds
    <3>3. ~Excess
      <4>1. Types[Top.type].max \in Nat
        BY <1>1, <1>3, <1>4, <3>1, ConstSeq DEF Steady
      <4> QED
        BY <1>4, <3>2, <4>1 DEF Excess
    <3>4. RestOf(opts, props, Top) \in Nat
      BY <1>3, <1>4, <3>1, RestFits
    <3>5. Exactly(opts, props, WithTop(frames, f), sections, left, 0)
      <4>1. f.section = frames[Len(frames)].section /\ 0 \in Nat
            /\ 0 <= RestOf(opts, props, frames[Len(frames)])
            /\ RestOf(opts, props, f) = RestOf(opts, props, frames[Len(frames)]) - 0
        BY <1>4, <2>2, <3>2, <3>4
      <4> HIDE DEF left
      <4> QED
        BY <1>1, <1>3, <2>2, <3>1, <3>2, <4>1, ExactSpends
    <3>6. CASE UNCHANGED <<reader, sections, nextLfs, todo, after, pc>>
      <4>1. Pending' = 0
        BY <1>2, <3>6 DEF Pending, InLeaf
      <4>2. Exactly(opts, props, frames', sections', reader'.remaining, Pending')
        BY <2>3, <3>5, <3>6, <4>1
      <4> QED
        BY <1>1, <3>6, <4>2, ExactAgain
    <3> QED
      BY <2>1, <2>6, <3>3, <3>6
  <2> QED
    BY <2>5, <2>7
<1> QED
  BY <1>7, <1>8

(* An access that does not begin a section of computed length.             *)
LEMMA OpensOutside ==
    ASSUME IInv, IInv', ~Computing, NEW f, f.section # "computed",
           frames' = frames \/ frames' = Append(frames, f)
    PROVE  Kept
<1>1. frames \in Seq(Frame) /\ Len(frames) \in Nat
  BY DEF IInv, TypeOK
<1>2. ~Computing'
  <2>1. CASE frames' = frames
    BY <2>1 DEF Computing, Within
  <2>2. CASE frames' = Append(frames, f)
    <3>1. /\ Len(frames') = Len(frames) + 1 /\ frames'[Len(frames) + 1] = f
          /\ \A k \in 1 .. Len(frames) : frames'[k] = frames[k]
      BY <1>1, <2>2
    <3> QED
      BY <1>1, <3>1 DEF Computing, Within
  <2> QED
    BY <2>1, <2>2
<1> QED
  BY <1>2, OutsideKeeps

LEMMA StructKeeps ==
    ASSUME NoPropsInConst, IInv, IInv', SizeIsTaken, Exact, DeserializeStruct
    PROVE  Kept
<1> DEFINE ty == Types[nextType]
           scope == IF ty.props.set THEN ty.props ELSE props
           wanted == WantedLengthField[[Here EXCEPT !.props = scope]]
           f == [type |-> nextType, section |-> StructSection(wanted), count |-> 0,
                 pending |-> FALSE, seen |-> {},
                 orig |-> IF ty.props.set THEN props ELSE NoProps, wasTlv |-> inTlv]
           left == reader.remaining
           size == Size(opts, props, nextType)
<1>1. /\ pc = "value" /\ ty.kind = "struct" /\ props' = scope
      /\ \/ Failed(wanted) /\ Fail(Outcome(wanted))
         \/ ~Failed(wanted) /\ wanted # None /\ BeginSection(wanted, "return")
         \/ /\ wanted = None
            /\ pc' = "return"
            /\ UNCHANGED <<reader, sections, nextLfs>>
      /\ frames' = IF pc' # "return" THEN frames ELSE Append(frames, f)
      /\ UNCHANGED <<opts, nextType, inTlv, todo, after>>
  BY DEF DeserializeStruct
<1>2. Running /\ pc # "discard" /\ ~InLeaf /\ Leaf = 0
  BY <1>1 DEF Running, InLeaf, Leaf
<1>3. /\ Holds(frames, sections, left, 0)
      /\ Ready /\ Remaining = Left(sections, left)
      /\ opts \in Options /\ props \in Properties /\ frames \in Seq(Frame)
  BY <1>2, HeldAre
<1>4. scope \in Properties
  <2>1. ty \in SomeIpStruct
    BY <1>1, TypeShapes DEF IInv, TypeOK
  <2> QED
    BY <1>3, <2>1 DEF SomeIpStruct
<1>5. f \in Frame
  <2>1. NoProps \in Properties
    BY DEF NoProps, Properties, OptSize
  <2> QED
    BY <2>1 DEF IInv, TypeOK, Frame, StructSection
<1>6. f.type = nextType /\ f.section = StructSection(wanted) /\ f.count = 0
  OBVIOUS
<1>7. f.section # "computed"
  BY DEF StructSection
<1> HIDE DEF f
<1>8. CASE ~Computing
  BY <1>1, <1>7, <1>8, OpensOutside
<1>9. CASE Computing
  <2>1. /\ nextLfs = None /\ ConstValue(opts, props, nextType) /\ Pending = size
        /\ Here = Plain(opts, props, nextType)
    BY <1>1, <1>9, HereIsPlain
  <2>2. scope = props
    BY <1>1, <2>1 DEF ConstValue, HasProps
  <2>3. [Here EXCEPT !.props = scope] = Here
    BY <2>2 DEF Here
  <2>4. wanted = WantedLengthField[Plain(opts, props, nextType)]
    BY <2>1, <2>3
  <2>5. /\ Steady(opts, props, f) /\ wanted \in OptSize
        /\ size = RestOf(opts, props, f) + wanted
    <3>1. /\ Steady(opts, props, f)
          /\ WantedLengthField[Plain(opts, props, f.type)] \in OptSize
          /\ Size(opts, props, f.type)
               = RestOf(opts, props, f) + WantedLengthField[Plain(opts, props, f.type)]
      BY <1>1, <1>3, <1>5, <1>6, <2>1, StructBegins
    <3> QED
      BY <1>6, <2>4, <3>1
  <2>6. props' = props
    BY <1>1, <2>2
  <2>7. Exactly(opts, props, frames, sections, left, RestOf(opts, props, f) + wanted)
        /\ Within(frames, Len(frames))
    BY <1>2, <1>9, <2>1, <2>5, TopIsSteady
  <2>8. wanted \in Nat /\ RestOf(opts, props, f) \in Nat
    <3>1. RestOf(opts, props, f) \in Nat
      BY <1>3, <1>5, <2>5, RestFits
    <3> QED
      BY <2>5, <3>1 DEF OptSize, LengthFieldSize, None
  <2>9. ~Failed(wanted)
    BY <2>8 DEF Failed
  <2> HIDE DEF wanted, scope, ty, left, size
  <2>10. Remaining \in Nat /\ left \in Nat /\ Remaining <= left
    BY <1>3, RemainingFits DEF left
  <2>11. CASE wanted = None /\ pc' = "return" /\ UNCHANGED <<reader, sections, nextLfs>>
    <3>1. f.section = "none" /\ wanted = 0 /\ left - 0 = left /\ 0 \in Nat
      BY <1>6, <2>10, <2>11 DEF StructSection, None
    <3>2. Exactly(opts, props, Append(frames, f), sections, left - 0, 0)
      BY <1>3, <1>5, <2>5, <2>7, <3>1, ExactOpens
    <3>3. Pending' = 0
      BY <2>11 DEF Pending, InLeaf
    <3>4. Exactly(opts, props, frames', sections', reader'.remaining, Pending')
      BY <1>1, <2>11, <3>1, <3>2, <3>3 DEF left
    <3> QED
      BY <1>1, <2>6, <2>11, <3>4, ExactAgain
  <2>12. CASE wanted # None /\ BeginSection(wanted, "return")
    <3>1. Or(nextLfs, wanted) = wanted
      BY <2>1 DEF Or
    <3>2. PICK out \in Outcomes(wanted) :
            \/ out # "ok" /\ Fail(out)
            \/ Fail("AnnouncedTooShort")
            \/ /\ out = "ok" /\ pc' = "return"
               /\ reader' = Advance(reader, wanted)
               /\ \E len \in Nat : /\ len <= Remaining - wanted
                                   /\ sections' = Append(Less(sections, wanted + len), len)
      BY <2>12, <3>1 DEF BeginSection
    <3>3. CASE out # "ok" /\ Fail(out)
      <4>1. CASE out = "TooShort"
        <5>1. Remaining < wanted
          BY <1>3, <2>8, <4>1, OutcomesShort
        <5>2. Remaining < Pending
          BY <2>1, <2>5, <2>8, <2>10, <5>1
        <5>3. frames' = frames /\ ~Running'
          BY <1>1, <3>3, <4>1 DEF Fail, Running
        <5>4. ComputedSectionsSuffice'
          BY <1>2, <5>2, <5>3, ShortIsAnnounced
        <5> QED
          BY <5>3, <5>4 DEF Kept, Exact
      <4>2. CASE out # "TooShort"
        <5>1. out \in Errors \cup Panics
          BY <1>3, <2>8, <3>3, OutcomesAre
        <5> QED
          BY <3>3, <4>2, <5>1, OtherFailure DEF Fail
      <4> QED
        BY <4>1, <4>2
    <3>4. CASE Fail("AnnouncedTooShort")
      BY <3>4, OtherFailure DEF Fail, Errors
    <3>5. ASSUME out = "ok", pc' = "return", reader' = Advance(reader, wanted),
                 NEW len \in Nat, len <= Remaining - wanted,
                 sections' = Append(Less(sections, wanted + len), len)
          PROVE  Kept
      <4>1. wanted + len <= Remaining /\ wanted <= left
        BY <2>8, <2>10, <3>5
      <4>2. f.section # "none"
        BY <1>6, <2>12 DEF StructSection
      <4>3. Exactly(opts, props, Append(frames, f), sections', left - wanted, 0)
        <5>1. Holds(frames, sections, left, 0) /\ wanted + len <= Left(sections, left)
          BY <1>3, <4>1 DEF left
        <5> QED
          BY <1>3, <1>5, <1>7, <2>5, <2>7, <2>8, <3>5, <4>2, <5>1, ExactOpens
      <4>4. reader'.remaining = left - wanted
        BY <1>3, <2>8, <3>5, <4>1, AdvanceReader DEF left, Ready, Usable
      <4>5. Pending' = 0
        BY <3>5 DEF Pending, InLeaf
      <4>6. Exactly(opts, props, frames', sections', reader'.remaining, Pending')
        BY <1>1, <3>5, <4>3, <4>4, <4>5
      <4> QED
        BY <1>1, <2>6, <3>5, <4>6, ExactAgain
    <3> QED
      BY <3>2, <3>3, <3>4, <3>5
  <2> QED
    BY <1>1, <2>9, <2>11, <2>12
<1> QED
  BY <1>8, <1>9

(* An access ends.                                                         *)
LEMMA CloseKeeps ==
    ASSUME IInv, IInv', Exact, pc = "return", frames # <<>>, frames' = Front(frames),
           opts' = opts, Computing => props' = props /\ RestOf(opts, props, Top) = 0,
           pc' = "return", reader' = reader,
           IF Top.section = "none" THEN sections' = sections
           ELSE Last(sections) = 0 /\ sections' = Front(sections)
    PROVE  Kept
<1> DEFINE left == reader.remaining
<1>1. Running /\ pc # "discard" /\ ~InLeaf /\ Leaf = 0
  BY DEF Running, InLeaf, Leaf
<1>2. Holds(frames, sections, left, 0) /\ frames \in Seq(Frame)
      /\ Len(frames) \in Nat /\ Len(frames) # 0 /\ Top = frames[Len(frames)]
  BY <1>1, HeldAre DEF Top
<1>3. /\ Len(Front(frames)) = Len(frames) - 1
      /\ \A k \in 1 .. Len(frames) - 1 : Front(frames)[k] = frames[k]
  BY <1>2, FrontIsSeq
<1>4. CASE ~Computing'
  BY <1>4, OutsideKeeps
<1>5. CASE Computing'
  <2>1. Computing
    BY <1>2, <1>3, <1>5 DEF Computing, Within
  <2>2. Pending = 0 /\ Pending' = 0
    BY DEF Pending, InLeaf
  <2>3. Exactly(opts, props, frames, sections, left, 0) /\ Within(frames, Len(frames))
    BY <1>1, <2>1, <2>2, TopIsSteady
  <2>4. Top.section # "none" => sections # <<>>
    BY SectionIsThere
  <2>5. Exactly(opts, props, Front(frames), sections', left, 0)
    <3>1. opts \in Options /\ props \in Properties /\ RestOf(opts, props, frames[Len(frames)]) = 0
      BY <1>2, <2>1 DEF IInv, TypeOK
    <3>2. IF frames[Len(frames)].section = "none" THEN sections' = sections
          ELSE sections # <<>> /\ Last(sections) = 0 /\ sections' = Front(sections)
      BY <1>2, <2>4
    <3> HIDE DEF left
    <3> QED
      BY <1>2, <2>3, <3>1, <3>2, ExactCloses
  <2>6. Exactly(opts, props, frames', sections', reader'.remaining, Pending')
    BY <2>2, <2>5
  <2> QED
    BY <2>1, <2>6, ExactAgain
<1> QED
  BY <1>4, <1>5

LEMMA EndsKeep ==
    ASSUME IInv, IInv', Exact, EndSeq \/ EndStruct
    PROVE  Kept
<1>1. /\ pc = "return" /\ frames # <<>> /\ frames' = Front(frames) /\ opts' = opts
  BY DEF EndSeq, EndStruct, AtSeq, AllFields, AtStruct
<1>2. Running
  BY <1>1 DEF Running
<1>3. opts \in Options /\ props \in Properties
  BY DEF IInv, TypeOK
<1>4. Top \in Frame /\ TopType = Types[Top.type] /\ Top.type \in TypeId
  BY <1>1, TopIsFrame DEF IInv
<1>5. CASE EndSeq
  <2>1. /\ TopType.kind = "seq" /\ ~Top.pending /\ props' = props
        /\ \/ Fail("NotEnoughData")
           \/ Top.count >= TopType.min /\ EndSection("return")
    BY <1>5 DEF EndSeq, AtSeq
  <2>2. CASE Fail("NotEnoughData") \/ Fail("NotAllBytesConsumed")
    BY <2>2, OtherFailure DEF Fail, Errors
  <2>3. CASE /\ Top.count >= TopType.min /\ Last(sections) = 0 /\ pc' = "return"
             /\ sections' = Front(sections) /\ reader' = reader
    <3>1. Top.section # "none"
      BY <1>1, <1>4, <2>1, TopIsFrame DEF IInv, SeqsHaveSections
    <3>2. Computing => RestOf(opts, props, Top) = 0
      BY <1>2, <1>3, <1>4, <2>1, <2>3, TopIsSteady, AccessEnds
    <3> QED
      BY <1>1, <2>1, <2>3, <3>1, <3>2, CloseKeeps
  <2> QED
    BY <2>1, <2>2, <2>3 DEF EndSection
<1>6. CASE EndStruct
  <2>1. /\ TopType.kind = "struct"
        /\ \/ Top.section # "none" /\ EndSection("return")
           \/ Top.section = "none" /\ UNCHANGED <<reader, sections, nextLfs, pc>>
        /\ props' = IF TopType.props.set THEN Top.orig ELSE props
        /\ TopType.tlv = FALSE => Top.count = Len(TopType.fields)
    BY <1>6 DEF EndStruct, AllFields, AtStruct
  <2>2. CASE Fail("NotAllBytesConsumed")
    BY <2>2, OtherFailure DEF Fail, Errors
  <2>3. Computing => props' = props /\ RestOf(opts, props, Top) = 0
    <3> SUFFICES ASSUME Computing
                 PROVE  props' = props /\ RestOf(opts, props, Top) = 0
      OBVIOUS
    <3>1. Steady(opts, props, Top) /\ ~HasProps(Top.type) /\ TopType.tlv = FALSE
      BY <1>2, <2>1, TopIsSteady
    <3>2. props' = props
      <4>1. TopType.props.set \in BOOLEAN
        <5>1. TopType \in SomeIpStruct
          BY <1>4, <2>1, TypeShapes
        <5> QED
          BY <5>1 DEF SomeIpStruct, Properties
      <4>2. ~TopType.props.set
        BY <1>4, <2>1, <3>1 DEF HasProps
      <4> QED
        BY <2>1, <4>2
    <3>3. RestOf(opts, props, Top) = 0
      BY <1>3, <1>4, <2>1, <3>1, AccessEnds
    <3> QED
      BY <3>2, <3>3
  <2>4. CASE /\ Top.section # "none" /\ Last(sections) = 0 /\ pc' = "return"
             /\ sections' = Front(sections) /\ reader' = reader
    BY <1>1, <2>3, <2>4, CloseKeeps
  <2>5. CASE Top.section = "none" /\ UNCHANGED <<reader, sections, nextLfs, pc>>
    BY <1>1, <2>3, <2>5, CloseKeeps
  <2> QED
    BY <2>1, <2>2, <2>4, <2>5 DEF EndSection
<1> QED
  BY <1>5, <1>6

(* The innermost access goes on, outside of computed sections.             *)
LEMMA TopOutside ==
    ASSUME IInv, IInv', ~Computing, frames # <<>>, NEW f \in Frame, f.section = Top.section,
           frames' = WithTop(frames, f)
    PROVE  Kept
<1>1. /\ frames \in Seq(Frame) /\ Top = frames[Len(frames)]
  BY DEF IInv, TypeOK, Top
<1>2. /\ Len(frames') = Len(frames)
      /\ \A i \in 1 .. Len(frames) : frames'[i] = IF i = Len(frames) THEN f ELSE frames[i]
  BY <1>1, TopExcept
<1>3. ~Computing'
  BY <1>1, <1>2 DEF Computing, Within
<1> QED
  BY <1>3, OutsideKeeps

LEMMA NextFieldKeeps ==
    ASSUME NoPropsInConst, IInv, IInv', Exact, NextField
    PROVE  Kept
<1> DEFINE f == [Top EXCEPT !.count = @ + 1]
           left == reader.remaining
           t == Types[Top.type].fields[Top.count + 1].type
<1>1. Top \in Frame /\ Top = frames[Len(frames)] /\ TopType = Types[Top.type] /\ Top.count \in Nat
  BY TopIsFrame DEF IInv, NextField, AtStruct
<1>2. /\ pc = "return" /\ frames # <<>> /\ Types[Top.type].kind = "struct"
      /\ Top.count < Len(Types[Top.type].fields)
      /\ frames' = [frames EXCEPT ![Len(frames)].count = @ + 1]
      /\ nextType' = t /\ pc' = "value"
      /\ UNCHANGED <<opts, reader, nextLfs, sections, props, todo, after>>
  BY <1>1 DEF NextField, AtStruct
<1>3. Running /\ pc # "discard" /\ ~InLeaf /\ Leaf = 0 /\ pc # "value"
  BY <1>2 DEF Running, InLeaf, Leaf
<1>4. /\ Holds(frames, sections, left, 0)
      /\ opts \in Options /\ props \in Properties /\ frames \in Seq(Frame)
      /\ Len(frames) \in 1 .. Len(frames)
  <2>1. Len(frames) \in Nat /\ Len(frames) # 0
    BY <1>2 DEF IInv, TypeOK
  <2> QED
    BY <1>3, <2>1, HeldAre
<1>5. f \in Frame /\ f.section = Top.section
  <2>1. Top.count + 1 \in Nat
    BY <1>1
  <2> QED
    BY <1>1, <2>1 DEF Frame
<1>6. frames' = WithTop(frames, f)
  BY <1>1, <1>2 DEF WithTop
<1>7. f = [Top EXCEPT !.count = @ + 1]
  OBVIOUS
<1> HIDE DEF f
<1>8. CASE ~Computing
  BY <1>2, <1>5, <1>6, <1>8, TopOutside
<1>9. CASE Computing
  <2>1. /\ Within(frames, Len(frames)) /\ Steady(opts, props, Top)
        /\ Exactly(opts, props, frames, sections, left, 0)
    <3>1. /\ Within(frames, Len(frames)) /\ Steady(opts, props, Top)
          /\ Exactly(opts, props, frames, sections, left, Pending)
      BY <1>3, <1>9, TopIsSteady
    <3>2. Pending = 0
      BY <1>3 DEF Pending
    <3> QED
      BY <3>1, <3>2
  <2>2. t = Types[Top.type].fields[Top.count + 1].type
    OBVIOUS
  <2> HIDE DEF t
  <2> DEFINE size == Size(opts, props, t)
  <2>3. /\ Steady(opts, props, f) /\ ConstValue(opts, props, t)
        /\ size \in Nat
        /\ size <= RestOf(opts, props, Top)
        /\ RestOf(opts, props, f) = RestOf(opts, props, Top) - size
    <3>1. Types[Top.type].kind = "struct" /\ Top.count < Len(Types[Top.type].fields)
      BY <1>2
    <3>2. opts \in Options /\ props \in Properties /\ Top \in Frame /\ Steady(opts, props, Top)
      BY <1>1, <1>4, <2>1
    <3> QED
      BY ONLY <1>5, <1>7, <2>2, <3>1, <3>2, NoPropsInConst, FieldBegins
  <2>4. Exactly(opts, props, WithTop(frames, f), sections, left, size)
    <3>1. f.section = frames[Len(frames)].section
      BY <1>1, <1>5
    <3> HIDE DEF left, size
    <3> QED
      BY <1>1, <1>2, <1>4, <1>5, <2>1, <2>3, <3>1, ExactSpends
  <2>5. Computing'
    <3>1. /\ Len(frames') = Len(frames)
          /\ \A i \in 1 .. Len(frames) : frames'[i] = IF i = Len(frames) THEN f ELSE frames[i]
      BY <1>1, <1>2, <1>4, <1>5, <1>6, TopExcept
    <3>2. \A i \in 1 .. Len(frames) : frames'[i].section = frames[i].section
      BY <1>1, <1>5, <3>1
    <3> QED
      BY <1>4, <2>1, <3>1, <3>2 DEF Computing, Within
  <2>6. Pending' = size
    BY <1>2, <2>5 DEF Pending
  <2>7. Exactly(opts, props, frames', sections', reader'.remaining, Pending')
    BY <1>2, <1>6, <2>4, <2>6
  <2> QED
    BY <1>2, <2>3, <2>7, ExactAgain
<1> QED
  BY <1>8, <1>9

(* A value in a computed section is no TLV struct.                         *)
LEMMA TagsKeep ==
    ASSUME IInv, IInv', Exact,
           TagUnreadable \/ NextKey \/ SkipFixed \/ SkipField
    PROVE  Kept
<1>1. Running
  BY DEF TagUnreadable, NextKey, SkipFixed, SkipField, AtStruct, Running
<1>2. ~Computing
  <2> SUFFICES ASSUME Computing
               PROVE  FALSE
    OBVIOUS
  <2>1. pc \notin {"skipFixed", "skipField"}
    BY <1>1 DEF Exact
  <2>2. TopType.kind = "struct" => TopType.tlv = FALSE
    BY <1>1, TopIsSteady
  <2> QED
    BY <2>1, <2>2 DEF TagUnreadable, NextKey, SkipFixed, SkipField, AtStruct
<1>3. CASE TagUnreadable \/ SkipFixed \/ SkipField
  <2>1. frames' = frames
    BY <1>3 DEF TagUnreadable, SkipFixed, SkipField
  <2> QED
    BY <1>2, <2>1, UnframedOutside
<1>4. CASE NextKey
  <2>1. frames # <<>>
    BY <1>4 DEF NextKey, AtStruct
  <2>2. Top \in Frame /\ Top = frames[Len(frames)] /\ frames \in Seq(Frame)
    BY <2>1, TopIsFrame DEF IInv, TypeOK
  <2>3. CASE frames' = frames
    BY <1>2, <2>3, UnframedOutside
  <2>4. ASSUME NEW i \in DOMAIN TopType.fields,
               frames' = [frames EXCEPT ![Len(frames)].seen = @ \cup {i}]
        PROVE  Kept
    <3> DEFINE f == [Top EXCEPT !.seen = @ \cup {i}]
    <3>1. frames' = WithTop(frames, f)
      BY <2>2, <2>4 DEF WithTop
    <3>2. i \in Nat
      <4>1. Types[Top.type] \in SomeIpStruct /\ TopType = Types[Top.type]
        BY <1>4, <2>1, TopIsFrame, TypeShapes DEF IInv, NextKey, AtStruct
      <4>2. TopType.fields \in Seq(Field)
        BY <4>1 DEF SomeIpStruct
      <4> QED
        BY <2>4, <4>2
    <3>3. f \in Frame
      <4>1. Top.seen \cup {i} \in SUBSET Nat
        BY <2>2, <3>2 DEF Frame
      <4> QED
        BY <2>2, <4>1 DEF Frame
    <3>4. f.section = Top.section
      BY <2>2 DEF Frame
    <3> HIDE DEF f
    <3> QED
      BY <1>2, <2>1, <3>1, <3>3, <3>4, TopOutside
  <2> QED
    BY <1>4, <2>3, <2>4 DEF NextKey, UnknownField, KnownField
<1> QED
  BY <1>3, <1>4

LEMMA NextKeepsExact ==
    ASSUME NoPropsInConst, IInv, IInv', SizeIsTaken, Exact, ComputedSectionsSuffice, [Next]_vars
    PROVE  Kept
<1>1. CASE UNCHANGED vars
  <2>1. Exact'
    BY <1>1 DEF vars, Exact, Pending, Computing, Running, InLeaf
  <2>2. ComputedSectionsSuffice'
    BY <1>1 DEF vars, ComputedSectionsSuffice
  <2> QED
    BY <2>1, <2>2 DEF Kept
<1>2. CASE DeserializeString \/ DeserializeStr \/ DeserializeBytes
  BY <1>2, LeafKeeps DEF DeserializeString, DeserializeStr, DeserializeBytes
<1> QED
  BY <1>1, <1>2, FixedKeeps, ReadsKeep, SkipKeeps, DiscardKeeps, EndLeafKeeps, OthersKeep,
     SeqKeeps, ElementsKeep, StructKeeps, EndsKeep, NextFieldKeeps, TagsKeep
     DEF Next, Step, Stopped

(* A section whose length is computed holds the value that it is for, so   *)
(* that Error::TooShort speaks of the data alone.  The types must not use  *)
(* message wrappers in TLV structs, nor transformation properties within a *)
(* type of constant size: the code computes the length of such a type      *)
(* without them and reads it with them.                                    *)
THEOREM ComputedSectionsAlwaysSuffice ==
    ASSUME NoWrapperInTlv, NoPropsInConst
    PROVE  Spec => []ComputedSectionsSuffice
<1> DEFINE IExact == SizeIsTaken /\ Exact /\ ComputedSectionsSuffice
<1>1. Init => IExact
  <2>1. ASSUME Init
        PROVE  /\ pc = "call" /\ nextLfs = None /\ frames = <<>>
    BY <2>1 DEF Init
  <2>2. ASSUME Init
        PROVE  ~Computing
    BY <2>1, <2>2 DEF Computing, Within
  <2> QED
    BY <2>1, <2>2 DEF SizeIsTaken, AnnouncedSizeIsFresh, Exact, ComputedSectionsSuffice
<1>2. IInv /\ IInv' /\ IExact /\ [Next]_vars => IExact'
  BY NextTakesSize, NextKeepsExact DEF Kept
<1>3. IExact => ComputedSectionsSuffice
  OBVIOUS
<1> HIDE DEF IExact
<1> QED
  BY <1>1, <1>2, <1>3, Invariant, PTL DEF Spec
=============================================================================
