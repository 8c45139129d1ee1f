---------------------- MODULE SerializerFramingProofs ----------------------
(***************************************************************************)
(* The serializer implements Framing, for all options, capacities and      *)
(* values and the types of SerializerTagProofs: whatever is reserved,      *)
(* shifted, patched and taken back in the buffer, what it holds between    *)
(* the open sections changes like nested segments that are only appended   *)
(* to and closed behind their length.                                      *)
(***************************************************************************)
EXTENDS SerializerTagProofs, SerializerFraming

----------------------------------------------------------------------------
(***************************************************************************)
(* The segments of a buffer.                                               *)
(***************************************************************************)

(* The offsets at which the k-th segment begins and ends.                  *)
StartOf(secs, k) == IF k = 0 THEN 0 ELSE EndOf(secs[k])
StopOf(secs, len, k) == IF k = Len(secs) THEN len ELSE secs[k + 1].pos

Cut(b, secs, k) == SubSeq(b, StartOf(secs, k) + 1, StopOf(secs, Len(b), k))
Cuts(b, secs) == [k \in 1 .. Len(secs) + 1 |-> Cut(b, secs, k - 1)]

(* Where the innermost segment begins.                                     *)
BodyStart(secs) == StartOf(secs, Len(secs))

(* They are what the refinement mapping says.                              *)
LEMMA SegmentsAreCuts ==
    /\ Running => Segments = Cuts(buf, sections)
    /\ ~Running => Segments = <<buf>>
<1>1. ASSUME NEW k
      PROVE  Segment(k) = Cut(buf, sections, k)
  <2>1. (IF k = 0 THEN 1 ELSE SectionEnd(k) + 1) = StartOf(sections, k) + 1
    <3>1. CASE k = 0
      BY <3>1 DEF StartOf
    <3>2. CASE k # 0
      BY <3>2 DEF StartOf, SectionEnd
    <3> QED
      BY <3>1, <3>2
  <2> QED
    BY <2>1 DEF Segment, Cut, StopOf
<1>2. [k \in 1 .. Len(sections) + 1 |-> Segment(k - 1)] = Cuts(buf, sections)
  BY ONLY <1>1 DEF Cuts
<1>3. Segments = IF Running THEN [k \in 1 .. Len(sections) + 1 |-> Segment(k - 1)]
                 ELSE <<buf>>
  BY Zenon DEF Segments
<1> QED
  BY ONLY <1>2, <1>3

(* Each of them lies between two sections.                                 *)
LEMMA CutLies ==
    ASSUME NEW from \in Nat, NEW secs \in Seq(Section), NEW b \in Seq(FitCell),
           Nested(from, secs, b), NEW k \in 0 .. Len(secs)
    PROVE  LET start == StartOf(secs, k)
               stop == StopOf(secs, Len(b), k)
           IN  /\ start \in Nat /\ stop \in Nat /\ start <= stop /\ stop <= Len(b)
               /\ Cut(b, secs, k) \in Seq(FitCell)
               /\ Len(Cut(b, secs, k)) = stop - start
               /\ \A i \in 1 .. stop - start : Cut(b, secs, k)[i] = b[start + i]
<1> DEFINE start == StartOf(secs, k)
           stop == StopOf(secs, Len(b), k)
<1>1. k \in Nat /\ k <= Len(secs) /\ Len(secs) \in Nat /\ Len(b) \in Nat
  OBVIOUS
<1>2. start \in Nat /\ start <= Len(b)
  <2>1. CASE k = 0
    BY <1>1, <2>1 DEF StartOf
  <2>2. CASE k # 0
    <3>1. k \in 1 .. Len(secs) /\ k \in DOMAIN secs
      BY <1>1, <2>2
    <3>2. EndOf(secs[k]) \in Nat /\ EndOf(secs[k]) <= Len(b)
      BY <3>1, SectionShape DEF Nested
    <3> QED
      BY <2>2, <3>2 DEF StartOf
  <2> QED
    BY <2>1, <2>2
<1>3. stop \in Nat /\ start <= stop /\ stop <= Len(b)
  <2>1. CASE k = Len(secs)
    BY <1>1, <1>2, <2>1 DEF StopOf
  <2>2. CASE k # Len(secs)
    <3>1. k + 1 \in 1 .. Len(secs) /\ k + 1 \in DOMAIN secs /\ k + 1 - 1 = k
      BY <1>1, <2>2
    <3>2. /\ secs[k + 1].pos \in Nat /\ secs[k + 1].reserved \in Nat
          /\ EndOf(secs[k + 1]) = secs[k + 1].pos + secs[k + 1].reserved
          /\ EndOf(secs[k + 1]) <= Len(b)
      BY <3>1, SectionShape DEF Nested
    <3>3. secs[k + 1].pos <= Len(b)
      BY <1>1, <3>2
    <3>4. start <= secs[k + 1].pos
      <4>1. CASE k = 0
        BY <3>2, <4>1 DEF StartOf
      <4>2. CASE k # 0
        <5>1. k \in 1 .. k + 1 - 1
          BY <1>1, <4>2
        <5> QED
          BY <3>1, <4>2, <5>1 DEF Nested, StartOf
      <4> QED
        BY <4>1, <4>2
    <3> QED
      BY <2>2, <3>2, <3>3, <3>4 DEF StopOf
  <2> QED
    BY <2>1, <2>2
<1>4. \A i \in start + 1 .. stop : b[i] \in FitCell
  <2> SUFFICES ASSUME NEW i \in start + 1 .. stop
               PROVE  b[i] \in FitCell
    OBVIOUS
  <2>1. i \in 1 .. Len(b)
    <3> HIDE DEF start, stop
    <3> QED
      BY <1>1, <1>2, <1>3
  <2> QED
    BY <2>1, ElementOfSeq
<1>5. Cut(b, secs, k) = SubSeq(b, start + 1, stop)
  BY DEF Cut
<1> HIDE DEF start, stop
<1>6. /\ SubSeq(b, start + 1, stop) \in Seq(FitCell)
      /\ Len(SubSeq(b, start + 1, stop)) = stop - start
      /\ \A i \in 1 .. stop - start : SubSeq(b, start + 1, stop)[i] = b[start + i]
  <2>1. start + 1 \in Int /\ stop \in Int /\ stop - (start + 1) + 1 = stop - start
    BY <1>2, <1>3
  <2>2. /\ SubSeq(b, start + 1, stop) \in Seq(FitCell)
        /\ Len(SubSeq(b, start + 1, stop))
             = IF start + 1 <= stop THEN stop - (start + 1) + 1 ELSE 0
        /\ \A i \in 1 .. stop - (start + 1) + 1 :
             SubSeq(b, start + 1, stop)[i] = b[start + 1 + i - 1]
    BY <1>4, <2>1, SubSeqProperties
  <2>3. Len(SubSeq(b, start + 1, stop)) = stop - start
    BY <1>2, <1>3, <2>2
  <2>4. \A i \in 1 .. stop - start : SubSeq(b, start + 1, stop)[i] = b[start + i]
    <3> SUFFICES ASSUME NEW i \in 1 .. stop - start
                 PROVE  SubSeq(b, start + 1, stop)[i] = b[start + i]
      OBVIOUS
    <3>1. start + 1 + i - 1 = start + i
      BY <1>2
    <3> QED
      BY <2>1, <2>2, <3>1
  <2> QED
    BY <2>2, <2>3, <2>4
<1> QED
  BY <1>2, <1>3, <1>5, <1>6 DEF start, stop

(* They are sequences of cells, one more than there are open sections.     *)
LEMMA CutsAreSegments ==
    ASSUME NEW from \in Nat, NEW secs \in Seq(Section), NEW b \in Seq(FitCell),
           Nested(from, secs, b)
    PROVE  /\ Cuts(b, secs) \in Seq(Seq(FitCell))
           /\ Len(Cuts(b, secs)) = Len(secs) + 1
           /\ Cuts(b, secs) # <<>>
           /\ \A k \in 1 .. Len(secs) + 1 : Cuts(b, secs)[k] = Cut(b, secs, k - 1)
           /\ Last(Cuts(b, secs)) = Cut(b, secs, Len(secs))
<1>1. Len(secs) \in Nat /\ Len(secs) + 1 \in Nat
  OBVIOUS
<1>2. \A k \in 1 .. Len(secs) + 1 : Cut(b, secs, k - 1) \in Seq(FitCell)
  <2> SUFFICES ASSUME NEW k \in 1 .. Len(secs) + 1
               PROVE  Cut(b, secs, k - 1) \in Seq(FitCell)
    OBVIOUS
  <2>1. k - 1 \in 0 .. Len(secs)
    BY <1>1
  <2> QED
    BY <2>1, CutLies
<1>3. Cuts(b, secs) = [k \in 1 .. Len(secs) + 1 |-> Cut(b, secs, k - 1)]
  BY DEF Cuts
<1>4. /\ Cuts(b, secs) \in [1 .. Len(secs) + 1 -> Seq(FitCell)]
      /\ \A k \in 1 .. Len(secs) + 1 : Cuts(b, secs)[k] = Cut(b, secs, k - 1)
  BY ONLY <1>2, <1>3
<1>5. Cuts(b, secs) \in Seq(Seq(FitCell)) /\ Len(Cuts(b, secs)) = Len(secs) + 1
  BY ONLY <1>1, <1>4, IsASeq, LenProperties
<1>6. Cuts(b, secs) # <<>>
  BY <1>1, <1>5
<1>7. Last(Cuts(b, secs)) = Cut(b, secs, Len(secs))
  <2>1. Len(secs) + 1 \in 1 .. Len(secs) + 1 /\ Len(secs) + 1 - 1 = Len(secs)
    BY <1>1
  <2> QED
    BY <1>4, <1>5, <2>1 DEF Last
<1> QED
  BY <1>4, <1>5, <1>6, <1>7

(* Two segments with the same cells.                                       *)
LEMMA SameCells ==
    ASSUME NEW s \in Seq(FitCell), NEW t \in Seq(FitCell), Len(s) = Len(t),
           \A i \in 1 .. Len(s) : s[i] = t[i]
    PROVE  s = t
BY SeqEqual

(* A segment stays what it is while its bounds and the bytes in front of   *)
(* its end stay.                                                           *)
LEMMA SameCut ==
    ASSUME NEW from \in Nat, NEW secs \in Seq(Section), NEW news \in Seq(Section),
           NEW b \in Seq(FitCell), NEW c \in Seq(FitCell),
           Nested(from, secs, b), Nested(from, news, c),
           NEW k \in 0 .. Len(secs), k \in 0 .. Len(news),
           StartOf(news, k) = StartOf(secs, k),
           StopOf(news, Len(c), k) = StopOf(secs, Len(b), k),
           \A i \in 1 .. StopOf(secs, Len(b), k) : c[i] = b[i]
    PROVE  Cut(c, news, k) = Cut(b, secs, k)
<1> DEFINE start == StartOf(secs, k)
           stop == StopOf(secs, Len(b), k)
           last == StopOf(news, Len(c), k)
           first == StartOf(news, k)
<1>1. /\ start \in Nat /\ stop \in Nat /\ start <= stop
      /\ Cut(b, secs, k) \in Seq(FitCell)
      /\ Len(Cut(b, secs, k)) = stop - start
      /\ \A i \in 1 .. stop - start : Cut(b, secs, k)[i] = b[start + i]
  BY ONLY CutLies, from \in Nat, secs \in Seq(Section), b \in Seq(FitCell),
          Nested(from, secs, b), k \in 0 .. Len(secs)
<1>2. /\ Cut(c, news, k) \in Seq(FitCell)
      /\ Len(Cut(c, news, k)) = last - first
      /\ \A i \in 1 .. last - first : Cut(c, news, k)[i] = c[first + i]
  BY ONLY CutLies, from \in Nat, news \in Seq(Section), c \in Seq(FitCell),
          Nested(from, news, c), k \in 0 .. Len(news)
<1>3. last = stop /\ first = start
  OBVIOUS
<1>4. \A i \in 1 .. stop : c[i] = b[i]
  OBVIOUS
<1> HIDE DEF start, stop, last, first
<1>5. \A i \in 1 .. stop - start : c[start + i] = b[start + i]
  <2> SUFFICES ASSUME NEW i \in 1 .. stop - start
               PROVE  c[start + i] = b[start + i]
    OBVIOUS
  <2>1. start + i \in 1 .. stop
    BY <1>1
  <2> QED
    BY <1>4, <2>1
<1>6. /\ Len(Cut(c, news, k)) = Len(Cut(b, secs, k))
      /\ \A i \in 1 .. Len(Cut(c, news, k)) : Cut(c, news, k)[i] = Cut(b, secs, k)[i]
  BY ONLY <1>1, <1>2, <1>3, <1>5
<1> QED
  BY ONLY <1>1, <1>2, <1>6, SameCells

(* All segments but the innermost end in front of it.                      *)
LEMMA StopsInFront ==
    ASSUME NEW from \in Nat, NEW secs \in Seq(Section), NEW b \in Seq(FitCell),
           Nested(from, secs, b), NEW k \in 0 .. Len(secs) - 1, NEW len
    PROVE  /\ k + 1 \in 1 .. Len(secs) /\ Len(secs) \in 1 .. Len(secs)
           /\ StopOf(secs, len, k) = secs[k + 1].pos
           /\ secs[k + 1].pos \in Nat /\ secs[Len(secs)].pos \in Nat
           /\ secs[k + 1].pos <= secs[Len(secs)].pos
           /\ BodyStart(secs) = EndOf(secs[Len(secs)])
           /\ BodyStart(secs) \in Nat
           /\ secs[Len(secs)].pos <= BodyStart(secs)
<1>1. k \in 0 .. Len(secs) /\ k # Len(secs) /\ k + 1 \in 1 .. Len(secs)
      /\ Len(secs) \in 1 .. Len(secs) /\ Len(secs) # 0 /\ Len(secs) \in Nat /\ k \in Nat
  OBVIOUS
<1>2. StopOf(secs, len, k) = secs[k + 1].pos
  BY <1>1 DEF StopOf
<1>3. /\ secs[Len(secs)].pos \in Nat /\ secs[Len(secs)].reserved \in Nat
      /\ EndOf(secs[Len(secs)]) = secs[Len(secs)].pos + secs[Len(secs)].reserved
      /\ secs[k + 1].pos \in Nat /\ secs[k + 1].reserved \in Nat
      /\ EndOf(secs[k + 1]) = secs[k + 1].pos + secs[k + 1].reserved
  BY <1>1, SectionShape
<1>4. k + 1 = Len(secs) \/ k + 1 \in 1 .. Len(secs) - 1
  BY <1>1
<1>5. k + 1 \in 1 .. Len(secs) - 1 => EndOf(secs[k + 1]) <= secs[Len(secs)].pos
  BY <1>1 DEF Nested
<1>6. BodyStart(secs) = EndOf(secs[Len(secs)])
  BY <1>1 DEF BodyStart, StartOf
<1>7. secs[k + 1].pos <= secs[Len(secs)].pos
  <2>1. CASE k + 1 = Len(secs)
    BY ONLY <1>3, <2>1
  <2>2. CASE k + 1 \in 1 .. Len(secs) - 1
    BY ONLY <1>3, <1>5, <2>2
  <2> QED
    BY <1>4, <2>1, <2>2
<1>8. BodyStart(secs) \in Nat /\ secs[Len(secs)].pos <= BodyStart(secs)
  <2> DEFINE p == secs[Len(secs)].pos
             r == secs[Len(secs)].reserved
  <2>1. p \in Nat /\ r \in Nat /\ BodyStart(secs) = p + r
    BY <1>3, <1>6
  <2> HIDE DEF p, r
  <2>2. BodyStart(secs) \in Nat /\ p <= BodyStart(secs)
    BY ONLY <2>1
  <2> QED
    BY <2>2 DEF p
<1> QED
  BY ONLY <1>1, <1>2, <1>3, <1>6, <1>7, <1>8

(* What is behind the last section belongs to the innermost segment, which *)
(* alone can change when the bytes in front of it stay.                    *)
LEMMA CutsChangeBehind ==
    ASSUME NEW from \in Nat, NEW secs \in Seq(Section),
           NEW b \in Seq(FitCell), NEW c \in Seq(FitCell),
           Nested(from, secs, b), Nested(from, secs, c),
           \A i \in 1 .. BodyStart(secs) : c[i] = b[i]
    PROVE  \A k \in 0 .. Len(secs) - 1 : Cut(c, secs, k) = Cut(b, secs, k)
<1> SUFFICES ASSUME NEW k \in 0 .. Len(secs) - 1
             PROVE  Cut(c, secs, k) = Cut(b, secs, k)
  OBVIOUS
<1> DEFINE stop == secs[k + 1].pos
<1>1. /\ StopOf(secs, Len(b), k) = stop /\ StopOf(secs, Len(c), k) = stop
      /\ stop \in Nat /\ BodyStart(secs) \in Nat /\ stop <= BodyStart(secs)
  <2>1. \A len : /\ StopOf(secs, len, k) = secs[k + 1].pos
                 /\ secs[k + 1].pos \in Nat /\ secs[Len(secs)].pos \in Nat
                 /\ secs[k + 1].pos <= secs[Len(secs)].pos
                 /\ BodyStart(secs) \in Nat /\ secs[Len(secs)].pos <= BodyStart(secs)
    BY StopsInFront
  <2> HIDE DEF stop
  <2>2. \A len : StopOf(secs, len, k) = stop
    BY <2>1 DEF stop
  <2>3. /\ stop \in Nat /\ secs[Len(secs)].pos \in Nat /\ stop <= secs[Len(secs)].pos
        /\ BodyStart(secs) \in Nat /\ secs[Len(secs)].pos <= BodyStart(secs)
    BY <2>1 DEF stop
  <2> QED
    BY ONLY <2>2, <2>3
<1>2. k \in 0 .. Len(secs)
  OBVIOUS
<1> HIDE DEF stop
<1>3. \A i \in 1 .. StopOf(secs, Len(b), k) : c[i] = b[i]
  BY <1>1
<1> QED
  BY <1>1, <1>2, <1>3, SameCut

(* Seen as segments.                                                       *)
LEMMA BodyChanges ==
    ASSUME NEW from \in Nat, NEW secs \in Seq(Section),
           NEW b \in Seq(FitCell), NEW c \in Seq(FitCell),
           Nested(from, secs, b), Nested(from, secs, c),
           \A i \in 1 .. BodyStart(secs) : c[i] = b[i]
    PROVE  /\ Len(Cuts(c, secs)) = Len(Cuts(b, secs))
           /\ Front(Cuts(c, secs)) = Front(Cuts(b, secs))
           /\ Cuts(c, secs)
                = [Cuts(b, secs) EXCEPT ![Len(Cuts(b, secs))] = Cut(c, secs, Len(secs))]
<1> DEFINE B == Cuts(b, secs)
           C == Cuts(c, secs)
           n == Len(secs) + 1
<1>1. /\ B \in Seq(Seq(FitCell)) /\ Len(B) = n
      /\ \A k \in 1 .. n : B[k] = Cut(b, secs, k - 1)
      /\ C \in Seq(Seq(FitCell)) /\ Len(C) = n
      /\ \A k \in 1 .. n : C[k] = Cut(c, secs, k - 1)
      /\ B # <<>> /\ C # <<>>
  BY CutsAreSegments
<1>2. n \in Nat /\ n >= 1 /\ n - 1 = Len(secs)
  OBVIOUS
<1>3. \A k \in 1 .. n - 1 : C[k] = B[k]
  <2> SUFFICES ASSUME NEW k \in 1 .. n - 1
               PROVE  C[k] = B[k]
    OBVIOUS
  <2>1. k - 1 \in 0 .. Len(secs) - 1 /\ k \in 1 .. n
    BY <1>2
  <2> HIDE DEF B, C, n
  <2> QED
    BY <1>1, <2>1, CutsChangeBehind
<1>4. Cut(c, secs, Len(secs)) = C[n]
  BY <1>1, <1>2
<1> HIDE DEF B, C, n
<1>5. Front(C) = Front(B)
  <2>1. /\ Front(B) \in Seq(Seq(FitCell)) /\ Len(Front(B)) = n - 1
        /\ \A k \in 1 .. n - 1 : Front(B)[k] = B[k]
        /\ Front(C) \in Seq(Seq(FitCell)) /\ Len(Front(C)) = n - 1
        /\ \A k \in 1 .. n - 1 : Front(C)[k] = C[k]
    BY <1>1, FrontIsSeq
  <2>2. \A k \in 1 .. Len(Front(C)) : Front(C)[k] = Front(B)[k]
    BY <1>3, <2>1
  <2> QED
    BY ONLY <2>1, <2>2, SeqEqual
<1>6. C = [B EXCEPT ![n] = C[n]]
  <2> DEFINE D == [B EXCEPT ![n] = C[n]]
  <2>1. n \in 1 .. n /\ \A k \in 1 .. n : k # n => k \in 1 .. n - 1
    BY <1>2
  <2>2. C[n] \in Seq(FitCell)
    BY <1>1, <2>1, ElementOfSeq
  <2>3. D \in Seq(Seq(FitCell)) /\ Len(D) = n /\ \A k \in 1 .. n : D[k] = C[k]
    BY <1>1, <1>2, <1>3, <2>1, <2>2
  <2> HIDE DEF D
  <2>4. C = D
    BY ONLY <1>1, <2>3, SeqEqual
  <2> QED
    BY <2>4 DEF D
<1>7. Len(C) = Len(B) /\ Len(B) = n
  BY <1>1
<1>8. C = [B EXCEPT ![Len(B)] = Cut(c, secs, Len(secs))]
  BY ONLY <1>4, <1>6, <1>7, Zenon
<1> QED
  BY ONLY <1>5, <1>7, <1>8, Zenon DEF B, C

(* The innermost segment reaches to the end of the buffer.                 *)
LEMMA BodyLies ==
    ASSUME NEW from \in Nat, NEW secs \in Seq(Section), NEW b \in Seq(FitCell),
           Nested(from, secs, b)
    PROVE  LET start == BodyStart(secs)
               body == Cut(b, secs, Len(secs))
           IN  /\ start \in Nat /\ start <= Len(b)
               /\ body \in Seq(FitCell)
               /\ Len(body) = Len(b) - start
               /\ \A i \in 1 .. Len(b) - start : body[i] = b[start + i]
<1> DEFINE k == Len(secs)
<1>1. k \in 0 .. Len(secs)
  OBVIOUS
<1>2. StopOf(secs, Len(b), k) = Len(b) /\ BodyStart(secs) = StartOf(secs, k)
  BY DEF StopOf, BodyStart
<1> HIDE DEF k
<1>3. /\ StartOf(secs, k) \in Nat /\ StartOf(secs, k) <= StopOf(secs, Len(b), k)
      /\ Cut(b, secs, k) \in Seq(FitCell)
      /\ Len(Cut(b, secs, k)) = StopOf(secs, Len(b), k) - StartOf(secs, k)
      /\ \A i \in 1 .. StopOf(secs, Len(b), k) - StartOf(secs, k) :
           Cut(b, secs, k)[i] = b[StartOf(secs, k) + i]
  BY <1>1, CutLies
<1> QED
  BY ONLY <1>2, <1>3 DEF k

(* Bytes that are written become the end of the innermost segment.         *)
LEMMA CutGrows ==
    ASSUME NEW from \in Nat, NEW secs \in Seq(Section),
           NEW b \in Seq(FitCell), NEW cells \in Seq(FitCell), Nested(from, secs, b)
    PROVE  /\ Nested(from, secs, b \o cells)
           /\ Cut(b \o cells, secs, Len(secs)) = Cut(b, secs, Len(secs)) \o cells
<1> DEFINE c == b \o cells
           start == BodyStart(secs)
           body == Cut(b, secs, Len(secs))
<1>1. /\ c \in Seq(FitCell) /\ Len(c) = Len(b) + Len(cells)
      /\ Len(c) \in Nat /\ Len(b) \in Nat /\ Len(cells) \in Nat
      /\ \A i \in 1 .. Len(b) : c[i] = b[i]
      /\ \A i \in Len(b) + 1 .. Len(c) : c[i] = cells[i - Len(b)]
  BY Concatenated
<1> HIDE DEF c
<1>2. Nested(from, secs, c)
  BY <1>1, NestedWhenLonger
<1>4. /\ start \in Nat /\ start <= Len(b)
      /\ body \in Seq(FitCell) /\ Len(body) = Len(b) - start
      /\ \A i \in 1 .. Len(b) - start : body[i] = b[start + i]
  BY BodyLies
<1>5. /\ Cut(c, secs, Len(secs)) \in Seq(FitCell)
      /\ Len(Cut(c, secs, Len(secs))) = Len(c) - start
      /\ \A i \in 1 .. Len(c) - start : Cut(c, secs, Len(secs))[i] = c[start + i]
  BY <1>1, <1>2, BodyLies
<1> HIDE DEF start, body
<1> DEFINE joined == body \o cells
<1>6. /\ joined \in Seq(FitCell)
      /\ Len(joined) = Len(b) - start + Len(cells)
      /\ \A i \in 1 .. Len(body) : joined[i] = body[i]
      /\ \A i \in Len(body) + 1 .. Len(joined) :
           joined[i] = cells[i - Len(body)]
  BY <1>4, Concatenated
<1> HIDE DEF joined
<1>7. ASSUME NEW i \in 1 .. Len(c) - start
      PROVE  joined[i] = c[start + i]
  <2>1. CASE i <= Len(b) - start
    <3>1. i \in 1 .. Len(body) /\ i \in 1 .. Len(b) - start /\ start + i \in 1 .. Len(b)
      BY <1>1, <1>4, <2>1
    <3> QED
      BY <1>1, <1>4, <1>6, <3>1
  <2>2. CASE ~(i <= Len(b) - start)
    <3>1. /\ i \in Len(body) + 1 .. Len(joined) /\ start + i \in Len(b) + 1 .. Len(c)
          /\ i - Len(body) = (start + i) - Len(b)
      BY <1>1, <1>4, <1>6, <2>2
    <3> DEFINE j == i - Len(body)
               k == start + i
    <3>2. joined[i] = cells[j] /\ j = k - Len(b) /\ k \in Len(b) + 1 .. Len(c)
      BY <1>6, <3>1
    <3> HIDE DEF j, k
    <3>3. c[k] = cells[k - Len(b)]
      BY ONLY <1>1, <3>2
    <3>4. c[k] = joined[i]
      BY ONLY <3>2, <3>3
    <3> QED
      BY <3>4 DEF k
  <2> QED
    BY <2>1, <2>2
<1>8. /\ Len(Cut(c, secs, Len(secs))) = Len(joined)
      /\ \A i \in 1 .. Len(Cut(c, secs, Len(secs))) :
           Cut(c, secs, Len(secs))[i] = joined[i]
  BY <1>1, <1>4, <1>5, <1>6, <1>7
<1>9. Cut(c, secs, Len(secs)) = joined
  BY ONLY <1>5, <1>6, <1>8, SameCells
<1> QED
  BY <1>2, <1>9 DEF c, body, joined

(* A section that is begun opens an empty segment.                         *)
LEMMA CutsOpen ==
    ASSUME NEW from \in Nat, NEW secs \in Seq(Section), NEW sec \in Section,
           NEW b \in Seq(FitCell), NEW c \in Seq(FitCell),
           sec.pos = Len(b), EndOf(sec) = Len(c), \A i \in 1 .. Len(b) : c[i] = b[i],
           Nested(from, secs, b), Nested(from, Append(secs, sec), c)
    PROVE  Cuts(c, Append(secs, sec)) = Append(Cuts(b, secs), <<>>)
<1> DEFINE news == Append(secs, sec)
           n == Len(secs)
           B == Cuts(b, secs)
           C == Cuts(c, news)
<1>1. /\ news \in Seq(Section) /\ Len(news) = n + 1 /\ n \in Nat
      /\ \A k \in 1 .. n : news[k] = secs[k]
      /\ news[n + 1] = sec
  BY AppendProperties
<1>2. /\ B \in Seq(Seq(FitCell)) /\ Len(B) = n + 1
      /\ \A k \in 1 .. n + 1 : B[k] = Cut(b, secs, k - 1)
  BY CutsAreSegments
<1> HIDE DEF news, B
<1>3. Nested(from, news, c)
  BY DEF news
<1>4. /\ C \in Seq(Seq(FitCell)) /\ Len(C) = n + 2
      /\ \A k \in 1 .. n + 2 : C[k] = Cut(c, news, k - 1)
  <2>1. /\ C \in Seq(Seq(FitCell)) /\ Len(C) = Len(news) + 1
        /\ \A k \in 1 .. Len(news) + 1 : C[k] = Cut(c, news, k - 1)
    BY <1>1, <1>3, CutsAreSegments
  <2>2. Len(news) + 1 = n + 2
    BY <1>1
  <2> QED
    BY ONLY <2>1, <2>2
<1> HIDE DEF C, n
<1>5. ASSUME NEW k \in 0 .. n
      PROVE  Cut(c, news, k) = Cut(b, secs, k)
  <2>1. k \in 0 .. Len(secs) /\ k \in 0 .. Len(news) /\ k # Len(news)
    BY <1>1 DEF n
  <2>2. StartOf(news, k) = StartOf(secs, k)
    <3>1. k = 0 \/ k \in 1 .. n
      BY <1>1
    <3> QED
      BY <1>1, <3>1 DEF StartOf
  <2>3. StopOf(news, Len(c), k) = StopOf(secs, Len(b), k)
    <3>1. StopOf(news, Len(c), k) = news[k + 1].pos
      BY <2>1 DEF StopOf
    <3>2. CASE k = n
      BY <1>1, <3>1, <3>2 DEF StopOf, n
    <3>3. CASE k # n
      <4>1. k + 1 \in 1 .. n
        BY <1>1, <3>3
      <4> QED
        BY <1>1, <3>1, <3>3, <4>1 DEF StopOf, n
    <3> QED
      BY <3>2, <3>3
  <2>4. \A i \in 1 .. StopOf(secs, Len(b), k) : c[i] = b[i]
    <3>1. StopOf(secs, Len(b), k) \in Nat /\ StopOf(secs, Len(b), k) <= Len(b)
      BY <2>1, CutLies
    <3> QED
      BY <3>1
  <2> QED
    BY ONLY <1>1, <1>3, <2>1, <2>2, <2>3, <2>4, SameCut, from \in Nat,
            secs \in Seq(Section), b \in Seq(FitCell), c \in Seq(FitCell), Nested(from, secs, b)
<1>6. Cut(c, news, n + 1) = <<>>
  <2>1. BodyStart(news) = Len(c)
    BY <1>1 DEF BodyStart, StartOf
  <2>2. /\ Cut(c, news, n + 1) \in Seq(FitCell)
        /\ Len(Cut(c, news, n + 1)) = Len(c) - BodyStart(news)
    BY <1>1, <1>3, BodyLies
  <2>3. Len(Cut(c, news, n + 1)) = 0
    BY <2>1, <2>2
  <2> QED
    BY <2>2, <2>3, EmptySeq
<1>7. /\ Append(B, <<>>) \in Seq(Seq(FitCell)) /\ Len(Append(B, <<>>)) = n + 2
      /\ \A k \in 1 .. n + 1 : Append(B, <<>>)[k] = B[k]
      /\ Append(B, <<>>)[n + 2] = <<>>
  <2>1. <<>> \in Seq(FitCell)
    OBVIOUS
  <2> QED
    BY <1>1, <1>2, <2>1, AppendProperties
<1>8. ASSUME NEW k \in 1 .. n + 2
      PROVE  C[k] = Append(B, <<>>)[k]
  <2>1. CASE k = n + 2
    <3>1. k - 1 = n + 1
      BY <1>1, <2>1
    <3> QED
      BY <1>4, <1>6, <1>7, <2>1, <3>1
  <2>2. CASE k # n + 2
    <3>1. k \in 1 .. n + 1 /\ k - 1 \in 0 .. n
      BY <1>1, <2>2
    <3> QED
      BY <1>2, <1>4, <1>5, <1>7, <3>1
  <2> QED
    BY <2>1, <2>2
<1>9. C = Append(B, <<>>)
  BY ONLY <1>4, <1>7, <1>8, SeqEqual
<1> QED
  BY <1>9 DEF C, B, news

(* The length that a section is ended with fits its length field.          *)
LEMMA PatchedFits ==
    ASSUME NEW b \in Seq(FitCell), NEW c \in Seq(FitCell), NEW pos \in Nat,
           NEW actual \in LengthFieldSize, NEW d \in Nat, NEW len \in Nat,
           Patched(b, c, pos, actual, d, len)
    PROVE  len <= Capacity(actual)
<1>1. actual \in Nat /\ 1 <= actual
  BY DEF LengthFieldSize
<1>2. pos + 1 \in pos + 1 .. pos + actual /\ pos + 1 \in 1 .. Len(c)
  <2>1. pos + actual + d <= Len(b) /\ Len(c) = Len(b) - d /\ Len(b) \in Nat
    BY DEF Patched
  <2> QED
    BY <1>1, <2>1
<1>3. c[pos + 1] = [kind |-> "len", val |-> len, part |-> pos + 1 - pos, of |-> actual]
  BY <1>2 DEF Patched
<1>4. c[pos + 1] \in FitCell
  BY <1>2, ElementOfSeq
<1> QED
  BY <1>3, <1>4 DEF FitCell

(* A length and what is behind it.                                         *)
LEMMA FramedCells ==
    ASSUME NEW actual \in LengthFieldSize, NEW body \in Seq(FitCell),
           Len(body) <= Capacity(actual)
    PROVE  LET framed == LengthBytes(actual, Len(body)) \o body
           IN  /\ framed \in Seq(FitCell)
               /\ Len(framed) = actual + Len(body)
               /\ \A i \in 1 .. actual :
                    framed[i] = [kind |-> "len", val |-> Len(body), part |-> i, of |-> actual]
               /\ \A i \in actual + 1 .. actual + Len(body) : framed[i] = body[i - actual]
<1> DEFINE bytes == LengthBytes(actual, Len(body))
           framed == bytes \o body
<1>1. Len(body) \in Nat /\ actual \in Nat
  BY DEF LengthFieldSize
<1>2. bytes \in Seq(FitCell) /\ Len(bytes) = actual
  BY <1>1, LengthBytesAreFit
<1>3. \A i \in 1 .. actual :
        bytes[i] = [kind |-> "len", val |-> Len(body), part |-> i, of |-> actual]
  BY DEF LengthBytes, Bytes
<1> HIDE DEF bytes
<1>4. /\ framed \in Seq(FitCell) /\ Len(framed) = Len(bytes) + Len(body)
      /\ \A i \in 1 .. Len(bytes) : framed[i] = bytes[i]
      /\ \A i \in Len(bytes) + 1 .. Len(framed) : framed[i] = body[i - Len(bytes)]
  BY <1>2, Concatenated
<1> HIDE DEF framed
<1>5. \A i \in 1 .. actual :
        framed[i] = [kind |-> "len", val |-> Len(body), part |-> i, of |-> actual]
  BY ONLY <1>2, <1>3, <1>4
<1>6. \A i \in actual + 1 .. actual + Len(body) : framed[i] = body[i - actual]
  BY ONLY <1>2, <1>4
<1> QED
  BY <1>2, <1>4, <1>5, <1>6 DEF framed, bytes

(* The innermost section is ended with a length field of another size.     *)
Closes(from, secs, b, c, pos, actual, d, len) ==
    /\ from \in Nat /\ secs \in Seq(Section) /\ secs # <<>>
    /\ b \in Seq(FitCell) /\ c \in Seq(FitCell)
    /\ pos \in Nat /\ actual \in LengthFieldSize /\ d \in Nat /\ len \in Nat
    /\ pos = secs[Len(secs)].pos /\ EndOf(secs[Len(secs)]) = pos + actual + d
    /\ Nested(from, secs, b) /\ Nested(from, Front(secs), c)
    /\ Patched(b, c, pos, actual, d, len) /\ len = Len(b) - (pos + actual + d)

(* Ending a section puts its segment, behind its length, at the end of the *)
(* one around it.                                                          *)
LEMMA CutCloses ==
    ASSUME NEW from, NEW secs, NEW b, NEW c, NEW pos, NEW actual, NEW d, NEW len,
           Closes(from, secs, b, c, pos, actual, d, len)
    PROVE  LET body == Cut(b, secs, Len(secs))
               outer == Cut(b, secs, Len(secs) - 1)
           IN  /\ body \in Seq(FitCell) /\ outer \in Seq(FitCell)
               /\ Len(body) = len /\ len <= Capacity(actual)
               /\ Cut(c, Front(secs), Len(secs) - 1)
                    = outer \o (LengthBytes(actual, len) \o body)
<1> SUFFICES ASSUME from \in Nat, secs \in Seq(Section), secs # <<>>,
                    b \in Seq(FitCell), c \in Seq(FitCell),
                    pos \in Nat, actual \in LengthFieldSize, d \in Nat, len \in Nat,
                    pos = secs[Len(secs)].pos, EndOf(secs[Len(secs)]) = pos + actual + d,
                    Nested(from, secs, b), Nested(from, Front(secs), c),
                    Patched(b, c, pos, actual, d, len), len = Len(b) - (pos + actual + d)
             PROVE  LET body == Cut(b, secs, Len(secs))
                        outer == Cut(b, secs, Len(secs) - 1)
                    IN  /\ body \in Seq(FitCell) /\ outer \in Seq(FitCell)
                        /\ Len(body) = len /\ len <= Capacity(actual)
                        /\ Cut(c, Front(secs), Len(secs) - 1)
                             = outer \o (LengthBytes(actual, len) \o body)
  BY Zenon DEF Closes
<1> DEFINE n == Len(secs)
           front == Front(secs)
           body == Cut(b, secs, n)
           outer == Cut(b, secs, n - 1)
           start == StartOf(secs, n - 1)
           framed == LengthBytes(actual, len) \o body
           joined == outer \o framed
           inner == Cut(c, front, n - 1)
<1>1. /\ n \in Nat /\ n # 0 /\ n - 1 \in 0 .. n /\ n - 1 # n /\ (n - 1) + 1 = n
      /\ n \in 1 .. n /\ (n - 1 = 0 \/ n - 1 \in 1 .. n - 1)
      /\ front \in Seq(Section) /\ Len(front) = n - 1
      /\ \A k \in 1 .. n - 1 : front[k] = secs[k]
  <2>1. n \in Nat /\ n # 0
    OBVIOUS
  <2>2. /\ front \in Seq(Section) /\ Len(front) = n - 1
        /\ \A k \in 1 .. n - 1 : front[k] = secs[k]
    BY FrontIsSeq
  <2> HIDE DEF n, front
  <2> QED
    BY <2>1, <2>2
<1>2. /\ pos \in Nat /\ d \in Nat /\ len \in Nat /\ actual \in Nat /\ 1 <= actual
      /\ Len(b) \in Nat /\ Len(c) \in Nat
  BY DEF LengthFieldSize
<1>3. BodyStart(secs) = pos + actual + d
  BY <1>1 DEF BodyStart, StartOf
<1>4. /\ body \in Seq(FitCell) /\ Len(body) = len
      /\ \A i \in 1 .. len : body[i] = b[(pos + actual + d) + i]
  <2>1. /\ body \in Seq(FitCell) /\ Len(body) = Len(b) - BodyStart(secs)
        /\ \A i \in 1 .. Len(b) - BodyStart(secs) : body[i] = b[BodyStart(secs) + i]
    BY BodyLies
  <2> QED
    BY ONLY <1>3, <2>1, len = Len(b) - (pos + actual + d)
<1>5. /\ start \in Nat /\ start <= pos
      /\ outer \in Seq(FitCell) /\ Len(outer) = pos - start
      /\ \A i \in 1 .. pos - start : outer[i] = b[start + i]
  <2>1. StopOf(secs, Len(b), n - 1) = pos
    BY <1>1 DEF StopOf
  <2>2. /\ start \in Nat /\ start <= StopOf(secs, Len(b), n - 1)
        /\ outer \in Seq(FitCell) /\ Len(outer) = StopOf(secs, Len(b), n - 1) - start
        /\ \A i \in 1 .. StopOf(secs, Len(b), n - 1) - start : outer[i] = b[start + i]
    <3>1. n - 1 \in 0 .. Len(secs)
      BY <1>1
    <3> QED
      BY ONLY <3>1, CutLies, from \in Nat, secs \in Seq(Section), b \in Seq(FitCell),
              Nested(from, secs, b)
  <2> QED
    BY ONLY <2>1, <2>2
<1>6. /\ inner \in Seq(FitCell) /\ Len(inner) = Len(c) - start
      /\ \A i \in 1 .. Len(c) - start : inner[i] = c[start + i]
  <2>1. BodyStart(front) = start
    <3>1. BodyStart(front) = IF n - 1 = 0 THEN 0 ELSE EndOf(front[n - 1])
      BY <1>1 DEF BodyStart, StartOf
    <3> HIDE DEF n, front
    <3>2. start = IF n - 1 = 0 THEN 0 ELSE EndOf(secs[n - 1])
      BY DEF start, StartOf
    <3>3. n - 1 = 0 \/ front[n - 1] = secs[n - 1]
      BY <1>1
    <3> QED
      BY ONLY <3>1, <3>2, <3>3
  <2>2. /\ inner \in Seq(FitCell) /\ Len(inner) = Len(c) - BodyStart(front)
        /\ \A i \in 1 .. Len(c) - BodyStart(front) : inner[i] = c[BodyStart(front) + i]
    <3> HIDE DEF front
    <3>1. Nested(from, front, c)
      BY DEF front
    <3>2. inner = Cut(c, front, Len(front))
      BY <1>1
    <3> HIDE DEF inner
    <3> QED
      BY <1>1, <3>1, <3>2, BodyLies
  <2> QED
    BY ONLY <2>1, <2>2
<1>7. len <= Capacity(actual)
  BY PatchedFits
<1>8. /\ framed \in Seq(FitCell) /\ Len(framed) = actual + len
      /\ \A i \in 1 .. actual :
           framed[i] = [kind |-> "len", val |-> len, part |-> i, of |-> actual]
      /\ \A i \in actual + 1 .. actual + len : framed[i] = body[i - actual]
  <2> HIDE DEF body
  <2>1. Len(body) <= Capacity(actual) /\ body \in Seq(FitCell) /\ Len(body) = len
    BY <1>4, <1>7
  <2> QED
    BY ONLY <2>1, FramedCells, actual \in LengthFieldSize
<1>9. /\ pos + actual + d <= Len(b) /\ Len(c) = Len(b) - d
      /\ \A i \in 1 .. pos : c[i] = b[i]
      /\ \A i \in pos + 1 .. pos + actual :
           c[i] = [kind |-> "len", val |-> len, part |-> i - pos, of |-> actual]
      /\ \A i \in pos + actual + 1 .. Len(c) : c[i] = b[i + d]
  BY DEF Patched
<1>10. len = Len(b) - (pos + actual + d)
  OBVIOUS
<1> HIDE DEF n, front, body, outer, start, framed, inner
<1>11. /\ joined \in Seq(FitCell) /\ Len(joined) = Len(outer) + Len(framed)
       /\ \A i \in 1 .. Len(outer) : joined[i] = outer[i]
       /\ \A i \in Len(outer) + 1 .. Len(joined) : joined[i] = framed[i - Len(outer)]
  BY <1>5, <1>8, Concatenated
<1> HIDE DEF joined
<1>12. /\ Len(c) = (pos + actual) + len /\ start \in Nat /\ pos - start \in Nat
       /\ Len(outer) = pos - start /\ Len(inner) = ((pos - start) + actual) + len
       /\ Len(joined) = Len(inner)
  <2> DEFINE lb == Len(b)
             lc == Len(c)
             lo == Len(outer)
             lf == Len(framed)
             lj == Len(joined)
             li == Len(inner)
  <2>1. lb \in Nat /\ lc \in Nat /\ lc = lb - d /\ len = lb - (pos + actual + d)
    BY <1>2, <1>9, <1>10
  <2>2. lo = pos - start /\ lf = actual + len /\ lj = lo + lf /\ li = lc - start
    BY <1>5, <1>6, <1>8, <1>11
  <2>3. start \in Nat /\ start <= pos
    BY <1>5
  <2> HIDE DEF lb, lc, lo, lf, lj, li
  <2>4. lc = (pos + actual) + len
    BY ONLY <1>2, <2>1
  <2>5. pos - start \in Nat /\ li = ((pos - start) + actual) + len
    BY ONLY <1>2, <2>2, <2>3, <2>4
  <2>6. lj = li
    <3>1. lj = (pos - start) + (actual + len)
      BY ONLY <2>2
    <3>2. (pos - start) + (actual + len) = ((pos - start) + actual) + len
      BY ONLY <1>2, <2>5
    <3> QED
      BY ONLY <2>5, <3>1, <3>2
  <2> QED
    BY <2>2, <2>3, <2>4, <2>5, <2>6 DEF lb, lc, lo, lf, lj, li
<1>13. ASSUME NEW i \in 1 .. Len(inner)
       PROVE  inner[i] = joined[i]
  <2> DEFINE j == start + i
             m == i - (pos - start)
  <2>1. /\ i \in Nat /\ 1 <= i /\ i <= ((pos - start) + actual) + len
        /\ j \in Nat /\ m \in Int /\ j = m + pos /\ m <= actual + len
    <3> DEFINE li == Len(inner)
    <3>1. i \in 1 .. li /\ li = ((pos - start) + actual) + len
      BY <1>12
    <3> HIDE DEF li
    <3> QED
      BY ONLY <1>2, <1>12, <3>1
  <2>2. inner[i] = c[j]
    BY <1>6
  <2> HIDE DEF j, m
  <2>3. CASE j <= pos
    <3>1. i \in 1 .. pos - start /\ j \in 1 .. pos /\ i \in 1 .. Len(outer)
      BY <1>5, <2>1, <2>3 DEF j
    <3>2. joined[i] = b[j]
      BY <1>5, <1>11, <3>1 DEF j
    <3> QED
      BY <1>9, <2>2, <3>1, <3>2
  <2>4. CASE j > pos
    <3>1. i \in Len(outer) + 1 .. Len(joined) /\ i - Len(outer) = m /\ m >= 1
      <4> DEFINE lo == Len(outer)
                 lj == Len(joined)
      <4>1. lo = pos - start /\ lj = ((pos - start) + actual) + len
        BY <1>12
      <4>2. m >= 1
        BY <2>1, <2>4
      <4> HIDE DEF lo, lj
      <4>3. i \in lo + 1 .. lj /\ i - lo = m
        BY ONLY <1>2, <1>12, <2>1, <4>1, <4>2 DEF m
      <4> QED
        BY <4>2, <4>3 DEF lo, lj
    <3>2. joined[i] = framed[m]
      BY <1>11, <3>1
    <3>3. CASE m <= actual
      <4>1. m \in 1 .. actual /\ j \in pos + 1 .. pos + actual /\ j - pos = m
        BY ONLY <1>2, <2>1, <3>1, <3>3
      <4>2. framed[m] = [kind |-> "len", val |-> len, part |-> m, of |-> actual]
        BY <1>8, <4>1
      <4>3. c[j] = [kind |-> "len", val |-> len, part |-> j - pos, of |-> actual]
        BY <1>9, <4>1
      <4> QED
        BY <2>2, <3>2, <4>1, <4>2, <4>3
    <3>4. CASE m > actual
      <4>1. /\ m \in actual + 1 .. actual + len /\ m - actual \in 1 .. len
            /\ j \in pos + actual + 1 .. Len(c) /\ (pos + actual + d) + (m - actual) = j + d
        <5> DEFINE lc == Len(c)
        <5>1. lc = (pos + actual) + len
          BY <1>12
        <5> HIDE DEF lc
        <5>2. m \in actual + 1 .. actual + len /\ m - actual \in 1 .. len
          BY ONLY <1>2, <2>1, <3>1, <3>4
        <5>3. j \in (pos + actual) + 1 .. lc
          BY ONLY <1>2, <2>1, <3>1, <3>4, <5>1
        <5>4. (pos + actual + d) + (m - actual) = j + d
          BY ONLY <1>2, <2>1
        <5> QED
          BY <5>2, <5>3, <5>4 DEF lc
      <4>2. framed[m] = body[m - actual]
        BY <1>8, <4>1
      <4>3. body[m - actual] = b[(pos + actual + d) + (m - actual)]
        BY <1>4, <4>1
      <4>4. c[j] = b[j + d]
        BY <1>9, <4>1
      <4> QED
        BY ONLY <2>2, <3>2, <4>1, <4>2, <4>3, <4>4
    <3> QED
      BY <1>2, <2>1, <3>3, <3>4
  <2> QED
    BY <2>1, <2>3, <2>4
<1>14. inner = joined
  BY ONLY <1>6, <1>11, <1>12, <1>13, SameCells
<1> QED
  BY <1>4, <1>5, <1>7, <1>14 DEF n, front, body, outer, framed, inner, joined

(* The innermost of the segments is closed behind its length.              *)
ClosedBehind(segs, next, actual, len) ==
    /\ segs # <<>> /\ Len(segs) \in Nat /\ Len(segs) > 1
    /\ Len(Last(segs)) = len /\ len <= Capacity(actual)
    /\ next = [Front(segs) EXCEPT
                 ![Len(segs) - 1] = @ \o (LengthBytes(actual, len) \o Last(segs))]

(* The other segments stay what they are.                                  *)
LEMMA CutsClose ==
    ASSUME NEW from, NEW secs, NEW b, NEW c, NEW pos, NEW actual, NEW d, NEW len,
           Closes(from, secs, b, c, pos, actual, d, len)
    PROVE  ClosedBehind(Cuts(b, secs), Cuts(c, Front(secs)), actual, len)
<1> SUFFICES ASSUME from \in Nat, secs \in Seq(Section), secs # <<>>,
                    b \in Seq(FitCell), c \in Seq(FitCell),
                    pos \in Nat, actual \in LengthFieldSize, d \in Nat, len \in Nat,
                    pos = secs[Len(secs)].pos, EndOf(secs[Len(secs)]) = pos + actual + d,
                    Nested(from, secs, b), Nested(from, Front(secs), c),
                    Patched(b, c, pos, actual, d, len), len = Len(b) - (pos + actual + d)
             PROVE  ClosedBehind(Cuts(b, secs), Cuts(c, Front(secs)), actual, len)
  BY Zenon DEF Closes
<1> DEFINE n == Len(secs)
           front == Front(secs)
           B == Cuts(b, secs)
           C == Cuts(c, front)
           F0 == Front(B)
           closed == Cut(b, secs, n - 1) \o (LengthBytes(actual, len) \o Cut(b, secs, n))
           D == [F0 EXCEPT ![n] = closed]
<1>1. /\ n \in Nat /\ n # 0 /\ n \in 1 .. n /\ (n - 1) + 1 = n
      /\ front \in Seq(Section) /\ Len(front) = n - 1
      /\ \A k \in 1 .. n - 1 : front[k] = secs[k]
  <2>1. n \in Nat /\ n # 0
    OBVIOUS
  <2>2. /\ front \in Seq(Section) /\ Len(front) = n - 1
        /\ \A k \in 1 .. n - 1 : front[k] = secs[k]
    BY FrontIsSeq
  <2> HIDE DEF n, front
  <2> QED
    BY <2>1, <2>2
<1>2. /\ B \in Seq(Seq(FitCell)) /\ Len(B) = n + 1 /\ B # <<>>
      /\ \A k \in 1 .. n + 1 : B[k] = Cut(b, secs, k - 1)
      /\ Last(B) = Cut(b, secs, n)
  BY CutsAreSegments
<1>3. Nested(from, front, c)
  OBVIOUS
<1>4. /\ Cut(b, secs, n) \in Seq(FitCell) /\ Len(Cut(b, secs, n)) = len
      /\ len <= Capacity(actual) /\ Cut(c, front, n - 1) = closed
  <2>1. /\ Cut(b, secs, Len(secs)) \in Seq(FitCell) /\ Len(Cut(b, secs, Len(secs))) = len
        /\ len <= Capacity(actual)
        /\ Cut(c, Front(secs), Len(secs) - 1)
             = Cut(b, secs, Len(secs) - 1)
                 \o (LengthBytes(actual, len) \o Cut(b, secs, Len(secs)))
    <3>1. Closes(from, secs, b, c, pos, actual, d, len)
      OBVIOUS
    <3> HIDE DEF n, front, closed
    <3> QED
      BY ONLY <3>1, CutCloses
  <2> QED
    BY <2>1
<1>5. pos \in Nat /\ \A i \in 1 .. pos : c[i] = b[i]
  BY DEF Patched
<1>6. pos = secs[n].pos
  OBVIOUS
<1> HIDE DEF front, closed
<1>7. /\ C \in Seq(Seq(FitCell)) /\ Len(C) = n
      /\ \A k \in 1 .. n : C[k] = Cut(c, front, k - 1)
  <2>1. /\ C \in Seq(Seq(FitCell)) /\ Len(C) = Len(front) + 1
        /\ \A k \in 1 .. Len(front) + 1 : C[k] = Cut(c, front, k - 1)
    BY <1>1, <1>3, CutsAreSegments
  <2> QED
    BY ONLY <1>1, <2>1
<1>8. ASSUME NEW k \in 1 .. n - 1
      PROVE  C[k] = B[k]
  <2>1. /\ k - 1 \in 0 .. Len(secs) /\ k - 1 \in 0 .. Len(front) /\ k - 1 # Len(front)
        /\ k - 1 \in 0 .. Len(secs) - 1 /\ (k - 1) + 1 = k /\ k \in 1 .. n /\ k \in 1 .. n + 1
        /\ (k - 1 = 0 \/ k - 1 \in 1 .. n - 1)
    <3>1. Len(secs) = n
      OBVIOUS
    <3> HIDE DEF n
    <3> QED
      BY ONLY <1>1, <3>1, k \in 1 .. n - 1
  <2>2. StartOf(front, k - 1) = StartOf(secs, k - 1)
    BY <1>1, <2>1 DEF StartOf
  <2>3. StopOf(secs, Len(b), k - 1) = secs[k].pos /\ secs[k].pos \in Nat /\ secs[k].pos <= pos
    <3>1. /\ StopOf(secs, Len(b), k - 1) = secs[(k - 1) + 1].pos
          /\ secs[(k - 1) + 1].pos \in Nat
          /\ secs[(k - 1) + 1].pos <= secs[Len(secs)].pos
      BY ONLY <2>1, StopsInFront, from \in Nat, secs \in Seq(Section), b \in Seq(FitCell),
              Nested(from, secs, b)
    <3> QED
      BY ONLY <1>6, <2>1, <3>1
  <2>4. StopOf(front, Len(c), k - 1) = secs[k].pos
    <3>1. StopOf(front, Len(c), k - 1) = front[k].pos
      BY <2>1 DEF StopOf
    <3> QED
      BY <1>1, <3>1
  <2>5. \A i \in 1 .. StopOf(secs, Len(b), k - 1) : c[i] = b[i]
    <3> DEFINE stop == secs[k].pos
    <3>1. stop \in Nat /\ stop <= pos /\ StopOf(secs, Len(b), k - 1) = stop
      BY <2>3
    <3> HIDE DEF stop
    <3> QED
      BY ONLY <1>5, <3>1
  <2>6. Cut(c, front, k - 1) = Cut(b, secs, k - 1)
    <3>1. StopOf(front, Len(c), k - 1) = StopOf(secs, Len(b), k - 1)
      BY <2>3, <2>4
    <3> DEFINE m == k - 1
    <3>2. /\ m \in 0 .. Len(secs) /\ m \in 0 .. Len(front)
          /\ StartOf(front, m) = StartOf(secs, m)
          /\ StopOf(front, Len(c), m) = StopOf(secs, Len(b), m)
          /\ \A i \in 1 .. StopOf(secs, Len(b), m) : c[i] = b[i]
      BY <2>1, <2>2, <2>5, <3>1
    <3>3. front \in Seq(Section)
      BY <1>1
    <3> HIDE DEF m
    <3>4. Cut(c, front, m) = Cut(b, secs, m)
      BY ONLY <1>3, <3>2, <3>3, SameCut, from \in Nat, secs \in Seq(Section),
              b \in Seq(FitCell), c \in Seq(FitCell), Nested(from, secs, b)
    <3> QED
      BY <3>4 DEF m
  <2> QED
    BY ONLY <1>2, <1>7, <2>1, <2>6
<1> HIDE DEF B, C
<1>9. /\ F0 \in Seq(Seq(FitCell)) /\ Len(F0) = n
      /\ \A k \in 1 .. n : F0[k] = B[k]
  <2>1. /\ F0 \in Seq(Seq(FitCell)) /\ Len(F0) = Len(B) - 1
        /\ \A k \in 1 .. Len(B) - 1 : F0[k] = B[k]
    BY <1>2, FrontIsSeq
  <2>2. Len(B) - 1 = n
    BY <1>1, <1>2
  <2> QED
    BY ONLY <2>1, <2>2
<1>10. F0[n] = Cut(b, secs, n - 1) /\ C[n] = closed
  <2>1. n \in 1 .. n + 1
    BY <1>1
  <2> QED
    BY <1>1, <1>2, <1>4, <1>7, <1>9, <2>1
<1> HIDE DEF F0, n
<1>11. /\ D \in Seq(Seq(FitCell)) /\ Len(D) = n
       /\ \A k \in 1 .. n : D[k] = C[k]
  <2>1. closed \in Seq(FitCell)
    BY <1>1, <1>7, <1>10, ElementOfSeq
  <2>2. ASSUME NEW k \in 1 .. n
        PROVE  D[k] = C[k]
    <3>1. k = n \/ k \in 1 .. n - 1
      BY <1>1
    <3>2. CASE k = n
      BY <1>1, <1>9, <1>10, <3>2
    <3>3. CASE k \in 1 .. n - 1
      <4>1. k # n /\ D[k] = F0[k] /\ F0[k] = B[k]
        BY <1>1, <1>9, <3>3
      <4> QED
        BY <1>8, <3>3, <4>1
    <3> QED
      BY <3>1, <3>2, <3>3
  <2> QED
    BY <1>1, <1>9, <2>1, <2>2
<1>12. C = D
  <2> HIDE DEF D
  <2> QED
    BY ONLY <1>7, <1>11, SeqEqual
<1>13. [F0 EXCEPT ![n] = @ \o (LengthBytes(actual, len) \o Last(B))] = D
  BY ONLY <1>2, <1>10 DEF closed
<1>14. Len(B) - 1 = n /\ Len(B) \in Nat /\ Len(B) > 1
  BY ONLY <1>1, <1>2
<1>15. C = [F0 EXCEPT ![Len(B) - 1] = @ \o (LengthBytes(actual, len) \o Last(B))]
  <2> HIDE DEF D
  <2> QED
    BY ONLY <1>12, <1>13, <1>14, Zenon
<1>16. Len(Last(B)) = len
  BY ONLY <1>2, <1>4
<1> QED
  BY ONLY <1>2, <1>4, <1>14, <1>15, <1>16, Zenon DEF ClosedBehind, C, F0, B, front

----------------------------------------------------------------------------
(***************************************************************************)
(* The actions of Framing in the vocabulary of the serializer.             *)
(***************************************************************************)
LEMMA Vocabulary ==
    /\ \A s : F!Last(s) = Last(s) /\ F!Front(s) = Front(s)
    /\ \A s, t : F!IsPrefix(s, t) <=> IsPrefix(s, t)
    /\ \A n : F!Data(n) = Data(n)
    /\ \A tag : F!TagBytes(tag) = TagBytes(tag)
    /\ \A size, len : F!LengthBytes(size, len) = LengthBytes(size, len)
    /\ \A size : F!Capacity(size) = Capacity(size)
    /\ \A wire, id : F!Tag(wire, id) = Tag(wire, id)
    /\ \A tag : F!TagWire(tag) = TagWire(tag)
    /\ \A size : F!WireOfLengthField(size) = WireOfLengthField(size)
    /\ \A b, pos, cells : F!WriteAt(b, pos, cells) = WriteAt(b, pos, cells)
    /\ F!LengthFieldSize = LengthFieldSize /\ F!FromConfig = FromConfig
    /\ F!MaxFieldId = MaxFieldId
<1>1. \A s : F!Last(s) = Last(s) /\ F!Front(s) = Front(s)
  BY DEF F!Last, F!Front, Last, Front
<1>2. \A s, t : F!IsPrefix(s, t) <=> IsPrefix(s, t)
  BY DEF F!IsPrefix, IsPrefix
<1>3. /\ \A n : F!Data(n) = Data(n)
      /\ \A tag : F!TagBytes(tag) = TagBytes(tag)
      /\ \A size, len : F!LengthBytes(size, len) = LengthBytes(size, len)
  BY DEF F!Data, F!TagBytes, F!LengthBytes, F!Bytes, Data, TagBytes, LengthBytes, Bytes
<1>4. \A size : F!Capacity(size) = Capacity(size)
  BY DEF F!Capacity, Capacity
<1>5. /\ \A wire, id : F!Tag(wire, id) = Tag(wire, id)
      /\ \A tag : F!TagWire(tag) = TagWire(tag)
      /\ F!FromConfig = FromConfig /\ F!MaxFieldId = MaxFieldId
      /\ F!LengthFieldSize = LengthFieldSize
  BY DEF F!Tag, F!TagWire, F!FromConfig, F!MaxFieldId, F!LengthFieldSize,
         Tag, TagWire, FromConfig, MaxFieldId, LengthFieldSize
<1>6. \A size : F!WireOfLengthField(size) = WireOfLengthField(size)
  BY DEF F!WireOfLengthField, WireOfLengthField
<1>7. \A b, pos, cells : F!WriteAt(b, pos, cells) = WriteAt(b, pos, cells)
  BY DEF F!WriteAt, WriteAt
<1> QED
  BY ONLY <1>1, <1>2, <1>3, <1>4, <1>5, <1>6, <1>7, Zenon

(* The segments after a step.                                              *)
LEMMA SegmentsAfter ==
    /\ Running' => Segments' = Cuts(buf', sections')
    /\ ~Running' => Segments' = <<buf'>>
<1> DEFINE Mapped == /\ Running => Segments = Cuts(buf, sections)
                     /\ ~Running => Segments = <<buf>>
<1>1. Mapped
  BY SegmentsAreCuts
<1> HIDE DEF Mapped
<1>2. Mapped'
  BY <1>1, PTL
<1> QED
  BY <1>2 DEF Mapped

(* The state of the call, before and after a step.                         *)
LEMMA CallStates ==
    /\ pc = "idle" => CallState = "idle" /\ ~Running
    /\ Running => CallState = "open"
    /\ pc = "ok" => CallState = "ok" /\ ~Running
    /\ pc \in Errors => CallState = "failed" /\ ~Running
    /\ pc \in Panics => CallState = "panicked" /\ ~Running
BY DEF CallState, Running, Errors, Panics

(* The same of the state after a step.                                     *)
LEMMA CallStatesAfter ==
    /\ Running' => CallState' = "open"
    /\ pc' = "ok" => CallState' = "ok" /\ ~Running'
    /\ pc' \in Errors => CallState' = "failed" /\ ~Running'
    /\ pc' \in Panics => CallState' = "panicked" /\ ~Running'
BY DEF CallState, Running, Errors, Panics

(* What a running call works on.                                           *)
LEMMA Working ==
    ASSUME IInv, Running
    PROVE  /\ base \in Nat /\ base <= Len(buf) /\ Len(buf) \in Nat
           /\ sections \in Seq(Section) /\ buf \in Seq(FitCell)
           /\ Nested(base, sections, buf) /\ TypeOK
           /\ CallState = "open" /\ Segments = Cuts(buf, sections)
<1>1. base \in Nat /\ sections \in Seq(Section) /\ buf \in Seq(FitCell)
      /\ base <= Len(buf) /\ Nested(base, sections, buf) /\ TypeOK
  BY DEF IInv, TypeOK, SectionsNested
<1>2. CallState = "open" /\ Segments = Cuts(buf, sections)
  BY CallStates, SegmentsAreCuts
<1> QED
  BY <1>1, <1>2

(* While a call runs its segments are the cuts of its buffer, after a step *)
(* too.                                                                    *)
LEMMA WorkingAfter ==
    ASSUME IInv', Running'
    PROVE  /\ base' \in Nat /\ sections' \in Seq(Section) /\ buf' \in Seq(FitCell)
           /\ Nested(base', sections', buf')
           /\ CallState' = "open" /\ Segments' = Cuts(buf', sections')
<1>1. /\ base' \in Nat /\ sections' \in Seq(Section) /\ buf' \in Seq(FitCell)
      /\ Nested(base', sections', buf')
  BY DEF IInv, TypeOK, SectionsNested, Nested
<1>2. CallState' = "open" /\ Segments' = Cuts(buf', sections')
  BY CallStatesAfter, SegmentsAfter
<1> QED
  BY <1>1, <1>2

(* A step that changes neither buffer nor sections.                        *)
LEMMA NothingChanges ==
    ASSUME IInv, IInv', Running, Running', UNCHANGED <<buf, sections, base>>
    PROVE  UNCHANGED F!vars
<1>1. Segments' = Segments /\ CallState' = CallState
  BY Working, WorkingAfter
<1> QED
  BY <1>1 DEF F!vars

(* A call that fails.                                                      *)
LEMMA FailsAsFraming ==
    ASSUME IInv, IInv', Kept, Running, pc' \in Errors \cup Panics, base' = base
    PROVE  F!Fail
<1>1. /\ base \in Nat /\ Len(buf) \in Nat /\ base <= Len(buf)
      /\ sections \in Seq(Section) /\ buf \in Seq(FitCell)
      /\ Nested(base, sections, buf) /\ CallState = "open"
      /\ Segments = Cuts(buf, sections)
  BY Working
<1>2. /\ CallState' \in {"failed", "panicked"} /\ Segments' = <<buf'>>
      /\ buf' \in Seq(FitCell)
  BY CallStatesAfter, SegmentsAfter DEF IInv
<1>3. Segments[1] = Cut(buf, sections, 0)
  <2>1. 1 \in 1 .. Len(sections) + 1 /\ 1 - 1 = 0
    BY <1>1, LenProperties
  <2>2. \A k \in 1 .. Len(sections) + 1 : Cuts(buf, sections)[k] = Cut(buf, sections, k - 1)
    BY <1>1, CutsAreSegments
  <2>3. Cuts(buf, sections)[1] = Cut(buf, sections, 1 - 1)
    BY ONLY <2>1, <2>2, Zenon
  <2> QED
    BY ONLY <1>1, <2>1, <2>3
<1> DEFINE bottom == Cut(buf, sections, 0)
           stop == StopOf(sections, Len(buf), 0)
<1>4. /\ stop \in Nat /\ stop <= Len(buf) /\ bottom \in Seq(FitCell) /\ Len(bottom) = stop
      /\ \A i \in 1 .. stop : bottom[i] = buf[i]
  <2>1. StartOf(sections, 0) = 0
    BY DEF StartOf
  <2>2. 0 \in 0 .. Len(sections)
    BY <1>1, LenProperties
  <2>3. /\ StopOf(sections, Len(buf), 0) \in Nat /\ StopOf(sections, Len(buf), 0) <= Len(buf)
        /\ Cut(buf, sections, 0) \in Seq(FitCell)
        /\ Len(Cut(buf, sections, 0)) = StopOf(sections, Len(buf), 0) - StartOf(sections, 0)
        /\ \A i \in 1 .. StopOf(sections, Len(buf), 0) - StartOf(sections, 0) :
             Cut(buf, sections, 0)[i] = buf[StartOf(sections, 0) + i]
    BY <1>1, <2>2, CutLies
  <2> HIDE DEF bottom, stop
  <2>4. /\ stop \in Nat /\ stop <= Len(buf) /\ bottom \in Seq(FitCell)
        /\ Len(bottom) = stop - 0 /\ \A i \in 1 .. stop - 0 : bottom[i] = buf[0 + i]
    BY ONLY <2>1, <2>3 DEF bottom, stop
  <2>5. stop - 0 = stop /\ \A i \in 1 .. stop : 0 + i = i
    BY <2>4
  <2> QED
    BY ONLY <2>4, <2>5
<1>5. base <= stop
  <2>1. CASE sections = <<>>
    BY <1>1, <2>1, LenProperties DEF StopOf
  <2>2. CASE sections # <<>>
    <3>1. 1 \in DOMAIN sections /\ Len(sections) # 0
      BY <1>1, <2>2
    <3>2. stop = sections[1].pos
      BY <3>1 DEF StopOf
    <3> QED
      BY <1>1, <3>1, <3>2 DEF Nested
  <2> QED
    BY <2>1, <2>2
<1> HIDE DEF bottom, stop
<1>6. IsPrefix(SubSeq(bottom, 1, base), buf')
  <2> DEFINE prior == SubSeq(bottom, 1, base)
             kept == SubSeq(buf', 1, base)
  <2>1. base <= Len(buf') /\ \A i \in 1 .. base : buf'[i] = buf[i]
    BY DEF Kept
  <2>2. base <= Len(bottom)
    BY <1>4, <1>5
  <2>3. /\ prior \in Seq(FitCell) /\ Len(prior) = base
        /\ \A i \in 1 .. base : prior[i] = bottom[i]
        /\ kept \in Seq(FitCell) /\ Len(kept) = base
        /\ \A i \in 1 .. base : kept[i] = buf'[i]
    BY <1>1, <1>2, <1>4, <2>1, <2>2
  <2> HIDE DEF prior, kept
  <2>4. \A i \in 1 .. base : prior[i] = kept[i]
    BY <1>1, <1>4, <1>5, <2>1, <2>3
  <2>5. prior = kept
    BY ONLY <2>3, <2>4, SameCells
  <2>6. SubSeq(prior, 1, base) = prior
    <3>1. SubSeq(prior, 1, base) \in Seq(FitCell) /\ Len(SubSeq(prior, 1, base)) = base
          /\ \A i \in 1 .. base : SubSeq(prior, 1, base)[i] = prior[i]
      BY ONLY <1>1, <2>3
    <3> QED
      BY ONLY <2>3, <3>1, SameCells
  <2> QED
    BY ONLY <2>1, <2>3, <2>5, <2>6 DEF IsPrefix, kept, prior
<1>7. IsPrefix(SubSeq(Segments[1], 1, base), Segments'[1]) /\ Len(Segments') = 1
  BY <1>2, <1>3, <1>6 DEF bottom
<1> QED
  BY ONLY <1>1, <1>2, <1>7, Vocabulary, base' = base DEF F!Fail

(* What is appended to a segment is what it has more than before.          *)
LEMMA Grown ==
    ASSUME NEW s \in Seq(FitCell), NEW cells \in Seq(FitCell)
    PROVE  /\ IsPrefix(s, s \o cells)
           /\ SubSeq(s \o cells, Len(s) + 1, Len(s \o cells)) = cells
<1> DEFINE t == s \o cells
           same == SubSeq(t, 1, Len(s))
           more == SubSeq(t, Len(s) + 1, Len(t))
<1>1. /\ t \in Seq(FitCell) /\ Len(t) = Len(s) + Len(cells)
      /\ Len(t) \in Nat /\ Len(s) \in Nat /\ Len(cells) \in Nat
      /\ \A i \in 1 .. Len(s) : t[i] = s[i]
      /\ \A i \in Len(s) + 1 .. Len(t) : t[i] = cells[i - Len(s)]
  BY Concatenated
<1> HIDE DEF t
<1>2. SubSeq(s, 1, Len(s)) = same
  <2>1. /\ same \in Seq(FitCell) /\ Len(same) = Len(s)
        /\ \A i \in 1 .. Len(s) : same[i] = t[i]
        /\ SubSeq(s, 1, Len(s)) \in Seq(FitCell) /\ Len(SubSeq(s, 1, Len(s))) = Len(s)
        /\ \A i \in 1 .. Len(s) : SubSeq(s, 1, Len(s))[i] = s[i]
    BY <1>1
  <2> HIDE DEF same
  <2> QED
    BY ONLY <1>1, <2>1, SameCells
<1>3. more = cells
  <2>1. /\ more \in Seq(FitCell) /\ Len(more) = Len(cells)
        /\ \A i \in 1 .. Len(cells) : more[i] = t[Len(s) + i]
    BY <1>1
  <2> HIDE DEF more
  <2>2. ASSUME NEW i \in 1 .. Len(cells)
        PROVE  more[i] = cells[i]
    <3>1. Len(s) + i \in Len(s) + 1 .. Len(t) /\ (Len(s) + i) - Len(s) = i
      BY <1>1
    <3> DEFINE j == Len(s) + i
    <3>2. t[j] = cells[j - Len(s)]
      <4>1. j \in Len(s) + 1 .. Len(t)
        BY <3>1
      <4> HIDE DEF j
      <4> QED
        BY ONLY <1>1, <4>1
    <3> QED
      BY <2>1, <3>1, <3>2
  <2> QED
    BY ONLY <2>1, <2>2, SameCells
<1>4. Len(s) <= Len(t)
  BY <1>1
<1> QED
  BY ONLY <1>2, <1>3, <1>4 DEF IsPrefix, t, same, more

(* Bytes that are appended to the buffer are a Write or a WriteFramed.     *)
LEMMA AppendsAsFraming ==
    ASSUME IInv, IInv', Running, Running', UNCHANGED <<sections, base>>,
           NEW cells \in Seq(FitCell), buf' = buf \o cells,
           \/ \E n \in Nat : cells = Data(n)
           \/ \E tag : cells = TagBytes(tag)
           \/ \E size \in LengthFieldSize, n \in Nat :
                n <= Capacity(size) /\ cells = LengthBytes(size, n) \o Data(n)
    PROVE  F!Next
<1>1. /\ base \in Nat /\ sections \in Seq(Section) /\ buf \in Seq(FitCell)
      /\ Nested(base, sections, buf)
      /\ CallState = "open" /\ Segments = Cuts(buf, sections)
  BY Working
<1>2. /\ buf' \in Seq(FitCell) /\ Nested(base, sections, buf')
      /\ CallState' = "open" /\ Segments' = Cuts(buf', sections)
  BY WorkingAfter
<1> DEFINE body == Cut(buf, sections, Len(sections))
<1>3. Cut(buf', sections, Len(sections)) = body \o cells
  BY <1>1, CutGrows
<1>4. body \in Seq(FitCell) /\ BodyStart(sections) \in Nat /\ BodyStart(sections) <= Len(buf)
  BY <1>1, BodyLies
<1>5. \A i \in 1 .. BodyStart(sections) : buf'[i] = buf[i]
  <2>1. \A i \in 1 .. Len(buf) : buf'[i] = buf[i]
    BY <1>1, Concatenated
  <2> QED
    BY <1>1, <1>4, <2>1
<1>6. Len(Segments') = Len(Segments) /\ Front(Segments') = Front(Segments)
  <2>1. /\ Len(Cuts(buf', sections)) = Len(Cuts(buf, sections))
        /\ Front(Cuts(buf', sections)) = Front(Cuts(buf, sections))
    BY ONLY <1>1, <1>2, <1>5, BodyChanges
  <2> QED
    BY <1>1, <1>2, <2>1
<1>7. Last(Segments) = body /\ Last(Segments') = body \o cells
  BY <1>1, <1>2, <1>3, CutsAreSegments
<1>8. F!Grows /\ F!Added = cells
  <2>1. /\ IsPrefix(body, body \o cells)
        /\ SubSeq(body \o cells, Len(body) + 1, Len(body \o cells)) = cells
    BY <1>4, Grown
  <2>2. F!Body = body /\ F!Body' = body \o cells
    BY <1>7, Vocabulary DEF F!Body
  <2>3. F!OnlyBody
    BY <1>6, Vocabulary DEF F!OnlyBody
  <2> HIDE DEF body
  <2> QED
    BY ONLY <2>1, <2>2, <2>3, Vocabulary DEF F!Grows, F!Added
<1>9. CASE \E n \in Nat : cells = Data(n)
  <2>1. PICK n \in Nat : cells = Data(n)
    BY <1>9
  <2>2. Len(Data(n)) = n
    BY BytesAreCells DEF Data
  <2>3. cells = Data(Len(cells))
    BY ONLY <2>1, <2>2
  <2> QED
    BY ONLY <1>1, <1>2, <1>8, <2>3, Vocabulary, base' = base DEF F!Write, F!Next
<1>10. CASE \E tag : cells = TagBytes(tag)
  <2>1. Len(cells) = 2 /\ cells = TagBytes(cells[1].val)
    BY <1>10 DEF TagBytes, Bytes
  <2>2. SubSeq(cells, 1, 2) = cells
    <3>1. SubSeq(cells, 1, 2) \in Seq(FitCell) /\ Len(SubSeq(cells, 1, 2)) = 2
          /\ \A i \in 1 .. 2 : SubSeq(cells, 1, 2)[i] = cells[i]
      BY ONLY <2>1, cells \in Seq(FitCell)
    <3> QED
      BY ONLY <2>1, <3>1, SameCells, cells \in Seq(FitCell)
  <2>3. F!IsTagAt(cells, 0)
    BY ONLY <2>1, <2>2, Vocabulary DEF F!IsTagAt
  <2> QED
    BY ONLY <1>1, <1>2, <1>8, <2>1, <2>3, base' = base DEF F!Write, F!Next
<1>11. CASE \E size \in LengthFieldSize, n \in Nat :
                n <= Capacity(size) /\ cells = LengthBytes(size, n) \o Data(n)
  <2>1. PICK size \in LengthFieldSize, n \in Nat :
                n <= Capacity(size) /\ cells = LengthBytes(size, n) \o Data(n)
    BY <1>11
  <2>2. Data(n) \in Seq(FitCell) /\ Len(Data(n)) = n
    BY BytesAreCells DEF Data
  <2>3. Len(cells) = size + n /\ size \in Nat
    <3> DEFINE data == Data(n)
    <3>1. data \in Seq(FitCell) /\ Len(data) = n /\ Len(data) <= Capacity(size)
      BY <2>1, <2>2
    <3> HIDE DEF data
    <3>2. Len(LengthBytes(size, Len(data)) \o data) = size + Len(data)
      BY ONLY <3>1, FramedCells, size \in LengthFieldSize
    <3>3. cells = LengthBytes(size, Len(data)) \o data
      BY <2>1, <3>1 DEF data
    <3> QED
      BY <3>1, <3>2, <3>3 DEF LengthFieldSize
  <2>4. size <= Len(cells) /\ Len(cells) - size = n
    BY ONLY <2>3, n \in Nat
  <2>5. F!Fits(F!Data(Len(cells) - size), size)
    BY ONLY <2>1, <2>2, <2>4, Vocabulary DEF F!Fits
  <2>6. cells = F!Framed(F!Data(Len(cells) - size), size)
    BY ONLY <2>1, <2>2, <2>4, Vocabulary DEF F!Framed
  <2>7. F!WriteFramed
    BY ONLY <1>1, <1>2, <1>8, <2>4, <2>5, <2>6, Vocabulary, base' = base,
            size \in LengthFieldSize DEF F!WriteFramed
  <2> QED
    BY <2>7 DEF F!Next
<1> QED
  BY <1>9, <1>10, <1>11

(* A section that is begun opens a segment.                                *)
LEMMA OpensAsFraming ==
    ASSUME IInv, IInv', Running, Running', base' = base,
           NEW sec \in Section, sections' = Append(sections, sec),
           sec.pos = Len(buf), EndOf(sec) = Len(buf'), \A i \in 1 .. Len(buf) : buf'[i] = buf[i]
    PROVE  F!Next
<1>1. /\ base \in Nat /\ sections \in Seq(Section) /\ buf \in Seq(FitCell)
      /\ Nested(base, sections, buf)
      /\ CallState = "open" /\ Segments = Cuts(buf, sections)
  BY Working
<1>2. /\ buf' \in Seq(FitCell) /\ Nested(base, Append(sections, sec), buf')
      /\ CallState' = "open" /\ Segments' = Cuts(buf', Append(sections, sec))
  BY WorkingAfter
<1>3. Cuts(buf', Append(sections, sec)) = Append(Cuts(buf, sections), <<>>)
  BY ONLY <1>1, <1>2, CutsOpen, sec \in Section, sec.pos = Len(buf), EndOf(sec) = Len(buf'),
          \A i \in 1 .. Len(buf) : buf'[i] = buf[i]
<1> QED
  BY ONLY <1>1, <1>2, <1>3, base' = base DEF F!Open, F!Next

(* A section that is ended closes one.                                     *)
LEMMA ClosesAsFraming ==
    ASSUME IInv, IInv', Running, Running', base' = base,
           sections # <<>>, sections' = Front(sections),
           NEW actual \in LengthFieldSize, NEW d \in Nat, NEW pos \in Nat,
           pos = sections[Len(sections)].pos, EndOf(sections[Len(sections)]) = pos + actual + d,
           Patched(buf, buf', pos, actual, d, Len(buf) - EndOf(sections[Len(sections)]))
    PROVE  F!Next
<1>1. /\ base \in Nat /\ sections \in Seq(Section) /\ buf \in Seq(FitCell)
      /\ Nested(base, sections, buf)
      /\ CallState = "open" /\ Segments = Cuts(buf, sections)
  BY Working
<1>2. /\ buf' \in Seq(FitCell) /\ Nested(base, Front(sections), buf')
      /\ CallState' = "open" /\ Segments' = Cuts(buf', Front(sections))
  BY WorkingAfter
<1> DEFINE len == Len(buf) - EndOf(sections[Len(sections)])
           B == Cuts(buf, sections)
<1>3. len \in Nat /\ len = Len(buf) - (pos + actual + d)
  <2>1. Len(sections) \in DOMAIN sections /\ EndOf(sections[Len(sections)]) <= Len(buf)
    BY <1>1 DEF Nested
  <2> DEFINE end == EndOf(sections[Len(sections)])
  <2>2. end \in Nat /\ end <= Len(buf) /\ Len(buf) \in Nat /\ end = pos + actual + d
    BY <1>1, <2>1, SectionShape
  <2> HIDE DEF end
  <2>3. Len(buf) - end \in Nat /\ Len(buf) - end = Len(buf) - (pos + actual + d)
    BY ONLY <2>2
  <2> QED
    BY <2>3 DEF end
<1>4. Patched(buf, buf', pos, actual, d, len)
  OBVIOUS
<1> HIDE DEF len
<1>5. Closes(base, sections, buf, buf', pos, actual, d, len)
  BY ONLY <1>1, <1>2, <1>3, <1>4, sections # <<>>, actual \in LengthFieldSize, d \in Nat,
          pos \in Nat, pos = sections[Len(sections)].pos,
          EndOf(sections[Len(sections)]) = pos + actual + d DEF Closes
<1>6. /\ B # <<>> /\ Len(B) \in Nat /\ Len(B) > 1
      /\ Len(Last(B)) = len /\ len <= Capacity(actual)
      /\ Cuts(buf', Front(sections))
           = [Front(B) EXCEPT ![Len(B) - 1] = @ \o (LengthBytes(actual, len) \o Last(B))]
  <2>1. ClosedBehind(B, Cuts(buf', Front(sections)), actual, len)
    BY ONLY <1>5, CutsClose
  <2> HIDE DEF B
  <2> QED
    BY ONLY <2>1 DEF ClosedBehind
<1> HIDE DEF B
<1>7. Segments = B /\ Segments' = Cuts(buf', Front(sections))
  BY <1>1, <1>2 DEF B
<1>8. F!Fits(Last(B), actual) /\ F!Framed(Last(B), actual) = LengthBytes(actual, len) \o Last(B)
  BY ONLY <1>6, Vocabulary DEF F!Fits, F!Framed
<1>9. F!Body = Last(B) /\ F!Front(Segments) = Front(B)
  BY ONLY <1>7, Vocabulary DEF F!Body
<1>10. Segments' = [F!Front(Segments) EXCEPT ![Len(Segments) - 1] = @ \o F!Framed(F!Body, actual)]
  BY ONLY <1>6, <1>7, <1>8, <1>9
<1>11. F!Close
  BY ONLY <1>1, <1>2, <1>6, <1>7, <1>8, <1>9, <1>10, Vocabulary, base' = base,
          actual \in LengthFieldSize DEF F!Close
<1> QED
  BY <1>11 DEF F!Next

(* Where a tag stands, Framing sees one.                                   *)
LEMMA TagIsAt ==
    ASSUME NEW s \in Seq(FitCell), NEW p \in Nat, p + 2 <= Len(s), NEW tag,
           s[p + 1] = TagBytes(tag)[1], s[p + 2] = TagBytes(tag)[2]
    PROVE  F!IsTagAt(s, p) /\ s[p + 1].val = tag
<1> DEFINE two == SubSeq(s, p + 1, p + 2)
           cells == TagBytes(tag)
<1>1. s[p + 1].val = tag
  BY TagIsPaired
<1>2. cells \in Seq({cells[1], cells[2]}) /\ Len(cells) = 2
  BY DEF TagBytes, Bytes
<1>3. /\ two \in Seq(FitCell) /\ Len(two) = 2
      /\ \A i \in 1 .. 2 : two[i] = s[p + i]
  BY LenProperties
<1>4. p + 1 \in 1 .. Len(s) /\ p + 2 \in 1 .. Len(s)
  BY LenProperties
<1> HIDE DEF two, cells
<1>5. two[1] = cells[1] /\ two[2] = cells[2]
  BY <1>3 DEF cells
<1>6. two = cells
  <2>1. \A i \in 1 .. Len(two) : two[i] = cells[i]
    BY ONLY <1>3, <1>5
  <2>2. two \in Seq(FitCell) /\ cells \in Seq({cells[1], cells[2]}) /\ Len(two) = Len(cells)
    BY <1>2, <1>3
  <2> QED
    BY ONLY <2>1, <2>2, SeqEqual
<1> QED
  BY ONLY <1>1, <1>6, Vocabulary, p + 2 <= Len(s) DEF F!IsTagAt, two, cells

(* The tag at the end of the buffer is taken back.                         *)
LEMMA RetractsAsFraming ==
    ASSUME IInv, IInv', Running, Running', UNCHANGED <<sections, base>>,
           NEW n \in Nat, Len(buf) = n + 2, base <= n, BodyStart(sections) <= n,
           NEW tag, buf[n + 1] = TagBytes(tag)[1], buf[n + 2] = TagBytes(tag)[2],
           buf' = SetLen(buf, n)
    PROVE  F!Next
<1>1. /\ base \in Nat /\ sections \in Seq(Section) /\ buf \in Seq(FitCell)
      /\ Nested(base, sections, buf)
      /\ CallState = "open" /\ Segments = Cuts(buf, sections)
  BY Working
<1>2. /\ buf' \in Seq(FitCell) /\ Nested(base, sections, buf')
      /\ CallState' = "open" /\ Segments' = Cuts(buf', sections)
  BY WorkingAfter
<1> DEFINE start == BodyStart(sections)
           body == Cut(buf, sections, Len(sections))
           rest == Cut(buf', sections, Len(sections))
           m == n - start
<1>3. /\ start \in Nat /\ body \in Seq(FitCell) /\ Len(body) = Len(buf) - start
      /\ \A i \in 1 .. Len(buf) - start : body[i] = buf[start + i]
      /\ rest \in Seq(FitCell) /\ Len(rest) = Len(buf') - start
      /\ \A i \in 1 .. Len(buf') - start : rest[i] = buf'[start + i]
  BY <1>1, <1>2, BodyLies
<1>4. Len(buf') = n /\ \A i \in 1 .. n : buf'[i] = buf[i]
  <2>1. n <= Len(buf)
    OBVIOUS
  <2> QED
    BY ONLY <1>1, <2>1, SetLenKeeps, n \in Nat, buf' = SetLen(buf, n)
<1>5. \A i \in 1 .. start : buf'[i] = buf[i]
  <2>1. start \in Nat /\ start <= n
    BY <1>3
  <2> HIDE DEF start
  <2> QED
    BY ONLY <1>4, <2>1, n \in Nat
<1>6. Segments' = [Segments EXCEPT ![Len(Segments)] = rest]
  <2>1. Cuts(buf', sections)
          = [Cuts(buf, sections) EXCEPT ![Len(Cuts(buf, sections))] = rest]
    BY ONLY <1>1, <1>2, <1>5, BodyChanges
  <2> HIDE DEF rest
  <2> QED
    BY ONLY <1>1, <1>2, <2>1
<1>7. /\ Len(Segments) = Len(sections) + 1 /\ Last(Segments) = body
      /\ Segments[Len(Segments)] = body
  BY <1>1, CutsAreSegments DEF Last
<1>8. Len(Segments) = 1 => start = 0
  <2>1. Len(sections) \in Nat /\ (Len(sections) + 1 = 1 => Len(sections) = 0)
    BY <1>1, LenProperties
  <2> QED
    BY <1>7, <2>1 DEF BodyStart, StartOf
<1>9. /\ start <= n
      /\ body[m + 1] = TagBytes(tag)[1] /\ body[m + 2] = TagBytes(tag)[2]
  <2>1. start <= n
    OBVIOUS
  <2> HIDE DEF start, body
  <2>2. /\ m + 1 \in 1 .. Len(buf) - start /\ m + 2 \in 1 .. Len(buf) - start
        /\ start + (m + 1) = n + 1 /\ start + (m + 2) = n + 2
    BY ONLY <1>3, <2>1, n \in Nat, Len(buf) = n + 2
  <2>3. body[m + 1] = buf[start + (m + 1)] /\ body[m + 2] = buf[start + (m + 2)]
    BY ONLY <1>3, <2>2
  <2> QED
    BY ONLY <2>1, <2>2, <2>3, buf[n + 1] = TagBytes(tag)[1], buf[n + 2] = TagBytes(tag)[2]
<1> HIDE DEF start, body, rest
<1>10. m \in Nat /\ Len(body) = m + 2 /\ Len(rest) = m
  <2>1. Len(body) = (n + 2) - start /\ Len(rest) = n - start
    BY ONLY <1>3, <1>4, Len(buf) = n + 2
  <2> QED
    BY ONLY <1>3, <1>9, <2>1, n \in Nat
<1> HIDE DEF m
<1>11. F!IsTagAt(body, m)
  <2>1. m + 2 <= Len(body)
    BY <1>10
  <2> QED
    BY ONLY <1>3, <1>9, <1>10, <2>1, TagIsAt
<1>12. rest = SubSeq(body, 1, m)
  <2> DEFINE front == SubSeq(body, 1, m)
  <2>1. /\ front \in Seq(FitCell) /\ Len(front) = m
        /\ \A i \in 1 .. m : front[i] = body[i]
    BY <1>3, <1>10
  <2>2. ASSUME NEW i \in 1 .. m
        PROVE  rest[i] = body[i]
    <3> DEFINE j == start + i
    <3>1. /\ i \in 1 .. Len(buf) - start /\ i \in 1 .. Len(buf') - start /\ j \in 1 .. n
      BY ONLY <1>3, <1>4, <1>9, n \in Nat, Len(buf) = n + 2, i \in 1 .. m DEF m
    <3>2. rest[i] = buf'[j] /\ body[i] = buf[j]
      BY ONLY <1>3, <3>1
    <3> HIDE DEF j
    <3> QED
      BY ONLY <1>4, <3>1, <3>2
  <2> HIDE DEF front
  <2>3. rest = front
    BY ONLY <1>3, <1>10, <2>1, <2>2, SameCells
  <2> QED
    BY <2>3 DEF front
<1>13. Len(body) - 2 = m /\ (Len(Segments) = 1 => base <= m)
  <2>1. Len(Segments) = 1 => n - start = n
    BY <1>8
  <2>2. Len(Segments) = 1 => m = n
    BY <2>1 DEF m
  <2> QED
    BY <1>10, <2>2
<1>14. F!Body = body /\ Len(F!Body) >= F!Floor + 2
  <2>1. F!Body = body
    BY ONLY <1>7, Vocabulary DEF F!Body
  <2>2. F!Floor \in Nat /\ F!Floor <= m
    BY ONLY <1>1, <1>10, <1>13 DEF F!Floor
  <2> QED
    BY ONLY <1>10, <2>1, <2>2
<1>15. Segments' = [Segments EXCEPT ![Len(Segments)] = SubSeq(@, 1, Len(@) - 2)]
  BY ONLY <1>6, <1>7, <1>12, <1>13
<1>16. F!Retract
  BY ONLY <1>1, <1>2, <1>11, <1>13, <1>14, <1>15, base' = base DEF F!Retract
<1> QED
  BY <1>16 DEF F!Next

(* A tag is read back as the id it was made of.                            *)
LEMMA IdOfTag ==
    ASSUME NEW wire \in Nat, NEW id \in 0 .. MaxFieldId
    PROVE  Tag(wire, id) % (MaxFieldId + 1) = id
BY DEF Tag, MaxFieldId

(* The tag of a field is rewritten for the length field behind it.         *)
LEMMA AnnouncesAsFraming ==
    ASSUME IInv, IInv', Running, Running', UNCHANGED <<sections, base>>,
           NEW p \in Nat, base <= p, BodyStart(sections) <= p,
           NEW id \in 0 .. MaxFieldId, NEW last, LengthStands(buf, p + 2, last),
           buf[p + 1] = TagBytes(Tag(FromConfig, id))[1],
           buf[p + 2] = TagBytes(Tag(FromConfig, id))[2],
           buf' = WriteAt(buf, p, TagBytes(Tag(WireOfLengthField(last.size), id)))
    PROVE  F!Next
<1>1. /\ base \in Nat /\ sections \in Seq(Section) /\ buf \in Seq(FitCell)
      /\ Nested(base, sections, buf) /\ Len(buf) \in Nat
      /\ CallState = "open" /\ Segments = Cuts(buf, sections)
  BY Working
<1>2. /\ buf' \in Seq(FitCell) /\ Nested(base, sections, buf')
      /\ CallState' = "open" /\ Segments' = Cuts(buf', sections)
  BY WorkingAfter
<1> DEFINE start == BodyStart(sections)
           body == Cut(buf, sections, Len(sections))
           new == Cut(buf', sections, Len(sections))
           q == p - start
           wire == WireOfLengthField(last.size)
           tag == Tag(FromConfig, id)
           cells == TagBytes(Tag(wire, id))
<1>3. /\ start \in Nat /\ body \in Seq(FitCell) /\ Len(body) = Len(buf) - start
      /\ \A i \in 1 .. Len(buf) - start : body[i] = buf[start + i]
      /\ new \in Seq(FitCell) /\ Len(new) = Len(buf') - start
      /\ \A i \in 1 .. Len(buf') - start : new[i] = buf'[start + i]
  BY <1>1, <1>2, BodyLies
<1>4. /\ p + 3 <= Len(buf) /\ start <= p
      /\ buf[p + 3].kind = "len" /\ buf[p + 3].part = 1 /\ buf[p + 3].of = last.size
  <2>1. (p + 2) + 1 = p + 3
    OBVIOUS
  <2> QED
    BY ONLY <2>1, LengthStands(buf, p + 2, last), BodyStart(sections) <= p DEF LengthStands
<1>5. Len(cells) = 2
  BY DEF TagBytes, Bytes
<1>6. buf' = WriteAt(buf, p, cells)
  OBVIOUS
<1>7. buf[p + 1] = TagBytes(tag)[1] /\ buf[p + 2] = TagBytes(tag)[2]
  OBVIOUS
<1> HIDE DEF cells, start, body, new
<1>8. /\ Len(buf') = Len(buf)
      /\ \A i \in 1 .. Len(buf) :
           buf'[i] = IF i \in p + 1 .. p + 2 THEN cells[i - p] ELSE buf[i]
  BY ONLY <1>1, <1>5, <1>6 DEF WriteAt
<1>9. \A i \in 1 .. start : buf'[i] = buf[i]
  <2> SUFFICES ASSUME NEW i \in 1 .. start
               PROVE  buf'[i] = buf[i]
    OBVIOUS
  <2>1. i \in 1 .. Len(buf) /\ i \notin p + 1 .. p + 2
    BY ONLY <1>1, <1>3, <1>4, p \in Nat, i \in 1 .. start
  <2> QED
    BY ONLY <1>8, <2>1
<1>10. Segments' = [Segments EXCEPT ![Len(Segments)] = new]
  <2>1. Cuts(buf', sections)
          = [Cuts(buf, sections) EXCEPT ![Len(Cuts(buf, sections))]
               = Cut(buf', sections, Len(sections))]
    BY ONLY <1>1, <1>2, <1>9, BodyChanges DEF start
  <2> QED
    BY ONLY <1>1, <1>2, <2>1 DEF new
<1>11. /\ Len(Segments) = Len(sections) + 1 /\ Last(Segments) = body
       /\ Segments[Len(Segments)] = body
  BY <1>1, CutsAreSegments DEF Last, body
<1>12. Len(Segments) = 1 => start = 0
  <2>1. Len(sections) \in Nat /\ (Len(sections) + 1 = 1 => Len(sections) = 0)
    BY <1>1, LenProperties
  <2> QED
    BY <1>11, <2>1 DEF BodyStart, StartOf, start
<1>13. /\ q \in Nat /\ start + q = p /\ q + 2 <= Len(body) /\ q + 3 <= Len(body)
       /\ body[q + 1] = TagBytes(tag)[1] /\ body[q + 2] = TagBytes(tag)[2]
       /\ body[q + 3] = buf[p + 3]
  <2>1. /\ q \in Nat /\ start + q = p
        /\ q + 2 <= Len(buf) - start /\ q + 3 <= Len(buf) - start
        /\ \A j \in 1 .. 3 : q + j \in 1 .. Len(buf) - start /\ start + (q + j) = p + j
    <3> DEFINE len == Len(buf)
    <3>1. len \in Nat /\ start \in Nat /\ p + 3 <= len /\ start <= p
      BY ONLY <1>1, <1>3, <1>4
    <3> HIDE DEF len
    <3>2. /\ q \in Nat /\ start + q = p /\ q + 3 <= len - start /\ q + 2 <= len - start
      BY ONLY <3>1, p \in Nat
    <3>3. len - start \in Nat
      BY ONLY <3>1, p \in Nat
    <3> HIDE DEF q
    <3>4. \A j \in 1 .. 3 : q + j \in 1 .. len - start /\ start + (q + j) = p + j
      BY ONLY <3>1, <3>2, <3>3, p \in Nat
    <3> QED
      BY ONLY <3>2, <3>4 DEF len
  <2>2. \A j \in 1 .. 3 : body[q + j] = buf[p + j]
    <3> SUFFICES ASSUME NEW j \in 1 .. 3
                 PROVE  body[q + j] = buf[p + j]
      OBVIOUS
    <3> DEFINE k == q + j
    <3>1. k \in 1 .. Len(buf) - start /\ start + k = p + j
      BY <2>1
    <3> HIDE DEF k
    <3>2. body[k] = buf[p + j]
      BY ONLY <1>3, <3>1
    <3> QED
      BY <3>2 DEF k
  <2> HIDE DEF q
  <2> QED
    BY ONLY <1>3, <1>7, <2>1, <2>2
<1> HIDE DEF tag
<1>14. F!IsTagAt(body, q) /\ body[q + 1].val = tag
  <2> HIDE DEF q
  <2> QED
    BY ONLY <1>3, <1>13, TagIsAt
<1>15. TagWire(tag) = FromConfig /\ tag % (MaxFieldId + 1) = id
  BY WireOfTag, IdOfTag DEF FromConfig, tag
<1>16. new = WriteAt(body, q, cells)
  <2> HIDE DEF q
  <2>1. /\ WriteAt(body, q, cells)
             = [i \in 1 .. Len(body) |-> IF i \in q + 1 .. q + 2 THEN cells[i - q] ELSE body[i]]
    BY ONLY <1>5 DEF WriteAt
  <2>2. ASSUME NEW i \in 1 .. Len(body)
        PROVE  new[i] = IF i \in q + 1 .. q + 2 THEN cells[i - q] ELSE body[i]
    <3> DEFINE j == start + i
    <3>1. /\ i \in 1 .. Len(buf) - start /\ i \in 1 .. Len(buf') - start /\ j \in 1 .. Len(buf)
          /\ j \in p + 1 .. p + 2 <=> i \in q + 1 .. q + 2
          /\ j - p = i - q
      <4> DEFINE len == Len(buf)
      <4>1. /\ len \in Nat /\ start \in Nat /\ start <= p /\ p <= len
            /\ q \in Nat /\ start + q = p /\ i \in 1 .. len - start
            /\ Len(buf') = len
        BY ONLY <1>1, <1>3, <1>4, <1>8, <1>13, p \in Nat, i \in 1 .. Len(body)
      <4> HIDE DEF len, j
      <4>2. i \in Nat /\ 1 <= i /\ i <= len - start
        BY ONLY <4>1, p \in Nat
      <4>3. j = start + i
        BY DEF j
      <4>4. /\ j \in 1 .. len /\ j - p = i - q
            /\ j \in p + 1 .. p + 2 <=> i \in q + 1 .. q + 2
        BY ONLY <4>1, <4>2, <4>3, p \in Nat
      <4> QED
        BY ONLY <4>1, <4>4 DEF len
    <3>2. new[i] = buf'[j] /\ body[i] = buf[j]
      BY ONLY <1>3, <3>1
    <3> HIDE DEF j
    <3>3. buf'[j] = IF j \in p + 1 .. p + 2 THEN cells[j - p] ELSE buf[j]
      BY ONLY <1>8, <3>1
    <3> QED
      BY ONLY <3>1, <3>2, <3>3
  <2>3. Len(new) = Len(body)
    BY ONLY <1>3, <1>8
  <2>4. new = [i \in 1 .. Len(new) |-> new[i]]
    BY ONLY <1>3, IsASeq
  <2> QED
    BY ONLY <2>1, <2>2, <2>3, <2>4
<1>17. q \in F!Floor .. Len(F!Body) - 3
  <2>1. F!Body = body
    BY ONLY <1>11, Vocabulary DEF F!Body
  <2>2. F!Floor \in Nat /\ F!Floor <= q
    <3>1. Len(Segments) = 1 => q = p
      BY ONLY <1>12, <1>13, p \in Nat
    <3> HIDE DEF q
    <3> QED
      BY ONLY <1>1, <1>13, <3>1, base <= p DEF F!Floor
  <2> HIDE DEF q
  <2> QED
    BY ONLY <1>3, <1>13, <2>1, <2>2, LenProperties
<1>18. F!Body = body
  BY ONLY <1>11, Vocabulary DEF F!Body
<1> HIDE DEF q
<1>19. Segments' = [Segments EXCEPT ![Len(Segments)] = WriteAt(@, q, TagBytes(Tag(wire, id)))]
  BY ONLY <1>10, <1>11, <1>16 DEF cells
<1>20. wire = WireOfLengthField(body[q + 3].of)
  BY ONLY <1>4, <1>13
<1> HIDE DEF wire
<1>21. F!Announce
  BY ONLY <1>1, <1>2, <1>4, <1>13, <1>14, <1>15, <1>17, <1>18, <1>19, <1>20, Vocabulary,
          base' = base DEF F!Announce
<1> QED
  BY <1>21 DEF F!Next

----------------------------------------------------------------------------
(***************************************************************************)
(* The steps of the serializer.                                            *)
(***************************************************************************)
AsFraming == F!Next \/ UNCHANGED F!vars

(* Without sections there is one segment, the buffer.                      *)
LEMMA BottomSegment ==
    ASSUME NEW b \in Seq(FitCell)
    PROVE  Cuts(b, <<>>) = <<b>>
<1> DEFINE cut == Cut(b, <<>>, 0)
<1>1. cut = SubSeq(b, 1, Len(b))
  <2>1. Len(<<>>) = 0 /\ 0 + 1 = 1
    OBVIOUS
  <2> QED
    BY <2>1 DEF Cut, StartOf, StopOf
<1>2. SubSeq(b, 1, Len(b)) = b
  <2> DEFINE all == SubSeq(b, 1, Len(b))
  <2>1. all \in Seq(FitCell) /\ Len(all) = Len(b) /\ \A i \in 1 .. Len(b) : all[i] = b[i]
    BY LenProperties
  <2> HIDE DEF all
  <2>2. all = b
    BY ONLY <2>1, SameCells, b \in Seq(FitCell)
  <2> QED
    BY <2>2 DEF all
<1>3. cut = b
  BY <1>1, <1>2
<1> HIDE DEF cut
<1>4. Cuts(b, <<>>) = [k \in 1 .. 1 |-> b]
  <2>1. Cuts(b, <<>>) = [k \in 1 .. 1 |-> Cut(b, <<>>, k - 1)]
    BY DEF Cuts
  <2>2. \A k \in 1 .. 1 : k - 1 = 0
    OBVIOUS
  <2> QED
    BY ONLY <1>3, <2>1, <2>2 DEF cut
<1>5. [k \in 1 .. 1 |-> b] = <<b>>
  OBVIOUS
<1> QED
  BY ONLY <1>4, <1>5

(* Begin and End.                                                          *)
LEMMA CallFramed ==
    ASSUME IInv, NEW root \in Roots, Call(root)
    PROVE  AsFraming
<1>1. IInv'
  BY CallStep
<1>2. /\ pc \in {"idle", "ok"} \cup Errors /\ buf' = buf /\ base' = Len(buf)
      /\ pc' \in {"value", "TypePanic"} /\ sections' = <<>> /\ buf \in Seq(FitCell)
  BY DEF Call, IInv
<1>3. CallState \in {"idle", "ok", "failed"} /\ ~Running /\ Segments = <<buf>>
  BY <1>2, CallStates, SegmentsAreCuts
<1>4. CallState' \in {"open", "panicked"} /\ Segments' = <<buf>>
  <2>1. CASE pc' = "value"
    <3>1. Running'
      BY <2>1 DEF Running
    <3>2. CallState' = "open" /\ Segments' = Cuts(buf', <<>>)
      BY <1>1, <1>2, <3>1, WorkingAfter
    <3> QED
      BY <1>2, <3>2, BottomSegment
  <2>2. CASE pc' = "TypePanic"
    <3>1. ~Running' /\ pc' \in Panics
      BY <2>2 DEF Running, Panics
    <3> QED
      BY <1>2, <3>1, CallStatesAfter, SegmentsAfter
  <2> QED
    BY <1>2, <2>1, <2>2
<1>5. base' = Len(Segments[1]) /\ Segments' = Segments
  BY <1>2, <1>3, <1>4
<1>6. F!Begin
  BY ONLY <1>3, <1>4, <1>5 DEF F!Begin
<1> QED
  BY <1>6 DEF AsFraming, F!Next

(* The end of a call, when its only segment is the bottom one.             *)
LEMMA FinishFramed ==
    ASSUME IInv, Finish
    PROVE  AsFraming
<1>1. /\ Running /\ pc' = "ok" /\ frames = <<>> /\ buf' = buf /\ base' = base
  BY DEF Finish, Running
<1>2. sections = <<>>
  <2>1. Cardinality(Sectioned(<<>>)) = 0
    BY FS_EmptySet DEF Sectioned
  <2>2. Len(sections) = 0 /\ sections \in Seq(Section)
    BY <1>1, <2>1 DEF IInv, SectionsMatchFrames, Current, TypeOK
  <2> QED
    BY <2>2
<1>3. CallState = "open" /\ Segments = <<buf>>
  <2>1. CallState = "open" /\ Segments = Cuts(buf, <<>>) /\ buf \in Seq(FitCell)
    BY <1>1, <1>2, Working
  <2> QED
    BY <2>1, BottomSegment
<1>4. CallState' = "ok" /\ Segments' = <<buf>>
  BY <1>1, CallStatesAfter, SegmentsAfter
<1>5. Len(Segments) = 1 /\ Segments' = Segments
  BY <1>3, <1>4
<1>6. F!End
  BY ONLY <1>1, <1>3, <1>4, <1>5 DEF F!End
<1> QED
  BY <1>6 DEF AsFraming, F!Next

(* A step into an error or a panic.                                        *)
LEMMA FailFramed ==
    ASSUME IInv, IInv', Kept, Running, pc' \in Errors \cup Panics, base' = base
    PROVE  AsFraming
BY FailsAsFraming DEF AsFraming, F!Next

(* Primitives and enums.                                                   *)
LEMMA FixedFramed ==
    ASSUME IInv, SerializeFixed
    PROVE  AsFraming
<1> DEFINE size == Types[nextType].size
<1>1. /\ IInv' /\ Running /\ Running' /\ buf' = buf \o Data(size)
      /\ UNCHANGED <<sections, base>>
  BY FixedStep DEF SerializeFixed, Running
<1>2. size \in Nat
  <2>1. nextType \in TypeId /\ IsFixed(Types[nextType])
    BY DEF SerializeFixed, IInv, TypeOK
  <2>2. Types[nextType] \in SomeIpFixed
    BY <2>1, TypeShapes
  <2> QED
    BY <2>2 DEF SomeIpFixed
<1> HIDE DEF size
<1>3. Data(size) \in Seq(FitCell)
  BY <1>2, BytesAreCells DEF Data
<1> QED
  BY <1>1, <1>2, <1>3, AppendsAsFraming DEF AsFraming

(* A section is begun at the end of the buffer.                            *)
LEMMA Begun ==
    ASSUME IInv, Running, NEW reserved \in OptSize
    PROVE  /\ BeginBuf(reserved) \in Seq(FitCell) /\ reserved \in Nat
           /\ Len(BeginBuf(reserved)) = Len(buf) + reserved
           /\ \A i \in 1 .. Len(buf) : BeginBuf(reserved)[i] = buf[i]
           /\ BeginSections(reserved) \in Seq(Section)
           /\ Nested(base, BeginSections(reserved), BeginBuf(reserved))
           /\ reserved = None => BeginBuf(reserved) = buf /\ BeginSections(reserved) = sections
           /\ reserved # None =>
                \E sec \in Section :
                   /\ sec.pos = Len(buf) /\ EndOf(sec) = Len(buf) + reserved
                   /\ BeginSections(reserved) = Append(sections, sec)
<1>1. /\ TypeOK /\ buf \in Seq(FitCell) /\ base <= Len(buf) /\ Nested(base, sections, buf)
      /\ reserved \in Nat /\ sections \in Seq(Section) /\ Len(buf) \in Nat
  BY Working DEF OptSize, LengthFieldSize, None
<1>2. /\ BeginBuf(reserved) \in Seq(FitCell)
      /\ Len(BeginBuf(reserved)) = Len(buf) + reserved
      /\ \A i \in 1 .. Len(buf) : BeginBuf(reserved)[i] = buf[i]
      /\ BeginSections(reserved) \in Seq(Section)
      /\ Nested(base, BeginSections(reserved), BeginBuf(reserved))
  BY <1>1, BeginKeepsNesting
<1>3. ASSUME reserved = None
      PROVE  BeginBuf(reserved) = buf /\ BeginSections(reserved) = sections
  <2> DEFINE begun == BeginBuf(reserved)
  <2>1. begun \in Seq(FitCell) /\ Len(begun) = Len(buf) /\ \A i \in 1 .. Len(buf) : begun[i] = buf[i]
    BY <1>1, <1>2, <1>3 DEF None
  <2> HIDE DEF begun
  <2>2. begun = buf
    BY ONLY <1>1, <2>1, SameCells
  <2> QED
    BY <1>3, <2>2 DEF BeginSections, begun
<1>4. ASSUME reserved # None
      PROVE  \E sec \in Section :
                /\ sec.pos = Len(buf) /\ EndOf(sec) = Len(buf) + reserved
                /\ BeginSections(reserved) = Append(sections, sec)
  <2> DEFINE new == [pos |-> Len(buf), reserved |-> reserved, tlv |-> inTlv]
  <2>1. new \in Section /\ new.pos = Len(buf) /\ EndOf(new) = Len(buf) + reserved
    BY <1>1, <1>4, SizesDoNotFail DEF TypeOK, Section, EndOf
  <2>2. BeginSections(reserved) = Append(sections, new)
    BY <1>4 DEF BeginSections
  <2> HIDE DEF new
  <2> QED
    BY <2>1, <2>2
<1> QED
  BY <1>1, <1>2, <1>3, <1>4

(* Sequences and structs begin with their section.                         *)
LEMMA BeginFramed ==
    ASSUME IInv, IInv', pc = "value", NEW f, NEW reserved \in OptSize,
           BeginValue(f, reserved), base' = base
    PROVE  AsFraming
<1>1. Running /\ Running'
  BY DEF Running, BeginValue
<1>2. sections' = BeginSections(reserved) /\ buf' = BeginBuf(reserved)
  BY DEF BeginValue
<1>3. CASE reserved = None
  <2>1. UNCHANGED <<buf, sections, base>>
    BY <1>1, <1>2, <1>3, Begun
  <2> QED
    BY <1>1, <2>1, NothingChanges DEF AsFraming
<1>4. CASE reserved # None
  <2>1. /\ Len(buf') = Len(buf) + reserved /\ \A i \in 1 .. Len(buf) : buf'[i] = buf[i]
        /\ \E sec \in Section : /\ sec.pos = Len(buf) /\ EndOf(sec) = Len(buf) + reserved
                                /\ sections' = Append(sections, sec)
    BY <1>1, <1>2, <1>4, Begun
  <2>2. PICK sec \in Section : /\ sec.pos = Len(buf) /\ EndOf(sec) = Len(buf')
                               /\ sections' = Append(sections, sec)
    BY <2>1
  <2> QED
    BY <1>1, <2>1, <2>2, OpensAsFraming DEF AsFraming
<1> QED
  BY <1>3, <1>4

(* They end with it.                                                       *)
LEMMA ClosingFramed ==
    ASSUME IInv, IInv', Kept, pc = "return", frames # <<>>,
           EndValue(buf, sections, Top.lfs), base' = base
    PROVE  AsFraming
<1>1. /\ Running /\ Top.lfs \in OptSize /\ base <= Len(buf) /\ Nested(base, sections, buf)
      /\ buf \in Seq(FitCell) /\ sections \in Seq(Section) /\ TypeOK /\ base \in Nat
  BY Working, TopIsFrame DEF Running
<1>2. Top.lfs # None => sections # <<>> /\ Len(sections) # 0
  <2>1. frames \in Seq(Frame) /\ Len(sections) = Cardinality(Sectioned(frames))
    BY <1>1 DEF IInv, TypeOK, SectionsMatchFrames, Current
  <2> QED
    BY <1>1, <2>1, SectionedFront, LenProperties DEF Top
<1>3. pc' \in {"return", "TooLong"} \cup Panics
  BY <1>1, <1>2, EndValueKeeps
<1>4. CASE pc' # "return"
  BY <1>1, <1>3, <1>4, FailFramed DEF Errors
<1>5. CASE pc' = "return" /\ Top.lfs = None
  <2>1. Running' /\ UNCHANGED <<buf, sections, base>>
    BY <1>5 DEF EndValue, Running
  <2> QED
    BY <1>1, <2>1, NothingChanges DEF AsFraming
<1>6. CASE pc' = "return" /\ Top.lfs # None
  <2>1. /\ Running' /\ sections' = Front(sections) /\ Top.lfs \in LengthFieldSize
        /\ EndSection(buf, Last(sections), Top.lfs, Len(buf) - EndOf(Last(sections)))
    BY <1>1, <1>6, SizesDoNotFail DEF EndValue, Running
  <2>2. PICK actual \in LengthFieldSize, d \in Nat, pos \in Nat :
           /\ Patched(buf, buf', pos, actual, d, Len(buf) - EndOf(Last(sections)))
           /\ pos = sections[Len(sections)].pos
           /\ EndOf(sections[Len(sections)]) = pos + actual + d
    BY <1>1, <1>2, <1>6, <2>1, SectionPatched
  <2>3. Last(sections) = sections[Len(sections)]
    BY DEF Last
  <2> QED
    BY <1>1, <1>2, <1>6, <2>1, <2>2, <2>3, ClosesAsFraming DEF AsFraming
<1> QED
  BY <1>4, <1>5, <1>6

(* A length field that is patched in front of what was written behind it.  *)
PatchedBehind(b, r, begun, data, c, actual, d) ==
    /\ b \in Seq(FitCell) /\ r \in Nat /\ begun \in Seq(FitCell)
    /\ Len(begun) = Len(b) + r /\ \A i \in 1 .. Len(b) : begun[i] = b[i]
    /\ data \in Seq(FitCell) /\ c \in Seq(FitCell)
    /\ actual \in LengthFieldSize /\ d \in Nat /\ actual + d = r
    /\ Patched(begun \o data, c, Len(b), actual, d, Len(data))
FramedBehind(b, data, c, actual) ==
    /\ Len(data) <= Capacity(actual)
    /\ LengthBytes(actual, Len(data)) \o data \in Seq(FitCell)
    /\ c = b \o (LengthBytes(actual, Len(data)) \o data)

(* A length field that is patched and shrunk in front of its content is the *)
(* length in front of the content.                                         *)
LEMMA FramedInPlace ==
    ASSUME NEW b, NEW r, NEW begun, NEW data, NEW c, NEW actual, NEW d,
           PatchedBehind(b, r, begun, data, c, actual, d)
    PROVE  FramedBehind(b, data, c, actual)
<1> SUFFICES ASSUME b \in Seq(FitCell), r \in Nat, begun \in Seq(FitCell),
                    Len(begun) = Len(b) + r, \A i \in 1 .. Len(b) : begun[i] = b[i],
                    data \in Seq(FitCell), c \in Seq(FitCell),
                    actual \in LengthFieldSize, d \in Nat, actual + d = r,
                    Patched(begun \o data, c, Len(b), actual, d, Len(data))
             PROVE  /\ Len(data) <= Capacity(actual)
                    /\ LengthBytes(actual, Len(data)) \o data \in Seq(FitCell)
                    /\ c = b \o (LengthBytes(actual, Len(data)) \o data)
  BY DEF PatchedBehind, FramedBehind
<1> DEFINE all == begun \o data
           pos == Len(b)
           n == Len(data)
           framed == LengthBytes(actual, n) \o data
           whole == b \o framed
<1>1. /\ all \in Seq(FitCell) /\ Len(all) = Len(begun) + n
      /\ \A i \in 1 .. Len(begun) : all[i] = begun[i]
      /\ \A i \in Len(begun) + 1 .. Len(all) : all[i] = data[i - Len(begun)]
      /\ n \in Nat /\ pos \in Nat /\ actual \in Nat
  <2>1. /\ all \in Seq(FitCell) /\ Len(all) = Len(begun) + n
        /\ \A i \in 1 .. Len(begun) : all[i] = begun[i]
        /\ \A i \in Len(begun) + 1 .. Len(all) : all[i] = data[i - Len(begun)]
    BY ONLY Concatenated, begun \in Seq(FitCell), data \in Seq(FitCell)
  <2>2. n \in Nat /\ pos \in Nat /\ actual \in Nat
    BY ONLY LenProperties, b \in Seq(FitCell), data \in Seq(FitCell),
            actual \in LengthFieldSize DEF LengthFieldSize
  <2> QED
    BY ONLY <2>1, <2>2
<1>2. n <= Capacity(actual)
  BY <1>1, PatchedFits
<1>3. /\ framed \in Seq(FitCell) /\ Len(framed) = actual + n
      /\ \A i \in 1 .. actual :
           framed[i] = [kind |-> "len", val |-> n, part |-> i, of |-> actual]
      /\ \A i \in actual + 1 .. actual + n : framed[i] = data[i - actual]
  BY <1>2, FramedCells
<1>4. Patched(all, c, pos, actual, d, n)
  OBVIOUS
<1> HIDE DEF all, framed, n
<1>5. /\ whole \in Seq(FitCell) /\ Len(whole) = pos + Len(framed)
      /\ \A i \in 1 .. pos : whole[i] = b[i]
      /\ \A i \in pos + 1 .. Len(whole) : whole[i] = framed[i - pos]
  BY <1>3, Concatenated
<1>6. Len(begun) = pos + r /\ \A i \in 1 .. pos : begun[i] = b[i]
  OBVIOUS
<1> HIDE DEF pos, whole
<1>7. /\ Len(c) = pos + (actual + n) /\ Len(whole) = pos + (actual + n)
      /\ Len(all) = pos + actual + d + n /\ Len(begun) = pos + actual + d
  BY ONLY <1>1, <1>3, <1>4, <1>5, <1>6, actual + d = r, d \in Nat, r \in Nat DEF Patched
<1>8. ASSUME NEW i \in 1 .. Len(c)
      PROVE  c[i] = whole[i]
  <2>1. CASE i \in 1 .. pos
    <3>1. i \in 1 .. Len(begun)
      BY ONLY <1>1, <1>7, <2>1, d \in Nat
    <3>2. c[i] = all[i] /\ all[i] = begun[i] /\ begun[i] = b[i] /\ whole[i] = b[i]
      BY ONLY <1>1, <1>4, <1>5, <1>6, <2>1, <3>1 DEF Patched
    <3> QED
      BY ONLY <3>2
  <2>2. CASE i \in pos + 1 .. pos + actual
    <3> DEFINE j == i - pos
    <3>1. j \in 1 .. actual /\ i \in pos + 1 .. Len(whole)
      BY ONLY <1>1, <1>7, <2>2
    <3> HIDE DEF j
    <3>2. c[i] = [kind |-> "len", val |-> n, part |-> j, of |-> actual]
      BY ONLY <1>4, <2>2 DEF Patched, j
    <3>3. whole[i] = framed[j]
      BY ONLY <1>5, <3>1 DEF j
    <3>4. framed[j] = [kind |-> "len", val |-> n, part |-> j, of |-> actual]
      BY ONLY <1>3, <3>1
    <3> QED
      BY ONLY <3>2, <3>3, <3>4
  <2>3. CASE i \in pos + actual + 1 .. Len(c)
    <3> DEFINE j == i - pos
               k == i + d
    <3>1. /\ j \in actual + 1 .. actual + n /\ i \in pos + 1 .. Len(whole)
          /\ k \in Len(begun) + 1 .. Len(all) /\ k - Len(begun) = j - actual
      <4>1. i \in Nat /\ pos + actual + 1 <= i /\ i <= pos + (actual + n)
        BY ONLY <1>1, <1>7, <2>3
      <4>2. j \in actual + 1 .. actual + n /\ i \in pos + 1 .. pos + (actual + n)
        BY ONLY <1>1, <4>1
      <4> DEFINE lb == pos + actual + d
      <4>3. lb \in Nat /\ k \in lb + 1 .. pos + actual + d + n /\ k - lb = j - actual
        BY ONLY <1>1, <4>1, d \in Nat
      <4> HIDE DEF j, k
      <4> QED
        BY ONLY <1>7, <4>2, <4>3
    <3> HIDE DEF j, k
    <3>2. c[i] = all[k]
      BY ONLY <1>4, <2>3 DEF Patched, k
    <3>3. all[k] = data[j - actual]
      BY ONLY <1>1, <3>1
    <3>4. whole[i] = framed[j]
      BY ONLY <1>5, <3>1 DEF j
    <3>5. framed[j] = data[j - actual]
      BY ONLY <1>3, <3>1
    <3> QED
      BY ONLY <3>2, <3>3, <3>4, <3>5
  <2> QED
    BY ONLY <1>1, <1>7, <2>1, <2>2, <2>3, i \in 1 .. Len(c)
<1>9. c = whole
  BY ONLY <1>5, <1>7, <1>8, SameCells, c \in Seq(FitCell)
<1> QED
  BY <1>2, <1>3, <1>9 DEF whole, framed, n, pos

(* Strings and slices of bytes.                                            *)
LEMMA WholeValueFramed ==
    ASSUME IInv, IInv', Kept, pc = "value", NEW reserved \in OptSize, NEW configured \in OptSize,
           reserved = None <=> configured = None, NEW n \in Nat,
           EndValue(BeginBuf(reserved) \o Data(n), BeginSections(reserved), configured),
           UNCHANGED <<frames, base>>
    PROVE  AsFraming
<1> DEFINE begun == BeginBuf(reserved)
           secs == BeginSections(reserved)
           data == Data(n)
           b == begun \o data
<1>1. /\ Running /\ base \in Nat /\ base <= Len(buf) /\ Len(buf) \in Nat
      /\ buf \in Seq(FitCell) /\ sections \in Seq(Section) /\ TypeOK
  BY Working DEF Running
<1>2. data \in Seq(FitCell) /\ Len(data) = n
  BY BytesAreCells DEF Data
<1>3. EndValue(b, secs, configured)
  OBVIOUS
<1> HIDE DEF begun, secs
<1>4. /\ begun \in Seq(FitCell) /\ reserved \in Nat /\ Len(begun) = Len(buf) + reserved
      /\ \A i \in 1 .. Len(buf) : begun[i] = buf[i]
      /\ secs \in Seq(Section) /\ Nested(base, secs, begun)
      /\ reserved = None => begun = buf /\ secs = sections
      /\ reserved # None =>
           \E sec \in Section : /\ sec.pos = Len(buf) /\ EndOf(sec) = Len(buf) + reserved
                                /\ secs = Append(sections, sec)
  BY <1>1, Begun DEF begun, secs
<1> HIDE DEF data
<1>5. b \in Seq(FitCell) /\ Len(b) = Len(begun) + n /\ Nested(base, secs, b) /\ base <= Len(b)
  <2>1. b \in Seq(FitCell) /\ Len(b) = Len(begun) + n
    BY <1>2, <1>4, Concatenated
  <2> HIDE DEF b
  <2>2. Len(begun) \in Nat /\ Len(b) \in Nat /\ Len(begun) <= Len(b)
    BY <1>1, <1>4, <2>1
  <2>3. Nested(base, secs, b)
    BY ONLY <1>1, <1>4, <2>2, NestedWhenLonger
  <2> QED
    BY <1>1, <1>4, <2>1, <2>3
<1> HIDE DEF b
<1>6. configured # None => /\ secs # <<>> /\ configured \in LengthFieldSize
                           /\ Front(secs) = sections
                           /\ secs[Len(secs)].pos = Len(buf)
                           /\ EndOf(secs[Len(secs)]) = Len(begun)
  <2> SUFFICES ASSUME configured # None
               PROVE  /\ secs # <<>> /\ configured \in LengthFieldSize
                      /\ Front(secs) = sections
                      /\ secs[Len(secs)].pos = Len(buf)
                      /\ EndOf(secs[Len(secs)]) = Len(begun)
    OBVIOUS
  <2>1. PICK sec \in Section : /\ sec.pos = Len(buf) /\ EndOf(sec) = Len(buf) + reserved
                               /\ secs = Append(sections, sec)
    BY <1>4
  <2>2. secs # <<>> /\ Front(secs) = sections /\ Last(secs) = sec
    BY <1>1, <2>1, AppendIsSeq
  <2>3. configured \in LengthFieldSize
    BY SizesDoNotFail
  <2> QED
    BY <1>4, <2>1, <2>2, <2>3 DEF Last
<1>7. pc' \in {"return", "TooLong"} \cup Panics
  BY <1>1, <1>3, <1>4, <1>5, <1>6, EndValueKeeps
<1>8. CASE pc' # "return"
  BY <1>1, <1>7, <1>8, FailFramed DEF Errors
<1>9. CASE pc' = "return" /\ configured = None
  <2>1. Running' /\ buf' = buf \o data /\ sections' = sections
    BY <1>3, <1>4, <1>9 DEF EndValue, Running, b
  <2>2. \E m \in Nat : data = Data(m)
    BY DEF data
  <2> QED
    BY <1>1, <1>2, <2>1, <2>2, AppendsAsFraming DEF AsFraming
<1>10. CASE pc' = "return" /\ configured # None
  <2>1. /\ Running' /\ sections' = sections
        /\ EndSection(b, Last(secs), configured, Len(b) - EndOf(Last(secs)))
    BY <1>3, <1>6, <1>10 DEF EndValue, Running
  <2>2. PICK actual \in LengthFieldSize, d \in Nat, pos \in Nat :
           /\ Patched(b, buf', pos, actual, d, Len(b) - EndOf(Last(secs)))
           /\ lastField' = [size |-> actual, asConfigured |-> actual = configured]
           /\ pos = secs[Len(secs)].pos
           /\ EndOf(secs[Len(secs)]) = pos + actual + d
    <3>1. secs # <<>> /\ configured \in LengthFieldSize /\ pc' = "return"
      BY <1>6, <1>10
    <3>2. /\ TypeOK /\ b \in Seq(FitCell) /\ secs \in Seq(Section)
          /\ base <= Len(b) /\ Nested(base, secs, b)
      BY <1>1, <1>4, <1>5
    <3> QED
      BY ONLY <2>1, <3>1, <3>2, SectionPatched
  <2>3. pos = Len(buf) /\ actual + d = reserved /\ Len(b) - EndOf(Last(secs)) = Len(data)
    <3>1. pos = Len(buf) /\ pos + actual + d = Len(begun) /\ EndOf(Last(secs)) = Len(begun)
      BY <1>6, <1>10, <2>2 DEF Last
    <3>2. actual \in Nat /\ Len(begun) \in Nat
      BY <1>1, <1>4 DEF LengthFieldSize
    <3> DEFINE len == Len(buf)
    <3>3. /\ len \in Nat /\ pos = len /\ pos + actual + d = Len(begun)
          /\ Len(begun) = len + reserved
      BY <1>1, <1>4, <3>1
    <3> HIDE DEF len
    <3>4. actual + d = reserved
      BY ONLY <1>4, <3>2, <3>3, d \in Nat
    <3>5. Len(b) - EndOf(Last(secs)) = n
      BY ONLY <1>5, <3>1, <3>2, n \in Nat
    <3> QED
      BY ONLY <1>2, <3>1, <3>4, <3>5
  <2>4. Patched(begun \o data, buf', Len(buf), actual, d, Len(data))
    BY ONLY <2>2, <2>3 DEF b
  <2>5. buf' \in Seq(FitCell)
    BY DEF IInv
  <2> DEFINE framed == LengthBytes(actual, Len(data)) \o data
  <2>6. Len(data) <= Capacity(actual) /\ framed \in Seq(FitCell) /\ buf' = buf \o framed
    <3>1. /\ buf \in Seq(FitCell) /\ reserved \in Nat /\ begun \in Seq(FitCell)
          /\ Len(begun) = Len(buf) + reserved /\ \A i \in 1 .. Len(buf) : begun[i] = buf[i]
          /\ data \in Seq(FitCell) /\ actual + d = reserved
      BY ONLY <1>1, <1>2, <1>4, <2>3
    <3> QED
      <4>1. PatchedBehind(buf, reserved, begun, data, buf', actual, d)
        BY ONLY <2>4, <2>5, <3>1, actual \in LengthFieldSize, d \in Nat DEF PatchedBehind
      <4>2. FramedBehind(buf, data, buf', actual)
        BY ONLY <4>1, FramedInPlace
      <4> QED
        BY ONLY <4>2 DEF FramedBehind
  <2>7. \E size \in LengthFieldSize, m \in Nat :
           m <= Capacity(size) /\ framed = LengthBytes(size, m) \o Data(m)
    <3>1. framed = LengthBytes(actual, n) \o Data(n) /\ n <= Capacity(actual)
      BY <1>2, <2>6 DEF data
    <3> QED
      BY <3>1
  <2> HIDE DEF framed
  <2> QED
    BY <1>1, <2>1, <2>6, <2>7, AppendsAsFraming DEF AsFraming
<1> QED
  BY <1>8, <1>9, <1>10

(* A value that fails before its section begins.                           *)
LEMMA FailingFramed ==
    ASSUME IInv, IInv', Kept, pc = "value" \/ pc = "return",
           NEW reason \in Errors \cup Panics, Fail(reason), base' = base
    PROVE  AsFraming
<1>1. Running /\ pc' \in Errors \cup Panics
  BY DEF Fail, Running
<1> QED
  BY <1>1, FailFramed

(* A slice of bytes: its length and the bytes, or an error.                *)
LEMMA BytesFramed ==
    ASSUME IInv, NEW n \in Nat, SerializeBytes(n)
    PROVE  AsFraming
<1> DEFINE reserved == Reservation[Here]
           configured == WantedLengthField[Here]
           reason == OutOfBounds(n, Types[nextType])
<1>1. pc = "value" /\ base' = base /\ IInv' /\ Kept
  BY BytesStep DEF SerializeBytes
<1>2. \/ reason # "no" /\ Fail(reason)
      \/ Fail(Outcome(reserved))
      \/ /\ ~Failed(reserved)
         /\ EndValue(BeginBuf(reserved) \o Data(n), BeginSections(reserved), configured)
         /\ UNCHANGED frames
  BY DEF SerializeBytes
<1>3. ~Failed(reserved) => /\ reserved \in OptSize /\ configured \in OptSize
                           /\ reserved = None <=> configured = None
  BY HereIsSite, ReservationMatchesWanted
<1>4. reason # "no" => reason \in Errors \cup Panics
  BY OutOfBoundsIsError
<1> HIDE DEF reserved, configured, reason
<1>5. CASE reason # "no" /\ Fail(reason)
  BY <1>1, <1>4, <1>5, FailingFramed
<1>6. CASE Fail(Outcome(reserved))
  BY <1>1, <1>6, OutcomeIsEnd, FailingFramed
<1>7. CASE /\ ~Failed(reserved)
           /\ EndValue(BeginBuf(reserved) \o Data(n), BeginSections(reserved), configured)
           /\ UNCHANGED frames
  BY <1>1, <1>3, <1>7, WholeValueFramed
<1> QED
  BY <1>2, <1>5, <1>6, <1>7

(* A string, with its byte order mark and terminator.                      *)
LEMMA StrFramed ==
    ASSUME IInv, NEW units \in Nat, SerializeStr(units)
    PROVE  AsFraming
<1> DEFINE reserved == Reservation[Here]
           configured == WantedLengthField[Here]
           size == EncodedSize(opts, units)
           reason == OutOfBounds(size, Types[nextType])
<1>1. pc = "value" /\ base' = base /\ IInv' /\ Kept
  BY StrStep DEF SerializeStr
<1>2. \/ Fail(Outcome(reserved))
      \/ reason # "no" /\ pc' = reason
      \/ /\ ~Failed(reserved)
         /\ EndValue(BeginBuf(reserved) \o Data(size), BeginSections(reserved), configured)
         /\ UNCHANGED frames
  BY DEF SerializeStr
<1>3. ~Failed(reserved) => /\ reserved \in OptSize /\ configured \in OptSize
                           /\ reserved = None <=> configured = None
  BY HereIsSite, ReservationMatchesWanted
<1>4. size \in Nat
  BY EncodedSizeIsNat DEF IInv, TypeOK
<1>5. reason # "no" => reason \in Errors \cup Panics
  <2> HIDE DEF size
  <2> QED
    BY OutOfBoundsIsError
<1> HIDE DEF reserved, configured, reason, size
<1>6. CASE reason # "no" /\ pc' = reason
  BY <1>1, <1>5, <1>6, FailFramed DEF Running
<1>7. CASE Fail(Outcome(reserved))
  BY <1>1, <1>7, OutcomeIsEnd, FailingFramed
<1>8. CASE /\ ~Failed(reserved)
           /\ EndValue(BeginBuf(reserved) \o Data(size), BeginSections(reserved), configured)
           /\ UNCHANGED frames
  BY <1>1, <1>3, <1>4, <1>8, WholeValueFramed
<1> QED
  BY <1>2, <1>6, <1>7, <1>8

(* A character that the encoding does not have.                            *)
LEMMA NonAsciiFramed ==
    ASSUME IInv, SerializeNonAscii
    PROVE  AsFraming
<1>1. /\ IInv' /\ Kept /\ pc = "value" /\ base' = base /\ Fail("CannotCodeString")
      /\ "CannotCodeString" \in Errors \cup Panics
  BY NonAsciiStep DEF SerializeNonAscii, Errors
<1> QED
  BY <1>1, FailingFramed

(* A field of a TLV struct without an id.                                  *)
LEMMA WithoutIdFramed ==
    ASSUME IInv, FieldWithoutId
    PROVE  AsFraming
<1>1. /\ IInv' /\ Kept /\ pc = "return" /\ base' = base /\ Fail("TypePanic")
      /\ "TypePanic" \in Errors \cup Panics
  BY WithoutIdStep DEF FieldWithoutId, AtField, Panics
<1> QED
  BY <1>1, FailingFramed

(* None takes back the tag of its field.                                   *)
LEMMA NoneFramed ==
    ASSUME IInv, Placed, Tagged, SerializeNone
    PROVE  AsFraming
<1>1. IInv' /\ Kept /\ pc = "value" /\ base' = base /\ Running
  BY NoneStep DEF SerializeNone, Running
<1>2. CASE ~inTlv
  <2>1. Fail("TypePanic") /\ "TypePanic" \in Errors \cup Panics
    BY <1>2 DEF SerializeNone, Panics
  <2> QED
    BY <1>1, <2>1, FailingFramed
<1>3. CASE inTlv
  <2>1. /\ Running' /\ buf' = SetLen(buf, Len(buf) - 2) /\ sections' = sections
    BY <1>3 DEF SerializeNone, Running
  <2>2. /\ frames # <<>> /\ Top.tagPos = Len(buf) - 2 /\ Top = frames[Len(frames)]
        /\ base + 2 <= Len(buf) /\ \A k \in DOMAIN sections : SectionEnd(k) + 2 <= Len(buf)
    BY <1>1, <1>3 DEF Placed, Layout, ValueFollowsTag, Top, IInv, TagJustWritten
  <2>3. /\ base \in Nat /\ Len(buf) \in Nat /\ sections \in Seq(Section)
        /\ frames \in Seq(Frame) /\ TagsStand(frames, buf)
    BY <1>1, UnderWay, TagsUnderWay DEF FrameSeq
  <2> DEFINE n == Len(buf) - 2
             tag == Tag(WireTypeOf(Types[FieldOfFrame(Top).type]), FieldOfFrame(Top).id)
  <2>4. n \in Nat /\ Len(buf) = n + 2 /\ base <= n
    BY <2>2, <2>3
  <2>5. BodyStart(sections) <= n
    <3>1. CASE Len(sections) = 0
      BY <2>4, <3>1 DEF BodyStart, StartOf
    <3>2. CASE Len(sections) # 0
      <4>1. Len(sections) \in 1 .. Len(sections)
        BY <2>3, <3>2, LenProperties
      <4>2. /\ EndOf(sections[Len(sections)]) + 2 <= Len(buf)
            /\ EndOf(sections[Len(sections)]) \in Nat
        BY <2>2, <2>3, <4>1, SectionShape DEF SectionEnd
      <4>3. BodyStart(sections) = EndOf(sections[Len(sections)])
        BY <3>2 DEF BodyStart, StartOf
      <4> QED
        BY <2>3, <4>2, <4>3
    <3> QED
      BY <3>1, <3>2
  <2>6. Top.tagPos = n /\ n # NoTag
    BY <2>2, <2>4 DEF NoTag
  <2> HIDE DEF n
  <2>7. TagStands(Top, buf)
    <3>1. Len(frames) \in 1 .. Len(frames)
      BY <2>2, <2>3
    <3>2. IsOpen(frames, Len(frames)) /\ frames[Len(frames)].tagPos + 2 <= Len(buf)
      BY <2>2, <2>3, <2>4, <2>6 DEF IsOpen
    <3> QED
      BY <2>2, <2>3, <3>1, <3>2 DEF TagsStand
  <2>8. buf[n + 1] = TagBytes(tag)[1] /\ buf[n + 2] = TagBytes(tag)[2]
    BY <2>6, <2>7 DEF TagStands
  <2>9. buf' = SetLen(buf, n)
    BY <2>1 DEF n
  <2> HIDE DEF tag
  <2> QED
    BY <1>1, <2>1, <2>4, <2>5, <2>8, <2>9, RetractsAsFraming DEF AsFraming
<1> QED
  BY <1>2, <1>3

(* A sequence opens a segment, if it has a length field.                   *)
LEMMA SeqFramed ==
    ASSUME IInv, NEW hint, SerializeSeq(hint)
    PROVE  AsFraming
<1> DEFINE reserved == Reservation[Here]
           hinted == IF hint = NoHint THEN "no" ELSE OutOfBounds(hint, Types[nextType])
           f == [type |-> nextType, lfs |-> WantedLengthField[Here], count |-> 0,
                 orig |-> NoProps, tagPos |-> NoTag]
<1>1. pc = "value" /\ base' = base /\ IInv' /\ Kept
  BY SeqStep DEF SerializeSeq
<1>2. \/ hinted # "no" /\ Fail(hinted)
      \/ Fail(Outcome(reserved))
      \/ ~Failed(reserved) /\ BeginValue(f, reserved)
  BY DEF SerializeSeq
<1>3. ~Failed(reserved) => reserved \in OptSize
  BY HereIsSite, ReservationMatchesWanted
<1>4. hinted # "no" => hinted \in Errors \cup Panics
  BY OutOfBoundsIsError
<1> HIDE DEF reserved, hinted, f
<1>5. CASE hinted # "no" /\ Fail(hinted)
  BY <1>1, <1>4, <1>5, FailingFramed
<1>6. CASE Fail(Outcome(reserved))
  BY <1>1, <1>6, OutcomeIsEnd, FailingFramed
<1>7. CASE ~Failed(reserved) /\ BeginValue(f, reserved)
  BY <1>1, <1>3, <1>7, BeginFramed
<1> QED
  BY <1>2, <1>5, <1>6, <1>7

(* So does a struct, which is not always length delimited.                 *)
LEMMA StructFramed ==
    ASSUME IInv, SerializeStruct
    PROVE  AsFraming
<1> DEFINE ty == Types[nextType]
           scope == IF ty.props.set THEN ty.props ELSE props
           site == [Here EXCEPT !.props = scope]
           reserved == Reservation[site]
           f == [type |-> nextType, lfs |-> WantedLengthField[site], count |-> 0,
                 orig |-> IF ty.props.set THEN props ELSE NoProps, tagPos |-> NoTag]
<1>1. pc = "value" /\ base' = base /\ IInv' /\ Kept /\ nextType \in TypeId
      /\ props \in Properties /\ ty.kind = "struct"
  BY StructStep DEF SerializeStruct, IInv, TypeOK
<1>2. \/ Fail(Outcome(reserved))
      \/ ~Failed(reserved) /\ BeginValue(f, reserved)
  BY DEF SerializeStruct
<1>3. scope \in Properties
  <2>1. ty \in SomeIpStruct
    BY <1>1, TypeShapes
  <2> QED
    BY <1>1, <2>1 DEF SomeIpStruct
<1>4. site \in Site
  <2> HIDE DEF scope
  <2> QED
    BY <1>3, HereIsSite DEF Site
<1>5. ~Failed(reserved) => reserved \in OptSize
  <2> HIDE DEF site
  <2> QED
    BY <1>4, ReservationMatchesWanted
<1> HIDE DEF reserved, f
<1>6. CASE Fail(Outcome(reserved))
  BY <1>1, <1>6, OutcomeIsEnd, FailingFramed
<1>7. CASE ~Failed(reserved) /\ BeginValue(f, reserved)
  BY <1>1, <1>5, <1>7, BeginFramed
<1> QED
  BY <1>2, <1>6, <1>7

(* The next element of a sequence.                                         *)
LEMMA ElementFramed ==
    ASSUME IInv, SerializeElement
    PROVE  AsFraming
<1>1. IInv' /\ Running /\ Running' /\ UNCHANGED <<buf, sections, base>>
  BY ElementStep DEF SerializeElement, Running
<1> QED
  BY <1>1, NothingChanges DEF AsFraming

(* The end of a sequence or struct closes its segment.                     *)
LEMMA EndFramed ==
    ASSUME IInv, EndSeq \/ EndStruct
    PROVE  AsFraming
<1>1. /\ IInv' /\ Kept /\ pc = "return" /\ frames # <<>> /\ base' = base
      /\ \/ EndValue(buf, sections, Top.lfs)
         \/ /\ OutOfBounds(Top.count, TopType) # "no"
            /\ Fail(OutOfBounds(Top.count, TopType))
  BY EndSeqStep, EndStructStep DEF EndSeq, EndStruct
<1>2. CASE EndValue(buf, sections, Top.lfs)
  BY <1>1, <1>2, ClosingFramed
<1>3. CASE /\ OutOfBounds(Top.count, TopType) # "no"
           /\ Fail(OutOfBounds(Top.count, TopType))
  BY <1>1, <1>3, OutOfBoundsIsError, FailingFramed
<1> QED
  BY <1>1, <1>2, <1>3

(* A tag is written in front of the value of a TLV field.                  *)
LEMMA FieldFramed ==
    ASSUME IInv, SerializeField
    PROVE  AsFraming
<1> DEFINE wire == WireTypeOf(Types[NextField.type])
           cells == TagBytes(Tag(wire, NextField.id))
<1>1. /\ IInv' /\ Running /\ Running' /\ UNCHANGED <<sections, base>>
      /\ buf' = IF TopType.tlv THEN buf \o cells ELSE buf
  BY FieldStep DEF SerializeField, AtField, Running
<1>2. TopType.tlv => NextField.id \in Nat
  BY FieldChange
<1>3. CASE ~TopType.tlv
  BY <1>1, <1>3, NothingChanges DEF AsFraming
<1>4. CASE TopType.tlv
  <2>1. wire \in Nat
    BY DEF WireTypeOf, WireOfFixed, FromConfig
  <2> HIDE DEF wire
  <2>2. cells \in Seq(FitCell) /\ \E tag : cells = TagBytes(tag)
    BY <1>2, <1>4, <2>1, TagsAreCells
  <2> HIDE DEF cells
  <2> QED
    BY <1>1, <1>4, <2>2, AppendsAsFraming DEF AsFraming
<1> QED
  BY <1>3, <1>4

(* The innermost value lies behind every open section.                     *)
LEMMA BodyInFrontOfTag ==
    ASSUME IInv, Placed, Running, frames # <<>>, Top.tagPos # NoTag, Top.tagPos \in Nat
    PROVE  BodyStart(sections) <= Top.tagPos
<1>1. /\ FrameSeq(frames, sections, Len(buf)) /\ Beside(frames, sections)
      /\ frames \in Seq(Frame) /\ sections \in Seq(Section)
  BY UnderWay DEF FrameSeq
<1>2. Len(frames) \in 1 .. Len(frames) /\ Top = frames[Len(frames)]
  BY <1>1 DEF Top
<1>3. Rank(frames, Len(frames)) = Len(sections) /\ Len(sections) \in Nat
  BY <1>1, RankOfAll, LenProperties DEF FrameSeq
<1>4. CASE Len(sections) = 0
  BY <1>4 DEF BodyStart, StartOf
<1>5. CASE Len(sections) # 0
  <2>1. Len(sections) \in 1 .. Len(sections) /\ Len(sections) <= Rank(frames, Len(frames))
    BY <1>3, <1>5
  <2>2. IsOpen(frames, Len(frames))
    BY <1>2 DEF IsOpen
  <2>3. EndOf(sections[Len(sections)]) <= frames[Len(frames)].tagPos
    BY <1>1, <1>2, <2>1, <2>2 DEF Beside
  <2> QED
    BY <1>2, <1>5, <2>3 DEF BodyStart, StartOf
<1> QED
  BY <1>4, <1>5

(* The tag of a field is rewritten for the length field behind it, or      *)
(* stays as it is.                                                         *)
LEMMA PatchTagFramed ==
    ASSUME IdsFit, IInv, Placed, Tagged, PatchTag
    PROVE  AsFraming
<1> DEFINE field == CurrentField
           t == Top.tagPos
           cells == TagBytes(Tag(WireOfLengthField(lastField.size), field.id))
           delimited == WireTypeOf(Types[field.type]) = FromConfig
<1>1. /\ pc = "return" /\ frames # <<>> /\ t # NoTag /\ IInv' /\ Kept /\ Running
      /\ UNCHANGED <<sections, base>>
      /\ \/ buf' = buf /\ pc' = pc
         \/ delimited /\ t < Len(buf) /\ buf' = WriteAt(buf, t, cells) /\ pc' = pc
         \/ pc' = "AssertPreviousPos"
  BY PatchTagStep DEF PatchTag, Running
<1>2. CASE buf' = buf /\ pc' = pc
  <2>1. Running'
    BY <1>1, <1>2 DEF Running
  <2> QED
    BY <1>1, <1>2, <2>1, NothingChanges DEF AsFraming
<1>3. CASE pc' = "AssertPreviousPos"
  <2>1. pc' \in Errors \cup Panics
    BY <1>3 DEF Panics
  <2> QED
    BY <1>1, <2>1, FailFramed
<1>4. CASE delimited /\ t < Len(buf) /\ buf' = WriteAt(buf, t, cells) /\ pc' = pc
  <2>1. Running'
    BY <1>1, <1>4 DEF Running
  <2>2. /\ field = FieldOfFrame(Top) /\ field.id \in 0 .. MaxFieldId
        /\ base <= t /\ t \in Nat
    BY <1>1, FieldOfTag
  <2>3. BodyStart(sections) <= t
    BY <1>1, <2>2, BodyInFrontOfTag
  <2>4. /\ TagsStand(frames, buf) /\ ValueStands(Top, buf, lastField)
        /\ Len(buf) \in Nat /\ frames \in Seq(Frame)
    BY <1>1, UnderWay, TagsUnderWay DEF ValueReturned, FrameSeq
  <2>5. ~IsFixed(Types[field.type])
    BY <1>4 DEF WireTypeOf, WireOfFixed, FromConfig
  <2>6. LengthStands(buf, t + 2, lastField)
    BY <1>4, <2>2, <2>4, <2>5 DEF ValueStands
  <2>7. t + 2 <= Len(buf)
    <3>1. t + 2 + 1 <= Len(buf)
      BY <2>6 DEF LengthStands
    <3> QED
      BY <2>2, <2>4, <3>1
  <2>8. TagStands(Top, buf)
    <3>1. Len(frames) \in 1 .. Len(frames) /\ Top = frames[Len(frames)]
      BY <1>1, <2>4 DEF Top
    <3> QED
      BY <1>1, <2>4, <2>7, <3>1 DEF TagsStand, IsOpen
  <2>9. /\ buf[t + 1] = TagBytes(Tag(FromConfig, field.id))[1]
        /\ buf[t + 2] = TagBytes(Tag(FromConfig, field.id))[2]
    BY <1>4, <2>2, <2>8 DEF TagStands
  <2>10. buf' = WriteAt(buf, t, cells)
    BY <1>4
  <2> HIDE DEF field, t
  <2> QED
    BY <1>1, <2>1, <2>2, <2>3, <2>6, <2>9, <2>10, AnnouncesAsFraming DEF AsFraming
<1> QED
  BY <1>1, <1>2, <1>3, <1>4

----------------------------------------------------------------------------
(***************************************************************************)
(* The serializer implements Framing.                                      *)
(***************************************************************************)

(* A step that changes nothing.                                            *)
LEMMA StutterFramed ==
    ASSUME UNCHANGED vars
    PROVE  AsFraming
<1>1. UNCHANGED <<buf, sections, pc, base>>
  BY DEF vars
<1>2. Running' <=> Running
  BY <1>1 DEF Running
<1>3. CallState' = CallState
  BY <1>1, <1>2 DEF CallState
<1>4. Segments' = Segments
  BY <1>1, <1>2, SegmentsAreCuts, SegmentsAfter
<1> QED
  BY <1>1, <1>3, <1>4 DEF AsFraming, F!vars

(* Before the first call there is one segment, the caller's bytes.         *)
LEMMA InitFramed ==
    ASSUME Init
    PROVE  F!Init
<1>1. PICK n \in InitialBytes : buf = Data(n) /\ base = n
  BY DEF Init
<1>2. n \in Nat
  BY BoundsAssumption
<1>3. Len(buf) = n
  BY <1>1, <1>2, BytesAreCells DEF Data
<1>4. pc = "idle"
  BY DEF Init
<1>5. CallState = "idle" /\ ~Running
  BY <1>4, CallStates
<1>6. Segments = <<buf>>
  BY <1>5, SegmentsAreCuts
<1> QED
  BY <1>1, <1>3, <1>5, <1>6 DEF F!Init

(* Every step is one on segments or changes nothing there.                 *)
LEMMA NextFramed ==
    ASSUME IdsFit, IInv, Placed, Tagged, [Next]_vars
    PROVE  AsFraming
<1>1. ASSUME NEW root \in Roots, Call(root)
      PROVE  AsFraming
  BY <1>1, CallFramed
<1>2. ASSUME NEW units \in 0 .. MaxUnits, SerializeStr(units)
      PROVE  AsFraming
  BY <1>2, StrFramed, BoundsAssumption
<1>3. ASSUME NEW n \in 0 .. MaxUnits, SerializeBytes(n)
      PROVE  AsFraming
  BY <1>3, BytesFramed, BoundsAssumption
<1>4. ASSUME NEW hint \in 0 .. MaxElements \cup {NoHint}, SerializeSeq(hint)
      PROVE  AsFraming
  BY <1>4, SeqFramed
<1>5. CASE Stopped \/ UNCHANGED vars
  BY <1>5, StutterFramed DEF Stopped
<1>6. CASE SerializeFixed \/ SerializeNone
  BY <1>6, FixedFramed, NoneFramed
<1>7. CASE SerializeNonAscii \/ FieldWithoutId
  BY <1>7, NonAsciiFramed, WithoutIdFramed
<1>8. CASE SerializeElement \/ SerializeStruct
  BY <1>8, ElementFramed, StructFramed
<1>9. CASE SerializeField \/ PatchTag
  BY <1>9, FieldFramed, PatchTagFramed
<1>10. CASE EndSeq \/ EndStruct \/ Finish
  BY <1>10, EndFramed, FinishFramed
<1> QED
  BY <1>1, <1>2, <1>3, <1>4, <1>5, <1>6, <1>7, <1>8, <1>9, <1>10 DEF Next

(* Positions, reserved bytes and patching amount to laying out nested      *)
(* segments, for any types whose ids fit into a tag and whose TLV structs  *)
(* have no wrapper struct as a field: an open value has a segment of its   *)
(* own, which is closed behind a length that says how long it is, however  *)
(* much was reserved for it and wherever it is moved to.                   *)
THEOREM FramingIsImplemented ==
    ASSUME NoWrapperInTlv, IdsFit
    PROVE  Spec => ImplementsFraming
<1>1. Init => F!Init
  BY InitFramed
<1>2. IInv /\ Placed /\ Tagged /\ [Next]_vars => [F!Next]_F!vars
  BY NextFramed DEF AsFraming
<1> QED
  BY <1>1, <1>2, Invariant, AlwaysPlaced, AlwaysTagged, PTL DEF Spec, ImplementsFraming, F!Spec
=============================================================================
