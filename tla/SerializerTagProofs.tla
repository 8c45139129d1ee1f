------------------------ MODULE SerializerTagProofs ------------------------
(***************************************************************************)
(* The tag of a complete TLV field announces the value behind it, for all  *)
(* options, capacities and values, although the tag is written before the  *)
(* value and the value's length field may be shrunk or grown long after;   *)
(* and for all types whose field ids fit in their twelve bits and in which *)
(* no message wrapper is the type of a TLV field.                          *)
(*                                                                         *)
(* A tag and what it announces have no reserved byte between them, so no   *)
(* end of a section takes them apart; and the tag of an unfinished field   *)
(* is followed by the section of its value, so that the length field the   *)
(* section ends with is the one that last_length_field tells of.           *)
(***************************************************************************)
EXTENDS SerializerProofs

----------------------------------------------------------------------------
(***************************************************************************)
(* Tags and what is behind them.                                           *)
(***************************************************************************)
IsTag(cell, part) == cell.kind = "tag" /\ cell.part = part

(* A tag is two cells.                                                     *)
Paired(b, from) ==
    \A i \in from + 1 .. Len(b) :
        IsTag(b[i], 1) => i + 1 <= Len(b) /\ IsTag(b[i + 1], 2)

WireAt(b, p) == TagWire(b[p + 1].val)

(* How many of the cells behind the tag at offset p bear out what it says. *)
Span(b, p) == IF WireAt(b, p) < FromConfig THEN FixedSize[WireAt(b, p) + 1] ELSE 1

(* The value behind the tag at offset p is of the kind its wire type says. *)
Behind(b, p, legacy) ==
    /\ p + 2 + Span(b, p) <= Len(b)
    /\ IF WireAt(b, p) < FromConfig
       THEN \A j \in 1 .. Span(b, p) : b[p + 2 + j].kind = "data"
       ELSE /\ b[p + 3].kind = "len" /\ b[p + 3].part = 1
            /\ IF WireAt(b, p) = FromConfig THEN legacy
               ELSE WireOfLengthField(b[p + 3].of) = WireAt(b, p)

(* All tags but the open ones announce what is behind them.                *)
Closed(b, from, open, legacy) ==
    \A p \in from .. Len(b) - 1 :
        IsTag(b[p + 1], 1) /\ p \notin open => Behind(b, p, legacy)

OpenTags(fs) == {fs[i].tagPos : i \in 1 .. Len(fs)}

(* The wire type of a tag is three bits, and the id does not reach it.     *)
LEMMA WireIsThreeBits ==
    ASSUME NEW v \in Nat
    PROVE  TagWire(v) \in 0 .. 7
BY DEF TagWire, MaxFieldId

(* A tag is read back as the wire type it was made of.                     *)
LEMMA WireOfTag ==
    ASSUME NEW wire \in 0 .. 7, NEW id \in 0 .. MaxFieldId
    PROVE  TagWire(Tag(wire, id)) = wire /\ Tag(wire, id) \in Nat
<1>1. Tag(wire, id) = wire * 4096 + id /\ id \in 0 .. 4095
  BY DEF Tag, MaxFieldId
<1>2. Tag(wire, id) \in Nat /\ Tag(wire, id) \div 4096 = wire
  BY <1>1
<1>3. wire % 8 = wire
  OBVIOUS
<1> QED
  BY <1>2, <1>3 DEF TagWire, MaxFieldId

(* What bears out a tag is content or a length field, at least one byte.   *)
LEMMA SpanIsSolid ==
    ASSUME NEW b \in Seq(FitCell), NEW p \in Nat, p < Len(b), NEW legacy,
           Behind(b, p, legacy)
    PROVE  /\ Span(b, p) \in Nat /\ 1 <= Span(b, p) /\ p + 2 + Span(b, p) <= Len(b)
           /\ \A j \in 1 .. Span(b, p) : b[p + 2 + j].kind \in {"data", "len"}
<1>1. WireAt(b, p) \in 0 .. 7
  <2>1. p + 1 \in 1 .. Len(b)
    OBVIOUS
  <2>2. b[p + 1] \in FitCell
    BY <2>1
  <2> QED
    BY <2>2, WireIsThreeBits DEF WireAt, FitCell, Cell
<1>2. CASE WireAt(b, p) < FromConfig
  <2>1. WireAt(b, p) \in {0, 1, 2, 3}
    BY <1>1, <1>2 DEF FromConfig
  <2>2. Span(b, p) \in {1, 2, 4, 8}
    BY <1>2, <2>1 DEF Span, FixedSize
  <2> QED
    BY <1>2, <2>2 DEF Behind
<1>3. CASE ~(WireAt(b, p) < FromConfig)
  <2>1. Span(b, p) = 1
    BY <1>3 DEF Span
  <2>2. \A j \in 1 .. 1 : p + 2 + j = p + 3
    OBVIOUS
  <2> QED
    BY <1>3, <2>1, <2>2 DEF Behind
<1> QED
  BY <1>2, <1>3

(* It can be moved.                                                        *)
LEMMA BehindMoves ==
    ASSUME NEW b \in Seq(FitCell), NEW c, NEW p \in Nat, NEW q \in Nat, NEW legacy,
           Behind(b, p, legacy), Span(b, p) \in Nat, 1 <= Span(b, p),
           c[q + 1] = b[p + 1], q + 2 + Span(b, p) <= Len(c),
           \A j \in 1 .. Span(b, p) : c[q + 2 + j] = b[p + 2 + j]
    PROVE  Behind(c, q, legacy)
<1>1. WireAt(c, q) = WireAt(b, p) /\ Span(c, q) = Span(b, p)
  BY DEF WireAt, Span
<1>2. c[q + 3] = b[p + 3]
  <2>1. 1 \in 1 .. Span(b, p) /\ q + 2 + 1 = q + 3 /\ p + 2 + 1 = p + 3
    OBVIOUS
  <2> QED
    BY <2>1
<1> QED
  BY <1>1, <1>2 DEF Behind

(* Announced, of any buffer, is just that.                                 *)
AnnouncedIn(b, p, legacy) ==
    LET wire == TagWire(b[p + 1].val)
        after == p + 3
        framed == after <= Len(b) /\ b[after].kind = "len" /\ b[after].part = 1
    IN  CASE wire < FromConfig ->
               /\ p + 2 + FixedSize[wire + 1] <= Len(b)
               /\ \A i \in after .. p + 2 + FixedSize[wire + 1] : b[i].kind = "data"
          [] wire = FromConfig -> framed /\ legacy
          [] OTHER -> framed /\ WireOfLengthField(b[after].of) = wire

(* What a tag announces depends on the cells behind it only.               *)
LEMMA AnnouncedMeaning ==
    ASSUME NEW b \in Seq(FitCell), NEW p \in Nat, p < Len(b), NEW legacy
    PROVE  AnnouncedIn(b, p, legacy) <=> Behind(b, p, legacy)
<1>1. WireAt(b, p) \in 0 .. 7
  <2>1. p + 1 \in 1 .. Len(b)
    OBVIOUS
  <2>2. b[p + 1] \in FitCell
    BY <2>1
  <2> QED
    BY <2>2, WireIsThreeBits DEF WireAt, FitCell, Cell
<1>2. CASE WireAt(b, p) < FromConfig
  <2>1. WireAt(b, p) \in {0, 1, 2, 3}
    BY <1>1, <1>2 DEF FromConfig
  <2>2. Span(b, p) \in {1, 2, 4, 8} /\ Span(b, p) = FixedSize[WireAt(b, p) + 1]
    BY <1>2, <2>1 DEF Span, FixedSize
  <2>3. AnnouncedIn(b, p, legacy) <=>
          /\ p + 2 + Span(b, p) <= Len(b)
          /\ \A i \in p + 3 .. p + 2 + Span(b, p) : b[i].kind = "data"
    <3>1. AnnouncedIn(b, p, legacy) <=>
            /\ p + 2 + FixedSize[WireAt(b, p) + 1] <= Len(b)
            /\ \A i \in p + 3 .. p + 2 + FixedSize[WireAt(b, p) + 1] : b[i].kind = "data"
      BY <1>2, <2>1 DEF AnnouncedIn, WireAt, FromConfig
    <3> QED
      BY <2>2, <3>1
  <2>4. (\A i \in p + 3 .. p + 2 + Span(b, p) : b[i].kind = "data")
          <=> \A j \in 1 .. Span(b, p) : b[p + 2 + j].kind = "data"
    <3>1. ASSUME \A i \in p + 3 .. p + 2 + Span(b, p) : b[i].kind = "data",
                 NEW j \in 1 .. Span(b, p)
          PROVE  b[p + 2 + j].kind = "data"
      <4>1. p + 2 + j \in p + 3 .. p + 2 + Span(b, p)
        BY <2>2
      <4> QED
        BY <3>1, <4>1
    <3>2. ASSUME \A j \in 1 .. Span(b, p) : b[p + 2 + j].kind = "data",
                 NEW i \in p + 3 .. p + 2 + Span(b, p)
          PROVE  b[i].kind = "data"
      <4>1. i - p - 2 \in 1 .. Span(b, p) /\ p + 2 + (i - p - 2) = i
        BY <2>2
      <4> QED
        BY <3>2, <4>1
    <3> QED
      BY <3>1, <3>2
  <2> QED
    BY <1>2, <2>3, <2>4 DEF Behind
<1>3. CASE WireAt(b, p) = FromConfig
  <2>1. Span(b, p) = 1 /\ p + 2 + 1 = p + 3 /\ ~(WireAt(b, p) < FromConfig)
    BY <1>3 DEF Span, FromConfig
  <2> QED
    BY <1>3, <2>1 DEF Behind, AnnouncedIn, WireAt
<1>4. CASE WireAt(b, p) > FromConfig
  <2>1. /\ Span(b, p) = 1 /\ p + 2 + 1 = p + 3
        /\ ~(WireAt(b, p) < FromConfig) /\ WireAt(b, p) # FromConfig
    BY <1>1, <1>4 DEF Span, FromConfig
  <2> QED
    BY <2>1 DEF Behind, AnnouncedIn, WireAt
<1> QED
  BY <1>1, <1>2, <1>3, <1>4 DEF FromConfig

----------------------------------------------------------------------------
(***************************************************************************)
(* What happens to a buffer.                                               *)
(***************************************************************************)

(* Content is added.                                                       *)
LEMMA ClosedWhenLonger ==
    ASSUME NEW from \in Nat, NEW open, NEW legacy,
           NEW b \in Seq(FitCell), NEW c \in Seq(FitCell),
           Paired(b, from), Closed(b, from, open, legacy), Len(b) <= Len(c),
           \A i \in 1 .. Len(b) : c[i] = b[i],
           \A i \in Len(b) + 1 .. Len(c) : c[i].kind # "tag"
    PROVE  Paired(c, from) /\ Closed(c, from, open, legacy)
<1>1. Len(b) \in Nat /\ Len(c) \in Nat
  OBVIOUS
<1>2. ASSUME NEW i \in from + 1 .. Len(c), IsTag(c[i], 1)
      PROVE  i \in from + 1 .. Len(b) /\ c[i] = b[i]
  <2>1. i \notin Len(b) + 1 .. Len(c)
    BY <1>2 DEF IsTag
  <2>2. i \in from + 1 .. Len(b) /\ i \in 1 .. Len(b)
    BY <1>1, <2>1
  <2> QED
    BY <2>2
<1>3. Paired(c, from)
  <2> SUFFICES ASSUME NEW i \in from + 1 .. Len(c), IsTag(c[i], 1)
               PROVE  i + 1 <= Len(c) /\ IsTag(c[i + 1], 2)
    BY DEF Paired
  <2>1. i + 1 <= Len(b) /\ IsTag(b[i + 1], 2)
    BY <1>2 DEF Paired
  <2>2. i + 1 \in 1 .. Len(b)
    BY <1>1, <2>1
  <2> QED
    BY <1>1, <2>1, <2>2
<1>4. Closed(c, from, open, legacy)
  <2> SUFFICES ASSUME NEW p \in from .. Len(c) - 1, IsTag(c[p + 1], 1), p \notin open
               PROVE  Behind(c, p, legacy)
    BY DEF Closed
  <2>1. p + 1 \in from + 1 .. Len(c)
    BY <1>1
  <2>2. p + 1 \in from + 1 .. Len(b) /\ c[p + 1] = b[p + 1]
    BY <1>2, <2>1
  <2>3. p \in from .. Len(b) - 1 /\ p \in Nat /\ p < Len(b)
    BY <1>1, <2>2
  <2>4. Behind(b, p, legacy)
    BY <2>2, <2>3 DEF Closed
  <2>5. Span(b, p) \in Nat /\ 1 <= Span(b, p) /\ p + 2 + Span(b, p) <= Len(b)
    BY <2>3, <2>4, SpanIsSolid
  <2>6. p + 2 + Span(b, p) <= Len(c)
    BY <1>1, <2>3, <2>5
  <2>7. ASSUME NEW j \in 1 .. Span(b, p)
        PROVE  c[p + 2 + j] = b[p + 2 + j]
    <3>1. p + 2 + j \in 1 .. Len(b)
      BY <1>1, <2>3, <2>5
    <3> QED
      BY <3>1
  <2> QED
    BY <2>2, <2>3, <2>4, <2>5, <2>6, <2>7, BehindMoves
<1> QED
  BY <1>3, <1>4

(* A tag is added, and is open.                                            *)
LEMMA ClosedWhenTagged ==
    ASSUME NEW from \in Nat, NEW open, NEW more, NEW legacy,
           NEW b \in Seq(FitCell), NEW c \in Seq(FitCell),
           Paired(b, from), Closed(b, from, open, legacy), Len(c) = Len(b) + 2,
           \A i \in 1 .. Len(b) : c[i] = b[i],
           IsTag(c[Len(b) + 1], 1), IsTag(c[Len(b) + 2], 2),
           open \subseteq more, Len(b) \in more
    PROVE  Paired(c, from) /\ Closed(c, from, more, legacy)
<1>1. Len(b) \in Nat /\ Len(c) \in Nat
  OBVIOUS
<1>2. Paired(c, from)
  <2> SUFFICES ASSUME NEW i \in from + 1 .. Len(c), IsTag(c[i], 1)
               PROVE  i + 1 <= Len(c) /\ IsTag(c[i + 1], 2)
    BY DEF Paired
  <2>1. i # Len(b) + 2
    BY DEF IsTag
  <2>2. CASE i = Len(b) + 1
    BY <1>1, <2>2
  <2>3. CASE i # Len(b) + 1
    <3>1. i \in from + 1 .. Len(b) /\ i \in 1 .. Len(b)
      BY <1>1, <2>1, <2>3
    <3>2. i + 1 <= Len(b) /\ IsTag(b[i + 1], 2)
      BY <3>1 DEF Paired
    <3>3. i + 1 \in 1 .. Len(b)
      BY <1>1, <3>1, <3>2
    <3> QED
      BY <1>1, <3>2, <3>3
  <2> QED
    BY <2>2, <2>3
<1>3. Closed(c, from, more, legacy)
  <2> SUFFICES ASSUME NEW p \in from .. Len(c) - 1, IsTag(c[p + 1], 1), p \notin more
               PROVE  Behind(c, p, legacy)
    BY DEF Closed
  <2>1. p # Len(b) + 1
    BY DEF IsTag
  <2>2. p # Len(b) /\ p \notin open
    OBVIOUS
  <2>3. p \in from .. Len(b) - 1 /\ p \in Nat /\ p < Len(b) /\ p + 1 \in 1 .. Len(b)
    BY <1>1, <2>1, <2>2
  <2>4. Behind(b, p, legacy)
    BY <2>2, <2>3 DEF Closed
  <2>5. Span(b, p) \in Nat /\ 1 <= Span(b, p) /\ p + 2 + Span(b, p) <= Len(b)
    BY <2>3, <2>4, SpanIsSolid
  <2>6. p + 2 + Span(b, p) <= Len(c)
    BY <1>1, <2>3, <2>5
  <2>7. ASSUME NEW j \in 1 .. Span(b, p)
        PROVE  c[p + 2 + j] = b[p + 2 + j]
    <3>1. p + 2 + j \in 1 .. Len(b)
      BY <1>1, <2>3, <2>5
    <3> QED
      BY <3>1
  <2> QED
    BY <2>3, <2>4, <2>5, <2>6, <2>7, BehindMoves
<1> QED
  BY <1>2, <1>3

(* The last tag is taken back.                                             *)
LEMMA ClosedWhenCut ==
    ASSUME NEW from \in Nat, NEW open, NEW legacy,
           NEW b \in Seq(FitCell), NEW c \in Seq(FitCell),
           Paired(b, from), Closed(b, from, open, legacy),
           NEW n \in Nat, n + 2 = Len(b), Len(c) = n,
           \A i \in 1 .. n : c[i] = b[i], IsTag(b[n + 1], 1)
    PROVE  Paired(c, from) /\ Closed(c, from, open, legacy)
<1>1. ASSUME NEW i \in from + 1 .. n, IsTag(b[i], 1)
      PROVE  i + 1 <= n /\ IsTag(b[i + 1], 2)
  <2>1. i \in from + 1 .. Len(b)
    OBVIOUS
  <2>2. IsTag(b[i + 1], 2)
    BY <1>1, <2>1 DEF Paired
  <2>3. i # n
    BY <2>2 DEF IsTag
  <2> QED
    BY <2>2, <2>3
<1>2. Paired(c, from)
  <2> SUFFICES ASSUME NEW i \in from + 1 .. n, IsTag(c[i], 1)
               PROVE  i + 1 <= n /\ IsTag(c[i + 1], 2)
    BY DEF Paired
  <2>1. i \in 1 .. n
    OBVIOUS
  <2>2. i + 1 <= n /\ IsTag(b[i + 1], 2)
    BY <1>1, <2>1
  <2>3. i + 1 \in 1 .. n
    BY <2>2
  <2> QED
    BY <2>2, <2>3
<1>3. Closed(c, from, open, legacy)
  <2> SUFFICES ASSUME NEW p \in from .. n - 1, IsTag(c[p + 1], 1), p \notin open
               PROVE  Behind(c, p, legacy)
    BY DEF Closed
  <2>1. /\ p \in from .. Len(b) - 1 /\ p \in Nat /\ p < Len(b) /\ p + 1 \in 1 .. n
        /\ p + 1 \in from + 1 .. n
    OBVIOUS
  <2>2. c[p + 1] = b[p + 1] /\ Behind(b, p, legacy)
    BY <2>1 DEF Closed
  <2>3. p + 2 <= n
    BY <1>1, <2>1, <2>2
  <2>4. /\ Span(b, p) \in Nat /\ 1 <= Span(b, p) /\ p + 2 + Span(b, p) <= Len(b)
        /\ \A j \in 1 .. Span(b, p) : b[p + 2 + j].kind \in {"data", "len"}
    BY <2>1, <2>2, SpanIsSolid
  <2>5. p + 2 + Span(b, p) <= n
    <3>1. ASSUME ~(p + 2 + Span(b, p) <= n)
          PROVE  FALSE
      <4>1. n - 1 - p \in 1 .. Span(b, p) /\ p + 2 + (n - 1 - p) = n + 1
        BY <2>1, <2>3, <2>4, <3>1
      <4>2. b[n + 1].kind \in {"data", "len"}
        BY <2>4, <4>1
      <4> QED
        BY <4>2 DEF IsTag
    <3> QED
      BY <3>1
  <2>6. ASSUME NEW j \in 1 .. Span(b, p)
        PROVE  c[p + 2 + j] = b[p + 2 + j]
    <3>1. p + 2 + j \in 1 .. n
      BY <2>1, <2>4, <2>5
    <3> QED
      BY <3>1
  <2> QED
    BY <2>1, <2>2, <2>4, <2>5, <2>6, BehindMoves
<1> QED
  BY <1>2, <1>3

(* A tag is rewritten, and closed.                                         *)
LEMMA ClosedWhenRewritten ==
    ASSUME NEW from \in Nat, NEW open, NEW fewer, NEW legacy,
           NEW b \in Seq(FitCell), NEW c \in Seq(FitCell),
           Paired(b, from), Closed(b, from, open, legacy),
           NEW t \in Nat, t + 2 <= Len(b), IsTag(b[t + 1], 1), IsTag(b[t + 2], 2),
           Len(c) = Len(b),
           \A i \in 1 .. Len(b) : i < t + 1 \/ i > t + 2 => c[i] = b[i],
           IsTag(c[t + 1], 1), IsTag(c[t + 2], 2), Behind(c, t, legacy),
           open \subseteq fewer \cup {t}
    PROVE  Paired(c, from) /\ Closed(c, from, fewer, legacy)
<1>1. Len(b) \in Nat
  OBVIOUS
<1>2. ASSUME NEW i \in 1 .. Len(b)
      PROVE  /\ IsTag(c[i], 1) <=> IsTag(b[i], 1)
             /\ IsTag(c[i], 2) <=> IsTag(b[i], 2)
  <2>1. CASE i = t + 1
    BY <2>1 DEF IsTag
  <2>2. CASE i = t + 2
    BY <2>2 DEF IsTag
  <2>3. CASE i # t + 1 /\ i # t + 2
    <3>1. i < t + 1 \/ i > t + 2
      BY <2>3
    <3> QED
      BY <3>1
  <2> QED
    BY <2>1, <2>2, <2>3
<1>3. Paired(c, from)
  <2> SUFFICES ASSUME NEW i \in from + 1 .. Len(b), IsTag(c[i], 1)
               PROVE  i + 1 <= Len(b) /\ IsTag(c[i + 1], 2)
    BY DEF Paired
  <2>1. i \in 1 .. Len(b)
    OBVIOUS
  <2>2. i + 1 <= Len(b) /\ IsTag(b[i + 1], 2)
    BY <1>2, <2>1 DEF Paired
  <2>3. i + 1 \in 1 .. Len(b)
    BY <2>2
  <2> QED
    BY <1>2, <2>2, <2>3
<1>4. Closed(c, from, fewer, legacy)
  <2> SUFFICES ASSUME NEW p \in from .. Len(b) - 1, IsTag(c[p + 1], 1), p \notin fewer, p # t
               PROVE  Behind(c, p, legacy)
    BY DEF Closed
  <2>1. p \in Nat /\ p < Len(b) /\ p + 1 \in 1 .. Len(b) /\ p \notin open
    OBVIOUS
  <2>2. IsTag(b[p + 1], 1)
    BY <1>2, <2>1
  <2>3. Behind(b, p, legacy)
    BY <2>1, <2>2 DEF Closed
  <2>4. p + 1 # t + 2
    BY <2>2 DEF IsTag
  <2>5. c[p + 1] = b[p + 1]
    BY <2>1, <2>4
  <2>6. /\ Span(b, p) \in Nat /\ 1 <= Span(b, p) /\ p + 2 + Span(b, p) <= Len(b)
        /\ \A j \in 1 .. Span(b, p) : b[p + 2 + j].kind \in {"data", "len"}
    BY <2>1, <2>3, SpanIsSolid
  <2>7. ASSUME NEW j \in 1 .. Span(b, p)
        PROVE  c[p + 2 + j] = b[p + 2 + j]
    <3>1. p + 2 + j \in 1 .. Len(b)
      BY <1>1, <2>1, <2>6
    <3>2. b[p + 2 + j].kind \in {"data", "len"}
      BY <2>6
    <3>3. p + 2 + j # t + 1 /\ p + 2 + j # t + 2
      BY <3>2 DEF IsTag
    <3>4. p + 2 + j < t + 1 \/ p + 2 + j > t + 2
      BY <2>1, <2>6, <3>3
    <3> QED
      BY <3>1, <3>4
  <2> QED
    BY <2>1, <2>3, <2>5, <2>6, <2>7, BehindMoves
<1> QED
  BY <1>3, <1>4

(* A section ends: no tag and its value lie on both sides of it.           *)
LEMMA ClosedWhenPatched ==
    ASSUME NEW from \in Nat, NEW open, NEW legacy,
           NEW b \in Seq(FitCell), NEW c \in Seq(FitCell),
           Paired(b, from), Closed(b, from, open, legacy),
           NEW pos \in Nat, NEW actual \in Nat, NEW d \in Nat, NEW len,
           Patched(b, c, pos, actual, d, len), from <= pos, 1 <= actual,
           b[pos + 1].kind = "zero", \A q \in open : q <= pos
    PROVE  Paired(c, from) /\ Closed(c, from, open, legacy)
<1>1. /\ Len(b) \in Nat /\ pos + actual + d <= Len(b)
      /\ Len(c) = Len(b) - d /\ Len(c) \in Nat
  BY DEF Patched
<1>2. ASSUME NEW i \in 1 .. Len(c), i <= pos
      PROVE  i \in 1 .. Len(b) /\ c[i] = b[i]
  <2>1. i \in 1 .. pos
    BY <1>2
  <2> QED
    BY <1>1, <2>1 DEF Patched
<1>3. ASSUME NEW i \in 1 .. Len(c), i > pos, i <= pos + actual
      PROVE  c[i].kind = "len"
  <2>1. i \in pos + 1 .. pos + actual
    BY <1>3
  <2>2. c[i] = [kind |-> "len", val |-> len, part |-> i - pos, of |-> actual]
    BY <2>1 DEF Patched
  <2> QED
    BY <2>2
<1>4. ASSUME NEW i \in 1 .. Len(c), i > pos + actual
      PROVE  i + d \in 1 .. Len(b) /\ c[i] = b[i + d]
  <2>1. i \in pos + actual + 1 .. Len(c)
    BY <1>4
  <2> QED
    BY <1>1, <2>1 DEF Patched
<1>5. ASSUME NEW i \in from + 1 .. pos, IsTag(b[i], 1)
      PROVE  i + 1 <= pos /\ IsTag(b[i + 1], 2)
  <2>1. i \in from + 1 .. Len(b)
    BY <1>1
  <2>2. IsTag(b[i + 1], 2)
    BY <1>5, <2>1 DEF Paired
  <2>3. i # pos
    BY <2>2 DEF IsTag
  <2> QED
    BY <2>2, <2>3
<1>6. Paired(c, from)
  <2> SUFFICES ASSUME NEW i \in from + 1 .. Len(c), IsTag(c[i], 1)
               PROVE  i + 1 <= Len(c) /\ IsTag(c[i + 1], 2)
    BY DEF Paired
  <2>1. i \in 1 .. Len(c)
    OBVIOUS
  <2>2. CASE i <= pos
    <3>1. IsTag(b[i], 1) /\ i \in from + 1 .. pos
      BY <1>2, <2>1, <2>2
    <3>2. i + 1 <= pos /\ IsTag(b[i + 1], 2)
      BY <1>5, <3>1
    <3>3. i + 1 \in 1 .. Len(c)
      BY <1>1, <3>2
    <3> QED
      BY <1>2, <3>2, <3>3
  <2>3. CASE i > pos /\ i <= pos + actual
    BY <1>3, <2>1, <2>3 DEF IsTag
  <2>4. CASE i > pos + actual
    <3>1. IsTag(b[i + d], 1) /\ i + d \in from + 1 .. Len(b)
      <4>1. i + d \in 1 .. Len(b) /\ c[i] = b[i + d]
        BY <1>4, <2>1, <2>4
      <4> QED
        BY <4>1
    <3>2. i + d + 1 <= Len(b) /\ IsTag(b[i + d + 1], 2)
      BY <3>1 DEF Paired
    <3>3. i + 1 \in 1 .. Len(c) /\ i + 1 > pos + actual /\ i + 1 + d = i + d + 1
      BY <1>1, <2>1, <2>4, <3>2
    <3>4. c[i + 1] = b[i + d + 1]
      <4>1. c[i + 1] = b[i + 1 + d]
        BY <1>4, <3>3
      <4> QED
        BY <3>3, <4>1
    <3> QED
      BY <3>2, <3>3, <3>4
  <2> QED
    BY <2>1, <2>2, <2>3, <2>4
<1>7. Closed(c, from, open, legacy)
  <2> SUFFICES ASSUME NEW p \in from .. Len(c) - 1, IsTag(c[p + 1], 1), p \notin open
               PROVE  Behind(c, p, legacy)
    BY DEF Closed
  <2>1. p \in Nat /\ p + 1 \in 1 .. Len(c) /\ from <= p
    OBVIOUS
  <2>2. CASE p + 1 <= pos
    <3>1. IsTag(b[p + 1], 1) /\ c[p + 1] = b[p + 1] /\ p + 1 \in from + 1 .. pos
      BY <1>2, <2>1, <2>2
    <3>2. p + 2 <= pos
      BY <1>5, <2>1, <3>1
    <3>3. p \in from .. Len(b) - 1 /\ p < Len(b)
      BY <1>1, <2>1, <3>2
    <3>4. Behind(b, p, legacy)
      BY <3>1, <3>3 DEF Closed
    <3>5. /\ Span(b, p) \in Nat /\ 1 <= Span(b, p) /\ p + 2 + Span(b, p) <= Len(b)
          /\ \A j \in 1 .. Span(b, p) : b[p + 2 + j].kind \in {"data", "len"}
      BY <2>1, <3>3, <3>4, SpanIsSolid
    <3>6. p + 2 + Span(b, p) <= pos
      <4>1. ASSUME ~(p + 2 + Span(b, p) <= pos)
            PROVE  FALSE
        <5>1. pos - 1 - p \in 1 .. Span(b, p) /\ p + 2 + (pos - 1 - p) = pos + 1
          BY <2>1, <3>2, <3>5, <4>1
        <5>2. b[pos + 1].kind \in {"data", "len"}
          BY <3>5, <5>1
        <5> QED
          BY <5>2
      <4> QED
        BY <4>1
    <3>7. ASSUME NEW j \in 1 .. Span(b, p)
          PROVE  c[p + 2 + j] = b[p + 2 + j]
      <4>1. p + 2 + j \in 1 .. Len(c) /\ p + 2 + j <= pos
        BY <1>1, <2>1, <3>5, <3>6
      <4> QED
        BY <1>2, <4>1
    <3>8. p + 2 + Span(b, p) <= Len(c)
      BY <1>1, <2>1, <3>5, <3>6
    <3> QED
      BY <2>1, <3>1, <3>4, <3>5, <3>7, <3>8, BehindMoves
  <2>3. CASE p + 1 > pos /\ p + 1 <= pos + actual
    BY <1>3, <2>1, <2>3 DEF IsTag
  <2>4. CASE p + 1 > pos + actual
    <3>1. IsTag(b[p + 1 + d], 1) /\ c[p + 1] = b[p + 1 + d] /\ p + 1 + d \in 1 .. Len(b)
      BY <1>4, <2>1, <2>4
    <3>2. p + d \in Nat /\ p + d + 1 = p + 1 + d /\ p + d < Len(b) /\ p + d \in from .. Len(b) - 1
      BY <1>1, <2>1, <3>1
    <3>3. p + d \notin open
      <4>1. ~(p + d <= pos)
        BY <2>1, <2>4
      <4> QED
        BY <4>1
    <3>4. Behind(b, p + d, legacy)
      BY <3>1, <3>2, <3>3 DEF Closed
    <3>5. /\ Span(b, p + d) \in Nat /\ 1 <= Span(b, p + d)
          /\ p + d + 2 + Span(b, p + d) <= Len(b)
      BY <3>2, <3>4, SpanIsSolid
    <3>6. p + 2 + Span(b, p + d) <= Len(c)
      BY <1>1, <2>1, <3>5
    <3>7. ASSUME NEW j \in 1 .. Span(b, p + d)
          PROVE  c[p + 2 + j] = b[p + d + 2 + j]
      <4>1. j \in Nat /\ 1 <= j /\ j <= Span(b, p + d)
        BY <3>5
      <4>2. p + 2 + j \in 1 .. Len(c)
        <5> DEFINE n == Span(b, p + d)
        <5>1. n \in Nat /\ j <= n /\ p + 2 + n <= Len(c)
          BY <3>5, <3>6, <4>1
        <5> HIDE DEF n
        <5>2. Len(c) \in Nat /\ j \in Nat /\ p \in Nat
          BY <1>1, <2>1, <4>1
        <5> QED
          BY <5>1, <5>2
      <4>3. p + 2 + j > pos + actual
        BY <2>1, <2>4, <4>1
      <4>4. c[p + 2 + j] = b[p + 2 + j + d]
        BY <1>4, <4>2, <4>3
      <4>5. p + 2 + j + d = p + d + 2 + j
        BY <2>1, <4>1
      <4> QED
        BY <4>4, <4>5
    <3> QED
      BY <2>1, <3>1, <3>2, <3>4, <3>5, <3>6, <3>7, BehindMoves
  <2> QED
    BY <2>1, <2>2, <2>3, <2>4
<1> QED
  BY <1>6, <1>7

----------------------------------------------------------------------------
(***************************************************************************)
(* Unfinished fields.                                                      *)
(***************************************************************************)
FieldOfFrame(f) == Types[f.type].fields[f.count]

(* The tag of an unfinished field has the wire type of the field.          *)
TagStands(f, b) ==
    LET field == FieldOfFrame(f)
        cells == TagBytes(Tag(WireTypeOf(Types[field.type]), field.id))
    IN  b[f.tagPos + 1] = cells[1] /\ b[f.tagPos + 2] = cells[2]
TagsStand(fs, b) ==
    \A i \in 1 .. Len(fs) :
        IsOpen(fs, i) /\ fs[i].tagPos + 2 <= Len(b) => TagStands(fs[i], b)

(* The serializer that is opened for the value of a TLV field has a        *)
(* section, right behind the tag.                                          *)
ValuesDelimited(fs, secs) ==
    \A i \in 1 .. Len(fs) - 1 : IsOpen(fs, i) =>
        /\ ~IsFixed(Types[FieldOfFrame(fs[i]).type])
        /\ fs[i + 1].lfs # None
        /\ secs[Rank(fs, i) + 1].pos = fs[i].tagPos + 2

(* Once the value has returned, it stands behind the tag: nothing for a    *)
(* None, fixed bytes, or the length field that last_length_field tells of. *)
LengthStands(b, pos, last) ==
    /\ pos + 1 <= Len(b)
    /\ b[pos + 1].kind = "len" /\ b[pos + 1].part = 1
    /\ b[pos + 1].of = last.size /\ last.size # None
DataStands(b, pos, n) ==
    pos + n <= Len(b) /\ \A j \in 1 .. n : b[pos + j].kind = "data"
ValueStands(f, b, last) ==
    LET ty == Types[FieldOfFrame(f).type]
    IN  \/ f.tagPos = Len(b)
        \/ IF IsFixed(ty) THEN DataStands(b, f.tagPos + 2, ty.size)
           ELSE LengthStands(b, f.tagPos + 2, last)

(* The value of a field of a TLV struct is of the type of the field.       *)
ValueOfField ==
    pc = "value" /\ inTlv => nextType = FieldOfFrame(Top).type /\ TopType.tlv
ValueReturned ==
    pc = "return" /\ frames # <<>> /\ Top.tagPos # NoTag => ValueStands(Top, buf, lastField)

(* The inductive invariant for tags.                                       *)
TagsKept == Running =>
    /\ Paired(buf, base)
    /\ TagsStand(frames, buf)
    /\ ValuesDelimited(frames, sections)
    /\ ValueOfField
    /\ ValueReturned
Tagged == TagsKept /\ TagsAnnounceLengthFields

(* verify: the ids of TLV fields fit into a tag.                           *)
IdsFit ==
    \A t \in TypeId : Types[t].kind = "struct" =>
        \A i \in DOMAIN Types[t].fields : Types[t].fields[i].id <= MaxFieldId

(* TagsAnnounceLengthFields of any buffer.                                 *)
LEMMA ClosedMeaning ==
    ASSUME NEW b \in Seq(FitCell), NEW from \in Nat, NEW open, NEW legacy
    PROVE  Closed(b, from, open, legacy) <=>
             \A p \in from .. Len(b) - 1 :
                b[p + 1].kind = "tag" /\ b[p + 1].part = 1 /\ p \notin open
                  => AnnouncedIn(b, p, legacy)
<1>1. ASSUME NEW p \in from .. Len(b) - 1
      PROVE  AnnouncedIn(b, p, legacy) <=> Behind(b, p, legacy)
  <2>1. p \in Nat /\ p < Len(b)
    OBVIOUS
  <2> QED
    BY <2>1, AnnouncedMeaning
<1> QED
  BY <1>1 DEF Closed, IsTag

(* TagsAnnounceLengthFields is that all tags but the open ones are borne   *)
(* out.                                                                    *)
LEMMA TagsAnnounceMeaning ==
    ASSUME buf \in Seq(FitCell), base \in Nat, frames \in Seq(Frame)
    PROVE  TagsAnnounceLengthFields <=>
             (Current => Closed(buf, base, OpenTags(frames), opts.legacyWireType))
<1>1. {frames[i].tagPos : i \in DOMAIN frames} = OpenTags(frames)
  BY DEF OpenTags
<1>2. Closed(buf, base, OpenTags(frames), opts.legacyWireType) <=>
        \A p \in base .. Len(buf) - 1 :
           buf[p + 1].kind = "tag" /\ buf[p + 1].part = 1 /\ p \notin OpenTags(frames)
             => AnnouncedIn(buf, p, opts.legacyWireType)
  BY ClosedMeaning
<1>3. \A p : Announced(p) <=> AnnouncedIn(buf, p, opts.legacyWireType)
  BY DEF Announced, AnnouncedIn
<1> QED
  BY <1>1, <1>2, <1>3 DEF TagsAnnounceLengthFields

(* The same, after a step.                                                 *)
LEMMA TagsAnnounceAfter ==
    ASSUME buf' \in Seq(FitCell), base' \in Nat, frames' \in Seq(Frame),
           Closed(buf', base', OpenTags(frames'), opts'.legacyWireType)
    PROVE  TagsAnnounceLengthFields'
<1>1. {frames'[i].tagPos : i \in DOMAIN frames'} = OpenTags(frames')
  BY DEF OpenTags
<1>2. \A p \in base' .. Len(buf') - 1 :
         buf'[p + 1].kind = "tag" /\ buf'[p + 1].part = 1 /\ p \notin OpenTags(frames')
           => AnnouncedIn(buf', p, opts'.legacyWireType)
  BY ClosedMeaning
<1>3. \A p : Announced(p)' <=> AnnouncedIn(buf', p, opts'.legacyWireType)
  BY DEF Announced, AnnouncedIn
<1> QED
  BY <1>1, <1>2, <1>3 DEF TagsAnnounceLengthFields

(* What the invariants say of a call that is under way.                    *)
LEMMA TagsUnderWay ==
    ASSUME IInv, Tagged, Running
    PROVE  /\ Paired(buf, base) /\ TagsStand(frames, buf)
           /\ ValuesDelimited(frames, sections) /\ ValueOfField /\ ValueReturned
           /\ Closed(buf, base, OpenTags(frames), opts.legacyWireType)
<1>1. buf \in Seq(FitCell) /\ base \in Nat /\ frames \in Seq(Frame)
  BY DEF IInv, TypeOK
<1> QED
  BY <1>1, TagsAnnounceMeaning DEF Tagged, TagsKept, Current

(* A tag is written as it is to be read.                                   *)
LEMMA TagIsPaired ==
    ASSUME NEW tag
    PROVE  /\ IsTag(TagBytes(tag)[1], 1) /\ TagBytes(tag)[1].val = tag
           /\ IsTag(TagBytes(tag)[2], 2)
BY DEF IsTag, TagBytes, Bytes

(* What stands for a tag that stands.                                      *)
LEMMA TagStandsMeaning ==
    ASSUME NEW f, NEW b, TagStands(f, b)
    PROVE  LET field == FieldOfFrame(f)
           IN  /\ IsTag(b[f.tagPos + 1], 1) /\ IsTag(b[f.tagPos + 2], 2)
               /\ b[f.tagPos + 1].val = Tag(WireTypeOf(Types[field.type]), field.id)
BY TagIsPaired DEF TagStands

(* A tag that is not touched stands.                                       *)
LEMMA TagStandsStill ==
    ASSUME NEW f \in Frame, f.tagPos # NoTag, NEW b, NEW c, NEW m \in Nat,
           TagStands(f, b), f.tagPos + 2 <= m, \A i \in 1 .. m : c[i] = b[i]
    PROVE  TagStands(f, c)
<1>1. f.tagPos \in Nat
  BY DEF Frame
<1>2. f.tagPos + 1 \in 1 .. m /\ f.tagPos + 2 \in 1 .. m
  BY <1>1
<1>3. c[f.tagPos + 1] = b[f.tagPos + 1] /\ c[f.tagPos + 2] = b[f.tagPos + 2]
  BY <1>2
<1> QED
  BY <1>3 DEF TagStands

(* Open tags stay where they are when what is behind them changes.         *)
LEMMA TagsStandStill ==
    ASSUME NEW fs \in Seq(Frame), NEW n \in 0 .. Len(fs), NEW b, NEW c, NEW m \in Nat,
           TagsStand(fs, b), Complete(fs, n, m), m <= Len(b), Len(b) \in Nat,
           \A i \in 1 .. m : c[i] = b[i]
    PROVE  \A i \in 1 .. n : IsOpen(fs, i) => TagStands(fs[i], c)
<1> SUFFICES ASSUME NEW i \in 1 .. n, IsOpen(fs, i)
             PROVE  TagStands(fs[i], c)
  OBVIOUS
<1>1. i \in 1 .. Len(fs) /\ fs[i] \in Frame
  OBVIOUS
<1>2. fs[i].tagPos # NoTag /\ fs[i].tagPos \in Nat
  BY <1>1, TagPosition DEF IsOpen
<1>3. fs[i].tagPos + 2 <= m /\ fs[i].tagPos + 2 <= Len(b)
  BY <1>2 DEF Complete
<1> QED
  BY <1>1, <1>2, <1>3, TagStandsStill DEF TagsStand

----------------------------------------------------------------------------
(***************************************************************************)
(* The steps keep what tags announce.                                      *)
(***************************************************************************)

(* A call that has failed announces nothing.                               *)
LEMMA TaggedWhenEnded ==
    ASSUME pc' \in Errors \cup Panics
    PROVE  Tagged'
BY DEF Tagged, TagsKept, TagsAnnounceLengthFields, Current, Running, Errors, Panics

(* A value has returned: the same serializers are open as before.          *)
LEMMA TaggedOnReturn ==
    ASSUME IInv, IInv', Tagged, Running, pc' = "return",
           UNCHANGED <<opts, sections, frames, base>>,
           Paired(buf', base), Closed(buf', base, OpenTags(frames), opts.legacyWireType),
           TagsStand(frames, buf'),
           frames # <<>> /\ Top.tagPos # NoTag => ValueStands(Top, buf', lastField')
    PROVE  Tagged'
<1>1. ValuesDelimited(frames, sections)
  BY TagsUnderWay
<1>2. Top' = Top
  BY DEF Top
<1>3. TagsKept'
  BY <1>1, <1>2 DEF TagsKept, ValueOfField, ValueReturned
<1>4. buf' \in Seq(FitCell) /\ base' \in Nat /\ frames' \in Seq(Frame)
  BY DEF IInv, TypeOK
<1>5. TagsAnnounceLengthFields'
  BY <1>4, TagsAnnounceAfter
<1> QED
  BY <1>3, <1>5 DEF Tagged

(* When a value starts, all tags of unfinished fields stand; they keep     *)
(* standing when it is written behind them.                                *)
LEMMA TagsStandBehind ==
    ASSUME IInv, Placed, Tagged, pc = "value", NEW c,
           \A i \in 1 .. Len(buf) : c[i] = buf[i]
    PROVE  TagsStand(frames, c)
<1>1. /\ frames \in Seq(Frame) /\ Len(buf) \in Nat /\ Len(frames) \in 0 .. Len(frames)
      /\ Complete(frames, Len(frames), Len(buf)) /\ TagsStand(frames, buf)
  BY UnderWay, TagsUnderWay DEF FrameSeq, Running
<1>2. \A i \in 1 .. Len(frames) : IsOpen(frames, i) => TagStands(frames[i], c)
  <2>1. Len(buf) <= Len(buf)
    BY <1>1
  <2> DEFINE n == Len(frames)
             m == Len(buf)
  <2>2. /\ n \in 0 .. Len(frames) /\ m \in Nat /\ m <= Len(buf) /\ Complete(frames, n, m)
        /\ \A i \in 1 .. m : c[i] = buf[i]
    BY <1>1, <2>1
  <2> HIDE DEF n, m
  <2>3. \A i \in 1 .. n : IsOpen(frames, i) => TagStands(frames[i], c)
    BY <1>1, <2>2, TagsStandStill
  <2> QED
    BY <2>3 DEF n
<1> QED
  BY <1>2 DEF TagsStand

(* The field whose value is written next.                                  *)
LEMMA FieldOfValue ==
    ASSUME IInv, Placed, Tagged, pc = "value", frames # <<>>, Top.tagPos # NoTag
    PROVE  /\ inTlv /\ Top.tagPos + 2 = Len(buf) /\ Top.tagPos \in Nat
           /\ nextType = FieldOfFrame(Top).type
           /\ TopType.tlv /\ IsStruct(TopType) /\ Top.count \in DOMAIN TopType.fields
           /\ Top.type \in TypeId
<1>1. inTlv /\ Top.tagPos = Len(buf) - 2 /\ Len(buf) \in Nat
  BY UnderWay DEF Placed, Layout, ValueFollowsTag, Running
<1>2. nextType = FieldOfFrame(Top).type /\ TopType.tlv
  BY <1>1, TagsUnderWay DEF Running, ValueOfField
<1>3. Top.tagPos \in Nat \cup {NoTag} /\ Len(frames) \in DOMAIN frames /\ Top = frames[Len(frames)]
      /\ Top.type \in TypeId
  BY TopIsFrame
<1>4. TagOfField(Top)
  BY <1>3 DEF IInv, TagsOfFields, Running
<1> QED
  BY <1>1, <1>2, <1>3, <1>4 DEF TagOfField, TopType

(* It is not a wrapper struct, so it has a length field if it is not fixed. *)
LEMMA ValueHasLength ==
    ASSUME NoWrapperInTlv, IInv, Placed, Tagged, pc = "value", frames # <<>>,
           Top.tagPos # NoTag, ~IsFixed(Types[nextType]), NEW p \in Properties
    PROVE  WantedLengthField[[Here EXCEPT !.props = p]] # None
<1> DEFINE s == [Here EXCEPT !.props = p]
<1>1. s \in Site /\ s.tlv = inTlv /\ s.type = nextType
  BY HereIsSite DEF Here, Site
<1>2. ~IsWrapper(Types[nextType])
  BY FieldOfValue DEF NoWrapperInTlv, FieldOfFrame, TopType, IsStruct
<1> HIDE DEF s
<1>3. s.tlv
  BY <1>1, FieldOfValue
<1>4. WantedLengthField[s] # None
  BY <1>1, <1>2, <1>3, DelimitedFieldHasLength
<1> QED
  BY <1>4 DEF s

(* A primitive or enum.                                                    *)
LEMMA FixedTagged ==
    ASSUME IInv, Placed, Tagged, SerializeFixed
    PROVE  Tagged'
<1> DEFINE n == Types[nextType].size
<1>1. n \in Nat /\ IsFixed(Types[nextType])
  <2>1. nextType \in TypeId /\ IsFixed(Types[nextType])
    BY DEF IInv, TypeOK, SerializeFixed
  <2>2. Types[nextType] \in SomeIpFixed
    BY <2>1, TypeShapes
  <2> QED
    BY <2>1, <2>2 DEF SomeIpFixed
<1>2. /\ buf' = buf \o Data(n) /\ Running /\ pc = "value" /\ pc' = "return"
      /\ UNCHANGED <<opts, sections, frames, base>> /\ IInv'
  BY FixedStep DEF SerializeFixed, Running
<1> HIDE DEF n
<1>3. /\ Data(n) \in Seq(FitCell) /\ Len(Data(n)) = n
      /\ \A i \in 1 .. n : Data(n)[i].kind = "data"
  <2>1. Data(n) \in Seq(FitCell) /\ Len(Data(n)) = n
    BY <1>1, BytesAreCells DEF Data
  <2>2. \A i \in 1 .. n : Data(n)[i].kind = "data"
    BY DEF Data, Bytes
  <2> QED
    BY <2>1, <2>2
<1>4. /\ buf \in Seq(FitCell) /\ base \in Nat /\ Len(buf) \in Nat
      /\ Paired(buf, base) /\ Closed(buf, base, OpenTags(frames), opts.legacyWireType)
  BY <1>2, UnderWay, TagsUnderWay
<1>5. /\ buf' \in Seq(FitCell) /\ Len(buf') = Len(buf) + n
      /\ \A i \in 1 .. Len(buf) : buf'[i] = buf[i]
      /\ \A i \in Len(buf) + 1 .. Len(buf') : buf'[i] = Data(n)[i - Len(buf)]
  BY <1>2, <1>3, <1>4, Concatenated
<1>6. ASSUME NEW j \in 1 .. n
      PROVE  buf'[Len(buf) + j].kind = "data"
  <2>1. Len(buf) + j \in Len(buf) + 1 .. Len(buf') /\ Len(buf) + j - Len(buf) = j
    BY <1>1, <1>4, <1>5
  <2>2. buf'[Len(buf) + j] = Data(n)[j]
    BY <1>5, <2>1
  <2> QED
    BY <1>3, <2>2
<1>7. ASSUME NEW i \in Len(buf) + 1 .. Len(buf')
      PROVE  buf'[i].kind # "tag"
  <2>1. i - Len(buf) \in 1 .. n /\ Len(buf) + (i - Len(buf)) = i
    BY <1>1, <1>4, <1>5
  <2>2. buf'[i].kind = "data"
    BY <1>6, <2>1
  <2> QED
    BY <2>2
<1>8. Len(buf) <= Len(buf')
  BY <1>1, <1>4, <1>5
<1>9. Paired(buf', base) /\ Closed(buf', base, OpenTags(frames), opts.legacyWireType)
  BY <1>4, <1>5, <1>7, <1>8, ClosedWhenLonger
<1>10. TagsStand(frames, buf')
  BY <1>2, <1>5, TagsStandBehind
<1>11. ASSUME frames # <<>>, Top.tagPos # NoTag
       PROVE  ValueStands(Top, buf', lastField')
  <2>1. Top.tagPos + 2 = Len(buf) /\ nextType = FieldOfFrame(Top).type
    BY <1>2, <1>11, FieldOfValue
  <2>2. DataStands(buf', Len(buf), n)
    BY <1>1, <1>4, <1>5, <1>6 DEF DataStands
  <2> QED
    BY <1>1, <2>1, <2>2 DEF ValueStands, n
<1> QED
  BY <1>2, <1>9, <1>10, <1>11, TaggedOnReturn

(* A None: its tag is gone, and the others are where they were.            *)
LEMMA NoneTagged ==
    ASSUME IInv, Placed, Tagged, SerializeNone
    PROVE  Tagged'
<1>1. CASE ~inTlv
  BY <1>1, TaggedWhenEnded DEF SerializeNone, Fail, Panics
<1>2. CASE inTlv
  <2>1. /\ pc = "value" /\ Running /\ pc' = "return" /\ IInv'
        /\ buf' = SetLen(buf, Len(buf) - 2)
        /\ UNCHANGED <<opts, sections, frames, base>>
    BY <1>2, NoneStep DEF SerializeNone, Running
  <2>2. /\ buf \in Seq(FitCell) /\ frames \in Seq(Frame) /\ Len(buf) \in Nat
        /\ base \in Nat /\ Ordered(frames) /\ Complete(frames, Len(frames) - 1, Len(buf))
        /\ Paired(buf, base) /\ Closed(buf, base, OpenTags(frames), opts.legacyWireType)
        /\ TagsStand(frames, buf)
    BY <2>1, UnderWay, TagsUnderWay DEF FrameSeq
  <2>3. /\ frames # <<>> /\ Top.tagPos = Len(buf) - 2 /\ Top = frames[Len(frames)]
        /\ base + 2 <= Len(buf) /\ Len(frames) \in 1 .. Len(frames)
    BY <1>2, <2>1, <2>2 DEF Placed, Layout, ValueFollowsTag, Top, IInv, TagJustWritten
  <2> DEFINE n == Len(buf) - 2
  <2>4. n \in Nat /\ n + 2 = Len(buf) /\ n <= Len(buf) /\ Top.tagPos = n /\ Top.tagPos # NoTag
    <3>1. n \in Nat /\ n + 2 = Len(buf) /\ n <= Len(buf)
      BY <2>2, <2>3
    <3>2. Top.tagPos = n
      BY <2>3
    <3> HIDE DEF n
    <3> QED
      BY <3>1, <3>2 DEF NoTag
  <2>5. /\ buf' \in Seq(FitCell) /\ Len(buf') = n
        /\ \A i \in 1 .. n : buf'[i] = buf[i]
    BY <2>1, <2>2, <2>4, SetLenKeeps
  <2> HIDE DEF n
  <2>6. IsTag(buf[n + 1], 1)
    <3>1. IsOpen(frames, Len(frames)) /\ frames[Len(frames)].tagPos + 2 <= Len(buf)
      <4>1. frames[Len(frames)].tagPos = n /\ n # NoTag
        BY <2>3, <2>4
      <4>2. frames[Len(frames)].tagPos + 2 = Len(buf) /\ Len(buf) <= Len(buf)
        BY <2>2, <2>4, <4>1
      <4> QED
        BY <4>1, <4>2 DEF IsOpen
    <3>2. TagStands(Top, buf)
      BY <2>2, <2>3, <3>1 DEF TagsStand
    <3> QED
      BY <2>4, <3>2, TagStandsMeaning
  <2>7. Paired(buf', base) /\ Closed(buf', base, OpenTags(frames), opts.legacyWireType)
    BY <2>2, <2>4, <2>5, <2>6, ClosedWhenCut
  <2>8. TagsStand(frames, buf')
    <3> SUFFICES ASSUME NEW i \in 1 .. Len(frames), IsOpen(frames, i),
                        frames[i].tagPos + 2 <= n
                 PROVE  TagStands(frames[i], buf')
      BY <2>5 DEF TagsStand
    <3>1. frames[i] \in Frame /\ frames[i].tagPos # NoTag /\ frames[i].tagPos \in Nat
      BY <2>2, TagPosition DEF IsOpen
    <3>2. frames[i].tagPos + 2 <= Len(buf)
      BY <2>4, <3>1
    <3>3. TagStands(frames[i], buf)
      BY <2>2, <3>2 DEF TagsStand
    <3> QED
      BY <2>4, <2>5, <3>1, <3>3, TagStandsStill
  <2>9. ValueStands(Top, buf', lastField')
    BY <2>4, <2>5 DEF ValueStands
  <2> QED
    BY <2>1, <2>7, <2>8, <2>9, TaggedOnReturn
<1> QED
  BY <1>1, <1>2

(* Complete tags lie in front of what is written next.                     *)
LEMMA OpenTagsInFront ==
    ASSUME NEW fs \in Seq(Frame), NEW m \in Nat, Complete(fs, Len(fs), m)
    PROVE  \A q \in OpenTags(fs) : q <= m
<1> SUFFICES ASSUME NEW i \in 1 .. Len(fs)
             PROVE  fs[i].tagPos <= m
  BY DEF OpenTags
<1>1. fs[i].tagPos \in Nat \cup {NoTag}
  BY TagPosition
<1>2. CASE fs[i].tagPos = NoTag
  BY <1>2 DEF NoTag
<1>3. CASE fs[i].tagPos # NoTag
  <2>1. fs[i].tagPos + 2 <= m
    BY <1>3 DEF Complete, IsOpen
  <2> QED
    BY <1>1, <1>3, <2>1
<1> QED
  BY <1>2, <1>3

(* Where a section has ended, its length field begins.                     *)
LEMMA LengthAtPatch ==
    ASSUME NEW b, NEW c, NEW pos \in Nat, NEW actual \in Nat, 1 <= actual, NEW d, NEW len,
           Patched(b, c, pos, actual, d, len)
    PROVE  c[pos + 1].kind = "len" /\ c[pos + 1].part = 1 /\ c[pos + 1].of = actual
<1>1. pos + 1 \in pos + 1 .. pos + actual /\ pos + 1 - pos = 1
  OBVIOUS
<1>2. c[pos + 1] = [kind |-> "len", val |-> len, part |-> pos + 1 - pos, of |-> actual]
  BY <1>1 DEF Patched
<1> QED
  BY <1>1, <1>2

(* The end of a value leaves its length field where its section began, and *)
(* everything in front.                                                    *)
LEMMA ClosedWhenValueEnds ==
    ASSUME TypeOK, NEW b \in Seq(FitCell), NEW secs \in Seq(Section),
           NEW configured \in OptSize, configured # None => secs # <<>>,
           base <= Len(b), Nested(base, secs, b), buf' \in Seq(FitCell),
           EndValue(b, secs, configured), pc' = "return", ZerosInSections(b, secs, base),
           NEW open, NEW legacy, Paired(b, base), Closed(b, base, open, legacy),
           NEW pos, configured # None => pos = secs[Len(secs)].pos /\ \A q \in open : q <= pos
    PROVE  /\ Paired(buf', base) /\ Closed(buf', base, open, legacy)
           /\ IF configured = None THEN buf' = b
              ELSE LengthStands(buf', pos, lastField') /\ \A i \in 1 .. pos : buf'[i] = b[i]
<1>1. CASE configured = None
  BY <1>1 DEF EndValue
<1>2. CASE configured # None
  <2>1. configured \in LengthFieldSize /\ base \in Nat
    BY <1>2, SizesDoNotFail DEF TypeOK
  <2>2. EndSection(b, Last(secs), configured, Len(b) - EndOf(Last(secs)))
    BY <1>2 DEF EndValue
  <2>3. PICK actual \in LengthFieldSize, d \in Nat, at \in Nat :
          /\ Patched(b, buf', at, actual, d, Len(b) - EndOf(Last(secs)))
          /\ lastField' = [size |-> actual, asConfigured |-> actual = configured]
          /\ at = secs[Len(secs)].pos
          /\ EndOf(secs[Len(secs)]) = at + actual + d
    BY <1>2, <2>1, <2>2, SectionPatched
  <2>4. pos = at /\ pos \in Nat /\ actual \in Nat /\ 1 <= actual /\ actual # None
    BY <1>2, <2>3 DEF LengthFieldSize, None
  <2>5. Len(secs) \in 1 .. Len(secs)
    BY <1>2
  <2>6. base <= pos /\ Patched(b, buf', pos, actual, d, Len(b) - EndOf(Last(secs)))
    BY <2>3, <2>4, <2>5 DEF Nested
  <2>7. pos + actual + d <= Len(b) /\ Len(buf') = Len(b) - d /\ Len(b) \in Nat
    BY <2>6 DEF Patched
  <2>8. b[pos + 1].kind = "zero"
    <3>1. pos + 1 \in base + 1 .. Len(b) /\ pos + 1 \in pos + 1 .. pos + actual + d
      BY <2>1, <2>4, <2>6, <2>7
    <3>2. Inside(pos + 1, secs[Len(secs)])
      BY <2>3, <2>4, <3>1 DEF Inside
    <3> QED
      BY <2>5, <3>1, <3>2 DEF ZerosInSections
  <2>9. Paired(buf', base) /\ Closed(buf', base, open, legacy)
    BY <1>2, <2>1, <2>4, <2>6, <2>8, ClosedWhenPatched
  <2>10. LengthStands(buf', pos, lastField')
    <3>1. pos + 1 \in pos + 1 .. pos + actual /\ pos + 1 <= Len(buf')
      BY <2>4, <2>7
    <3>2. /\ buf'[pos + 1].kind = "len" /\ buf'[pos + 1].part = 1
          /\ buf'[pos + 1].of = actual
      BY <2>4, <2>6, LengthAtPatch
    <3>3. lastField'.size = actual
      BY <2>3
    <3> QED
      BY <2>4, <3>1, <3>2, <3>3 DEF LengthStands
  <2>11. \A i \in 1 .. pos : buf'[i] = b[i]
    BY <2>6 DEF Patched
  <2> QED
    BY <1>2, <2>9, <2>10, <2>11
<1> QED
  BY <1>1, <1>2

(* A value that begins and ends its section in one step.                   *)
LEMMA WholeValueTagged ==
    ASSUME IInv, Placed, IInv', Tagged, pc = "value", ~IsFixed(Types[nextType]),
           NEW reserved \in OptSize, NEW configured \in OptSize,
           reserved = None <=> configured = None,
           frames # <<>> /\ Top.tagPos # NoTag => configured # None,
           NEW n \in Nat, EndValue(BeginBuf(reserved) \o Data(n), BeginSections(reserved), configured),
           UNCHANGED <<opts, frames, base>>
    PROVE  Tagged'
<1> DEFINE b0 == BeginBuf(reserved)
           b == b0 \o Data(n)
           secs == BeginSections(reserved)
           open == OpenTags(frames)
           legacy == opts.legacyWireType
<1>1. /\ TypeOK /\ buf \in Seq(FitCell) /\ base \in Nat /\ base <= Len(buf)
      /\ Len(buf) \in Nat /\ frames \in Seq(Frame) /\ sections \in Seq(Section)
      /\ Complete(frames, Len(frames), Len(buf)) /\ Running
      /\ Paired(buf, base) /\ Closed(buf, base, open, legacy)
  BY UnderWay, TagsUnderWay DEF FrameSeq, Running
<1>2. /\ b0 \in Seq(FitCell) /\ Len(b0) = Len(buf) + reserved /\ reserved \in Nat
      /\ secs \in Seq(Section) /\ Nested(base, secs, b0) /\ ZerosInSections(b0, secs, base)
      /\ IF reserved = None THEN secs = sections
         ELSE secs # <<>> /\ Front(secs) = sections /\ secs[Len(secs)].pos = Len(buf)
  BY <1>1, ZerosWhenBegun
<1>3. /\ Data(n) \in Seq(FitCell) /\ Len(Data(n)) = n
      /\ \A i \in 1 .. n : Data(n)[i].kind = "data"
  <2>1. Data(n) \in Seq(FitCell) /\ Len(Data(n)) = n
    BY BytesAreCells DEF Data
  <2>2. \A i \in 1 .. n : Data(n)[i].kind = "data"
    BY DEF Data, Bytes
  <2> QED
    BY <2>1, <2>2
<1>4. /\ \A i \in 1 .. Len(buf) : b0[i] = buf[i]
      /\ \A i \in Len(buf) + 1 .. Len(b0) : b0[i].kind = "zero"
  <2>1. /\ Zeros(reserved) \in Seq(FitCell) /\ Len(Zeros(reserved)) = reserved
    BY <1>2, BytesAreCells DEF Zeros
  <2>2. \A i \in 1 .. reserved : Zeros(reserved)[i].kind = "zero"
    BY DEF Zeros, Bytes
  <2>3. /\ \A i \in 1 .. Len(buf) : b0[i] = buf[i]
        /\ \A i \in Len(buf) + 1 .. Len(b0) : b0[i] = Zeros(reserved)[i - Len(buf)]
    BY <1>1, <2>1, Concatenated DEF BeginBuf
  <2>4. ASSUME NEW i \in Len(buf) + 1 .. Len(b0)
        PROVE  b0[i].kind = "zero"
    <3>1. i - Len(buf) \in 1 .. reserved
      BY <1>1, <1>2
    <3> QED
      BY <2>2, <2>3, <3>1
  <2> QED
    BY <2>3, <2>4
<1> HIDE DEF b0, secs
<1>5. /\ b \in Seq(FitCell) /\ Len(b) = Len(b0) + n /\ Len(b) \in Nat /\ Len(b0) \in Nat
      /\ \A i \in 1 .. Len(b0) : b[i] = b0[i]
      /\ \A i \in Len(b0) + 1 .. Len(b) : b[i] = Data(n)[i - Len(b0)]
  BY <1>2, <1>3, Concatenated
<1>6. ASSUME NEW i \in Len(b0) + 1 .. Len(b)
      PROVE  b[i].kind = "data"
  <2>1. i - Len(b0) \in 1 .. n
    BY <1>5
  <2> QED
    BY <1>3, <1>5, <2>1
<1>7. EndValue(b, secs, configured)
  BY DEF b0, secs
<1> HIDE DEF b
<1>8. Len(b0) <= Len(b) /\ Len(buf) <= Len(b) /\ base <= Len(b)
  BY <1>1, <1>2, <1>5
<1>9. ZerosInSections(b, secs, base) /\ Nested(base, secs, b)
  <2>1. \A i \in Len(b0) + 1 .. Len(b) : b[i].kind # "zero"
    BY <1>6
  <2> QED
    BY <1>1, <1>2, <1>5, <1>8, <2>1, ZerosWhenLonger, NestedWhenLonger
<1>10. \A i \in 1 .. Len(buf) : b[i] = buf[i]
  <2> SUFFICES ASSUME NEW i \in 1 .. Len(buf)
               PROVE  b[i] = buf[i]
    OBVIOUS
  <2>1. i \in 1 .. Len(b0)
    BY <1>1, <1>2
  <2> QED
    BY <1>4, <1>5, <2>1
<1>11. Paired(b, base) /\ Closed(b, base, open, legacy)
  <2>1. ASSUME NEW i \in Len(buf) + 1 .. Len(b)
        PROVE  b[i].kind # "tag"
    <3>1. CASE i <= Len(b0)
      <4>1. i \in Len(buf) + 1 .. Len(b0) /\ i \in 1 .. Len(b0)
        BY <1>1, <1>5, <3>1
      <4> QED
        BY <1>4, <1>5, <4>1
    <3>2. CASE ~(i <= Len(b0))
      <4>1. i \in Len(b0) + 1 .. Len(b)
        BY <1>1, <1>5, <3>2
      <4> QED
        BY <1>6, <4>1
    <3> QED
      BY <3>1, <3>2
  <2> HIDE DEF open, legacy
  <2> QED
    BY <1>1, <1>5, <1>8, <1>10, <2>1, ClosedWhenLonger
<1>12. buf' \in Seq(FitCell) /\ Len(buf') \in Nat
  BY DEF IInv, TypeOK
<1>13. CASE pc' # "return"
  <2>1. pc' \in {"TooLong"} \cup Panics
    BY <1>1, <1>2, <1>5, <1>7, <1>8, <1>9, <1>13, EndValueKeeps
  <2> QED
    BY <2>1, TaggedWhenEnded DEF Errors
<1>14. CASE pc' = "return"
  <2>1. \A q \in open : q <= Len(buf)
    BY <1>1, OpenTagsInFront
  <2> HIDE DEF open, legacy
  <2>2. /\ configured # None => secs # <<>>
        /\ configured # None => Len(buf) = secs[Len(secs)].pos /\ \A q \in open : q <= Len(buf)
    BY <1>2, <2>1
  <2>3. /\ Paired(buf', base) /\ Closed(buf', base, open, legacy)
        /\ IF configured = None THEN buf' = b
           ELSE LengthStands(buf', Len(buf), lastField') /\ \A i \in 1 .. Len(buf) : buf'[i] = b[i]
    <3>1. /\ TypeOK /\ b \in Seq(FitCell) /\ secs \in Seq(Section)
          /\ configured # None => secs # <<>>
          /\ base <= Len(b) /\ Nested(base, secs, b) /\ buf' \in Seq(FitCell)
          /\ EndValue(b, secs, configured) /\ pc' = "return" /\ ZerosInSections(b, secs, base)
          /\ Paired(b, base) /\ Closed(b, base, open, legacy)
      BY <1>1, <1>2, <1>5, <1>7, <1>8, <1>9, <1>11, <1>12, <1>14, <2>2
    <3> QED
      BY <2>2, <3>1, ClosedWhenValueEnds
  <2>4. \A i \in 1 .. Len(buf) : buf'[i] = buf[i]
    BY <1>10, <2>3
  <2>5. TagsStand(frames, buf')
    BY <2>4, TagsStandBehind
  <2>6. ASSUME frames # <<>>, Top.tagPos # NoTag
        PROVE  ValueStands(Top, buf', lastField')
    <3>1. Top.tagPos + 2 = Len(buf) /\ nextType = FieldOfFrame(Top).type
      BY <2>6, FieldOfValue
    <3>2. LengthStands(buf', Len(buf), lastField')
      BY <2>3, <2>6
    <3> QED
      BY <3>1, <3>2 DEF ValueStands
  <2>7. sections' = sections
    <3>1. sections' = IF configured = None THEN secs ELSE Front(secs)
      BY <1>7 DEF EndValue
    <3> QED
      BY <1>2, <3>1
  <2> QED
    BY <1>1, <1>14, <2>3, <2>5, <2>6, <2>7, TaggedOnReturn DEF open, legacy
<1> QED
  BY <1>13, <1>14

----------------------------------------------------------------------------
(***************************************************************************)
(* Where the values of unfinished fields begin.                            *)
(***************************************************************************)

(* The section of a value is there.                                        *)
LEMMA SectionOfValue ==
    ASSUME NEW fs, NEW secs, NEW len, FrameSeq(fs, secs, len), ValuesDelimited(fs, secs),
           NEW i \in 1 .. Len(fs) - 1, IsOpen(fs, i)
    PROVE  /\ Rank(fs, i) + 1 \in 1 .. Len(secs)
           /\ Rank(fs, i + 1) = Rank(fs, i) + 1
           /\ \A j \in i + 1 .. Len(fs) : Rank(fs, i) + 1 <= Rank(fs, j) /\ Rank(fs, j) \in Nat
<1>1. /\ fs \in Seq(Frame) /\ secs \in Seq(Section) /\ Len(secs) = Rank(fs, Len(fs))
      /\ Len(fs) \in Nat
  BY RankOfAll DEF FrameSeq
<1>2. fs[i + 1].lfs # None
  BY DEF ValuesDelimited
<1>3. Rank(fs, i) \in Nat /\ Rank(fs, i + 1) = Rank(fs, i) + 1
  <2>1. i \in 0 .. Len(fs) - 1
    BY <1>1
  <2> QED
    BY <1>1, <1>2, <2>1, RankStep
<1>4. ASSUME NEW j \in i + 1 .. Len(fs)
      PROVE  Rank(fs, i) + 1 <= Rank(fs, j) /\ Rank(fs, j) \in Nat
  <2>1. i + 1 \in 0 .. Len(fs)
    BY <1>1
  <2> QED
    BY <1>1, <1>3, <2>1, RankGrows
<1>5. Len(fs) \in i + 1 .. Len(fs)
  BY <1>1
<1> QED
  BY <1>1, <1>3, <1>4, <1>5

(* A frame that is pushed delimits the value of the field it is pushed     *)
(* for.                                                                    *)
LEMMA ValuesPush ==
    ASSUME NEW fs, NEW secs, NEW len, FrameSeq(fs, secs, len), ValuesDelimited(fs, secs),
           NEW f \in Frame, NEW sec \in Section,
           NEW news, news = IF f.lfs = None THEN secs ELSE Append(secs, sec),
           fs # <<>> /\ IsOpen(fs, Len(fs)) =>
             /\ ~IsFixed(Types[FieldOfFrame(fs[Len(fs)]).type])
             /\ f.lfs # None /\ sec.pos = fs[Len(fs)].tagPos + 2
    PROVE  ValuesDelimited(Append(fs, f), news)
<1> DEFINE gs == Append(fs, f)
<1>1. /\ fs \in Seq(Frame) /\ secs \in Seq(Section) /\ Len(secs) = Rank(fs, Len(fs))
      /\ Len(fs) \in Nat
  BY RankOfAll DEF FrameSeq
<1>2. /\ Len(gs) - 1 = Len(fs) /\ gs[Len(fs) + 1] = f
      /\ \A i \in 1 .. Len(fs) : gs[i] = fs[i]
  BY <1>1
<1> HIDE DEF gs
<1> SUFFICES ASSUME NEW i \in 1 .. Len(fs), IsOpen(gs, i)
             PROVE  /\ ~IsFixed(Types[FieldOfFrame(gs[i]).type])
                    /\ gs[i + 1].lfs # None
                    /\ news[Rank(gs, i) + 1].pos = gs[i].tagPos + 2
  BY <1>2 DEF ValuesDelimited, gs
<1>3. gs[i] = fs[i] /\ IsOpen(fs, i)
  BY <1>2 DEF IsOpen
<1>4. Rank(gs, i) = Rank(fs, i)
  <2>1. i \in Nat /\ \A j \in 1 .. i : gs[j].lfs = fs[j].lfs
    BY <1>1, <1>2
  <2> QED
    BY <2>1, RankOfSame
<1>5. CASE i = Len(fs)
  <2>1. /\ ~IsFixed(Types[FieldOfFrame(fs[i]).type])
        /\ f.lfs # None /\ sec.pos = fs[i].tagPos + 2
    BY <1>1, <1>3, <1>5
  <2>2. gs[i + 1] = f
    BY <1>2, <1>5
  <2>3. news = Append(secs, sec) /\ Rank(gs, i) + 1 = Len(secs) + 1
    BY <1>1, <1>4, <1>5, <2>1
  <2>4. news[Rank(gs, i) + 1] = sec
    BY <1>1, <2>3
  <2> QED
    BY <1>3, <2>1, <2>2, <2>4
<1>6. CASE i # Len(fs)
  <2>1. i \in 1 .. Len(fs) - 1 /\ i + 1 \in 1 .. Len(fs)
    BY <1>1, <1>6
  <2>2. /\ ~IsFixed(Types[FieldOfFrame(fs[i]).type])
        /\ fs[i + 1].lfs # None
        /\ secs[Rank(fs, i) + 1].pos = fs[i].tagPos + 2
    BY <1>3, <2>1 DEF ValuesDelimited
  <2>3. Rank(fs, i) + 1 \in 1 .. Len(secs)
    BY <1>3, <2>1, SectionOfValue
  <2>4. news[Rank(fs, i) + 1] = secs[Rank(fs, i) + 1]
    BY <1>1, <2>3
  <2>5. gs[i + 1] = fs[i + 1]
    BY <1>2, <2>1
  <2> QED
    BY <1>3, <1>4, <2>2, <2>4, <2>5
<1> QED
  BY <1>5, <1>6

(* A frame that is popped leaves the others as they are.                   *)
LEMMA ValuesPop ==
    ASSUME NEW fs, NEW secs, NEW len, FrameSeq(fs, secs, len), ValuesDelimited(fs, secs),
           fs # <<>>,
           NEW news, news = IF fs[Len(fs)].lfs = None THEN secs ELSE Front(secs)
    PROVE  ValuesDelimited(Front(fs), news)
<1> DEFINE gs == Front(fs)
           n == Len(fs)
<1>1. /\ fs \in Seq(Frame) /\ secs \in Seq(Section) /\ Len(secs) = Rank(fs, n)
      /\ n \in Nat \ {0}
  BY RankOfAll DEF FrameSeq
<1>2. Len(gs) = n - 1 /\ \A i \in 1 .. n - 1 : gs[i] = fs[i]
  BY <1>1, FrontIsSeq
<1>3. /\ Rank(fs, n - 1) \in Nat
      /\ Rank(fs, n) = Rank(fs, n - 1) + (IF fs[n].lfs = None THEN 0 ELSE 1)
  <2>1. n - 1 \in 0 .. Len(fs) - 1 /\ n - 1 + 1 = n
    BY <1>1
  <2> QED
    BY <1>1, <2>1, RankStep
<1> HIDE DEF gs
<1>4. \A k \in 1 .. Rank(fs, n - 1) : news[k] = secs[k]
  <2>1. CASE fs[n].lfs = None
    BY <2>1
  <2>2. CASE fs[n].lfs # None
    <3>1. secs # <<>> /\ news = Front(secs) /\ Len(secs) - 1 = Rank(fs, n - 1)
      BY <1>1, <1>3, <2>2
    <3>2. \A k \in 1 .. Len(secs) - 1 : Front(secs)[k] = secs[k]
      BY <1>1, <3>1, FrontIsSeq
    <3> QED
      BY <3>1, <3>2
  <2> QED
    BY <2>1, <2>2
<1> SUFFICES ASSUME NEW i \in 1 .. n - 1 - 1, IsOpen(gs, i)
             PROVE  /\ ~IsFixed(Types[FieldOfFrame(gs[i]).type])
                    /\ gs[i + 1].lfs # None
                    /\ news[Rank(gs, i) + 1].pos = gs[i].tagPos + 2
  BY <1>2 DEF ValuesDelimited, gs
<1>5. /\ i \in 1 .. n - 1 /\ i + 1 \in 1 .. n - 1 /\ i \in Nat /\ n - 1 \in i + 1 .. n
      /\ i \in 1 .. Len(fs) - 1
  BY <1>1
<1>6. gs[i] = fs[i] /\ gs[i + 1] = fs[i + 1] /\ IsOpen(fs, i)
  BY <1>2, <1>5 DEF IsOpen
<1>7. Rank(gs, i) = Rank(fs, i)
  <2>1. \A j \in 1 .. i : gs[j].lfs = fs[j].lfs
    BY <1>2, <1>5
  <2> QED
    BY <1>5, <2>1, RankOfSame
<1>8. /\ ~IsFixed(Types[FieldOfFrame(fs[i]).type])
      /\ fs[i + 1].lfs # None
      /\ secs[Rank(fs, i) + 1].pos = fs[i].tagPos + 2
  BY <1>5, <1>6 DEF ValuesDelimited
<1>9. Rank(fs, i) + 1 \in 1 .. Rank(fs, n - 1)
  <2>1. Rank(fs, i) + 1 \in 1 .. Len(secs) /\ Rank(fs, i) + 1 <= Rank(fs, n - 1)
    BY <1>5, <1>6, SectionOfValue
  <2> QED
    BY <1>3, <2>1
<1> QED
  BY <1>4, <1>6, <1>7, <1>8, <1>9

(* So does a change of the top frame that keeps its section.               *)
LEMMA ValuesTop ==
    ASSUME NEW fs \in Seq(Frame), NEW secs, fs # <<>>, ValuesDelimited(fs, secs),
           NEW f \in Frame, f.lfs = fs[Len(fs)].lfs
    PROVE  ValuesDelimited(WithTop(fs, f), secs)
<1> DEFINE gs == WithTop(fs, f)
           n == Len(fs)
<1>1. n \in Nat \ {0} /\ Len(gs) = n /\ \A i \in 1 .. n : gs[i] = IF i = n THEN f ELSE fs[i]
  BY TopExcept
<1> HIDE DEF gs
<1> SUFFICES ASSUME NEW i \in 1 .. n - 1, IsOpen(gs, i)
             PROVE  /\ ~IsFixed(Types[FieldOfFrame(gs[i]).type])
                    /\ gs[i + 1].lfs # None
                    /\ secs[Rank(gs, i) + 1].pos = gs[i].tagPos + 2
  BY <1>1 DEF ValuesDelimited, gs
<1>2. i \in 1 .. n /\ i # n /\ i + 1 \in 1 .. n /\ i \in Nat
  BY <1>1
<1>3. gs[i] = fs[i] /\ IsOpen(fs, i)
  BY <1>1, <1>2 DEF IsOpen
<1>4. \A j \in 1 .. n : gs[j].lfs = fs[j].lfs
  BY <1>1
<1>5. Rank(gs, i) = Rank(fs, i)
  <2>1. \A j \in 1 .. i : gs[j].lfs = fs[j].lfs
    BY <1>2, <1>4
  <2> QED
    BY <1>2, <2>1, RankOfSame
<1> QED
  BY <1>2, <1>3, <1>4, <1>5 DEF ValuesDelimited

(* More tags may be open.                                                  *)
LEMMA ClosedForMore ==
    ASSUME NEW b, NEW from, NEW open, NEW more, NEW legacy, Closed(b, from, open, legacy),
           open \subseteq more
    PROVE  Closed(b, from, more, legacy)
BY DEF Closed

----------------------------------------------------------------------------
(***************************************************************************)
(* Byte slices, strings, and values with parts.                            *)
(***************************************************************************)
LEMMA BytesTagged ==
    ASSUME NoWrapperInTlv, IInv, Placed, Tagged, NEW n \in Nat, SerializeBytes(n)
    PROVE  Tagged'
<1> DEFINE reserved == Reservation[Here]
           configured == WantedLengthField[Here]
<1>1. /\ pc = "value" /\ UNCHANGED <<opts, base>> /\ IInv'
      /\ IsByteSequence(Types[nextType])
  BY BytesStep DEF SerializeBytes
<1>2. ~IsFixed(Types[nextType])
  BY <1>1 DEF IsByteSequence, IsFixed
<1>3. \/ OutOfBounds(n, Types[nextType]) # "no" /\ Fail(OutOfBounds(n, Types[nextType]))
      \/ Fail(Outcome(reserved))
      \/ /\ ~Failed(reserved)
         /\ EndValue(BeginBuf(reserved) \o Data(n), BeginSections(reserved), configured)
         /\ UNCHANGED frames
  BY DEF SerializeBytes
<1>4. ~Failed(reserved) => /\ reserved \in OptSize /\ configured \in OptSize
                           /\ reserved = None <=> configured = None
  BY HereIsSite, ReservationMatchesWanted
<1>5. frames # <<>> /\ Top.tagPos # NoTag => configured # None
  <2>1. [Here EXCEPT !.props = props] = Here /\ props \in Properties
    BY DEF Here, IInv, TypeOK
  <2> QED
    BY <1>1, <1>2, <2>1, ValueHasLength
<1> HIDE DEF reserved, configured
<1>6. CASE OutOfBounds(n, Types[nextType]) # "no" /\ Fail(OutOfBounds(n, Types[nextType]))
  BY <1>6, OutOfBoundsIsError, TaggedWhenEnded DEF Fail
<1>7. CASE Fail(Outcome(reserved))
  BY <1>7, OutcomeIsEnd, TaggedWhenEnded DEF Fail
<1>8. CASE /\ ~Failed(reserved)
           /\ EndValue(BeginBuf(reserved) \o Data(n), BeginSections(reserved), configured)
           /\ UNCHANGED frames
  BY <1>1, <1>2, <1>4, <1>5, <1>8, WholeValueTagged
<1> QED
  BY <1>3, <1>6, <1>7, <1>8

(* A string keeps what tags announce.                                      *)
LEMMA StrTagged ==
    ASSUME NoWrapperInTlv, IInv, Placed, Tagged, NEW units \in Nat, SerializeStr(units)
    PROVE  Tagged'
<1> DEFINE reserved == Reservation[Here]
           configured == WantedLengthField[Here]
           size == EncodedSize(opts, units)
           reason == OutOfBounds(size, Types[nextType])
<1>1. /\ pc = "value" /\ UNCHANGED <<opts, base>> /\ IInv' /\ size \in Nat
      /\ Types[nextType].kind = "string"
  BY StrStep, EncodedSizeIsNat DEF SerializeStr, IInv, TypeOK
<1>2. ~IsFixed(Types[nextType])
  BY <1>1 DEF IsFixed
<1>3. \/ Fail(Outcome(reserved))
      \/ reason # "no" /\ pc' = reason
      \/ /\ ~Failed(reserved)
         /\ EndValue(BeginBuf(reserved) \o Data(size), BeginSections(reserved), configured)
         /\ UNCHANGED frames
  BY DEF SerializeStr
<1>4. ~Failed(reserved) => /\ reserved \in OptSize /\ configured \in OptSize
                           /\ reserved = None <=> configured = None
  BY HereIsSite, ReservationMatchesWanted
<1>5. frames # <<>> /\ Top.tagPos # NoTag => configured # None
  <2>1. [Here EXCEPT !.props = props] = Here /\ props \in Properties
    BY DEF Here, IInv, TypeOK
  <2> QED
    BY <1>1, <1>2, <2>1, ValueHasLength
<1>6. reason # "no" => reason \in Errors \cup Panics
  <2> HIDE DEF size
  <2> QED
    BY OutOfBoundsIsError
<1> HIDE DEF reserved, configured, size, reason
<1>7. CASE Fail(Outcome(reserved))
  BY <1>7, OutcomeIsEnd, TaggedWhenEnded DEF Fail
<1>8. CASE reason # "no" /\ pc' = reason
  BY <1>6, <1>8, TaggedWhenEnded
<1>9. CASE /\ ~Failed(reserved)
           /\ EndValue(BeginBuf(reserved) \o Data(size), BeginSections(reserved), configured)
           /\ UNCHANGED frames
  BY <1>1, <1>2, <1>4, <1>5, <1>9, WholeValueTagged
<1> QED
  BY <1>3, <1>7, <1>8, <1>9

(* One more serializer is open.                                            *)
LEMMA BeginValueTagged ==
    ASSUME IInv, Placed, Tagged, IInv', pc = "value", ~IsFixed(Types[nextType]),
           NEW f \in Frame, f.tagPos = NoTag,
           NEW reserved \in OptSize, reserved = None <=> f.lfs = None,
           frames # <<>> /\ Top.tagPos # NoTag => f.lfs # None,
           BeginValue(f, reserved), UNCHANGED <<opts, base>>
    PROVE  Tagged'
<1> DEFINE legacy == opts.legacyWireType
<1>1. /\ frames' = Append(frames, f) /\ sections' = BeginSections(reserved)
      /\ buf' = BeginBuf(reserved) /\ pc' = "return" /\ Running
  BY DEF BeginValue, Running
<1>2. /\ FrameSeq(frames, sections, Len(buf)) /\ frames \in Seq(Frame)
      /\ Len(buf) \in Nat /\ buf \in Seq(FitCell) /\ base \in Nat
      /\ Paired(buf, base) /\ Closed(buf, base, OpenTags(frames), legacy)
      /\ ValuesDelimited(frames, sections)
  BY <1>1, UnderWay, TagsUnderWay DEF FrameSeq
<1>3. Len(buf') = Len(buf) + reserved /\ reserved \in Nat /\ buf' \in Seq(FitCell)
  BY <1>1, ZerosWhenBegun
<1>4. PICK sec \in Section :
        /\ sec.pos = Len(buf)
        /\ sections' = IF reserved = None THEN sections ELSE Append(sections, sec)
  BY <1>1, ZerosWhenBegun
<1>5. sections' = IF f.lfs = None THEN sections ELSE Append(sections, sec)
  BY <1>4
<1>6. /\ \A i \in 1 .. Len(buf) : buf'[i] = buf[i]
      /\ \A i \in Len(buf) + 1 .. Len(buf') : buf'[i].kind # "tag"
  <2>1. /\ Zeros(reserved) \in Seq(FitCell) /\ Len(Zeros(reserved)) = reserved
    BY <1>3, BytesAreCells DEF Zeros
  <2>2. \A i \in 1 .. reserved : Zeros(reserved)[i].kind = "zero"
    BY DEF Zeros, Bytes
  <2>3. /\ \A i \in 1 .. Len(buf) : buf'[i] = buf[i]
        /\ \A i \in Len(buf) + 1 .. Len(buf') : buf'[i] = Zeros(reserved)[i - Len(buf)]
    BY <1>1, <1>2, <2>1, Concatenated DEF BeginBuf
  <2>4. ASSUME NEW i \in Len(buf) + 1 .. Len(buf')
        PROVE  buf'[i].kind # "tag"
    <3>1. i - Len(buf) \in 1 .. reserved
      BY <1>2, <1>3
    <3> QED
      BY <2>2, <2>3, <3>1
  <2> QED
    BY <2>3, <2>4
<1>7. /\ Len(frames') = Len(frames) + 1 /\ frames'[Len(frames) + 1] = f
      /\ Len(frames) \in Nat
      /\ \A i \in 1 .. Len(frames) : frames'[i] = frames[i]
  BY <1>1, <1>2
<1>8. Paired(buf', base) /\ Closed(buf', base, OpenTags(frames'), legacy)
  <2>1. Len(buf) <= Len(buf')
    BY <1>2, <1>3
  <2>2. Paired(buf', base) /\ Closed(buf', base, OpenTags(frames), legacy)
    <3> HIDE DEF legacy
    <3> QED
      BY <1>2, <1>3, <1>6, <2>1, ClosedWhenLonger
  <2>3. OpenTags(frames) \subseteq OpenTags(frames')
    <3>1. ASSUME NEW i \in 1 .. Len(frames)
          PROVE  frames[i].tagPos \in OpenTags(frames')
      <4>1. i \in 1 .. Len(frames') /\ frames'[i].tagPos = frames[i].tagPos
        BY <1>7
      <4> QED
        BY <4>1 DEF OpenTags
    <3> QED
      BY <3>1 DEF OpenTags
  <2> QED
    BY <2>2, <2>3, ClosedForMore
<1>9. TagsStand(frames', buf')
  <2>1. TagsStand(frames, buf')
    BY <1>6, TagsStandBehind
  <2> SUFFICES ASSUME NEW i \in 1 .. Len(frames'), IsOpen(frames', i),
                      frames'[i].tagPos + 2 <= Len(buf')
               PROVE  TagStands(frames'[i], buf')
    BY DEF TagsStand
  <2>2. i # Len(frames) + 1
    BY <1>7 DEF IsOpen
  <2>3. i \in 1 .. Len(frames)
    BY <1>7, <2>2
  <2>4. frames'[i] = frames[i]
    BY <1>7, <2>3
  <2> QED
    BY <2>1, <2>3, <2>4 DEF TagsStand, IsOpen
<1>10. ValuesDelimited(frames', sections')
  <2>1. ASSUME frames # <<>>, IsOpen(frames, Len(frames))
        PROVE  /\ ~IsFixed(Types[FieldOfFrame(frames[Len(frames)]).type])
               /\ f.lfs # None /\ sec.pos = frames[Len(frames)].tagPos + 2
    <3>1. Top = frames[Len(frames)] /\ Top.tagPos # NoTag
      BY <2>1 DEF Top, IsOpen
    <3>2. Top.tagPos + 2 = Len(buf) /\ nextType = FieldOfFrame(Top).type
      BY <2>1, <3>1, FieldOfValue
    <3> QED
      BY <1>4, <2>1, <3>1, <3>2
  <2> QED
    BY <1>1, <1>2, <1>5, <2>1, ValuesPush
<1>11. Top' = f
  BY <1>7 DEF Top
<1>12. TagsKept'
  BY <1>1, <1>8, <1>9, <1>10, <1>11 DEF TagsKept, ValueOfField, ValueReturned
<1>13. TagsAnnounceLengthFields'
  <2>1. frames' \in Seq(Frame)
    BY DEF IInv, TypeOK
  <2> QED
    BY <1>2, <1>3, <1>8, <2>1, TagsAnnounceAfter
<1> QED
  BY <1>12, <1>13 DEF Tagged

(* The beginning of a sequence keeps it.                                   *)
LEMMA SeqTagged ==
    ASSUME NoWrapperInTlv, IInv, Placed, Tagged, NEW hint, SerializeSeq(hint)
    PROVE  Tagged'
<1> DEFINE reserved == Reservation[Here]
           hinted == IF hint = NoHint THEN "no" ELSE OutOfBounds(hint, Types[nextType])
           f == [type |-> nextType, lfs |-> WantedLengthField[Here], count |-> 0,
                 orig |-> NoProps, tagPos |-> NoTag]
<1>1. /\ pc = "value" /\ UNCHANGED <<opts, base>> /\ IInv' /\ nextType \in TypeId
      /\ Types[nextType].kind = "seq"
  BY SeqStep DEF SerializeSeq, IInv, TypeOK
<1>2. ~IsFixed(Types[nextType])
  BY <1>1 DEF IsFixed
<1>3. \/ hinted # "no" /\ Fail(hinted)
      \/ Fail(Outcome(reserved))
      \/ ~Failed(reserved) /\ BeginValue(f, reserved)
  BY DEF SerializeSeq
<1>4. ~Failed(reserved) => /\ reserved \in OptSize /\ WantedLengthField[Here] \in OptSize
                           /\ reserved = None <=> WantedLengthField[Here] = None
  BY HereIsSite, ReservationMatchesWanted
<1>5. NoProps \in Properties
  BY DEF NoProps, Properties, OptSize
<1>6. ~Failed(reserved) => /\ f \in Frame /\ f.tagPos = NoTag
                           /\ reserved = None <=> f.lfs = None
  BY <1>1, <1>4, <1>5 DEF Frame
<1>7. hinted # "no" => hinted \in Errors \cup Panics
  BY OutOfBoundsIsError
<1>8. frames # <<>> /\ Top.tagPos # NoTag => f.lfs # None
  <2>1. [Here EXCEPT !.props = props] = Here /\ props \in Properties
    BY DEF Here, IInv, TypeOK
  <2> QED
    BY <1>1, <1>2, <2>1, ValueHasLength
<1> HIDE DEF reserved, hinted, f
<1>9. CASE hinted # "no" /\ Fail(hinted)
  BY <1>7, <1>9, TaggedWhenEnded DEF Fail
<1>10. CASE Fail(Outcome(reserved))
  BY <1>10, OutcomeIsEnd, TaggedWhenEnded DEF Fail
<1>11. CASE ~Failed(reserved) /\ BeginValue(f, reserved)
  BY <1>1, <1>2, <1>4, <1>6, <1>8, <1>11, BeginValueTagged
<1> QED
  BY <1>3, <1>9, <1>10, <1>11

(* The beginning of a struct keeps it.                                     *)
LEMMA StructTagged ==
    ASSUME NoWrapperInTlv, IInv, Placed, Tagged, SerializeStruct
    PROVE  Tagged'
<1> DEFINE ty == Types[nextType]
           scope == IF ty.props.set THEN ty.props ELSE props
           site == [Here EXCEPT !.props = scope]
           reserved == Reservation[site]
           f == [type |-> nextType, lfs |-> WantedLengthField[site], count |-> 0,
                 orig |-> IF ty.props.set THEN props ELSE NoProps, tagPos |-> NoTag]
<1>1. /\ pc = "value" /\ UNCHANGED <<opts, base>> /\ IInv' /\ nextType \in TypeId
      /\ props \in Properties /\ props' = scope /\ ty.kind = "struct"
  BY StructStep DEF SerializeStruct, IInv, TypeOK
<1>2. ~IsFixed(Types[nextType])
  BY <1>1 DEF IsFixed
<1>3. \/ Fail(Outcome(reserved))
      \/ ~Failed(reserved) /\ BeginValue(f, reserved)
  BY DEF SerializeStruct
<1>4. scope \in Properties
  BY <1>1 DEF IInv, TypeOK
<1>5. site \in Site
  <2> HIDE DEF scope
  <2> QED
    BY <1>4, HereIsSite DEF Site
<1>6. ~Failed(reserved) => /\ reserved \in OptSize /\ WantedLengthField[site] \in OptSize
                           /\ reserved = None <=> WantedLengthField[site] = None
  <2> HIDE DEF site
  <2> QED
    BY <1>5, ReservationMatchesWanted
<1>7. NoProps \in Properties
  BY DEF NoProps, Properties, OptSize
<1>8. ~Failed(reserved) => /\ f \in Frame /\ f.tagPos = NoTag
                           /\ reserved = None <=> f.lfs = None
  <2> HIDE DEF site, reserved
  <2> QED
    BY <1>1, <1>6, <1>7 DEF Frame
<1>9. frames # <<>> /\ Top.tagPos # NoTag => f.lfs # None
  <2> HIDE DEF scope
  <2>1. frames # <<>> /\ Top.tagPos # NoTag => WantedLengthField[site] # None
    BY <1>1, <1>2, <1>4, ValueHasLength
  <2> HIDE DEF site
  <2> QED
    BY <2>1
<1> HIDE DEF reserved, scope, f, site
<1>10. CASE Fail(Outcome(reserved))
  BY <1>10, OutcomeIsEnd, TaggedWhenEnded DEF Fail
<1>11. CASE ~Failed(reserved) /\ BeginValue(f, reserved)
  BY <1>1, <1>2, <1>6, <1>8, <1>9, <1>11, BeginValueTagged
<1> QED
  BY <1>3, <1>10, <1>11

----------------------------------------------------------------------------
(***************************************************************************)
(* The serializers of open sequences and structs.                          *)
(***************************************************************************)

(* A serializer that is not at a field has no tag to be closed.            *)
LEMMA ClosedWithoutTop ==
    ASSUME NEW b \in Seq(FitCell), NEW from \in Nat, NEW legacy,
           NEW fs \in Seq(Frame), fs # <<>>, fs[Len(fs)].tagPos = NoTag,
           Closed(b, from, OpenTags(fs), legacy)
    PROVE  Closed(b, from, OpenTags(Front(fs)), legacy)
<1>1. Len(Front(fs)) = Len(fs) - 1 /\ Len(fs) \in Nat \ {0}
      /\ \A i \in 1 .. Len(fs) - 1 : Front(fs)[i] = fs[i]
  BY FrontIsSeq
<1> SUFFICES ASSUME NEW p \in from .. Len(b) - 1, IsTag(b[p + 1], 1),
                    p \notin OpenTags(Front(fs))
             PROVE  Behind(b, p, legacy)
  BY DEF Closed
<1>2. p \notin OpenTags(fs)
  <2> SUFFICES ASSUME NEW i \in 1 .. Len(fs), fs[i].tagPos = p
               PROVE  FALSE
    BY DEF OpenTags
  <2>1. CASE i = Len(fs)
    BY <2>1 DEF NoTag
  <2>2. CASE i # Len(fs)
    <3>1. i \in 1 .. Len(Front(fs)) /\ Front(fs)[i] = fs[i]
      BY <1>1, <2>2
    <3> QED
      BY <3>1 DEF OpenTags
  <2> QED
    BY <2>1, <2>2
<1> QED
  BY <1>2 DEF Closed

(* The innermost serializer is closed: the length field of its section is  *)
(* what stands behind the tag of the field it was opened for.              *)
LEMMA ClosingTagged ==
    ASSUME IInv, Placed, Tagged, IInv', pc = "return", frames # <<>>, Top.tagPos = NoTag,
           EndValue(buf, sections, Top.lfs), frames' = Front(frames),
           UNCHANGED <<opts, base>>
    PROVE  Tagged'
<1> DEFINE legacy == opts.legacyWireType
           fs == Front(frames)
           n == Len(frames)
           m == IF Top.lfs = None THEN Len(buf) ELSE sections[Len(sections)].pos
           open == OpenTags(fs)
<1>1. /\ TypeOK /\ FrameSeq(frames, sections, Len(buf)) /\ Ordered(frames)
      /\ Beside(frames, sections) /\ Complete(frames, Len(frames) - 1, Len(buf))
      /\ buf \in Seq(FitCell) /\ base \in Nat /\ base <= Len(buf) /\ Len(buf) \in Nat
      /\ Nested(base, sections, buf) /\ ZerosInSections(buf, sections, base)
  BY UnderWay DEF Running
<1>2. /\ Paired(buf, base) /\ TagsStand(frames, buf) /\ ValuesDelimited(frames, sections)
      /\ Closed(buf, base, OpenTags(frames), legacy)
  BY TagsUnderWay DEF Running
<1>3. /\ frames \in Seq(Frame) /\ sections \in Seq(Section)
      /\ Len(sections) = Cardinality(Sectioned(frames)) /\ n \in Nat \ {0}
  BY <1>1 DEF FrameSeq
<1>4. Top.lfs \in OptSize /\ Top = frames[n]
  BY TopIsFrame
<1>5. Top.lfs # None => sections # <<>>
  BY <1>1, <1>3, <1>4, SectionedFront
<1>6. buf' \in Seq(FitCell) /\ Len(buf') \in Nat /\ frames' \in Seq(Frame)
  BY DEF IInv, TypeOK
<1>7. CASE pc' # "return"
  <2>1. pc' \in {"TooLong"} \cup Panics
    BY <1>1, <1>3, <1>4, <1>5, <1>7, EndValueKeeps
  <2> QED
    BY <2>1, TaggedWhenEnded DEF Errors
<1>8. CASE pc' = "return"
  <2>1. fs \in Seq(Frame) /\ Len(fs) = n - 1 /\ \A i \in 1 .. n - 1 : fs[i] = frames[i]
    BY <1>3, FrontIsSeq
  <2>2. m \in Nat /\ m <= Len(buf)
    <3>1. CASE Top.lfs = None
      BY <1>1, <3>1
    <3>2. CASE Top.lfs # None
      <4>1. Len(sections) \in 1 .. Len(sections)
        BY <1>3, <1>5, <3>2
      <4>2. sections[Len(sections)].pos \in Nat /\ EndOf(sections[Len(sections)]) \in Nat
            /\ sections[Len(sections)].pos <= EndOf(sections[Len(sections)])
            /\ EndOf(sections[Len(sections)]) <= Len(buf)
        BY <1>1, <1>3, <4>1, SectionShape DEF Nested
      <4> QED
        BY <1>1, <3>2, <4>2
    <3> QED
      BY <3>1, <3>2
  <2>3. sections' = IF frames[Len(frames)].lfs = None THEN sections ELSE Front(sections)
    BY <1>4 DEF EndValue
  <2>4. Complete(fs, n - 1, m)
    <3>1. \/ m = Len(buf)
          \/ frames[Len(frames)].lfs # None /\ sections[Len(sections)].pos <= m
      BY <1>4, <2>2
    <3> HIDE DEF m
    <3> QED
      BY <1>1, <2>2, <2>3, <3>1, LayoutPop
  <2>5. ValuesDelimited(fs, sections')
    BY <1>1, <1>2, <2>3, ValuesPop
  <2>6. Closed(buf, base, open, legacy)
    BY <1>1, <1>2, <1>3, <1>4, ClosedWithoutTop
  <2>7. \A q \in open : q <= m
    BY <2>1, <2>2, <2>4, OpenTagsInFront
  <2>8. /\ Paired(buf', base) /\ Closed(buf', base, open, legacy)
        /\ IF Top.lfs = None THEN buf' = buf
           ELSE LengthStands(buf', m, lastField') /\ \A i \in 1 .. m : buf'[i] = buf[i]
    <3>1. Top.lfs # None => m = sections[Len(sections)].pos /\ \A q \in open : q <= m
      BY <2>7
    <3> HIDE DEF m, open, legacy
    <3> QED
      BY <1>1, <1>2, <1>3, <1>4, <1>5, <1>6, <1>8, <2>6, <3>1, ClosedWhenValueEnds
  <2>9. \A i \in 1 .. m : buf'[i] = buf[i]
    BY <2>8
  <2>10. TagsStand(fs, buf')
    <3>1. TagsStand(fs, buf)
      BY <1>2, <1>3, <2>1 DEF TagsStand, IsOpen
    <3>2. n - 1 \in 0 .. Len(fs)
      BY <1>3, <2>1
    <3>3. \A i \in 1 .. n - 1 : IsOpen(fs, i) => TagStands(fs[i], buf')
      <4> HIDE DEF m, fs
      <4> QED
        BY <1>1, <2>1, <2>2, <2>4, <2>9, <3>1, <3>2, TagsStandStill
    <3> QED
      BY <2>1, <3>3 DEF TagsStand
  <2>11. ASSUME frames' # <<>>, Top'.tagPos # NoTag
         PROVE  ValueStands(Top', buf', lastField')
    <3>1. n - 1 \in 1 .. Len(frames) - 1 /\ n - 1 \in 0 .. Len(frames) - 1 /\ n - 1 + 1 = n
      <4>1. Len(frames') # 0
        BY <1>6, <2>11
      <4> QED
        BY <1>3, <2>1, <4>1
    <3>2. Top' = frames[n - 1]
      BY <2>1, <3>1 DEF Top
    <3>3. IsOpen(frames, n - 1)
      BY <2>11, <3>2 DEF IsOpen
    <3>4. /\ ~IsFixed(Types[FieldOfFrame(frames[n - 1]).type])
          /\ frames[n - 1 + 1].lfs # None
          /\ sections[Rank(frames, n - 1) + 1].pos = frames[n - 1].tagPos + 2
      BY <1>2, <3>1, <3>3 DEF ValuesDelimited
    <3>5. Rank(frames, n - 1) + 1 = Len(sections)
      <4>1. Rank(frames, n - 1 + 1) = Rank(frames, n - 1) + 1
        BY <1>1, <1>2, <3>1, <3>3, SectionOfValue
      <4> QED
        BY <1>3, <3>1, <4>1, RankOfAll
    <3>6. Top.lfs # None /\ m = Top'.tagPos + 2
      BY <1>4, <3>1, <3>2, <3>4, <3>5
    <3>7. LengthStands(buf', Top'.tagPos + 2, lastField')
      BY <2>8, <3>6
    <3> QED
      BY <3>2, <3>4, <3>7 DEF ValueStands
  <2>12. TagsKept'
    BY <1>8, <2>5, <2>8, <2>10, <2>11 DEF TagsKept, ValueOfField, ValueReturned
  <2>13. TagsAnnounceLengthFields'
    BY <1>1, <1>6, <2>8, TagsAnnounceAfter
  <2> QED
    BY <2>12, <2>13 DEF Tagged
<1> QED
  BY <1>7, <1>8

(* A serializer of a sequence is never at a TLV field.                     *)
LEMMA SeqHasNoTag ==
    ASSUME IInv, Running, frames # <<>>, TopType.kind = "seq"
    PROVE  Top.tagPos = NoTag
<1>1. Top = frames[Len(frames)] /\ Len(frames) \in DOMAIN frames
  BY TopIsFrame
<1> QED
  BY <1>1 DEF IInv, TagsOfFields, TagOfField, TopType, IsStruct

(* The end of a sequence keeps it.                                         *)
LEMMA EndSeqTagged ==
    ASSUME IInv, Placed, Tagged, EndSeq
    PROVE  Tagged'
<1>1. /\ pc = "return" /\ frames # <<>> /\ UNCHANGED <<opts, base>> /\ IInv'
      /\ TopType.kind = "seq"
  BY EndSeqStep DEF EndSeq
<1>2. CASE OutOfBounds(Top.count, TopType) # "no" /\ Fail(OutOfBounds(Top.count, TopType))
  BY <1>2, OutOfBoundsIsError, TaggedWhenEnded DEF Fail
<1>3. CASE EndValue(buf, sections, Top.lfs) /\ frames' = Front(frames)
  BY <1>1, <1>3, SeqHasNoTag, ClosingTagged DEF Running
<1> QED
  BY <1>2, <1>3 DEF EndSeq

(* The end of a struct keeps it.                                           *)
LEMMA EndStructTagged ==
    ASSUME IInv, Placed, Tagged, EndStruct
    PROVE  Tagged'
<1>1. /\ pc = "return" /\ frames # <<>> /\ UNCHANGED <<opts, base>> /\ IInv'
      /\ Top.tagPos = NoTag
      /\ EndValue(buf, sections, Top.lfs) /\ frames' = Front(frames)
  BY EndStructStep DEF EndStruct
<1> QED
  BY <1>1, ClosingTagged

(* The innermost serializer moves on.                                      *)
LEMMA TopTagged ==
    ASSUME IInv, Placed, Tagged, IInv', pc = "return", frames # <<>>, NEW f \in Frame,
           f.lfs = Top.lfs, frames' = WithTop(frames, f),
           UNCHANGED <<opts, sections, base>>,
           NEW m \in Nat, m <= Len(buf), Complete(frames, Len(frames) - 1, m),
           \A i \in 1 .. m : buf'[i] = buf[i],
           f.tagPos # NoTag => TagStands(f, buf'),
           Paired(buf', base), Closed(buf', base, OpenTags(frames'), opts.legacyWireType),
           ValueOfField', ValueReturned'
    PROVE  Tagged'
<1> DEFINE n == Len(frames)
<1>1. /\ frames \in Seq(Frame) /\ Len(buf) \in Nat /\ TagsStand(frames, buf)
      /\ ValuesDelimited(frames, sections) /\ Top = frames[n] /\ n \in Nat \ {0}
  BY UnderWay, TagsUnderWay DEF Running, FrameSeq, Top
<1>2. Len(frames') = n /\ \A i \in 1 .. n : frames'[i] = IF i = n THEN f ELSE frames[i]
  BY <1>1, TopExcept
<1>3. TagsStand(frames', buf')
  <2>1. \A i \in 1 .. n - 1 : IsOpen(frames, i) => TagStands(frames[i], buf')
    <3>1. n - 1 \in 0 .. Len(frames)
      BY <1>1
    <3> QED
      BY <1>1, <3>1, TagsStandStill
  <2> SUFFICES ASSUME NEW i \in 1 .. n, IsOpen(frames', i)
               PROVE  TagStands(frames'[i], buf')
    BY <1>2 DEF TagsStand
  <2>2. CASE i = n
    BY <1>2, <2>2 DEF IsOpen
  <2>3. CASE i # n
    <3>1. i \in 1 .. n - 1 /\ frames'[i] = frames[i]
      BY <1>1, <1>2, <2>3
    <3> QED
      BY <2>1, <3>1 DEF IsOpen
  <2> QED
    BY <2>2, <2>3
<1>4. ValuesDelimited(frames', sections')
  BY <1>1, ValuesTop
<1>5. TagsKept'
  BY <1>3, <1>4 DEF TagsKept
<1>6. buf' \in Seq(FitCell) /\ base' \in Nat /\ frames' \in Seq(Frame)
  BY DEF IInv, TypeOK
<1>7. TagsAnnounceLengthFields'
  BY <1>6, TagsAnnounceAfter
<1> QED
  BY <1>5, <1>7 DEF Tagged

(* The tags that are open when only the innermost serializer's changes.    *)
LEMMA OpenTagsOfTop ==
    ASSUME NEW fs \in Seq(Frame), fs # <<>>, NEW f \in Frame, f.lfs = fs[Len(fs)].lfs
    PROVE  /\ f.tagPos \in OpenTags(WithTop(fs, f))
           /\ OpenTags(fs) \subseteq OpenTags(WithTop(fs, f)) \cup {fs[Len(fs)].tagPos}
<1> DEFINE gs == WithTop(fs, f)
           n == Len(fs)
<1>1. n \in Nat \ {0} /\ Len(gs) = n /\ \A i \in 1 .. n : gs[i] = IF i = n THEN f ELSE fs[i]
  BY TopExcept
<1> HIDE DEF gs
<1>2. f.tagPos \in OpenTags(gs)
  <2>1. n \in 1 .. Len(gs) /\ gs[n] = f
    BY <1>1
  <2> QED
    BY <2>1 DEF OpenTags
<1>3. ASSUME NEW i \in 1 .. n
      PROVE  fs[i].tagPos \in OpenTags(gs) \cup {fs[n].tagPos}
  <2>1. CASE i = n
    BY <2>1
  <2>2. CASE i # n
    <3>1. i \in 1 .. Len(gs) /\ gs[i] = fs[i]
      BY <1>1, <2>2
    <3> QED
      BY <3>1 DEF OpenTags
  <2> QED
    BY <2>1, <2>2
<1> QED
  BY <1>2, <1>3 DEF OpenTags, gs

(* NoTag is not the position of a tag.                                     *)
LEMMA ClosedWithoutNoTag ==
    ASSUME NEW b \in Seq(FitCell), NEW from \in Nat, NEW open, NEW fewer, NEW legacy,
           Closed(b, from, open, legacy), open \subseteq fewer \cup {NoTag}
    PROVE  Closed(b, from, fewer, legacy)
BY DEF Closed, NoTag

(* An element keeps it.                                                    *)
LEMMA ElementTagged ==
    ASSUME IInv, Placed, Tagged, SerializeElement
    PROVE  Tagged'
<1> DEFINE f == [Top EXCEPT !.count = @ + 1]
<1>1. /\ pc = "return" /\ frames # <<>> /\ TopType.kind = "seq"
      /\ frames' = [frames EXCEPT ![Len(frames)].count = @ + 1]
      /\ inTlv' = FALSE /\ pc' = "value" /\ IInv'
      /\ UNCHANGED <<opts, buf, sections, base>>
  BY ElementStep DEF SerializeElement
<1>2. /\ Top \in Frame /\ Top = frames[Len(frames)] /\ Len(frames) \in DOMAIN frames
      /\ Top.count \in Nat /\ Top.tagPos = NoTag /\ frames \in Seq(Frame)
  BY <1>1, TopIsFrame, SeqHasNoTag DEF Running, IInv, TypeOK
<1>3. f \in Frame /\ f.lfs = Top.lfs /\ f.tagPos = NoTag
  BY <1>2 DEF Frame
<1>4. frames' = WithTop(frames, f)
  BY <1>1, <1>2 DEF WithTop
<1> HIDE DEF f
<1>5. /\ Complete(frames, Len(frames) - 1, Len(buf)) /\ Len(buf) \in Nat
      /\ buf \in Seq(FitCell) /\ base \in Nat /\ Paired(buf, base)
      /\ Closed(buf, base, OpenTags(frames), opts.legacyWireType)
  BY <1>1, UnderWay, TagsUnderWay DEF Running
<1>6. OpenTags(frames) \subseteq OpenTags(frames') \cup {NoTag}
  BY <1>1, <1>2, <1>3, <1>4, OpenTagsOfTop
<1>7. Closed(buf', base, OpenTags(frames'), opts.legacyWireType)
  BY <1>1, <1>5, <1>6, ClosedWithoutNoTag
<1>8. Len(buf) <= Len(buf) /\ ValueOfField' /\ ValueReturned'
  BY <1>1, <1>5 DEF ValueOfField, ValueReturned
<1>9. Paired(buf', base) /\ \A i \in 1 .. Len(buf) : buf'[i] = buf[i]
  BY <1>1, <1>5
<1> QED
  BY <1>1, <1>3, <1>4, <1>5, <1>7, <1>8, <1>9, TopTagged

(* The tag of the next field.                                              *)
LEMMA FieldTagged ==
    ASSUME IInv, Placed, Tagged, SerializeField
    PROVE  Tagged'
<1> DEFINE tag == Tag(WireTypeOf(Types[NextField.type]), NextField.id)
           cells == TagBytes(tag)
           legacy == opts.legacyWireType
<1>1. /\ pc = "return" /\ frames # <<>> /\ IInv' /\ Running /\ pc' = "value"
      /\ buf' = IF TopType.tlv THEN buf \o cells ELSE buf
      /\ inTlv' = TopType.tlv /\ nextType' = NextField.type
      /\ UNCHANGED <<opts, sections, base>> /\ Top.tagPos = NoTag
  BY FieldStep DEF SerializeField, AtField, Running
<1>2. PICK f \in Frame :
        /\ frames' = WithTop(frames, f) /\ f.lfs = Top.lfs /\ f.type = Top.type
        /\ f.tagPos = IF TopType.tlv THEN Len(buf) ELSE NoTag
        /\ NextField = TopType.fields[f.count]
        /\ TopType.tlv => NextField.id \in Nat
  BY FieldChange
<1>3. frames' # <<>> /\ Top' = f /\ Top = frames[Len(frames)] /\ frames \in Seq(Frame)
  BY <1>1, <1>2, TopOfWithTop DEF Top, IInv, TypeOK
<1>4. /\ Complete(frames, Len(frames) - 1, Len(buf)) /\ Len(buf) \in Nat
      /\ buf \in Seq(FitCell) /\ base \in Nat /\ Paired(buf, base)
      /\ Closed(buf, base, OpenTags(frames), legacy) /\ Len(buf) <= Len(buf)
  BY <1>1, UnderWay, TagsUnderWay
<1>5. /\ f.tagPos \in OpenTags(frames')
      /\ OpenTags(frames) \subseteq OpenTags(frames') \cup {NoTag}
  BY <1>1, <1>2, <1>3, OpenTagsOfTop
<1>6. Closed(buf, base, OpenTags(frames'), legacy)
  BY <1>4, <1>5, ClosedWithoutNoTag
<1>7. FieldOfFrame(f) = NextField /\ TopType' = TopType
  BY <1>2, <1>3 DEF FieldOfFrame, TopType
<1>8. ValueOfField' /\ ValueReturned'
  <2>1. FieldOfFrame(Top)' = NextField
    BY <1>3, <1>7 DEF FieldOfFrame
  <2> QED
    BY <1>1, <1>7, <2>1 DEF ValueOfField, ValueReturned
<1>9. CASE TopType.tlv
  <2>1. cells \in Seq(FitCell) /\ Len(cells) = 2
    <3>1. WireTypeOf(Types[NextField.type]) \in Nat
      BY DEF WireTypeOf, WireOfFixed, FromConfig
    <3> QED
      BY <1>2, <1>9, <3>1, TagsAreCells
  <2>2. IsTag(cells[1], 1) /\ cells[1].val = tag /\ IsTag(cells[2], 2)
    <3> HIDE DEF tag
    <3> QED
      BY TagIsPaired
  <2> HIDE DEF cells, tag
  <2>3. /\ buf' \in Seq(FitCell) /\ Len(buf') = Len(buf) + 2
        /\ \A i \in 1 .. Len(buf) : buf'[i] = buf[i]
        /\ \A i \in Len(buf) + 1 .. Len(buf') : buf'[i] = cells[i - Len(buf)]
    <3>1. buf' = buf \o cells
      BY <1>1, <1>9
    <3>2. /\ buf \o cells \in Seq(FitCell) /\ Len(buf \o cells) = Len(buf) + Len(cells)
          /\ \A i \in 1 .. Len(buf) : (buf \o cells)[i] = buf[i]
          /\ \A i \in Len(buf) + 1 .. Len(buf \o cells) :
               (buf \o cells)[i] = cells[i - Len(buf)]
      BY <1>4, <2>1, Concatenated, Zenon
    <3> QED
      BY <2>1, <3>1, <3>2
  <2>4. /\ IsTag(buf'[Len(buf) + 1], 1) /\ IsTag(buf'[Len(buf) + 2], 2)
        /\ buf'[Len(buf) + 1] = cells[1] /\ buf'[Len(buf) + 2] = cells[2]
    <3>1. /\ Len(buf) + 1 \in Len(buf) + 1 .. Len(buf') /\ Len(buf) + 1 - Len(buf) = 1
          /\ Len(buf) + 2 \in Len(buf) + 1 .. Len(buf') /\ Len(buf) + 2 - Len(buf) = 2
      BY <1>4, <2>3
    <3>2. buf'[Len(buf) + 1] = cells[1] /\ buf'[Len(buf) + 2] = cells[2]
      BY <2>3, <3>1
    <3> QED
      BY <2>2, <3>2
  <2>5. f.tagPos = Len(buf)
    BY <1>2, <1>9
  <2>6. TagStands(f, buf')
    BY <1>7, <2>4, <2>5 DEF TagStands, cells, tag
  <2>7. Paired(buf', base) /\ Closed(buf', base, OpenTags(frames'), legacy)
    <3> DEFINE more == OpenTags(frames')
    <3>1. Len(buf) \in more /\ more \subseteq more
      BY <1>5, <2>5
    <3>2. Closed(buf, base, more, legacy)
      BY <1>6
    <3> HIDE DEF more, legacy
    <3>3. Paired(buf', base) /\ Closed(buf', base, more, legacy)
      BY <1>4, <2>3, <2>4, <3>1, <3>2, ClosedWhenTagged
    <3> QED
      BY <3>3 DEF more
  <2> QED
    BY <1>1, <1>2, <1>4, <1>8, <2>3, <2>6, <2>7, TopTagged
<1>10. CASE ~TopType.tlv
  <2>1. f.tagPos = NoTag /\ buf' = buf
    BY <1>1, <1>2, <1>10
  <2>2. Paired(buf', base) /\ Closed(buf', base, OpenTags(frames'), legacy)
    BY <1>4, <1>6, <2>1
  <2> QED
    BY <1>1, <1>2, <1>4, <1>8, <2>1, <2>2, TopTagged
<1> QED
  BY <1>9, <1>10

----------------------------------------------------------------------------
(***************************************************************************)
(* A TLV field is complete.                                                *)
(***************************************************************************)

(* A tag of a fixed wire type announces fixed bytes.                       *)
LEMMA FixedBehind ==
    ASSUME NEW b, NEW p \in Nat, NEW n \in {1, 2, 4, 8}, NEW id \in 0 .. MaxFieldId,
           NEW legacy, b[p + 1].val = Tag(WireOfFixed(n), id), DataStands(b, p + 2, n)
    PROVE  Behind(b, p, legacy)
<1>1. WireOfFixed(n) \in 0 .. 3 /\ FixedSize[WireOfFixed(n) + 1] = n
  BY DEF WireOfFixed, FixedSize
<1> DEFINE wire == WireOfFixed(n)
<1> HIDE DEF wire
<1>2. wire \in 0 .. 7 /\ wire < FromConfig /\ FixedSize[wire + 1] = n
  BY <1>1 DEF wire, FromConfig
<1>3. WireAt(b, p) = wire
  BY <1>2, WireOfTag DEF WireAt, wire
<1>4. Span(b, p) = n
  BY <1>2, <1>3 DEF Span
<1> QED
  BY <1>2, <1>3, <1>4 DEF Behind, DataStands

(* A tag of another wire type announces a length field, of its size if the *)
(* wire type tells.                                                        *)
LEMMA LengthBehind ==
    ASSUME NEW b, NEW p \in Nat, NEW id \in 0 .. MaxFieldId, NEW last \in LastField,
           NEW legacy, LengthStands(b, p + 2, last), Len(b) \in Nat,
           \/ legacy /\ b[p + 1].val = Tag(FromConfig, id)
           \/ b[p + 1].val = Tag(WireOfLengthField(last.size), id)
    PROVE  Behind(b, p, legacy)
<1>1. /\ p + 2 + 1 <= Len(b) /\ p + 2 + 1 = p + 3
      /\ b[p + 3].kind = "len" /\ b[p + 3].part = 1 /\ b[p + 3].of = last.size
  BY DEF LengthStands
<1>2. CASE legacy /\ b[p + 1].val = Tag(FromConfig, id)
  <2>1. WireAt(b, p) = FromConfig
    BY <1>2, WireOfTag DEF WireAt, FromConfig
  <2>2. Span(b, p) = 1
    BY <2>1 DEF Span, FromConfig
  <2> QED
    BY <1>1, <1>2, <2>1, <2>2 DEF Behind, FromConfig
<1>3. CASE b[p + 1].val = Tag(WireOfLengthField(last.size), id)
  <2> DEFINE wire == WireOfLengthField(last.size)
  <2>1. wire \in 5 .. 7
    BY DEF WireOfLengthField
  <2>2. WireAt(b, p) = wire
    <3>1. wire \in 0 .. 7
      BY <2>1
    <3> QED
      BY <1>3, <3>1, WireOfTag DEF WireAt
  <2>3. b[p + 3].of = last.size => WireOfLengthField(b[p + 3].of) = wire
    OBVIOUS
  <2> HIDE DEF wire
  <2>4. ~(WireAt(b, p) < FromConfig) /\ WireAt(b, p) # FromConfig
    BY <2>1, <2>2 DEF FromConfig
  <2>5. Span(b, p) = 1
    BY <2>4 DEF Span
  <2> QED
    BY <1>1, <2>2, <2>3, <2>4, <2>5 DEF Behind
<1> QED
  BY <1>2, <1>3

(* A tag that announces what is behind it may be closed.                   *)
LEMMA ClosedWhenClosed ==
    ASSUME NEW b, NEW from, NEW open, NEW fewer, NEW legacy, NEW t,
           Closed(b, from, open, legacy), open \subseteq fewer \cup {t},
           t \in from .. Len(b) - 1 => Behind(b, t, legacy)
    PROVE  Closed(b, from, fewer, legacy)
BY DEF Closed

(* The tags of the outer fields lie in front of that of the innermost.     *)
LEMMA OuterTagsInFront ==
    ASSUME NEW fs \in Seq(Frame), fs # <<>>, Ordered(fs), IsOpen(fs, Len(fs))
    PROVE  Complete(fs, Len(fs) - 1, fs[Len(fs)].tagPos)
<1> SUFFICES ASSUME NEW i \in 1 .. Len(fs) - 1, IsOpen(fs, i)
             PROVE  fs[i].tagPos + 2 <= fs[Len(fs)].tagPos
  BY DEF Complete
<1>1. i \in 1 .. Len(fs) /\ Len(fs) \in 1 .. Len(fs) /\ i < Len(fs)
  OBVIOUS
<1> QED
  BY <1>1 DEF Ordered

(* The field that is complete.                                             *)
LEMMA FieldOfTag ==
    ASSUME IdsFit, IInv, Running, frames # <<>>, Top.tagPos # NoTag
    PROVE  /\ CurrentField = FieldOfFrame(Top)
           /\ CurrentField.id \in 0 .. MaxFieldId /\ CurrentField.type \in TypeId
           /\ base <= Top.tagPos /\ Top.tagPos \in Nat
<1>1. /\ Top = frames[Len(frames)] /\ Len(frames) \in DOMAIN frames /\ Top.type \in TypeId
      /\ Top.tagPos \in Nat
  BY TopIsFrame
<1>2. TagOfField(Top)
  BY <1>1 DEF IInv, TagsOfFields
<1>3. /\ IsStruct(TopType) /\ Top.count \in DOMAIN TopType.fields
      /\ CurrentField.id # NoId /\ base <= Top.tagPos
  BY <1>2 DEF TagOfField, TopType, CurrentField
<1>4. CurrentField.id \in Nat \cup {NoId} /\ CurrentField.type \in TypeId
  BY <1>1, <1>3, FieldShape DEF TopType, CurrentField
<1>5. CurrentField.id <= MaxFieldId
  BY <1>1, <1>3 DEF IdsFit, IsStruct, TopType, CurrentField
<1>6. CurrentField = FieldOfFrame(Top)
  BY DEF CurrentField, FieldOfFrame, TopType
<1>7. CurrentField.id \in 0 .. MaxFieldId
  <2> DEFINE id == CurrentField.id
  <2>1. id \in Nat /\ id <= MaxFieldId
    BY <1>3, <1>4, <1>5
  <2> HIDE DEF id
  <2>2. id \in 0 .. MaxFieldId
    BY <2>1 DEF MaxFieldId
  <2> QED
    BY <2>2 DEF id
<1> QED
  BY <1>1, <1>3, <1>4, <1>6, <1>7

(* Two cells are overwritten.                                              *)
LEMMA TagRewritten ==
    ASSUME NEW b \in Seq(FitCell), NEW t \in Nat, t + 2 <= Len(b), NEW cells, Len(cells) = 2
    PROVE  LET c == WriteAt(b, t, cells)
           IN  /\ Len(c) = Len(b)
               /\ \A i \in 1 .. Len(b) : i < t + 1 \/ i > t + 2 => c[i] = b[i]
               /\ c[t + 1] = cells[1] /\ c[t + 2] = cells[2]
<1> DEFINE c == WriteAt(b, t, cells)
<1>1. /\ Len(c) = Len(b) /\ Len(b) \in Nat
      /\ \A i \in 1 .. Len(b) : c[i] = IF i \in t + 1 .. t + 2 THEN cells[i - t] ELSE b[i]
  BY DEF WriteAt
<1> HIDE DEF c
<1>2. c[t + 1] = cells[1]
  <2>1. t + 1 \in 1 .. Len(b) /\ t + 1 \in t + 1 .. t + 2
    BY <1>1
  <2>2. c[t + 1] = cells[t + 1 - t]
    BY <1>1, <2>1
  <2>3. t + 1 - t = 1
    OBVIOUS
  <2> QED
    BY <2>2, <2>3
<1>3. c[t + 2] = cells[2]
  <2>1. t + 2 \in 1 .. Len(b) /\ t + 2 \in t + 1 .. t + 2
    BY <1>1
  <2>2. c[t + 2] = cells[t + 2 - t]
    BY <1>1, <2>1
  <2>3. t + 2 - t = 2
    OBVIOUS
  <2> QED
    BY <2>2, <2>3
<1>4. \A i \in 1 .. Len(b) : i < t + 1 \/ i > t + 2 => c[i] = b[i]
  BY <1>1
<1> QED
  BY <1>1, <1>2, <1>3, <1>4 DEF c

(* What last_length_field tells of is what the tag announces: it either    *)
(* did so from the start, or is rewritten.                                 *)
LEMMA PatchTagTagged ==
    ASSUME IdsFit, IInv, Placed, Tagged, PatchTag
    PROVE  Tagged'
<1> DEFINE field == CurrentField
           ty == Types[field.type]
           t == Top.tagPos
           cells == TagBytes(Tag(WireOfLengthField(lastField.size), field.id))
           f == [Top EXCEPT !.tagPos = NoTag]
           legacy == opts.legacyWireType
           rewrite == /\ WireTypeOf(ty) = FromConfig
                      /\ lastField # NoField
                      /\ ~lastField.asConfigured \/ ~opts.legacyWireType
           fewer == OpenTags(frames')
<1>1. /\ pc = "return" /\ frames # <<>> /\ t # NoTag /\ IInv' /\ Running
      /\ UNCHANGED <<opts, sections, base>>
      /\ \/ /\ ~rewrite /\ buf' = buf /\ pc' = pc
            /\ frames' = [frames EXCEPT ![Len(frames)].tagPos = NoTag]
         \/ /\ rewrite /\ t < Len(buf) /\ buf' = WriteAt(buf, t, cells) /\ pc' = pc
            /\ frames' = [frames EXCEPT ![Len(frames)].tagPos = NoTag]
         \/ rewrite /\ pc' = "AssertPreviousPos"
  BY PatchTagStep DEF PatchTag, Running
<1>2. /\ Top \in Frame /\ Top = frames[Len(frames)] /\ Len(frames) \in 1 .. Len(frames)
      /\ frames \in Seq(Frame)
  BY <1>1, TopIsFrame DEF IInv, TypeOK
<1>3. /\ field = FieldOfFrame(Top) /\ field.id \in 0 .. MaxFieldId /\ field.type \in TypeId
      /\ base <= t /\ t \in Nat
  BY <1>1, FieldOfTag
<1>4. /\ buf \in Seq(FitCell) /\ base \in Nat /\ Len(buf) \in Nat /\ Ordered(frames)
      /\ Paired(buf, base) /\ TagsStand(frames, buf) /\ ValueStands(Top, buf, lastField)
      /\ Closed(buf, base, OpenTags(frames), legacy)
  BY <1>1, UnderWay, TagsUnderWay DEF ValueReturned
<1>5. lastField \in LastField
  BY DEF IInv, TypeOK
<1>6. CASE pc' = "AssertPreviousPos"
  BY <1>6, TaggedWhenEnded DEF Panics
<1>7. CASE /\ pc' = pc
           /\ frames' = [frames EXCEPT ![Len(frames)].tagPos = NoTag]
           /\ \/ ~rewrite /\ buf' = buf
              \/ rewrite /\ t < Len(buf) /\ buf' = WriteAt(buf, t, cells)
  <2>1. f \in Frame /\ f.lfs = Top.lfs /\ f.tagPos = NoTag
    BY <1>2 DEF Frame
  <2>2. frames' = WithTop(frames, f)
    BY <1>2, <1>7 DEF WithTop
  <2> HIDE DEF f
  <2>3. Top' = f
    BY <1>1, <2>1, <2>2, TopOfWithTop
  <2>4. ValueOfField' /\ ValueReturned'
    BY <1>1, <1>7, <2>1, <2>3 DEF ValueOfField, ValueReturned
  <2>5. OpenTags(frames) \subseteq fewer \cup {t}
    BY <1>1, <1>2, <2>1, <2>2, OpenTagsOfTop
  <2>6. t <= Len(buf) /\ Paired(buf', base) /\ Closed(buf', base, fewer, legacy)
        /\ \A i \in 1 .. t : buf'[i] = buf[i]
    <3>1. CASE t = Len(buf)
      <4>1. ~(t < Len(buf)) /\ t <= Len(buf) /\ t \notin base .. Len(buf) - 1
        BY <1>3, <1>4, <3>1
      <4>2. Closed(buf, base, fewer, legacy)
        <5> HIDE DEF fewer, legacy, t
        <5> QED
          BY <1>4, <2>5, <4>1, ClosedWhenClosed
      <4>3. buf' = buf
        BY <1>7, <4>1
      <4> QED
        BY <1>4, <4>1, <4>2, <4>3
    <3>2. CASE t # Len(buf)
      <4>1. IF IsFixed(ty) THEN DataStands(buf, t + 2, ty.size)
            ELSE LengthStands(buf, t + 2, lastField)
        BY <1>3, <1>4, <3>2 DEF ValueStands
      <4>2. IsFixed(ty) => ty.size \in {1, 2, 4, 8}
        BY <1>3, TypeShapes DEF SomeIpFixed
      <4>3. t + 2 <= Len(buf)
        <5>1. CASE IsFixed(ty)
          <6>1. t + 2 + ty.size <= Len(buf)
            BY <4>1, <5>1 DEF DataStands
          <6> QED
            BY <1>3, <1>4, <4>2, <5>1, <6>1
        <5>2. CASE ~IsFixed(ty)
          <6>1. t + 2 + 1 <= Len(buf)
            BY <4>1, <5>2 DEF LengthStands
          <6> QED
            BY <1>3, <1>4, <6>1
        <5> QED
          BY <5>1, <5>2
      <4>4. /\ IsTag(buf[t + 1], 1) /\ IsTag(buf[t + 2], 2)
            /\ buf[t + 1].val = Tag(WireTypeOf(ty), field.id)
        <5>1. TagStands(Top, buf)
          BY <1>1, <1>2, <1>4, <4>3 DEF TagsStand, IsOpen
        <5> QED
          BY <1>3, <5>1, TagStandsMeaning
      <4>5. t <= Len(buf)
        BY <1>3, <1>4, <4>3
      <4>6. CASE ~rewrite /\ buf' = buf
        <5>1. Behind(buf, t, legacy)
          <6>1. CASE IsFixed(ty)
            <7>1. WireTypeOf(ty) = WireOfFixed(ty.size)
              BY <6>1 DEF WireTypeOf
            <7> QED
              BY <1>3, <4>1, <4>2, <4>4, <6>1, <7>1, FixedBehind
          <6>2. CASE ~IsFixed(ty)
            <7>1. WireTypeOf(ty) = FromConfig
              BY <6>2 DEF WireTypeOf
            <7>2. LengthStands(buf, t + 2, lastField) /\ lastField.size # None
              BY <4>1, <6>2 DEF LengthStands
            <7>3. lastField # NoField
              BY <7>2 DEF NoField
            <7>4. legacy
              BY <4>6, <7>1, <7>3
            <7> HIDE DEF legacy
            <7> QED
              BY <1>3, <1>4, <1>5, <4>4, <7>1, <7>2, <7>4, LengthBehind
          <6> QED
            BY <6>1, <6>2
        <5>2. Closed(buf, base, fewer, legacy)
          <6> HIDE DEF fewer, legacy, t
          <6> QED
            BY <1>4, <2>5, <5>1, ClosedWhenClosed
        <5> QED
          BY <1>4, <4>5, <4>6, <5>2
      <4>7. CASE rewrite /\ buf' = WriteAt(buf, t, cells)
        <5>1. ~IsFixed(ty) /\ LengthStands(buf, t + 2, lastField)
          <6>1. WireTypeOf(ty) = FromConfig
            BY <4>7
          <6>2. ~IsFixed(ty)
            BY <6>1 DEF WireTypeOf, WireOfFixed, FromConfig
          <6> QED
            BY <4>1, <6>2
        <5> DEFINE tag == Tag(WireOfLengthField(lastField.size), field.id)
        <5>2. /\ IsTag(cells[1], 1) /\ cells[1].val = tag /\ IsTag(cells[2], 2)
              /\ Len(cells) = 2
          <6> HIDE DEF tag
          <6>1. /\ IsTag(TagBytes(tag)[1], 1) /\ TagBytes(tag)[1].val = tag
                /\ IsTag(TagBytes(tag)[2], 2)
            BY TagIsPaired
          <6>2. Len(TagBytes(tag)) = 2
            BY DEF TagBytes, Bytes
          <6> QED
            BY <6>1, <6>2 DEF tag
        <5> HIDE DEF cells, tag
        <5>3. /\ Len(buf') = Len(buf)
              /\ buf'[t + 1] = cells[1] /\ buf'[t + 2] = cells[2]
              /\ \A i \in 1 .. Len(buf) : i < t + 1 \/ i > t + 2 => buf'[i] = buf[i]
          <6> HIDE DEF t
          <6> QED
            BY <1>3, <1>4, <4>3, <4>7, <5>2, TagRewritten
        <5>4. /\ IsTag(buf'[t + 1], 1) /\ buf'[t + 1].val = tag /\ IsTag(buf'[t + 2], 2)
          BY <5>2, <5>3
        <5>5. \A i \in 1 .. Len(buf) : i < t + 1 \/ i > t + 2 => buf'[i] = buf[i]
          BY <5>3
        <5>6. LengthStands(buf', t + 2, lastField)
          <6>1. t + 2 + 1 <= Len(buf)
            BY <5>1 DEF LengthStands
          <6>2. t + 2 + 1 \in 1 .. Len(buf) /\ t + 2 + 1 > t + 2
            BY <1>3, <1>4, <6>1
          <6>3. buf'[t + 2 + 1] = buf[t + 2 + 1]
            BY <5>5, <6>2
          <6> QED
            BY <5>1, <5>3, <6>1, <6>3 DEF LengthStands
        <5>7. Behind(buf', t, legacy)
          <6>1. buf'[t + 1].val = Tag(WireOfLengthField(lastField.size), field.id)
            BY <5>4 DEF tag
          <6>2. Len(buf') \in Nat
            BY <1>4, <5>3
          <6> HIDE DEF legacy, t, field
          <6> QED
            BY <1>3, <1>5, <5>6, <6>1, <6>2, LengthBehind
        <5>8. buf' \in Seq(FitCell)
          BY <1>1 DEF IInv
        <5>9. Paired(buf', base) /\ Closed(buf', base, fewer, legacy)
          <6> HIDE DEF fewer, legacy, t
          <6> QED
            BY <1>3, <1>4, <2>5, <4>3, <4>4, <5>3, <5>4, <5>5, <5>7, <5>8, ClosedWhenRewritten
        <5>10. \A i \in 1 .. t : buf'[i] = buf[i]
          <6> SUFFICES ASSUME NEW i \in 1 .. t
                       PROVE  buf'[i] = buf[i]
            OBVIOUS
          <6>1. i \in 1 .. Len(buf) /\ i < t + 1
            BY <1>3, <1>4, <4>5
          <6> QED
            BY <5>5, <6>1
        <5> QED
          BY <4>5, <5>9, <5>10
      <4> QED
        BY <1>7, <4>6, <4>7
    <3> QED
      BY <3>1, <3>2
  <2>7. Complete(frames, Len(frames) - 1, t)
    BY <1>1, <1>2, <1>4, OuterTagsInFront DEF IsOpen
  <2> HIDE DEF t
  <2> QED
    BY <1>1, <1>3, <2>1, <2>2, <2>4, <2>6, <2>7, TopTagged
<1>8. \/ pc' = "AssertPreviousPos"
      \/ /\ pc' = pc
         /\ frames' = [frames EXCEPT ![Len(frames)].tagPos = NoTag]
         /\ \/ ~rewrite /\ buf' = buf
            \/ rewrite /\ t < Len(buf) /\ buf' = WriteAt(buf, t, cells)
  <2> HIDE DEF rewrite, cells
  <2> QED
    BY <1>1
<1> QED
  BY <1>6, <1>7, <1>8

----------------------------------------------------------------------------
(***************************************************************************)
(* Tags: the theorem.                                                      *)
(***************************************************************************)

(* A call starts without tags.                                             *)
LEMMA CallTagged ==
    ASSUME IInv, NEW root \in Roots, Call(root)
    PROVE  Tagged'
<1>1. /\ pc' \in {"value", "TypePanic"} /\ inTlv' = FALSE
      /\ sections' = <<>> /\ frames' = <<>> /\ base' = Len(buf) /\ buf' = buf
      /\ IInv' /\ Len(buf) \in Nat
  BY CallStep DEF Call, IInv, TypeOK
<1>2. Paired(buf', base') /\ Closed(buf', base', OpenTags(frames'), opts'.legacyWireType)
  BY <1>1 DEF Paired, Closed
<1>3. TagsKept'
  BY <1>1, <1>2 DEF TagsKept, TagsStand, ValuesDelimited, ValueOfField, ValueReturned
<1>4. buf' \in Seq(FitCell) /\ base' \in Nat /\ frames' \in Seq(Frame)
  BY <1>1 DEF IInv, TypeOK
<1>5. TagsAnnounceLengthFields'
  BY <1>2, <1>4, TagsAnnounceAfter
<1> QED
  BY <1>3, <1>5 DEF Tagged

(* A call ends with what it has.                                           *)
LEMMA FinishTagged ==
    ASSUME IInv, Tagged, Finish
    PROVE  Tagged'
<1>1. /\ pc = "return" /\ pc' = "ok" /\ Running /\ UNCHANGED <<opts, buf, frames, base>>
  BY DEF Finish, Running
<1>2. buf \in Seq(FitCell) /\ base \in Nat /\ frames \in Seq(Frame)
  BY DEF IInv, TypeOK
<1>3. Closed(buf, base, OpenTags(frames), opts.legacyWireType)
  BY <1>1, TagsUnderWay
<1>4. TagsAnnounceLengthFields'
  BY <1>1, <1>2, <1>3, TagsAnnounceAfter
<1> QED
  BY <1>1, <1>4 DEF Tagged, TagsKept, Running

(* Standing still keeps it.                                                *)
LEMMA StutterTagged ==
    ASSUME Tagged, UNCHANGED vars
    PROVE  Tagged'
<1>1. /\ opts' = opts /\ buf' = buf /\ nextType' = nextType /\ inTlv' = inTlv
      /\ lastField' = lastField /\ sections' = sections /\ frames' = frames
      /\ pc' = pc /\ base' = base /\ Top' = Top
  BY DEF vars, Top
<1>2. ValueOfField' <=> ValueOfField
  BY <1>1 DEF ValueOfField, TopType, FieldOfFrame
<1>3. ValueReturned' <=> ValueReturned
  BY <1>1 DEF ValueReturned
<1>4. TagsKept'
  BY <1>1, <1>2, <1>3 DEF Tagged, TagsKept, Running
<1>5. \A p : Announced(p)' <=> Announced(p)
  BY <1>1 DEF Announced
<1>6. TagsAnnounceLengthFields'
  BY <1>1, <1>5 DEF Tagged, TagsAnnounceLengthFields, Current, Running
<1> QED
  BY <1>4, <1>6 DEF Tagged

(* Every step keeps it.                                                    *)
LEMMA NextKeepsTagged ==
    ASSUME NoWrapperInTlv, IdsFit, IInv, Placed, Tagged, [Next]_vars
    PROVE  Tagged'
<1>1. ASSUME NEW root \in Roots, Call(root)
      PROVE  Tagged'
  BY <1>1, CallTagged
<1>2. ASSUME NEW units \in 0 .. MaxUnits, SerializeStr(units)
      PROVE  Tagged'
  BY <1>2, StrTagged, BoundsAssumption
<1>3. ASSUME NEW n \in 0 .. MaxUnits, SerializeBytes(n)
      PROVE  Tagged'
  BY <1>3, BytesTagged, BoundsAssumption
<1>4. ASSUME NEW hint \in 0 .. MaxElements \cup {NoHint}, SerializeSeq(hint)
      PROVE  Tagged'
  BY <1>4, SeqTagged
<1>5. CASE Stopped \/ UNCHANGED vars
  BY <1>5, StutterTagged DEF Stopped
<1>6. CASE SerializeFixed \/ SerializeNone
  BY <1>6, FixedTagged, NoneTagged
<1>7. CASE SerializeNonAscii \/ FieldWithoutId
  BY <1>7, TaggedWhenEnded DEF SerializeNonAscii, FieldWithoutId, Fail, Errors, Panics
<1>8. CASE SerializeElement \/ EndSeq \/ SerializeStruct
  BY <1>8, ElementTagged, EndSeqTagged, StructTagged
<1>9. CASE SerializeField \/ PatchTag
  BY <1>9, FieldTagged, PatchTagTagged
<1>10. CASE EndStruct \/ Finish
  BY <1>10, EndStructTagged, FinishTagged
<1> QED
  BY <1>1, <1>2, <1>3, <1>4, <1>5, <1>6, <1>7, <1>8, <1>9, <1>10 DEF Next

(* Throughout, tags and what they announce stay together, and the value of *)
(* an unfinished field follows its tag.                                    *)
THEOREM AlwaysTagged ==
    ASSUME NoWrapperInTlv, IdsFit
    PROVE  Spec => []Tagged
<1>1. Init => Tagged
  BY DEF Init, Tagged, TagsKept, TagsAnnounceLengthFields, Current, Running
<1>2. IInv /\ Placed /\ Tagged /\ [Next]_vars => Tagged'
  BY NextKeepsTagged
<1> QED
  BY <1>1, <1>2, Invariant, AlwaysPlaced, PTL DEF Spec

(* Once a TLV field is complete its tag announces the length field or the  *)
(* bytes that follow it, for any types whose ids fit into a tag and whose  *)
(* TLV structs have no wrapper struct as a field.                          *)
THEOREM TagsAlwaysAnnounce ==
    ASSUME NoWrapperInTlv, IdsFit
    PROVE  Spec => []TagsAnnounceLengthFields
<1>1. Tagged => TagsAnnounceLengthFields
  BY DEF Tagged
<1> QED
  BY <1>1, AlwaysTagged, PTL
=============================================================================
