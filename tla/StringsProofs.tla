---------------------------- MODULE StringsProofs ----------------------------
(***************************************************************************)
(* Theorems about the string codecs, for all texts, data, lengths, byte    *)
(* orders and cuts.  The encodings are prefix codes, so that a text that   *)
(* has been read from the data of a serializer is the one that was sent,   *)
(* or a beginning of it.                                                   *)
(***************************************************************************)
EXTENDS Strings, Induction, SequenceTheorems

----------------------------------------------------------------------------
(***************************************************************************)
(* FlattenSeq: seqs is laid end to end, f[n] being its first n members.    *)
(***************************************************************************)
Laid(seqs, f) ==
    /\ f \in [0 .. Len(seqs) -> Data]
    /\ f[0] = <<>>
    /\ \A n \in 0 .. Len(seqs) - 1 : f[n + 1] = f[n] \o seqs[n + 1]

(* Sequences can be laid end to end: one more each time.                   *)
LEMMA CanBeLaid ==
    ASSUME NEW seqs \in Seq(Data)
    PROVE  \E f : Laid(seqs, f)
<1> DEFINE Start(n) == SubSeq(seqs, 1, n)
           S == {n \in Nat : n <= Len(seqs) => \E f : Laid(Start(n), f)}
<1>1. 0 \in S
    <2>1. Start(0) = <<>> /\ Len(Start(0)) = 0
        OBVIOUS
    <2>2. Laid(Start(0), [n \in 0 .. 0 |-> <<>>])
        BY <2>1 DEF Laid, Data
    <2> QED
        BY <2>2
<1>2. ASSUME NEW n \in Nat, n \in S PROVE n + 1 \in S
    <2> SUFFICES ASSUME n + 1 <= Len(seqs) PROVE \E f : Laid(Start(n + 1), f)
        OBVIOUS
    <2>1. PICK f : Laid(Start(n), f)
        BY <1>2
    <2>2. /\ Len(Start(n)) = n /\ Len(Start(n + 1)) = n + 1
          /\ \A i \in 1 .. n : Start(n)[i] = seqs[i]
          /\ \A i \in 1 .. n + 1 : Start(n + 1)[i] = seqs[i]
        OBVIOUS
    <2> DEFINE g == [i \in 0 .. n + 1 |-> IF i = n + 1 THEN f[n] \o seqs[i] ELSE f[i]]
    <2>3. f \in [0 .. n -> Data] /\ f[0] = <<>> /\ \A i \in 0 .. n - 1 : f[i + 1] = f[i] \o seqs[i + 1]
        BY <2>1, <2>2 DEF Laid
    <2>4. seqs[n + 1] \in Data
        OBVIOUS
    <2>5. f[n] \o seqs[n + 1] \in Data
        BY <2>3, <2>4 DEF Data
    <2>6. g \in [0 .. n + 1 -> Data]
        BY <2>3, <2>5
    <2>7. \A i \in 0 .. n : g[i + 1] = g[i] \o Start(n + 1)[i + 1]
        <3> TAKE i \in 0 .. n
        <3>0. i # n + 1 /\ i \in 0 .. n + 1 /\ i + 1 \in 1 .. n + 1
            OBVIOUS
        <3>1. g[i] = f[i] /\ Start(n + 1)[i + 1] = seqs[i + 1]
            BY <3>0, <2>2
        <3>2. CASE i = n
            <4>1. g[i + 1] = f[n] \o seqs[i + 1]
                BY <3>2
            <4> QED BY <3>1, <3>2, <4>1
        <3>3. CASE i # n
            <4>1. i \in 0 .. n - 1 /\ i + 1 # n + 1 /\ i + 1 \in 0 .. n + 1
                BY <3>3
            <4>2. g[i + 1] = f[i + 1]
                BY <4>1
            <4> QED BY <3>1, <4>1, <4>2, <2>3
        <3> QED BY <3>2, <3>3
    <2>8. g[0] = <<>>
        BY <2>3
    <2>9. Laid(Start(n + 1), g)
        <3> HIDE DEF g
        <3>1. 0 .. Len(Start(n + 1)) = 0 .. n + 1 /\ 0 .. Len(Start(n + 1)) - 1 = 0 .. n
            BY <2>2
        <3> HIDE DEF Start
        <3> QED BY <2>6, <2>7, <2>8, <3>1 DEF Laid
    <2> QED
        BY <2>9
<1>3. Len(seqs) \in S
    <2> HIDE DEF S
    <2> QED BY <1>1, <1>2, NatInductive
<1>4. Start(Len(seqs)) = seqs
    BY SubSeqFull
<1>5. \E f : Laid(Start(Len(seqs)), f)
    BY <1>3
<1> QED
    BY <1>4, <1>5

(* Two sequences that begin alike are laid alike.                          *)
LEMMA LaidAlike ==
    ASSUME NEW s, NEW t, NEW f, NEW g, Laid(s, f), Laid(t, g), Len(s) \in Nat, Len(t) \in Nat,
           NEW m \in Nat, m <= Len(s), m <= Len(t), \A i \in 1 .. m : s[i] = t[i]
    PROVE  f[m] = g[m]
<1> DEFINE S == {n \in Nat : n <= m => f[n] = g[n]}
<1>1. 0 \in S
    BY DEF Laid
<1>2. ASSUME NEW n \in Nat, n \in S PROVE n + 1 \in S
    <2> SUFFICES ASSUME n + 1 <= m PROVE f[n + 1] = g[n + 1]
        OBVIOUS
    <2>1. n \in 0 .. Len(s) - 1 /\ n \in 0 .. Len(t) - 1 /\ n + 1 \in 1 .. m /\ n <= m
        OBVIOUS
    <2>2. f[n + 1] = f[n] \o s[n + 1] /\ g[n + 1] = g[n] \o t[n + 1]
        BY <2>1 DEF Laid
    <2>3. f[n] = g[n] /\ s[n + 1] = t[n + 1]
        BY <1>2, <2>1
    <2> QED
        BY <2>2, <2>3
<1>3. m \in S
    <2> HIDE DEF S
    <2> QED BY <1>1, <1>2, NatInductive
<1> QED
    BY <1>3

(* FlattenSeq lays its argument end to end.                                *)
LEMMA FlattenLays ==
    ASSUME NEW seqs \in Seq(Data), NEW f, Laid(seqs, f)
    PROVE  FlattenSeq(seqs) = f[Len(seqs)]
<1>1. CASE Len(seqs) = 0
    BY <1>1 DEF FlattenSeq, Laid
<1>2. CASE Len(seqs) # 0
    <2> DEFINE Solves(g) ==
            g = [i \in 1 .. Len(seqs) |-> IF i = 1 THEN seqs[i] ELSE g[i - 1] \o seqs[i]]
    <2>1. FlattenSeq(seqs) = (CHOOSE g : Solves(g))[Len(seqs)]
        BY <1>2 DEF FlattenSeq
    <2>2. \E g : Solves(g)
        <3> DEFINE h == [i \in 1 .. Len(seqs) |-> f[i]]
        <3>1. \A i \in 1 .. Len(seqs) : h[i] = IF i = 1 THEN seqs[i] ELSE h[i - 1] \o seqs[i]
            <4> TAKE i \in 1 .. Len(seqs)
            <4>1. i - 1 \in 0 .. Len(seqs) - 1 /\ i - 1 + 1 = i
                OBVIOUS
            <4>2. h[i] = f[i - 1] \o seqs[i]
                <5>1. f[i - 1 + 1] = f[i - 1] \o seqs[i - 1 + 1]
                    BY <4>1 DEF Laid
                <5> QED BY <4>1, <5>1
            <4>3. CASE i = 1
                <5>1. f[0] = <<>> /\ seqs[i] \in Seq(Byte)
                    BY DEF Laid, Data
                <5>2. <<>> \o seqs[i] = seqs[i]
                    BY <5>1, ConcatEmptySeq
                <5>3. f[i - 1] = <<>>
                    BY <4>3, <5>1
                <5> QED BY <4>2, <4>3, <5>2, <5>3
            <4>4. CASE i # 1
                <5>1. i - 1 \in 1 .. Len(seqs)
                    BY <4>4
                <5>2. h[i - 1] = f[i - 1]
                    BY <5>1
                <5> QED BY <4>2, <4>4, <5>2
            <4> QED BY <4>3, <4>4
        <3>2. h = [i \in 1 .. Len(seqs) |-> IF i = 1 THEN seqs[i] ELSE h[i - 1] \o seqs[i]]
            BY <3>1
        <3> QED
            BY <3>2
    <2> DEFINE g == CHOOSE g : Solves(g)
    <2>3. Solves(g)
        <3> HIDE DEF Solves
        <3> QED BY <2>2
    <2> HIDE DEF g
    <2>4. \A i \in 1 .. Len(seqs) : g[i] = IF i = 1 THEN seqs[i] ELSE g[i - 1] \o seqs[i]
        BY <2>3
    <2>5. g[1] = seqs[1] /\ f[1] = seqs[1]
        <3>1. 1 \in 1 .. Len(seqs) /\ 0 \in 0 .. Len(seqs) - 1
            BY <1>2
        <3>2. g[1] = seqs[1]
            BY <2>4, <3>1
        <3>3. f[0 + 1] = f[0] \o seqs[0 + 1] /\ f[0] = <<>>
            BY <3>1 DEF Laid
        <3>4. seqs[1] \in Seq(Byte)
            BY <3>1 DEF Data
        <3>5. <<>> \o seqs[1] = seqs[1]
            BY <3>4, ConcatEmptySeq
        <3> QED BY <3>2, <3>3, <3>5
    <2> DEFINE S == {n \in Nat : n + 1 <= Len(seqs) => g[n + 1] = f[n + 1]}
    <2>10. 0 \in S
        BY <2>5
    <2>6. ASSUME NEW n \in Nat, n \in S PROVE n + 1 \in S
        <3> SUFFICES ASSUME n + 1 + 1 <= Len(seqs) PROVE g[n + 1 + 1] = f[n + 1 + 1]
            OBVIOUS
        <3> DEFINE k == n + 1
        <3>1. k + 1 \in 1 .. Len(seqs) /\ k + 1 # 1 /\ k + 1 - 1 = k /\ k \in 0 .. Len(seqs) - 1
            OBVIOUS
        <3>2. g[k] = f[k]
            BY <2>6, <3>1
        <3> HIDE DEF k
        <3>3. g[k + 1] = g[k] \o seqs[k + 1]
            <4> DEFINE j == k + 1
            <4>1. j \in 1 .. Len(seqs) /\ j # 1 /\ j - 1 = k
                BY <3>1
            <4> HIDE DEF j
            <4>2. g[j] = g[j - 1] \o seqs[j]
                BY <2>4, <4>1
            <4>3. g[j] = g[k] \o seqs[j]
                BY <4>1, <4>2
            <4> QED BY <4>3 DEF j
        <3>4. f[k + 1] = f[k] \o seqs[k + 1]
            BY <3>1 DEF Laid
        <3>5. g[k + 1] = f[k + 1]
            BY <3>2, <3>3, <3>4
        <3> QED
            BY <3>5 DEF k
    <2>7. \A n \in Nat : n \in S
        <3> HIDE DEF S
        <3> QED BY <2>10, <2>6, NatInductive
    <2>8. Len(seqs) - 1 \in Nat /\ Len(seqs) - 1 + 1 = Len(seqs)
        BY <1>2
    <2>9. g[Len(seqs)] = f[Len(seqs)]
        BY <2>7, <2>8
    <2> QED
        BY <2>1, <2>9 DEF g
<1> QED
    BY <1>1, <1>2

----------------------------------------------------------------------------
(***************************************************************************)
(* How a character is encoded.                                             *)
(***************************************************************************)
Char == {c \in 0 .. MaxChar : ~IsSurrogate(c)}
Order == {"Big", "Little"}
Unit == {unit \in Nat : unit < 65536}
Short(c) == c < 65536
HighUnit(c) == 55296 + ((c - 65536) \div 1024)
LowUnit(c) == 56320 + ((c - 65536) % 1024)
Paired(upper, lower) == 65536 + (upper - 55296) * 1024 + (lower - 56320)

(* The greatest scalar value.                                              *)
LEMMA MaxCharIsNat == MaxChar \in Nat /\ 1114111 <= MaxChar /\ MaxChar < 1114112
BY SMT DEF MaxChar

(* A text is a sequence of characters.                                     *)
LEMMA TextIsChars == Text = Seq(Char)
<1>1. ASSUME NEW t \in Text PROVE t \in Seq(Char)
    <2>0. t \in Seq(0 .. MaxChar) /\ \A i \in DOMAIN t : ~IsSurrogate(t[i])
        BY DEF Text
    <2>1. \A i \in 1 .. Len(t) : t[i] \in Char
        <3> TAKE i \in 1 .. Len(t)
        <3>1. DOMAIN t = 1 .. Len(t) /\ t[i] \in 0 .. MaxChar
            <4> HIDE DEF MaxChar
            <4> QED BY <2>0, ElementOfSeq, LenProperties
        <3> QED BY <2>0, <3>1 DEF Char
    <2> HIDE DEF Char
    <2>2. Len(t) \in Nat /\ t = [i \in 1 .. Len(t) |-> t[i]]
        BY <2>0
    <2> QED
        BY <2>1, <2>2
<1>2. ASSUME NEW t \in Seq(Char) PROVE t \in Text
    <2>1. Char \subseteq 0 .. MaxChar /\ \A c \in Char : ~IsSurrogate(c)
        BY DEF Char
    <2> HIDE DEF Char
    <2>2. t \in Seq(0 .. MaxChar)
        BY <2>1, SeqMonotonic
    <2>3. \A i \in DOMAIN t : t[i] \in Char
        OBVIOUS
    <2> QED
        BY <2>1, <2>2, <2>3 DEF Text
<1> QED
    BY <1>1, <1>2

(* The byte order that options are configured with.                        *)
LEMMA OrderOfOptions ==
    ASSUME NEW o \in StringOptions
    PROVE  ConfiguredOrder(o) \in Order
BY DEF ConfiguredOrder, StringOptions, Order

(* A unit is two bytes, from which it can be read again.                   *)
LEMMA UnitBytes ==
    ASSUME NEW unit \in Unit, NEW ord
    PROVE  /\ BytesOf(unit, ord) \in Data
           /\ Len(BytesOf(unit, ord)) = 2
           /\ BytesOf(unit, "Big")[1] * 256 + BytesOf(unit, "Big")[2] = unit
           /\ ord # "Big" => BytesOf(unit, ord)[2] * 256 + BytesOf(unit, ord)[1] = unit
<1>1. unit \div 256 \in Byte /\ unit % 256 \in Byte
      /\ (unit \div 256) * 256 + (unit % 256) = unit
    BY SMT DEF Byte, Unit
<1> DEFINE a == unit \div 256
           b == unit % 256
<1>2. <<a, b>> \in Seq(Byte) /\ <<b, a>> \in Seq(Byte)
    BY <1>1
<1> HIDE DEF a, b
<1>3. Len(<<a, b>>) = 2 /\ <<a, b>>[1] = a /\ <<a, b>>[2] = b
      /\ Len(<<b, a>>) = 2 /\ <<b, a>>[1] = b /\ <<b, a>>[2] = a
    OBVIOUS
<1>4. BytesOf(unit, ord) = IF ord = "Big" THEN <<a, b>> ELSE <<b, a>>
    BY DEF BytesOf, a, b
<1>5. BytesOf(unit, "Big") = <<a, b>>
    BY DEF BytesOf, a, b
<1>6. a * 256 + b = unit
    BY <1>1 DEF a, b
<1>7. BytesOf(unit, ord) \in Data /\ Len(BytesOf(unit, ord)) = 2
    <2>1. CASE ord = "Big"
        <3>1. BytesOf(unit, ord) = <<a, b>>
            BY <2>1, <1>4
        <3> QED BY <3>1, <1>2, <1>3 DEF Data
    <2>2. CASE ord # "Big"
        <3>1. BytesOf(unit, ord) = <<b, a>>
            BY <2>2, <1>4
        <3> QED BY <3>1, <1>2, <1>3 DEF Data
    <2> QED BY <2>1, <2>2
<1>8. BytesOf(unit, "Big")[1] * 256 + BytesOf(unit, "Big")[2] = unit
    BY <1>3, <1>5, <1>6
<1>9. ord # "Big" => BytesOf(unit, ord)[2] * 256 + BytesOf(unit, ord)[1] = unit
    BY <1>3, <1>4, <1>6
<1> QED
    BY <1>7, <1>8, <1>9

(* A character of the basic plane is one unit.                             *)
LEMMA ShortIsUnit == \A c \in Nat : Short(c) => c \in Unit
BY SMT DEF Short, Unit

(* The halves of a surrogate pair, and what is made of them.               *)
LEMMA SurrogatePair ==
    ASSUME NEW c \in 0 .. MaxChar, ~Short(c)
    PROVE  /\ IsHigh(HighUnit(c)) /\ IsLow(LowUnit(c))
           /\ HighUnit(c) \in Unit
           /\ LowUnit(c) \in Unit
           /\ Paired(HighUnit(c), LowUnit(c)) = c
<1> DEFINE d == c - 65536
<1>0. c \in Int /\ 65536 <= c /\ c <= 1114111
    <2>1. c \in Int /\ c <= MaxChar
        BY SMT, MaxCharIsNat
    <2> QED
        BY SMT, <2>1, MaxCharIsNat DEF Short
<1>1. d \in Nat /\ d < 1048576 /\ c = 65536 + d
    BY SMT, <1>0
<1> HIDE DEF d
<1>2. d \div 1024 \in 0 .. 1023 /\ d % 1024 \in 0 .. 1023
      /\ (d \div 1024) * 1024 + (d % 1024) = d
    BY SMT, <1>1
<1> DEFINE a == d \div 1024
           b == d % 1024
<1>3. HighUnit(c) = 55296 + a /\ LowUnit(c) = 56320 + b
    BY SMT DEF HighUnit, LowUnit, d
<1>4. a \in 0 .. 1023 /\ b \in 0 .. 1023 /\ a * 1024 + b = d
    BY <1>2
<1> HIDE DEF a, b
<1> QED
    BY SMT, <1>1, <1>3, <1>4 DEF IsHigh, IsLow, Unit, Paired

----------------------------------------------------------------------------
(***************************************************************************)
(* Encode, one character after the other.                                  *)
(***************************************************************************)

(* One more sequence is laid behind the others.                            *)
LEMMA FlattenMore ==
    ASSUME NEW s \in Seq(Data), NEW t \in Seq(Data), Len(t) = Len(s) + 1,
           \A i \in 1 .. Len(s) : t[i] = s[i]
    PROVE  /\ FlattenSeq(t) = FlattenSeq(s) \o t[Len(t)]
           /\ FlattenSeq(s) \in Data
<1> DEFINE n == Len(s)
<1>1. PICK f : Laid(s, f)
    BY CanBeLaid
<1>2. PICK g : Laid(t, g)
    BY CanBeLaid
<1>3. n \in Nat /\ n <= Len(s) /\ n <= Len(t) /\ Len(t) \in Nat /\ Len(t) = n + 1
    OBVIOUS
<1>4. f[n] = g[n]
    <2>1. \A i \in 1 .. n : s[i] = t[i]
        OBVIOUS
    <2> HIDE DEF n
    <2> QED BY <1>1, <1>2, <1>3, <2>1, LaidAlike DEF n
<1>5. g[n + 1] = g[n] \o t[n + 1]
    <2>1. n \in 0 .. Len(t) - 1
        BY <1>3
    <2> QED BY <1>2, <2>1 DEF Laid
<1>6. FlattenSeq(s) = f[n] /\ FlattenSeq(t) = g[n + 1]
    BY <1>1, <1>2, <1>3, FlattenLays
<1>7. f[n] \in Data
    BY <1>1, <1>3 DEF Laid
<1> QED
    BY <1>3, <1>4, <1>5, <1>6, <1>7

(* No sequences make the empty one.                                        *)
LEMMA FlattenNothing == FlattenSeq(<<>>) = <<>>
BY DEF FlattenSeq

(* One sequence, or two.                                                   *)
LEMMA FlattenFew ==
    ASSUME NEW a \in Data, NEW b \in Data
    PROVE  FlattenSeq(<<a>>) = a /\ FlattenSeq(<<a, b>>) = a \o b
<1>1. <<>> \in Seq(Data) /\ <<a>> \in Seq(Data) /\ <<a, b>> \in Seq(Data)
    OBVIOUS
<1>2. FlattenSeq(<<a>>) = FlattenSeq(<<>>) \o a
    <2>1. Len(<<a>>) = Len(<<>>) + 1 /\ (\A i \in 1 .. Len(<<>>) : <<a>>[i] = <<>>[i])
          /\ <<a>>[Len(<<a>>)] = a
        OBVIOUS
    <2> QED BY <1>1, <2>1, FlattenMore
<1>3. FlattenSeq(<<a, b>>) = FlattenSeq(<<a>>) \o b
    <2>1. Len(<<a, b>>) = Len(<<a>>) + 1 /\ (\A i \in 1 .. Len(<<a>>) : <<a, b>>[i] = <<a>>[i])
          /\ <<a, b>>[Len(<<a, b>>)] = b
        OBVIOUS
    <2> QED BY <1>1, <2>1, FlattenMore
<1>4. <<>> \o a = a
    BY ConcatEmptySeq DEF Data
<1> QED
    BY <1>2, <1>3, <1>4, FlattenNothing

(* A character of UTF-16 is one unit or two.                               *)
LEMMA Utf16Bytes ==
    ASSUME NEW o, IsUtf16(o), NEW c \in Nat, c <= MaxChar, NEW ord, ord = ConfiguredOrder(o)
    PROVE  /\ Short(c) => CharBytes(o, c) = BytesOf(c, ord)
           /\ ~Short(c) => CharBytes(o, c) = BytesOf(HighUnit(c), ord) \o BytesOf(LowUnit(c), ord)
<1>1. CharBytes(o, c) = FlattenSeq([i \in DOMAIN Utf16(c) |-> BytesOf(Utf16(c)[i], ord)])
    BY DEF CharBytes
<1>2. CASE Short(c)
    <2>1. Utf16(c) = <<c>>
        BY <1>2 DEF Utf16, Short
    <2>2. [i \in DOMAIN <<c>> |-> BytesOf(<<c>>[i], ord)] = <<BytesOf(c, ord)>>
        <3> DEFINE s == [i \in DOMAIN <<c>> |-> BytesOf(<<c>>[i], ord)]
                   t == <<BytesOf(c, ord)>>
        <3>1. DOMAIN <<c>> = 1 .. 1 /\ <<c>>[1] = c /\ BytesOf(c, ord) \in Data
            BY <1>2, ShortIsUnit, UnitBytes
        <3>2. \A i \in 1 .. 1 : i = 1
            OBVIOUS
        <3>3. s = [i \in 1 .. 1 |-> BytesOf(c, ord)]
            <4> DEFINE u == <<c>>
            <4>1. \A i \in 1 .. 1 : u[i] = c
                BY <3>1, <3>2
            <4>2. DOMAIN u = 1 .. 1
                BY <3>1
            <4> HIDE DEF u
            <4>3. [i \in DOMAIN u |-> BytesOf(u[i], ord)] = [i \in 1 .. 1 |-> BytesOf(c, ord)]
                BY <4>1, <4>2
            <4> QED BY <4>3 DEF u
        <3>4. s \in Seq(Data) /\ Len(s) = 1 /\ s[1] = BytesOf(c, ord)
            <4> HIDE DEF s
            <4> QED BY <3>1, <3>3
        <3>5. t \in Seq(Data) /\ Len(t) = 1 /\ t[1] = BytesOf(c, ord)
            BY <3>1
        <3> HIDE DEF s, t
        <3>6. s = t
            BY <3>4, <3>5, SeqEqual
        <3> QED BY <3>6 DEF s, t
    <2>3. FlattenSeq(<<BytesOf(c, ord)>>) = BytesOf(c, ord)
        <3> DEFINE x == BytesOf(c, ord)
        <3>1. x \in Data
            BY <1>2, ShortIsUnit, UnitBytes
        <3> HIDE DEF x
        <3>2. FlattenSeq(<<x>>) = x
            BY <3>1, FlattenFew
        <3> QED BY <3>2 DEF x
    <2> QED
        BY <1>1, <1>2, <2>1, <2>2, <2>3
<1>3. CASE ~Short(c)
    <2> DEFINE a == HighUnit(c)
               b == LowUnit(c)
    <2>1. Utf16(c) = <<a, b>>
        BY SMT, <1>3 DEF Utf16, HighUnit, LowUnit, Short
    <2>2. a \in Unit /\ b \in Unit
        <3>1. c \in 0 .. MaxChar /\ ~Short(c)
            BY SMT, <1>3, MaxCharIsNat
        <3> QED BY <3>1, SurrogatePair
    <2> HIDE DEF a, b
    <2>3. [i \in DOMAIN <<a, b>> |-> BytesOf(<<a, b>>[i], ord)] = <<BytesOf(a, ord), BytesOf(b, ord)>>
        <3> DEFINE s == [i \in DOMAIN <<a, b>> |-> BytesOf(<<a, b>>[i], ord)]
                   t == <<BytesOf(a, ord), BytesOf(b, ord)>>
        <3>1. DOMAIN <<a, b>> = 1 .. 2 /\ <<a, b>>[1] = a /\ <<a, b>>[2] = b
              /\ BytesOf(a, ord) \in Data /\ BytesOf(b, ord) \in Data
            BY <2>2, UnitBytes
        <3>2. \A i \in 1 .. 2 : i = 1 \/ i = 2
            OBVIOUS
        <3>3. s = [i \in 1 .. 2 |-> IF i = 1 THEN BytesOf(a, ord) ELSE BytesOf(b, ord)]
            <4> DEFINE u == <<a, b>>
            <4>1. u[1] = a /\ u[2] = b /\ DOMAIN u = 1 .. 2
                BY <3>1
            <4> HIDE DEF u
            <4>2. \A i \in 1 .. 2 : BytesOf(u[i], ord) = IF i = 1 THEN BytesOf(a, ord) ELSE BytesOf(b, ord)
                BY <4>1, <3>2
            <4>3. [i \in DOMAIN u |-> BytesOf(u[i], ord)]
                  = [i \in 1 .. 2 |-> IF i = 1 THEN BytesOf(a, ord) ELSE BytesOf(b, ord)]
                BY <4>1, <4>2
            <4> QED BY <4>3 DEF u
        <3>4. s \in Seq(Data) /\ Len(s) = 2 /\ s[1] = BytesOf(a, ord) /\ s[2] = BytesOf(b, ord)
            <4> HIDE DEF s
            <4> QED BY <3>1, <3>3
        <3>5. t \in Seq(Data) /\ Len(t) = 2 /\ t[1] = BytesOf(a, ord) /\ t[2] = BytesOf(b, ord)
            BY <3>1
        <3> HIDE DEF s, t
        <3>6. s = t
            BY <3>2, <3>4, <3>5, SeqEqual
        <3> QED BY <3>6 DEF s, t
    <2>4. FlattenSeq(<<BytesOf(a, ord), BytesOf(b, ord)>>) = BytesOf(a, ord) \o BytesOf(b, ord)
        <3> DEFINE x == BytesOf(a, ord)
                   y == BytesOf(b, ord)
        <3>1. x \in Data /\ y \in Data
            BY <2>2, UnitBytes
        <3> HIDE DEF x, y
        <3>2. FlattenSeq(<<x, y>>) = x \o y
            BY <3>1, FlattenFew
        <3> QED BY <3>2 DEF x, y
    <2>5. CharBytes(o, c) = BytesOf(a, ord) \o BytesOf(b, ord)
        BY <1>1, <2>1, <2>3, <2>4
    <2> QED
        BY <1>3, <2>5 DEF a, b
<1> QED
    BY <1>2, <1>3

(* The digits of a number in base 64.                                      *)
LEMMA Digits ==
    ASSUME NEW c \in Nat, c <= MaxChar
    PROVE  /\ c \div 1 = c
           /\ c % 64 \in 0 .. 63 /\ (c \div 64) % 64 \in 0 .. 63 /\ (c \div 4096) % 64 \in 0 .. 63
           /\ c \div 64 \in Nat /\ c = (c \div 64) * 64 + (c % 64)
           /\ c \div 4096 \in Nat /\ c \div 64 = (c \div 4096) * 64 + ((c \div 64) % 64)
           /\ c \div 262144 \in Nat /\ c \div 4096 = (c \div 262144) * 64 + ((c \div 4096) % 64)
           /\ c < 2048 => c \div 64 < 32
           /\ c < 65536 => c \div 4096 < 16
           /\ c \div 262144 < 5
<1>1. c \div 1 = c
    BY SMT
<1>2. c % 64 \in 0 .. 63 /\ (c \div 64) % 64 \in 0 .. 63 /\ (c \div 4096) % 64 \in 0 .. 63
    BY SMT
<1>3. c \div 64 \in Nat /\ c = (c \div 64) * 64 + (c % 64)
    BY SMT
<1>4. c \div 4096 \in Nat /\ c \div 64 = (c \div 4096) * 64 + ((c \div 64) % 64)
    BY SMT
<1>5. c \div 262144 \in Nat /\ c \div 4096 = (c \div 262144) * 64 + ((c \div 4096) % 64)
    BY SMT
<1>6. c < 2048 => c \div 64 < 32
    BY SMT
<1>7. c < 65536 => c \div 4096 < 16
    BY SMT
<1>8. c \div 262144 < 5
    BY SMT, MaxCharIsNat
<1> HIDE DEF MaxChar
<1> QED
    BY <1>1, <1>2, <1>3, <1>4, <1>5, <1>6, <1>7, <1>8

(* The bytes of a character of UTF-8: how many they are says the first     *)
(* one, and each of the others holds six bits.                             *)
Shape1(b, c) ==
    /\ Len(b) = 1 /\ 0 <= b[1] /\ b[1] < 128
    /\ c = b[1]
Shape2(b, c) ==
    /\ Len(b) = 2 /\ 192 <= b[1] /\ b[1] < 224
    /\ 128 <= b[2] /\ b[2] < 192
    /\ c = (b[1] - 192) * 64 + (b[2] - 128)
Shape3(b, c) ==
    /\ Len(b) = 3 /\ 224 <= b[1] /\ b[1] < 240
    /\ 128 <= b[2] /\ b[2] < 192 /\ 128 <= b[3] /\ b[3] < 192
    /\ c = (b[1] - 224) * 4096 + (b[2] - 128) * 64 + (b[3] - 128)
Shape4(b, c) ==
    /\ Len(b) = 4 /\ 240 <= b[1] /\ b[1] < 245
    /\ 128 <= b[2] /\ b[2] < 192 /\ 128 <= b[3] /\ b[3] < 192 /\ 128 <= b[4] /\ b[4] < 192
    /\ c = (b[1] - 240) * 262144 + (b[2] - 128) * 4096 + (b[3] - 128) * 64 + (b[4] - 128)
Shape(b, c) == Shape1(b, c) \/ Shape2(b, c) \/ Shape3(b, c) \/ Shape4(b, c)

(* A byte is a number.                                                     *)
LEMMA ByteIsInt == \A b \in Byte : b \in Int /\ 0 <= b
BY DEF Byte

(* What Utf8 writes: a lead byte by which the length is known, and         *)
(* continuation bytes.                                                     *)
LEMMA Utf8Shape ==
    ASSUME NEW c \in Nat, c <= MaxChar
    PROVE  Utf8(c) \in Data /\ Shape(Utf8(c), c)
<1> DEFINE d0 == c % 64
           d1 == (c \div 64) % 64
           d2 == (c \div 4096) % 64
           l1 == c \div 64
           l2 == c \div 4096
           l3 == c \div 262144
<1>1. /\ d0 \in 0 .. 63 /\ d1 \in 0 .. 63 /\ d2 \in 0 .. 63
      /\ l1 \in Nat /\ l2 \in Nat /\ l3 \in Nat
      /\ c = l1 * 64 + d0 /\ l1 = l2 * 64 + d1 /\ l2 = l3 * 64 + d2
      /\ c < 2048 => l1 < 32
      /\ c < 65536 => l2 < 16
      /\ l3 < 5
    BY Digits
<1>2. Utf8(c) = IF c < 128 THEN <<c>>
                ELSE IF c < 2048 THEN <<192 + l1, 128 + d0>>
                ELSE IF c < 65536 THEN <<224 + l2, 128 + d1, 128 + d0>>
                ELSE <<240 + l3, 128 + d2, 128 + d1, 128 + d0>>
    BY Digits DEF Utf8
<1> HIDE DEF d0, d1, d2, l1, l2, l3
<1>3. CASE c < 128
    <2>1. Utf8(c) = <<c>>
        BY <1>2, <1>3
    <2>2. c \in Byte
        BY SMT, <1>3 DEF Byte
    <2>3. <<c>> \in Data
        BY SMT, <2>2 DEF Data
    <2>4. Len(<<c>>) = 1 /\ <<c>>[1] = c
        OBVIOUS
    <2> QED
        BY <1>3, <2>1, <2>3, <2>4 DEF Shape, Shape1, Shape2, Shape3, Shape4
<1>4. CASE c >= 128 /\ c < 2048
    <2> DEFINE b1 == 192 + l1
               b2 == 128 + d0
    <2>1. Utf8(c) = <<b1, b2>>
        BY <1>2, <1>4
    <2>2. /\ b1 \in Byte /\ b2 \in Byte
          /\ 192 <= b1 /\ b1 < 224 /\ 128 <= b2 /\ b2 < 192
          /\ c = (b1 - 192) * 64 + (b2 - 128)
        BY SMT, <1>1, <1>4 DEF Byte
    <2> HIDE DEF b1, b2
    <2>3. <<b1, b2>> \in Data
        BY SMT, <2>2 DEF Data
    <2>4. Len(<<b1, b2>>) = 2 /\ <<b1, b2>>[1] = b1 /\ <<b1, b2>>[2] = b2
        OBVIOUS
    <2>5. Shape(<<b1, b2>>, c)
        BY SMT, <2>2, <2>4, ByteIsInt DEF Shape, Shape1, Shape2, Shape3, Shape4
    <2> QED
        BY <2>1, <2>3, <2>5
<1>5. CASE c >= 2048 /\ c < 65536
    <2> DEFINE b1 == 224 + l2
               b2 == 128 + d1
               b3 == 128 + d0
    <2>1. Utf8(c) = <<b1, b2, b3>>
        BY <1>2, <1>5
    <2>2. /\ b1 \in Byte /\ b2 \in Byte /\ b3 \in Byte
          /\ 224 <= b1 /\ b1 < 240 /\ 128 <= b2 /\ b2 < 192 /\ 128 <= b3 /\ b3 < 192
          /\ c = (b1 - 224) * 4096 + (b2 - 128) * 64 + (b3 - 128)
        BY SMT, <1>1, <1>5 DEF Byte
    <2> HIDE DEF b1, b2, b3
    <2>3. <<b1, b2, b3>> \in Data
        BY SMT, <2>2 DEF Data
    <2>4. Len(<<b1, b2, b3>>) = 3 /\ <<b1, b2, b3>>[1] = b1 /\ <<b1, b2, b3>>[2] = b2
          /\ <<b1, b2, b3>>[3] = b3
        OBVIOUS
    <2>5. Shape(<<b1, b2, b3>>, c)
        BY SMT, <2>2, <2>4, ByteIsInt DEF Shape, Shape1, Shape2, Shape3, Shape4
    <2> QED
        BY <2>1, <2>3, <2>5
<1>6. CASE c >= 65536
    <2> DEFINE b1 == 240 + l3
               b2 == 128 + d2
               b3 == 128 + d1
               b4 == 128 + d0
    <2>1. Utf8(c) = <<b1, b2, b3, b4>>
        BY <1>2, <1>6
    <2>2. /\ b1 \in Byte /\ b2 \in Byte /\ b3 \in Byte /\ b4 \in Byte
          /\ 240 <= b1 /\ b1 < 245 /\ 128 <= b2 /\ b2 < 192 /\ 128 <= b3 /\ b3 < 192
          /\ 128 <= b4 /\ b4 < 192
          /\ c = (b1 - 240) * 262144 + (b2 - 128) * 4096 + (b3 - 128) * 64 + (b4 - 128)
        BY SMT, <1>1, <1>6 DEF Byte
    <2> HIDE DEF b1, b2, b3, b4
    <2>3. <<b1, b2, b3, b4>> \in Data
        BY SMT, <2>2 DEF Data
    <2>4. Len(<<b1, b2, b3, b4>>) = 4 /\ <<b1, b2, b3, b4>>[1] = b1
          /\ <<b1, b2, b3, b4>>[2] = b2 /\ <<b1, b2, b3, b4>>[3] = b3
          /\ <<b1, b2, b3, b4>>[4] = b4
        OBVIOUS
    <2>5. Shape(<<b1, b2, b3, b4>>, c)
        BY SMT, <2>2, <2>4, ByteIsInt DEF Shape, Shape1, Shape2, Shape3, Shape4
    <2> QED
        BY <2>1, <2>3, <2>5
<1> QED
    BY <1>3, <1>4, <1>5, <1>6

(* Neither of two sequences differs from the other as far as both go.      *)
Agree(s, t) == \A i \in 1 .. Len(s) : i <= Len(t) => s[i] = t[i]

(* A character is a number and no surrogate.                               *)
LEMMA CharIsNat ==
    ASSUME NEW c \in Char
    PROVE  c \in Nat /\ c <= MaxChar /\ ~IsHigh(c) /\ ~IsLow(c)
BY SMT, MaxCharIsNat DEF Char, IsSurrogate

(* One unit of UTF-16 or two, as bytes.                                    *)
LEMMA UnitsShape ==
    ASSUME NEW u \in Unit, NEW v \in Unit, NEW ord
    PROVE  LET s == BytesOf(u, ord) \o BytesOf(v, ord) IN
           /\ s \in Data /\ Len(s) = 4
           /\ s[1] = BytesOf(u, ord)[1] /\ s[2] = BytesOf(u, ord)[2]
           /\ s[3] = BytesOf(v, ord)[1] /\ s[4] = BytesOf(v, ord)[2]
<1> DEFINE a == BytesOf(u, ord)
           b == BytesOf(v, ord)
<1>1. a \in Seq(Byte) /\ b \in Seq(Byte) /\ Len(a) = 2 /\ Len(b) = 2
    BY UnitBytes DEF Data
<1> HIDE DEF a, b
<1>2. /\ a \o b \in Seq(Byte) /\ Len(a \o b) = 4
      /\ (a \o b)[1] = a[1] /\ (a \o b)[2] = a[2]
      /\ (a \o b)[3] = b[1] /\ (a \o b)[4] = b[2]
    <2>1. /\ a \o b \in Seq(Byte) /\ Len(a \o b) = 4
          /\ \A i \in 1 .. 4 : (a \o b)[i] = IF i <= 2 THEN a[i] ELSE b[i - 2]
        <3>1. /\ a \o b \in Seq(Byte) /\ Len(a \o b) = Len(a) + Len(b)
              /\ \A i \in 1 .. Len(a) + Len(b) : (a \o b)[i] = IF i <= Len(a) THEN a[i] ELSE b[i - Len(a)]
            BY <1>1, ConcatProperties
        <3> QED BY <1>1, <3>1
    <2> QED BY <2>1
<1> QED
    BY <1>2 DEF a, b, Data

(* Units with the same bytes are the same.                                 *)
LEMMA UnitsApart ==
    ASSUME NEW u \in Unit, NEW v \in Unit, NEW ord,
           BytesOf(u, ord)[1] = BytesOf(v, ord)[1], BytesOf(u, ord)[2] = BytesOf(v, ord)[2]
    PROVE  u = v
<1>1. CASE ord = "Big"
    BY <1>1, UnitBytes
<1>2. CASE ord # "Big"
    BY <1>2, ShortIsUnit, UnitBytes
<1> QED
    BY <1>1, <1>2

(* Every character has bytes.                                              *)
LEMMA CharBytesAreData ==
    ASSUME NEW o, NEW c \in Char
    PROVE  /\ CharBytes(o, c) \in Data /\ Len(CharBytes(o, c)) \in 1 .. 4
           /\ IsUtf16(o) => Len(CharBytes(o, c)) = (IF Short(c) THEN 2 ELSE 4)
<1>1. c \in Nat /\ c <= MaxChar
    BY CharIsNat
<1>2. CASE ~IsUtf16(o)
    <2>1. CharBytes(o, c) = Utf8(c)
        BY <1>2 DEF CharBytes
    <2>2. Utf8(c) \in Data /\ Shape(Utf8(c), c)
        BY <1>1, Utf8Shape
    <2>3. Len(Utf8(c)) \in 1 .. 4
        BY SMT, <2>2 DEF Shape, Shape1, Shape2, Shape3, Shape4
    <2> QED
        BY <1>2, <2>1, <2>2, <2>3
<1>3. CASE IsUtf16(o)
    <2> DEFINE ord == ConfiguredOrder(o)
    <2>1. CASE Short(c)
        <3>1. CharBytes(o, c) = BytesOf(c, ord)
            BY <1>1, <1>3, <2>1, Utf16Bytes
        <3>2. BytesOf(c, ord) \in Data /\ Len(BytesOf(c, ord)) = 2
            BY <1>1, <2>1, ShortIsUnit, UnitBytes
        <3> QED
            BY <2>1, <3>1, <3>2
    <2>2. CASE ~Short(c)
        <3>1. CharBytes(o, c) = BytesOf(HighUnit(c), ord) \o BytesOf(LowUnit(c), ord)
            BY <1>1, <1>3, <2>2, Utf16Bytes
        <3>2. HighUnit(c) \in Unit /\ LowUnit(c) \in Unit
            <4>1. c \in 0 .. MaxChar /\ ~Short(c)
                BY <1>1, <2>2, MaxCharIsNat
            <4> QED BY <4>1, SurrogatePair
        <3> DEFINE s == BytesOf(HighUnit(c), ord) \o BytesOf(LowUnit(c), ord)
        <3>3. s \in Data /\ Len(s) = 4
            BY <3>2, UnitsShape
        <3> QED
            BY <2>2, <3>1, <3>3
    <2> QED
        BY <2>1, <2>2
<1> QED
    BY <1>2, <1>3

(* No character begins like another one: the encodings are prefix codes.   *)
LEMMA CharsApart8 ==
    ASSUME NEW c \in Char, NEW d \in Char, Agree(Utf8(c), Utf8(d))
    PROVE  c = d
<1> DEFINE s == Utf8(c)
           t == Utf8(d)
<1>1. s \in Data /\ Shape(s, c) /\ t \in Data /\ Shape(t, d)
    BY CharIsNat, Utf8Shape
<1>2. Agree(s, t)
    OBVIOUS
<1> HIDE DEF s, t
<1>3. \A i \in 1 .. Len(s) : s[i] \in Byte
    BY <1>1, ElementOfSeq DEF Data
<1>4. \A i \in 1 .. Len(t) : t[i] \in Byte
    BY <1>1, ElementOfSeq DEF Data
<1>5. Len(s) \in 1 .. 4 /\ Len(t) \in 1 .. 4
    BY SMT, <1>1 DEF Shape, Shape1, Shape2, Shape3, Shape4
<1>6. s[1] = t[1] /\ s[1] \in Int
    <2>1. 1 \in 1 .. Len(s) /\ 1 <= Len(t)
        BY <1>5
    <2>2. s[1] = t[1] /\ s[1] \in Byte
        BY <1>2, <1>3, <2>1 DEF Agree
    <2> QED BY <2>2 DEF Byte
<1>7. /\ Len(s) = 1 <=> s[1] < 128
      /\ Len(s) = 2 <=> 192 <= s[1] /\ s[1] < 224
      /\ Len(s) = 3 <=> 224 <= s[1] /\ s[1] < 240
      /\ Len(s) = 4 <=> 240 <= s[1]
    BY SMT, <1>1, <1>6 DEF Shape, Shape1, Shape2, Shape3, Shape4
<1>8. /\ Len(t) = 1 <=> t[1] < 128
      /\ Len(t) = 2 <=> 192 <= t[1] /\ t[1] < 224
      /\ Len(t) = 3 <=> 224 <= t[1] /\ t[1] < 240
      /\ Len(t) = 4 <=> 240 <= t[1]
    BY SMT, <1>1, <1>6 DEF Shape, Shape1, Shape2, Shape3, Shape4
<1>9. Len(s) = Len(t)
    BY <1>5, <1>6, <1>7, <1>8
<1>10. \A i \in 1 .. Len(s) : s[i] = t[i]
    BY <1>2, <1>5, <1>9 DEF Agree
<1>11. CASE Len(s) = 1
    BY SMT, <1>1, <1>6, <1>9, <1>11 DEF Shape, Shape1, Shape2, Shape3, Shape4
<1>12. CASE Len(s) = 2
    <2>1. s[2] = t[2]
        BY <1>10, <1>12
    <2> QED BY SMT, <1>1, <1>6, <1>9, <1>12, <2>1 DEF Shape, Shape1, Shape2, Shape3, Shape4
<1>13. CASE Len(s) = 3
    <2>1. s[2] = t[2] /\ s[3] = t[3]
        BY <1>10, <1>13
    <2> QED BY SMT, <1>1, <1>6, <1>9, <1>13, <2>1 DEF Shape, Shape1, Shape2, Shape3, Shape4
<1>14. CASE Len(s) = 4
    <2>1. s[2] = t[2] /\ s[3] = t[3] /\ s[4] = t[4]
        BY <1>10, <1>14
    <2> QED BY SMT, <1>1, <1>6, <1>9, <1>14, <2>1 DEF Shape, Shape1, Shape2, Shape3, Shape4
<1> QED
    BY <1>5, <1>11, <1>12, <1>13, <1>14

(* A short character of UTF-16 does not begin another one.                 *)
LEMMA CharsApart16 ==
    ASSUME NEW o, IsUtf16(o), NEW c \in Char, NEW d \in Char, 
           Agree(CharBytes(o, c), CharBytes(o, d)), Short(c)
    PROVE  c = d
<1> DEFINE ord == ConfiguredOrder(o)
           u == IF Short(d) THEN d ELSE HighUnit(d)
<1>1. c \in Nat /\ c <= MaxChar /\ ~IsHigh(c) /\ d \in Nat /\ d <= MaxChar
    BY CharIsNat
<1>2. CharBytes(o, c) = BytesOf(c, ord)
    BY <1>1, Utf16Bytes
<1>3. u \in Unit
    <2>1. CASE Short(d)
        BY <1>1, <2>1, ShortIsUnit
    <2>2. CASE ~Short(d)
        <3>1. d \in 0 .. MaxChar /\ ~Short(d)
            BY <1>1, <2>2, MaxCharIsNat
        <3>2. HighUnit(d) \in Unit
            BY <3>1, SurrogatePair
        <3> QED BY <2>2, <3>2
    <2> QED BY <2>1, <2>2
<1>4. CharBytes(o, d)[1] = BytesOf(u, ord)[1] /\ CharBytes(o, d)[2] = BytesOf(u, ord)[2]
      /\ Len(CharBytes(o, d)) \in {2, 4}
    <2>1. CASE Short(d)
        <3>1. CharBytes(o, d) = BytesOf(d, ord)
            BY <1>1, <2>1, Utf16Bytes
        <3>2. Len(BytesOf(d, ord)) = 2
            BY <1>1, <2>1, ShortIsUnit, UnitBytes
        <3> QED BY <2>1, <3>1, <3>2
    <2>2. CASE ~Short(d)
        <3> DEFINE s == BytesOf(HighUnit(d), ord) \o BytesOf(LowUnit(d), ord)
        <3>1. CharBytes(o, d) = s
            BY <1>1, <2>2, Utf16Bytes
        <3>2. d \in 0 .. MaxChar /\ ~Short(d)
            BY <1>1, <2>2, MaxCharIsNat
        <3>3. HighUnit(d) \in Unit /\ LowUnit(d) \in Unit
            BY <3>2, SurrogatePair
        <3>4. /\ Len(s) = 4
              /\ s[1] = BytesOf(HighUnit(d), ord)[1] /\ s[2] = BytesOf(HighUnit(d), ord)[2]
            BY <3>3, UnitsShape
        <3>5. u = HighUnit(d)
            BY <2>2
        <3> HIDE DEF u, s
        <3> QED BY <3>1, <3>4, <3>5
    <2> QED BY <2>1, <2>2
<1> HIDE DEF u
<1>5. c \in Unit /\ Len(BytesOf(c, ord)) = 2
    BY <1>1, ShortIsUnit, UnitBytes
<1>6. BytesOf(c, ord)[1] = BytesOf(u, ord)[1] /\ BytesOf(c, ord)[2] = BytesOf(u, ord)[2]
    <2>1. \A i \in 1 .. 2 : CharBytes(o, c)[i] = CharBytes(o, d)[i]
        BY <1>2, <1>4, <1>5 DEF Agree
    <2> QED BY <1>2, <1>4, <2>1
<1>7. c = u
    BY <1>3, <1>5, <1>6, UnitsApart
<1>8. CASE Short(d)
    BY <1>7, <1>8 DEF u
<1>9. CASE ~Short(d)
    <2>1. d \in 0 .. MaxChar /\ ~Short(d)
        BY <1>1, <1>9, MaxCharIsNat
    <2>2. IsHigh(HighUnit(d))
        BY <2>1, SurrogatePair
    <2>3. c = HighUnit(d)
        BY <1>7, <1>9 DEF u
    <2> QED
        BY <1>1, <2>2, <2>3
<1> QED
    BY <1>8, <1>9

(* Agreement goes both ways.                                               *)
LEMMA AgreeSymmetric ==
    ASSUME NEW s \in Data, NEW t \in Data, Agree(s, t)
    PROVE  Agree(t, s)
<1>1. Len(s) \in Nat /\ Len(t) \in Nat
    BY DEF Data
<1> QED
    BY <1>1 DEF Agree

(* No character begins another one, in any encoding.                       *)
LEMMA CharsApart ==
    ASSUME NEW o, NEW c \in Char, NEW d \in Char, Agree(CharBytes(o, c), CharBytes(o, d))
    PROVE  c = d
<1>1. CASE ~IsUtf16(o)
    BY <1>1, CharsApart8 DEF CharBytes
<1>2. CASE IsUtf16(o) /\ Short(c)
    BY <1>2, CharsApart16
<1>3. CASE IsUtf16(o) /\ Short(d)
    <2>1. Agree(CharBytes(o, d), CharBytes(o, c))
        BY AgreeSymmetric, CharBytesAreData
    <2>2. d = c
        BY <1>3, <2>1, CharsApart16
    <2> QED BY <2>2
<1>4. CASE IsUtf16(o) /\ ~Short(c) /\ ~Short(d)
    <2> DEFINE ord == ConfiguredOrder(o)
               s == BytesOf(HighUnit(c), ord) \o BytesOf(LowUnit(c), ord)
               t == BytesOf(HighUnit(d), ord) \o BytesOf(LowUnit(d), ord)
    <2>1. c \in Nat /\ c <= MaxChar /\ d \in Nat /\ d <= MaxChar
        BY CharIsNat
    <2>2. CharBytes(o, c) = s /\ CharBytes(o, d) = t
        BY <1>4, <2>1, Utf16Bytes
    <2>3. c \in 0 .. MaxChar /\ ~Short(c) /\ d \in 0 .. MaxChar /\ ~Short(d)
        BY <1>4, <2>1, MaxCharIsNat
    <2>4. HighUnit(c) \in Unit /\ LowUnit(c) \in Unit
          /\ Paired(HighUnit(c), LowUnit(c)) = c
        BY <2>3, SurrogatePair
    <2>5. HighUnit(d) \in Unit /\ LowUnit(d) \in Unit
          /\ Paired(HighUnit(d), LowUnit(d)) = d
        BY <2>3, SurrogatePair
    <2>6. /\ Len(s) = 4
          /\ s[1] = BytesOf(HighUnit(c), ord)[1] /\ s[2] = BytesOf(HighUnit(c), ord)[2]
          /\ s[3] = BytesOf(LowUnit(c), ord)[1] /\ s[4] = BytesOf(LowUnit(c), ord)[2]
        BY <2>4, UnitsShape
    <2>7. /\ Len(t) = 4
          /\ t[1] = BytesOf(HighUnit(d), ord)[1] /\ t[2] = BytesOf(HighUnit(d), ord)[2]
          /\ t[3] = BytesOf(LowUnit(d), ord)[1] /\ t[4] = BytesOf(LowUnit(d), ord)[2]
        BY <2>5, UnitsShape
    <2> HIDE DEF s, t
    <2>8. s[1] = t[1] /\ s[2] = t[2] /\ s[3] = t[3] /\ s[4] = t[4]
        <3>1. \A i \in 1 .. 4 : s[i] = t[i]
            BY <2>2, <2>6, <2>7 DEF Agree
        <3> QED BY <3>1
    <2>9. HighUnit(c) = HighUnit(d)
        <3>1. /\ BytesOf(HighUnit(c), ord)[1] = BytesOf(HighUnit(d), ord)[1]
              /\ BytesOf(HighUnit(c), ord)[2] = BytesOf(HighUnit(d), ord)[2]
            BY <2>6, <2>7, <2>8
        <3> HIDE DEF ord
        <3> QED BY <2>4, <2>5, <3>1, UnitsApart
    <2>10. LowUnit(c) = LowUnit(d)
        <3>1. /\ BytesOf(LowUnit(c), ord)[1] = BytesOf(LowUnit(d), ord)[1]
              /\ BytesOf(LowUnit(c), ord)[2] = BytesOf(LowUnit(d), ord)[2]
            BY <2>6, <2>7, <2>8
        <3> HIDE DEF ord
        <3> QED BY <2>4, <2>5, <3>1, UnitsApart
    <2> QED
        BY <2>4, <2>5, <2>9, <2>10
<1> QED
    BY <1>1, <1>2, <1>3, <1>4

(* Encode is laid out character by character.                              *)
LEMMA EncodeMore ==
    ASSUME NEW o, NEW t \in Seq(Char), NEW c \in Char
    PROVE  /\ Encode(o, t) \in Data
           /\ Encode(o, Append(t, c)) = Encode(o, t) \o CharBytes(o, c)
<1> DEFINE p == [i \in DOMAIN t |-> CharBytes(o, t[i])]
           u == Append(t, c)
           q == [i \in DOMAIN u |-> CharBytes(o, u[i])]
<1>1. /\ Len(t) \in Nat /\ DOMAIN t = 1 .. Len(t)
      /\ u \in Seq(Char) /\ Len(u) = Len(t) + 1 /\ DOMAIN u = 1 .. Len(t) + 1
      /\ \A i \in 1 .. Len(t) : u[i] = t[i]
      /\ u[Len(t) + 1] = c
    BY AppendProperties, LenProperties
<1> HIDE DEF u
<1>2. \A i \in 1 .. Len(t) : CharBytes(o, t[i]) \in Data
    BY ElementOfSeq, CharBytesAreData
<1>3. \A i \in 1 .. Len(t) + 1 : CharBytes(o, u[i]) \in Data
    BY <1>1, ElementOfSeq, CharBytesAreData
<1>4. p \in Seq(Data) /\ Len(p) = Len(t)
    BY <1>1, <1>2
<1>5. q \in Seq(Data) /\ Len(q) = Len(p) + 1
    BY <1>1, <1>3, <1>4
<1>6. \A i \in 1 .. Len(p) : q[i] = p[i]
    BY <1>1, <1>4
<1>7. q[Len(q)] = CharBytes(o, c)
    BY <1>1, <1>4, <1>5
<1>8. FlattenSeq(p) = Encode(o, t) /\ FlattenSeq(q) = Encode(o, Append(t, c))
    BY DEF Encode, u
<1> HIDE DEF p, q
<1> QED
    BY <1>4, <1>5, <1>6, <1>7, <1>8, FlattenMore

(* No characters, no bytes.                                                *)
LEMMA EncodeNothing == \A o : Encode(o, <<>>) = <<>>
<1> TAKE o
<1>1. [i \in DOMAIN <<>> |-> CharBytes(o, <<>>[i])] = <<>>
    OBVIOUS
<1> QED
    BY <1>1, FlattenNothing DEF Encode

(* What a text is encoded as is bytes.                                     *)
LEMMA EncodeIsData ==
    ASSUME NEW o, NEW t \in Seq(Char)
    PROVE  Encode(o, t) \in Data
<1>1. 0 \in Char
    BY SMT, MaxCharIsNat DEF Char, IsSurrogate, IsHigh, IsLow
<1> QED
    BY <1>1, EncodeMore

(* The first n characters and the one behind them.                         *)
LEMMA OneMore ==
    ASSUME NEW t \in Seq(Char), NEW n \in Nat, n + 1 <= Len(t)
    PROVE  /\ SubSeq(t, 1, n) \in Seq(Char) /\ t[n + 1] \in Char
           /\ SubSeq(t, 1, n + 1) = Append(SubSeq(t, 1, n), t[n + 1])
<1>1. n + 1 \in 1 .. Len(t) /\ 1 \in 1 .. Len(t) /\ n + 1 \in 1 .. Len(t) /\ n + 1 - 1 = n
    OBVIOUS
<1>2. t[n + 1] \in Char
    BY <1>1, ElementOfSeq
<1>3. \A i \in 1 .. n : t[i] \in Char
    BY <1>1, ElementOfSeq
<1>4. SubSeq(t, 1, n) \in Seq(Char)
    BY <1>3
<1>5. SubSeq(t, 1, n + 1) = SubSeq(t, 1, n + 1 - 1) \o <<t[n + 1]>>
    BY <1>1, SubSeqRecursiveSecond
<1>6. Append(SubSeq(t, 1, n), t[n + 1]) = SubSeq(t, 1, n) \o <<t[n + 1]>>
    BY <1>2, <1>4, AppendIsConcat
<1> QED
    BY <1>1, <1>2, <1>4, <1>5, <1>6

(* What a prefix of a text is encoded as, one character longer.            *)
LEMMA EncodeOneMore ==
    ASSUME NEW o, NEW t \in Seq(Char), NEW n \in Nat, n + 1 <= Len(t)
    PROVE  Encode(o, SubSeq(t, 1, n + 1)) = Encode(o, SubSeq(t, 1, n)) \o CharBytes(o, t[n + 1])
BY OneMore, EncodeMore

(* s is the beginning of t.                                                *)
Starts(s, t) == Len(s) <= Len(t) /\ \A i \in 1 .. Len(s) : s[i] = t[i]

(* A concatenation starts with its first part.                             *)
LEMMA ConcatStarts ==
    ASSUME NEW s \in Data, NEW t \in Data
    PROVE  s \o t \in Data /\ Starts(s, s \o t) /\ Len(s \o t) = Len(s) + Len(t)
<1>1. /\ s \o t \in Seq(Byte) /\ Len(s \o t) = Len(s) + Len(t)
      /\ \A i \in 1 .. Len(s) + Len(t) : (s \o t)[i] = IF i <= Len(s) THEN s[i] ELSE t[i - Len(s)]
    BY ConcatProperties DEF Data
<1>2. Len(s) \in Nat /\ Len(t) \in Nat
    BY DEF Data
<1> QED
    BY <1>1, <1>2 DEF Starts, Data

(* Every sequence starts with itself.                                      *)
LEMMA StartsItself == \A s \in Data : Starts(s, s)
BY DEF Starts, Data

(* What starts a beginning starts the whole.                               *)
LEMMA StartsTransitive ==
    ASSUME NEW s \in Data, NEW t \in Data, NEW u \in Data, Starts(s, t), Starts(t, u)
    PROVE  Starts(s, u)
<1>1. Len(s) \in Nat /\ Len(t) \in Nat /\ Len(u) \in Nat
    BY DEF Data
<1> QED
    BY <1>1 DEF Starts

(* What is encoded of a part of a text begins what is encoded of it.       *)
LEMMA EncodeStarts ==
    ASSUME NEW o, NEW t \in Seq(Char), NEW k \in 0 .. Len(t)
    PROVE  Starts(Encode(o, SubSeq(t, 1, k)), Encode(o, t))
<1> DEFINE P(n) == SubSeq(t, 1, n)
           S == {n \in Nat : k + n <= Len(t) => Starts(Encode(o, P(k)), Encode(o, P(k + n)))}
<1>1. Len(t) \in Nat /\ k \in Nat
    OBVIOUS
<1>2. ASSUME NEW n \in Nat, n <= Len(t) PROVE P(n) \in Seq(Char)
    BY <1>2, ElementOfSeq
<1>3. 0 \in S
    <2>1. k + 0 = k
        OBVIOUS
    <2>2. Encode(o, P(k)) \in Data
        <3>1. P(k) \in Seq(Char)
            BY <1>1, <1>2
        <3> HIDE DEF P
        <3> QED BY <3>1, EncodeIsData
    <2>3. Starts(Encode(o, P(k)), Encode(o, P(k)))
        BY <2>2, StartsItself
    <2> QED BY <2>1, <2>3
<1>4. ASSUME NEW n \in Nat, n \in S PROVE n + 1 \in S
    <2> SUFFICES ASSUME k + (n + 1) <= Len(t)
                 PROVE  Starts(Encode(o, P(k)), Encode(o, P(k + (n + 1))))
        OBVIOUS
    <2> DEFINE m == k + n
    <2>1. m \in Nat /\ m + 1 <= Len(t) /\ k + (n + 1) = m + 1 /\ m <= Len(t) /\ k <= Len(t)
        BY <1>1
    <2>2. Starts(Encode(o, P(k)), Encode(o, P(m)))
        BY <1>4, <2>1
    <2> HIDE DEF m
    <2>3. Encode(o, P(m + 1)) = Encode(o, P(m)) \o CharBytes(o, t[m + 1])
        BY <2>1, EncodeOneMore
    <2>4. t[m + 1] \in Char
        BY <2>1, OneMore
    <2>5. Encode(o, P(k)) \in Data /\ Encode(o, P(m)) \in Data /\ CharBytes(o, t[m + 1]) \in Data
        BY <1>1, <1>2, <2>1, <2>4, EncodeIsData, CharBytesAreData
    <2>6. Starts(Encode(o, P(m)), Encode(o, P(m + 1))) /\ Encode(o, P(m + 1)) \in Data
        BY <2>3, <2>5, ConcatStarts
    <2>7. Starts(Encode(o, P(k)), Encode(o, P(m + 1)))
        BY <2>2, <2>5, <2>6, StartsTransitive
    <2> QED
        BY <2>1, <2>7
<1>5. Len(t) - k \in S /\ k + (Len(t) - k) = Len(t)
    <2>1. Len(t) - k \in Nat
        OBVIOUS
    <2> HIDE DEF S
    <2>2. Len(t) - k \in S
        BY <1>3, <1>4, <2>1, NatInductive
    <2> QED BY <1>1, <2>2
<1>6. P(Len(t)) = t
    BY SubSeqFull
<1>7. Starts(Encode(o, P(k)), Encode(o, P(Len(t))))
    BY <1>5
<1> QED
    BY <1>6, <1>7

(* Two parts that follow the same bytes in the same data agree.            *)
LEMMA AgreeBehind ==
    ASSUME NEW a \in Data, NEW b \in Data, NEW c \in Data, NEW z \in Data,
           Starts(a \o b, z), Starts(a \o c, z)
    PROVE  Agree(b, c)
<1>1. /\ Len(a \o b) = Len(a) + Len(b)
      /\ \A i \in 1 .. Len(a) + Len(b) : (a \o b)[i] = IF i <= Len(a) THEN a[i] ELSE b[i - Len(a)]
      /\ Len(a \o c) = Len(a) + Len(c)
      /\ \A i \in 1 .. Len(a) + Len(c) : (a \o c)[i] = IF i <= Len(a) THEN a[i] ELSE c[i - Len(a)]
    BY ConcatProperties DEF Data
<1>2. Len(a) \in Nat /\ Len(b) \in Nat /\ Len(c) \in Nat
    BY DEF Data
<1>3. ASSUME NEW i \in 1 .. Len(b), i <= Len(c) PROVE b[i] = c[i]
    <2> DEFINE j == Len(a) + i
    <2>1. j \in 1 .. Len(a) + Len(b) /\ j \in 1 .. Len(a) + Len(c) /\ ~(j <= Len(a)) /\ j - Len(a) = i
        BY <1>2, <1>3
    <2> HIDE DEF j
    <2>2. (a \o b)[j] = b[j - Len(a)] /\ (a \o c)[j] = c[j - Len(a)]
        BY <1>1, <2>1
    <2>3. (a \o b)[j] = z[j] /\ (a \o c)[j] = z[j]
        BY <1>1, <2>1 DEF Starts
    <2> QED BY <2>1, <2>2, <2>3
<1> QED
    BY <1>3 DEF Agree

(* A text whose encoding begins that of another one begins the other one:  *)
(* nobody can tell apart too early or too late where a character ends.     *)
THEOREM EncodeIsPrefixCode ==
    ASSUME NEW o, NEW t \in Seq(Char), NEW u \in Seq(Char), Starts(Encode(o, t), Encode(o, u))
    PROVE  Starts(t, u)
<1> DEFINE P(n) == SubSeq(t, 1, n)
           Q(n) == SubSeq(u, 1, n)
           S == {n \in Nat : n <= Len(t) => n <= Len(u) /\ \A i \in 1 .. n : t[i] = u[i]}
<1>1. Len(t) \in Nat /\ Len(u) \in Nat
    OBVIOUS
<1>2. 0 \in S
    BY <1>1
<1>3. ASSUME NEW n \in Nat, n \in S PROVE n + 1 \in S
    <2> SUFFICES ASSUME n + 1 <= Len(t)
                 PROVE  n + 1 <= Len(u) /\ \A i \in 1 .. n + 1 : t[i] = u[i]
        OBVIOUS
    <2>1. n <= Len(t) /\ n <= Len(u) /\ \A i \in 1 .. n : t[i] = u[i]
        BY <1>1, <1>3
    <2> HIDE DEF S
    <2>2. P(n) \in Seq(Char) /\ Q(n) \in Seq(Char) /\ Len(P(n)) = n /\ Len(Q(n)) = n
          /\ \A i \in 1 .. n : P(n)[i] = t[i] /\ Q(n)[i] = u[i]
        BY <2>1
    <2>3. P(n) = Q(n)
        <3> HIDE DEF P, Q
        <3>1. \A i \in 1 .. Len(P(n)) : P(n)[i] = Q(n)[i]
            BY <2>1, <2>2
        <3> QED BY <2>2, <3>1, SeqEqual
    <2> DEFINE a == Encode(o, P(n))
               b == CharBytes(o, t[n + 1])
               z == Encode(o, u)
    <2>4. t[n + 1] \in Char /\ Encode(o, P(n + 1)) = a \o b
        BY OneMore, EncodeOneMore
    <2>5. Starts(Encode(o, P(n + 1)), Encode(o, t))
        <3>1. n + 1 \in 0 .. Len(t)
            OBVIOUS
        <3> QED BY <3>1, EncodeStarts
    <2>6. a \in Data /\ b \in Data /\ z \in Data /\ Len(b) >= 1 /\ Encode(o, t) \in Data
        <3>1. a \in Data /\ z \in Data /\ Encode(o, t) \in Data
            BY <2>2, EncodeIsData
        <3> HIDE DEF a, z
        <3> DEFINE ch == t[n + 1]
        <3>3. ch \in Char
            BY <2>4
        <3> HIDE DEF ch
        <3>4. CharBytes(o, ch) \in Data /\ Len(CharBytes(o, ch)) \in 1 .. 4
            BY <3>3, CharBytesAreData
        <3>5. b \in Data
            BY <3>4 DEF ch
        <3> DEFINE l == Len(b)
        <3>6. l \in 1 .. 4
            BY <3>4 DEF ch
        <3> HIDE DEF l
        <3>7. l >= 1
            BY <3>6
        <3> HIDE DEF b
        <3> QED BY <3>1, <3>5, <3>7 DEF l
    <2>7. Starts(a \o b, z) /\ Len(a \o b) = Len(a) + Len(b)
        <3>1. Starts(a \o b, Encode(o, t)) /\ Starts(Encode(o, t), z)
            BY <2>4, <2>5
        <3> HIDE DEF a, b, z
        <3>2. a \o b \in Data /\ Len(a \o b) = Len(a) + Len(b)
            BY <2>6, ConcatStarts
        <3> QED BY <2>6, <3>1, <3>2, StartsTransitive
    <2>8. n + 1 <= Len(u)
        <3> SUFFICES ASSUME Len(u) = n PROVE FALSE
            BY <1>1, <2>1
        <3>1. Q(n) = u
            BY SubSeqFull
        <3>2. z = a
            BY <2>3, <3>1
        <3>3. Len(a) \in Nat /\ Len(b) \in Nat /\ Len(z) = Len(a) /\ Len(a) + Len(b) <= Len(z)
            BY <2>6, <2>7, <3>2 DEF Starts, Data
        <3> QED BY <2>6, <3>3
    <2> DEFINE c == CharBytes(o, u[n + 1])
    <2>9. u[n + 1] \in Char /\ Encode(o, Q(n + 1)) = a \o c
        BY <2>3, <2>8, OneMore, EncodeOneMore
    <2>10. Starts(Encode(o, Q(n + 1)), z)
        <3>1. n + 1 \in 0 .. Len(u)
            BY <2>8
        <3> QED BY <3>1, EncodeStarts
    <2>11. c \in Data
        BY <2>9, CharBytesAreData
    <2>12. Agree(b, c)
        <3>1. Starts(a \o c, z)
            BY <2>9, <2>10
        <3> HIDE DEF a, b, c, z
        <3> QED BY <2>6, <2>7, <2>11, <3>1, AgreeBehind
    <2>13. t[n + 1] = u[n + 1]
        BY <2>4, <2>9, <2>12, CharsApart
    <2>14. \A i \in 1 .. n + 1 : i \in 1 .. n \/ i = n + 1
        OBVIOUS
    <2> QED
        BY <2>1, <2>8, <2>13, <2>14
<1>4. Len(t) \in S
    <2> HIDE DEF S
    <2> QED BY <1>1, <1>2, <1>3, NatInductive
<1> QED
    BY <1>4 DEF Starts

----------------------------------------------------------------------------
(***************************************************************************)
(* Texts that consist of texts.                                            *)
(***************************************************************************)

(* What holds of the empty sequence, and of a sequence and one more member *)
(* if it holds of the sequence, holds of every sequence.                   *)
LEMMA SeqInductive ==
    ASSUME NEW A, NEW S, <<>> \in S,
           \A t \in Seq(A) : \A c \in A : t \in S => Append(t, c) \in S
    PROVE  Seq(A) \subseteq S
<1> DEFINE T == {n \in Nat : \A t \in Seq(A) : Len(t) = n => t \in S}
<1>1. 0 \in T
    <2>1. \A t \in Seq(A) : Len(t) = 0 => t = <<>>
        BY EmptySeq
    <2> QED BY <2>1
<1>2. ASSUME NEW n \in Nat, n \in T PROVE n + 1 \in T
    <2> SUFFICES ASSUME NEW t \in Seq(A), Len(t) = n + 1 PROVE t \in S
        OBVIOUS
    <2>1. t # <<>>
        BY EmptySeq
    <2>2. PICK s \in Seq(A), c \in A : t = Append(s, c)
        BY <2>1, SequenceEmptyOrAppend
    <2>3. Len(s) = n
        <3>1. Len(t) = Len(s) + 1 /\ Len(s) \in Nat
            BY <2>2, AppendProperties
        <3> QED BY <3>1
    <2>4. s \in S
        BY <1>2, <2>3
    <2> QED BY <2>2, <2>4
<1>3. \A n \in Nat : n \in T
    <2> HIDE DEF T
    <2> QED BY <1>1, <1>2, NatInductive
<1>4. ASSUME NEW t \in Seq(A) PROVE t \in S
    <2>1. Len(t) \in Nat
        OBVIOUS
    <2> QED BY <1>3, <2>1
<1> QED
    BY <1>4

(* Two texts are encoded one after the other.                              *)
LEMMA EncodeConcat ==
    ASSUME NEW o, NEW s \in Seq(Char), NEW t \in Seq(Char)
    PROVE  Encode(o, s \o t) = Encode(o, s) \o Encode(o, t)
<1> DEFINE S == {u \in Seq(Char) : Encode(o, s \o u) = Encode(o, s) \o Encode(o, u)}
<1>1. <<>> \in S
    <2>1. s \o <<>> = s
        BY ConcatEmptySeq
    <2>2. Encode(o, s) \o <<>> = Encode(o, s)
        BY EncodeIsData, ConcatEmptySeq DEF Data
    <2>3. Encode(o, <<>>) = <<>> /\ <<>> \in Seq(Char)
        BY EncodeNothing
    <2> QED
        BY Zenon, <2>1, <2>2, <2>3
<1>2. ASSUME NEW u \in Seq(Char), NEW c \in Char, u \in S PROVE Append(u, c) \in S
    <2>1. s \o Append(u, c) = Append(s \o u, c) /\ s \o u \in Seq(Char)
        <3>1. Append(u, c) = u \o <<c>> /\ <<c>> \in Seq(Char)
            BY AppendIsConcat
        <3>2. s \o u \in Seq(Char)
            BY ConcatProperties
        <3>3. Append(s \o u, c) = (s \o u) \o <<c>>
            BY <3>2, AppendIsConcat
        <3>4. (s \o u) \o <<c>> = s \o (u \o <<c>>)
            BY <3>1, ConcatAssociative
        <3> QED BY <3>1, <3>2, <3>3, <3>4
    <2>2. Encode(o, Append(s \o u, c)) = Encode(o, s \o u) \o CharBytes(o, c)
        BY <2>1, EncodeMore
    <2>3. Encode(o, Append(u, c)) = Encode(o, u) \o CharBytes(o, c)
        BY EncodeMore
    <2>4. Encode(o, s) \in Seq(Byte) /\ Encode(o, u) \in Seq(Byte) /\ CharBytes(o, c) \in Seq(Byte)
        BY EncodeIsData, CharBytesAreData DEF Data
    <2>5. (Encode(o, s) \o Encode(o, u)) \o CharBytes(o, c)
          = Encode(o, s) \o (Encode(o, u) \o CharBytes(o, c))
        BY <2>4, ConcatAssociative
    <2>6. Encode(o, s \o u) = Encode(o, s) \o Encode(o, u)
        BY <1>2
    <2>7. Append(u, c) \in Seq(Char)
        BY AppendProperties
    <2> QED
        BY <2>1, <2>2, <2>3, <2>5, <2>6, <2>7
<1>3. t \in S
    <2> HIDE DEF S
    <2> QED BY <1>1, <1>2, SeqInductive
<1> QED
    BY <1>3

(* Options that write UTF-16 in the same byte order, or none, write alike. *)
LEMMA EncodeAlike ==
    ASSUME NEW o, NEW q, IsUtf16(o) <=> IsUtf16(q),
           IsUtf16(o) => ConfiguredOrder(o) = ConfiguredOrder(q), NEW t
    PROVE  Encode(o, t) = Encode(q, t)
<1>1. \A c : CharBytes(o, c) = CharBytes(q, c)
    <2> TAKE c
    <2>1. CASE IsUtf16(o)
        BY <2>1 DEF CharBytes
    <2>2. CASE ~IsUtf16(o)
        BY <2>2 DEF CharBytes
    <2> QED BY <2>1, <2>2
<1> QED
    BY <1>1 DEF Encode

(* No two texts are encoded alike.                                         *)
LEMMA EncodeInjective ==
    ASSUME NEW o, NEW t \in Seq(Char), NEW u \in Seq(Char), Encode(o, t) = Encode(o, u)
    PROVE  t = u
<1>1. Starts(Encode(o, t), Encode(o, u)) /\ Starts(Encode(o, u), Encode(o, t))
    BY EncodeIsData, StartsItself
<1>2. Starts(t, u) /\ Starts(u, t)
    BY <1>1, EncodeIsPrefixCode
<1>3. Len(t) = Len(u) /\ \A i \in 1 .. Len(t) : t[i] = u[i]
    <2>1. Len(t) \in Nat /\ Len(u) \in Nat
        OBVIOUS
    <2> QED BY <1>2, <2>1 DEF Starts
<1> QED
    BY <1>3, SeqEqual

----------------------------------------------------------------------------
(***************************************************************************)
(* DecodeUtf8 undoes Encode, and nothing but it.                           *)
(***************************************************************************)

(* What ScalarOf computes.                                                 *)
Scalar(b) ==
    CASE Len(b) = 1 -> b[1]
      [] Len(b) = 2 -> (b[1] % 32) * 64 + (b[2] % 64)
      [] Len(b) = 3 -> (b[1] % 16) * 4096 + (b[2] % 64) * 64 + (b[3] % 64)
      [] OTHER -> (b[1] % 8) * 262144 + (b[2] % 64) * 4096 + (b[3] % 64) * 64 + (b[4] % 64)

(* ScalarOf, by the number that the bits of b make.                        *)
LEMMA ScalarOfIsScalar ==
    ASSUME NEW b
    PROVE  ScalarOf(b) = {x \in {Scalar(b)} : Utf8(x) = b /\ x <= MaxChar /\ ~IsSurrogate(x)}
BY DEF ScalarOf, Scalar

(* The bits make a number.                                                 *)
LEMMA ScalarIsNat ==
    ASSUME NEW b \in Data, Len(b) \in 1 .. 4
    PROVE  Scalar(b) \in Nat
<1>1. ASSUME NEW i \in 1 .. Len(b) PROVE b[i] \in Nat
    <2> DEFINE x == b[i]
    <2>1. x \in Byte
        BY ElementOfSeq DEF Data
    <2> HIDE DEF x
    <2>2. x \in Nat
        BY <2>1, ByteIsInt
    <2> QED BY <2>2 DEF x
<1>2. CASE Len(b) = 1
    BY <1>1, <1>2 DEF Scalar
<1>3. CASE Len(b) = 2
    <2>1. b[1] % 32 \in Nat /\ b[2] % 64 \in Nat
        BY <1>1, <1>3
    <2>2. Scalar(b) = (b[1] % 32) * 64 + (b[2] % 64)
        BY <1>3 DEF Scalar
    <2> QED BY <2>1, <2>2
<1>4. CASE Len(b) = 3
    <2>1. b[1] % 16 \in Nat /\ b[2] % 64 \in Nat /\ b[3] % 64 \in Nat
        BY <1>1, <1>4
    <2>2. Scalar(b) = (b[1] % 16) * 4096 + (b[2] % 64) * 64 + (b[3] % 64)
        BY <1>4 DEF Scalar
    <2> QED BY <2>1, <2>2
<1>5. CASE Len(b) = 4
    <2>1. b[1] % 8 \in Nat /\ b[2] % 64 \in Nat /\ b[3] % 64 \in Nat /\ b[4] % 64 \in Nat
        BY <1>1, <1>5
    <2>2. Scalar(b) = (b[1] % 8) * 262144 + (b[2] % 64) * 4096 + (b[3] % 64) * 64 + (b[4] % 64)
        BY <1>5 DEF Scalar
    <2> QED BY SMT, <2>1, <2>2
<1> QED
    BY <1>2, <1>3, <1>4, <1>5

(* What ScalarOf finds is a character with these bytes.                    *)
LEMMA ScalarSound ==
    ASSUME NEW b \in Data, Len(b) \in 1 .. 4, NEW c \in ScalarOf(b)
    PROVE  c \in Char /\ Utf8(c) = b
<1>1. c = Scalar(b) /\ Utf8(c) = b /\ c <= MaxChar /\ ~IsSurrogate(c)
    BY ScalarOfIsScalar
<1>2. c \in Nat
    BY <1>1, ScalarIsNat
<1>3. c \in 0 .. MaxChar
    BY <1>1, <1>2, MaxCharIsNat
<1> QED
    BY <1>1, <1>3 DEF Char

(* The bits of a byte below the mark of its kind.                          *)
LEMMA LowBits ==
    ASSUME NEW x \in Nat
    PROVE  /\ 128 <= x /\ x < 192 => x % 64 = x - 128
           /\ 192 <= x /\ x < 224 => x % 32 = x - 192
           /\ 224 <= x /\ x < 240 => x % 16 = x - 224
           /\ 240 <= x /\ x < 245 => x % 8 = x - 240
BY SMT

(* The bits that Utf8 distributes are the ones that ScalarOf collects.     *)
LEMMA ScalarOfShape ==
    ASSUME NEW b \in Data, NEW c \in Nat, Shape(b, c)
    PROVE  Scalar(b) = c
<1>1. ASSUME NEW i \in 1 .. Len(b) PROVE b[i] \in Nat
    <2> DEFINE x == b[i]
    <2>1. x \in Byte
        BY ElementOfSeq DEF Data
    <2> HIDE DEF x
    <2>2. x \in Nat
        BY <2>1, ByteIsInt
    <2> QED BY <2>2 DEF x
<1>2. CASE Shape1(b, c)
    <2>1. Len(b) = 1 /\ c = b[1]
        BY SMT, <1>2 DEF Shape1
    <2> QED BY <2>1 DEF Scalar
<1>4. CASE Shape2(b, c)
    <2>0. Len(b) = 2
        BY SMT, <1>4 DEF Shape2
    <2> DEFINE b1 == b[1]
               b2 == b[2]
    <2>1. b1 \in Nat /\ b2 \in Nat
        BY <1>1, <2>0
    <2>2. /\ 192 <= b1 /\ b1 < 224 /\ 128 <= b2 /\ b2 < 192
          /\ c = (b1 - 192) * 64 + (b2 - 128)
        BY SMT, <1>4 DEF Shape2
    <2>3. Scalar(b) = (b1 % 32) * 64 + (b2 % 64)
        BY <2>0 DEF Scalar
    <2> HIDE DEF b1, b2
    <2>4. b1 % 32 = b1 - 192
        BY <2>1, <2>2, LowBits
    <2>5. b2 % 64 = b2 - 128
        BY <2>1, <2>2, LowBits
    <2> QED BY <2>2, <2>3, <2>4, <2>5
<1>5. CASE Shape3(b, c)
    <2>0. Len(b) = 3
        BY SMT, <1>5 DEF Shape3
    <2> DEFINE b1 == b[1]
               b2 == b[2]
               b3 == b[3]
    <2>1. b1 \in Nat /\ b2 \in Nat /\ b3 \in Nat
        BY <1>1, <2>0
    <2>2. /\ 224 <= b1 /\ b1 < 240 /\ 128 <= b2 /\ b2 < 192 /\ 128 <= b3 /\ b3 < 192
          /\ c = (b1 - 224) * 4096 + (b2 - 128) * 64 + (b3 - 128)
        BY SMT, <1>5 DEF Shape3
    <2>3. Scalar(b) = (b1 % 16) * 4096 + (b2 % 64) * 64 + (b3 % 64)
        BY <2>0 DEF Scalar
    <2> HIDE DEF b1, b2, b3
    <2>4. b1 % 16 = b1 - 224
        BY <2>1, <2>2, LowBits
    <2>5. b2 % 64 = b2 - 128 /\ b3 % 64 = b3 - 128
        BY <2>1, <2>2, LowBits
    <2> QED BY <2>2, <2>3, <2>4, <2>5
<1>6. CASE Shape4(b, c)
    <2>0. Len(b) = 4
        BY SMT, <1>6 DEF Shape4
    <2> DEFINE b1 == b[1]
               b2 == b[2]
               b3 == b[3]
               b4 == b[4]
    <2>1. b1 \in Nat /\ b2 \in Nat /\ b3 \in Nat /\ b4 \in Nat
        BY <1>1, <2>0
    <2>2. /\ 240 <= b1 /\ b1 < 245 /\ 128 <= b2 /\ b2 < 192 /\ 128 <= b3 /\ b3 < 192 /\ 128 <= b4 /\ b4 < 192
          /\ c = (b1 - 240) * 262144 + (b2 - 128) * 4096 + (b3 - 128) * 64 + (b4 - 128)
        BY SMT, <1>6 DEF Shape4
    <2>3. Scalar(b) = (b1 % 8) * 262144 + (b2 % 64) * 4096 + (b3 % 64) * 64 + (b4 % 64)
        BY <2>0 DEF Scalar
    <2> HIDE DEF b1, b2, b3, b4
    <2>4. b1 % 8 = b1 - 240
        BY <2>1, <2>2, LowBits
    <2>5. b2 % 64 = b2 - 128 /\ b3 % 64 = b3 - 128 /\ b4 % 64 = b4 - 128
        BY <2>1, <2>2, LowBits
    <2> QED BY <2>2, <2>3, <2>4, <2>5
<1> QED
    BY Zenon, <1>2, <1>4, <1>5, <1>6 DEF Shape

(* ScalarOf finds every character in its own bytes.                        *)
LEMMA ScalarComplete ==
    ASSUME NEW c \in Char
    PROVE  c \in ScalarOf(Utf8(c))
<1>1. c \in Nat /\ c <= MaxChar
    BY CharIsNat
<1>2. ~IsSurrogate(c)
    BY DEF Char
<1>3. Utf8(c) \in Data /\ Shape(Utf8(c), c)
    BY <1>1, Utf8Shape
<1>4. Scalar(Utf8(c)) = c
    BY <1>1, <1>3, ScalarOfShape
<1> QED
    BY <1>1, <1>2, <1>4, ScalarOfIsScalar

(* Min of two numbers.                                                     *)
LEMMA MinOfTwo ==
    ASSUME NEW a \in Int, NEW b \in Int
    PROVE  Min({a, b}) = IF a <= b THEN a ELSE b
<1> DEFINE m == IF a <= b THEN a ELSE b
<1>1. m \in {a, b} /\ \A y \in {a, b} : m <= y
    OBVIOUS
<1>2. \A x, z \in {a, b} : (\A y \in {a, b} : x <= y) /\ (\A y \in {a, b} : z <= y) => x = z
    OBVIOUS
<1>3. Min({a, b}) = CHOOSE x \in {a, b} : \A y \in {a, b} : x <= y
    BY DEF Min
<1> HIDE DEF m
<1>4. Min({a, b}) = m
    BY <1>1, <1>2, <1>3
<1> QED
    BY <1>4 DEF m

(* Data that is two pieces can be taken to pieces.                         *)
LEMMA Pieces ==
    ASSUME NEW b \in Data, NEW n \in 0 .. Len(b), NEW a \in Data, NEW c \in Data,
           a \o c = SubSeq(b, 1, n)
    PROVE  /\ Len(a) + Len(c) = n
           /\ a = SubSeq(b, 1, n - Len(c))
           /\ c = SubSeq(b, n - Len(c) + 1, n)
<1> DEFINE x == a \o c
           la == Len(a)
           lc == Len(c)
<1>1. /\ x \in Seq(Byte) /\ Len(x) = la + lc /\ la \in Nat /\ lc \in Nat
      /\ \A i \in 1 .. la + lc : x[i] = IF i <= la THEN a[i] ELSE c[i - la]
    <2>1. a \in Seq(Byte) /\ c \in Seq(Byte)
        BY DEF Data
    <2>2. la \in Nat /\ lc \in Nat
        BY DEF Data
    <2>3. /\ x \in Seq(Byte) /\ Len(x) = la + lc
          /\ \A i \in 1 .. la + lc : x[i] = IF i <= la THEN a[i] ELSE c[i - la]
        BY <2>1, ConcatProperties
    <2> QED BY <2>2, <2>3
<1>2. Len(x) = n /\ \A i \in 1 .. n : x[i] = b[i]
    BY DEF Data
<1>3. n \in Nat /\ n <= Len(b) /\ Len(b) \in Nat
    BY DEF Data
<1>4. a \in Seq(Byte) /\ c \in Seq(Byte) /\ b \in Seq(Byte)
    BY DEF Data
<1>5. la + lc = n
    BY <1>1, <1>2
<1>6. a = SubSeq(b, 1, n - lc)
    <2> DEFINE y == SubSeq(b, 1, n - lc)
    <2>1. n - lc = la /\ la \in 0 .. Len(b)
        BY <1>1, <1>3, <1>5
    <2>2. y \in Seq(Byte) /\ Len(y) = la /\ \A i \in 1 .. la : y[i] = b[i]
        <3>1. \A i \in 1 .. la : b[i] \in Byte
            BY <1>4, <2>1, ElementOfSeq
        <3> HIDE DEF la, lc
        <3> QED BY <1>1, <2>1, <3>1
    <2>3. \A i \in 1 .. la : a[i] = b[i]
        <3> HIDE DEF la, lc, x
        <3> QED BY <1>1, <1>2, <1>5
    <2> HIDE DEF y
    <2> QED
        BY <1>4, <2>2, <2>3, SeqEqual
<1>7. c = SubSeq(b, n - lc + 1, n)
    <2> DEFINE y == SubSeq(b, la + 1, n)
    <2>1. n - lc + 1 = la + 1 /\ la + 1 \in Int /\ n \in Int
        BY <1>1, <1>3, <1>5
    <2>2. y \in Seq(Byte) /\ Len(y) = lc /\ \A i \in 1 .. lc : y[i] = b[la + i]
        <3> HIDE DEF la, lc
        <3>1. \A i \in la + 1 .. n : b[i] \in Byte
            <4> TAKE i \in la + 1 .. n
            <4>1. i \in 1 .. Len(b)
                BY <1>1, <1>3
            <4> QED BY <1>4, <4>1, ElementOfSeq
        <3>2. y \in Seq(Byte) /\ Len(y) = (IF la + 1 <= n THEN n - (la + 1) + 1 ELSE 0)
              /\ \A i \in 1 .. n - (la + 1) + 1 : y[i] = b[la + 1 + i - 1]
            BY <2>1, <3>1, SubSeqProperties
        <3>3. n - (la + 1) + 1 = lc /\ (la + 1 <= n <=> lc # 0)
            BY <1>1, <1>5
        <3>4. Len(y) = lc
            BY <3>2, <3>3
        <3>5. \A i \in 1 .. lc : la + 1 + i - 1 = la + i
            BY <1>1
        <3> HIDE DEF y
        <3> QED BY <3>2, <3>3, <3>4, <3>5
    <2>3. \A i \in 1 .. lc : c[i] = b[la + i]
        <3> HIDE DEF la, lc, x
        <3> TAKE i \in 1 .. lc
        <3> DEFINE j == la + i
        <3>1. j \in 1 .. la + lc /\ ~(j <= la) /\ j - la = i /\ j \in 1 .. n
            BY <1>1, <1>5
        <3> HIDE DEF j
        <3>2. x[j] = c[j - la] /\ x[j] = b[j]
            BY <1>1, <1>2, <3>1
        <3>3. c[i] = b[j]
            BY <3>1, <3>2
        <3> QED BY <3>3 DEF j
    <2> HIDE DEF y
    <2>4. c = y
        BY <1>4, <2>2, <2>3, SeqEqual
    <2> QED BY <2>1, <2>4 DEF y
<1> QED
    BY <1>5, <1>6, <1>7

(* The texts that are encoded by the first n bytes.                        *)
Encoded(o, b, n) == {t \in Seq(Char) : Encode(o, t) = SubSeq(b, 1, n)}

(* A text that is encoded by n bytes ends with a character that is encoded *)
(* by the last of them.                                                    *)
LEMMA LastCharacter ==
    ASSUME NEW o, ~IsUtf16(o), NEW b \in Data, NEW n \in 1 .. Len(b),
           NEW t \in Encoded(o, b, n)
    PROVE  \E k \in 1 .. Min({4, n}), s \in Seq(Char), c \in Char :
               /\ t = Append(s, c)
               /\ s \in Encoded(o, b, n - k)
               /\ c \in ScalarOf(SubSeq(b, n - k + 1, n))
<1>1. t \in Seq(Char) /\ Encode(o, t) = SubSeq(b, 1, n)
    BY DEF Encoded
<1>2. Len(SubSeq(b, 1, n)) = n /\ n \in Nat /\ n # 0
    BY DEF Data
<1>3. t # <<>>
    <2>1. t = <<>> => Encode(o, t) = <<>>
        BY EncodeNothing
    <2>2. Len(<<>>) = 0
        OBVIOUS
    <2>3. Encode(o, t) # <<>>
        <3>1. Len(Encode(o, t)) = n
            BY <1>1, <1>2
        <3> QED BY <1>2, <2>2, <3>1
    <2> QED BY <2>1, <2>3
<1>4. PICK s \in Seq(Char), c \in Char : t = Append(s, c)
    BY <1>1, <1>3, SequenceEmptyOrAppend
<1> DEFINE x == Encode(o, s)
           y == Utf8(c)
           k == Len(y)
<1>5. Encode(o, t) = x \o y
    <2>1. CharBytes(o, c) = y
        BY DEF CharBytes
    <2>2. Encode(o, Append(s, c)) = x \o CharBytes(o, c)
        BY EncodeMore
    <2> QED BY <1>4, <2>1, <2>2
<1>6. x \in Data /\ y \in Data /\ k \in 1 .. 4
    <2>1. CharBytes(o, c) = y
        BY DEF CharBytes
    <2>2. CharBytes(o, c) \in Data /\ Len(CharBytes(o, c)) \in 1 .. 4
        BY CharBytesAreData
    <2> QED BY <2>1, <2>2, EncodeIsData
<1>7. x \o y = SubSeq(b, 1, n) /\ n \in 0 .. Len(b)
    BY <1>1, <1>5
<1>8. c \in ScalarOf(y)
    BY ScalarComplete
<1> HIDE DEF x, y
<1>9. Len(x) + k = n /\ x = SubSeq(b, 1, n - k) /\ y = SubSeq(b, n - k + 1, n)
    <2>1. x \in Data /\ y \in Data
        BY <1>6
    <2>2. x \o y = SubSeq(b, 1, n)
        BY <1>7
    <2>3. n \in 0 .. Len(b)
        BY <1>7
    <2>4. Len(x) + Len(y) = n /\ x = SubSeq(b, 1, n - Len(y)) /\ y = SubSeq(b, n - Len(y) + 1, n)
        BY ONLY b \in Data, <2>1, <2>2, <2>3, Pieces
    <2> QED BY <2>4
<1>10. k \in 1 .. Min({4, n})
    <2>1. Len(x) \in Nat
        BY <1>6 DEF Data
    <2>2. Min({4, n}) = IF 4 <= n THEN 4 ELSE n
        BY <1>2, MinOfTwo
    <2> HIDE DEF k
    <2> QED BY <1>2, <1>6, <1>9, <2>1, <2>2
<1>11. s \in Encoded(o, b, n - k)
    BY <1>9 DEF Encoded, x
<1>12. c \in ScalarOf(SubSeq(b, n - k + 1, n))
    BY <1>8, <1>9
<1> HIDE DEF k
<1> QED
    BY <1>4, <1>10, <1>11, <1>12

(* And the other way round.                                                *)
LEMMA OneCharacterMore ==
    ASSUME NEW o, ~IsUtf16(o), NEW b \in Data, NEW n \in 1 .. Len(b),
           NEW k \in 1 .. Min({4, n}),
           NEW s \in Encoded(o, b, n - k), NEW c \in ScalarOf(SubSeq(b, n - k + 1, n))
    PROVE  Append(s, c) \in Encoded(o, b, n)
<1>1. n \in Nat /\ k \in 1 .. 4 /\ k <= n /\ n <= Len(b) /\ Len(b) \in Nat
    <2>1. n \in Nat /\ Len(b) \in Nat /\ n <= Len(b)
        BY DEF Data
    <2>2. Min({4, n}) = IF 4 <= n THEN 4 ELSE n
        BY <2>1, MinOfTwo
    <2> QED BY <2>1, <2>2
<1> DEFINE x == SubSeq(b, 1, n - k)
           y == SubSeq(b, n - k + 1, n)
<1>2. s \in Seq(Char) /\ Encode(o, s) = x
    BY DEF Encoded
<1>3. y \in Data /\ Len(y) = k
    <2>1. \A i \in n - k + 1 .. n : b[i] \in Byte
        <3> TAKE i \in n - k + 1 .. n
        <3>1. i \in 1 .. Len(b)
            BY <1>1
        <3> QED BY <3>1, ElementOfSeq DEF Data
    <2>2. n - k + 1 \in Int /\ n \in Int /\ n - k + 1 <= n /\ n - (n - k + 1) + 1 = k
        BY <1>1
    <2>3. y \in Seq(Byte) /\ Len(y) = IF n - k + 1 <= n THEN n - (n - k + 1) + 1 ELSE 0
        BY <2>1, <2>2, SubSeqProperties
    <2> QED BY <2>2, <2>3 DEF Data
<1>4. c \in Char /\ Utf8(c) = y
    <2> HIDE DEF y
    <2>1. Len(y) \in 1 .. 4
        BY <1>1, <1>3
    <2>2. c \in ScalarOf(y)
        BY DEF y
    <2> QED BY <1>3, <2>1, <2>2, ScalarSound
<1>5. Append(s, c) \in Seq(Char) /\ Encode(o, Append(s, c)) = x \o y
    <2>1. CharBytes(o, c) = y
        BY <1>4 DEF CharBytes
    <2>2. Append(s, c) \in Seq(Char)
        BY <1>2, <1>4, AppendProperties
    <2>3. Encode(o, Append(s, c)) = Encode(o, s) \o CharBytes(o, c)
        BY <1>2, <1>4, EncodeMore
    <2> QED BY <1>2, <2>1, <2>2, <2>3
<1>6. x \o y = SubSeq(b, 1, n)
    <2>1. b \in Seq(Byte) /\ 1 \in 1 .. Len(b) + 1 /\ n - k \in 1 - 1 .. Len(b) /\ n \in n - k .. Len(b)
        BY <1>1 DEF Data
    <2> QED BY <2>1, ConcatAdjacentSubSeq
<1> QED
    BY <1>5, <1>6 DEF Encoded

(* What DecodeUtf8 computes for n from what it has for less than n.        *)
DecodeStep(b, g, n) ==
    IF n = 0 THEN {<<>>}
    ELSE UNION {{Append(chars, c) : chars \in g[n - k],
                                    c \in ScalarOf(SubSeq(b, n - k + 1, n))} :
                k \in {k \in 1 .. Min({4, n}) :
                          ScalarOf(SubSeq(b, n - k + 1, n)) # {}}}

(* What one step of DecodeUtf8 finds.                                      *)
LEMMA InDecodeStep ==
    ASSUME NEW b, NEW g, NEW n, n # 0
    PROVE  \A t : t \in DecodeStep(b, g, n) <=>
               \E k \in 1 .. Min({4, n}) : \E chars \in g[n - k] :
                   \E c \in ScalarOf(SubSeq(b, n - k + 1, n)) : t = Append(chars, c)
<1> DEFINE K == 1 .. Min({4, n})
           Sc(k) == ScalarOf(SubSeq(b, n - k + 1, n))
           More(k) == {Append(chars, c) : chars \in g[n - k], c \in Sc(k)}
<1>1. DecodeStep(b, g, n) = UNION {More(k) : k \in {k \in K : Sc(k) # {}}}
    BY DEF DecodeStep
<1>2. \A k : \A t : t \in More(k) <=> \E chars \in g[n - k] : \E c \in Sc(k) : t = Append(chars, c)
    OBVIOUS
<1> HIDE DEF K, Sc, More
<1>3. \A t : t \in DecodeStep(b, g, n) <=> \E k \in K : t \in More(k)
    BY <1>1, <1>2
<1>4. \A t : t \in DecodeStep(b, g, n) <=>
          \E k \in K : \E chars \in g[n - k] : \E c \in Sc(k) : t = Append(chars, c)
    BY <1>2, <1>3
<1> QED
    BY <1>4 DEF K, Sc

(* The sets of the texts that are encoded solve the equation.              *)
LEMMA EncodedSolves ==
    ASSUME NEW o, ~IsUtf16(o), NEW b \in Data, NEW n \in 0 .. Len(b),
           NEW g, \A m \in 0 .. n - 1 : g[m] = Encoded(o, b, m)
    PROVE  DecodeStep(b, g, n) = Encoded(o, b, n)
<1>1. CASE n = 0
    <2>1. SubSeq(b, 1, 0) = <<>>
        BY SubSeqEmpty
    <2>2. Encoded(o, b, 0) = {t \in Seq(Char) : Encode(o, t) = <<>>}
        BY <2>1 DEF Encoded
    <2>3. <<>> \in Seq(Char) /\ Encode(o, <<>>) = <<>>
        BY EncodeNothing
    <2>4. \A t \in Seq(Char) : Encode(o, t) = <<>> => t = <<>>
        BY <2>3, EncodeInjective
    <2>5. Encoded(o, b, 0) = {<<>>}
        BY <2>2, <2>3, <2>4
    <2> QED
        BY <1>1, <2>5 DEF DecodeStep
<1>2. CASE n # 0
    <2>1. n \in Nat /\ n \in 1 .. Len(b)
        BY <1>2 DEF Data
    <2>2. Min({4, n}) \in Nat /\ Min({4, n}) <= n
        BY <2>1, MinOfTwo
    <2>3. \A k \in 1 .. Min({4, n}) : g[n - k] = Encoded(o, b, n - k)
        <3> TAKE k \in 1 .. Min({4, n})
        <3>1. n - k \in 0 .. n - 1
            BY <2>1, <2>2
        <3> QED BY <3>1
    <2>4. ASSUME NEW t \in DecodeStep(b, g, n) PROVE t \in Encoded(o, b, n)
        <3>0. PICK k \in 1 .. Min({4, n}) : \E chars \in g[n - k] :
                   \E c \in ScalarOf(SubSeq(b, n - k + 1, n)) : t = Append(chars, c)
            BY <1>2, <2>4, InDecodeStep
        <3>1. PICK chars \in g[n - k], c \in ScalarOf(SubSeq(b, n - k + 1, n)) :
                   t = Append(chars, c)
            BY <3>0
        <3>2. chars \in Encoded(o, b, n - k)
            BY <2>3, <3>1
        <3> QED
            BY <2>1, <3>1, <3>2, OneCharacterMore
    <2>5. ASSUME NEW t \in Encoded(o, b, n) PROVE t \in DecodeStep(b, g, n)
        <3>1. PICK k \in 1 .. Min({4, n}), s \in Seq(Char), c \in Char :
                   /\ t = Append(s, c)
                   /\ s \in Encoded(o, b, n - k)
                   /\ c \in ScalarOf(SubSeq(b, n - k + 1, n))
            BY <2>1, <2>5, LastCharacter
        <3>2. s \in g[n - k]
            BY <2>3, <3>1
        <3> QED
            BY <1>2, <3>1, <3>2, InDecodeStep
    <2> QED
        BY <2>4, <2>5
<1> QED
    BY <1>1, <1>2

(* DecodeUtf8 finds every text that is encoded by b, and no other one.     *)
THEOREM Decoded ==
    ASSUME NEW o, ~IsUtf16(o), NEW b \in Data
    PROVE  DecodeUtf8(b) = {t \in Seq(Char) : Encode(o, t) = b}
<1> DEFINE N == 0 .. Len(b)
           Solves(g) == g = [n \in N |-> DecodeStep(b, g, n)]
           f == [n \in N |-> Encoded(o, b, n)]
<1>1. Len(b) \in Nat
    BY DEF Data
<1>2. DecodeUtf8(b) = (CHOOSE g : Solves(g))[Len(b)]
    BY DEF DecodeUtf8, DecodeStep
<1>3. Solves(f)
    <2>1. \A n \in N : f[n] = DecodeStep(b, f, n)
        <3> TAKE n \in N
        <3>1. \A m \in 0 .. n - 1 : f[m] = Encoded(o, b, m)
            <4> TAKE m \in 0 .. n - 1
            <4>1. m \in N
                BY <1>1
            <4> QED BY <4>1
        <3> HIDE DEF f
        <3>2. DecodeStep(b, f, n) = Encoded(o, b, n)
            BY <3>1, EncodedSolves
        <3> QED BY <3>2 DEF f
    <2> QED
        BY <2>1
<1> DEFINE g == CHOOSE g : Solves(g)
<1>4. Solves(g)
    <2>1. \E h : Solves(h)
        BY <1>3
    <2> HIDE DEF Solves
    <2> QED BY <2>1
<1> HIDE DEF g, f
<1>5. \A n \in N : g[n] = DecodeStep(b, g, n)
    BY <1>4
<1> DEFINE S == {n \in Nat : \A m \in N : m <= n => g[m] = Encoded(o, b, m)}
<1>6. ASSUME NEW n \in N, \A m \in 0 .. n - 1 : g[m] = Encoded(o, b, m)
      PROVE  g[n] = Encoded(o, b, n)
    <2>1. DecodeStep(b, g, n) = Encoded(o, b, n)
        BY <1>6, EncodedSolves
    <2> QED BY <1>5, <2>1
<1>7. 0 \in S
    <2>1. 0 \in N /\ \A m \in 0 .. 0 - 1 : g[m] = Encoded(o, b, m)
        BY <1>1
    <2>2. g[0] = Encoded(o, b, 0)
        BY <1>6, <2>1
    <2>3. \A m \in N : m <= 0 => m = 0
        BY <1>1
    <2> QED BY <2>2, <2>3
<1>8. ASSUME NEW n \in Nat, n \in S PROVE n + 1 \in S
    <2> SUFFICES ASSUME NEW m \in N, m <= n + 1 PROVE g[m] = Encoded(o, b, m)
        OBVIOUS
    <2>1. \A i \in 0 .. m - 1 : g[i] = Encoded(o, b, i)
        <3> TAKE i \in 0 .. m - 1
        <3>1. i \in N /\ i <= n
            BY <1>1
        <3> QED BY <1>8, <3>1
    <2> QED BY <1>6, <2>1
<1>9. Len(b) \in S
    <2> HIDE DEF S
    <2> QED BY <1>1, <1>7, <1>8, NatInductive
<1>10. g[Len(b)] = Encoded(o, b, Len(b))
    <2>1. Len(b) \in N /\ Len(b) <= Len(b)
        BY <1>1
    <2> QED BY <1>9, <2>1
<1>11. SubSeq(b, 1, Len(b)) = b
    BY SubSeqFull DEF Data
<1> QED
    BY <1>2, <1>10, <1>11 DEF g, Encoded

----------------------------------------------------------------------------
(***************************************************************************)
(* What is written of a text, with byte order mark and terminator.         *)
(***************************************************************************)
Bom(o) == IF o.bom THEN <<BomChar>> ELSE <<>>
Nul(o) == IF o.terminator THEN << 0 >> ELSE <<>>
Full(o, chars) == Bom(o) \o chars \o Nul(o)


(* Written encodes the text with its marks.                                *)
LEMMA WrittenIsFull == \A o, t : Written(o, t) = Encode(o, Full(o, t))
BY DEF Written, Full, Bom, Nul

(* Byte order mark and terminator are characters.                          *)
LEMMA MarksAreChars == BomChar \in Char /\ Short(BomChar) /\ BomChar \in Nat /\ 0 \in Char
<1>1. BomChar \in Nat /\ BomChar <= MaxChar /\ 57343 < BomChar /\ Short(BomChar)
    BY SMT, MaxCharIsNat DEF BomChar, Short
<1> HIDE DEF BomChar
<1>2. ~IsSurrogate(BomChar)
    BY SMT, <1>1 DEF IsSurrogate, IsHigh, IsLow
<1>3. 0 \in Char
    BY SMT, MaxCharIsNat DEF Char, IsSurrogate, IsHigh, IsLow
<1> QED
    BY <1>1, <1>2, <1>3, MaxCharIsNat DEF Char

(* Where the text is between the marks.                                    *)
LEMMA FullShape ==
    ASSUME NEW o, NEW t \in Seq(Char)
    PROVE  /\ Bom(o) \in Seq(Char) /\ Nul(o) \in Seq(Char) /\ Bom(o) \o t \in Seq(Char)
           /\ Full(o, t) = (Bom(o) \o t) \o Nul(o)
           /\ Full(o, t) \in Seq(Char)
           /\ Len(Full(o, t)) = Len(Bom(o)) + Len(t) + Len(Nul(o))
           /\ \A i \in 1 .. Len(t) : Full(o, t)[Len(Bom(o)) + i] = t[i]
<1> DEFINE p == Bom(o)
           e == Nul(o)
           x == p \o t
<1>1. p \in Seq(Char) /\ e \in Seq(Char)
    BY MarksAreChars DEF Bom, Nul
<1>2. Full(o, t) = x \o e
    BY DEF Full
<1> HIDE DEF p, e
<1>3. /\ x \in Seq(Char) /\ Len(x) = Len(p) + Len(t)
      /\ \A i \in 1 .. Len(p) + Len(t) : x[i] = IF i <= Len(p) THEN p[i] ELSE t[i - Len(p)]
    BY <1>1, ConcatProperties
<1> HIDE DEF x
<1>4. /\ x \o e \in Seq(Char) /\ Len(x \o e) = Len(x) + Len(e)
      /\ \A i \in 1 .. Len(x) + Len(e) : (x \o e)[i] = IF i <= Len(x) THEN x[i] ELSE e[i - Len(x)]
    <2>1. x \in Seq(Char) /\ e \in Seq(Char)
        BY <1>1, <1>3
    <2> QED BY ONLY <2>1, ConcatProperties
<1>5. Len(p) \in Nat /\ Len(t) \in Nat /\ Len(e) \in Nat
    BY <1>1
<1>6. ASSUME NEW i \in 1 .. Len(t) PROVE (x \o e)[Len(p) + i] = t[i]
    <2> DEFINE j == Len(p) + i
    <2>1. j \in 1 .. Len(x) + Len(e) /\ j <= Len(x) /\ j \in 1 .. Len(p) + Len(t)
          /\ ~(j <= Len(p)) /\ j - Len(p) = i
        BY <1>3, <1>5
    <2> HIDE DEF j
    <2>2. (x \o e)[j] = x[j] /\ x[j] = t[j - Len(p)]
        BY <1>3, <1>4, <2>1
    <2> QED BY <2>1, <2>2 DEF j
<1>7. Len(x \o e) = Len(p) + Len(t) + Len(e)
    BY <1>3, <1>4, <1>5
<1> QED
    BY <1>1, <1>2, <1>3, <1>4, <1>6, <1>7 DEF p, e, x

(* Between the same marks, the text that begins another one is seen.       *)
LEMMA FullStarts ==
    ASSUME NEW o, NEW s, o.bom = s.bom, o.terminator = s.terminator,
           NEW v \in Seq(Char), NEW t \in Seq(Char), Starts(Full(o, v), Full(s, t))
    PROVE  Starts(v, t)
<1> DEFINE p == Bom(o)
           e == Nul(o)
           x == Full(o, v)
           y == Full(s, t)
<1>1. /\ p \in Seq(Char) /\ e \in Seq(Char)
      /\ Len(x) = Len(p) + Len(v) + Len(e)
      /\ \A i \in 1 .. Len(v) : x[Len(p) + i] = v[i]
    BY FullShape
<1>2. /\ Len(y) = Len(p) + Len(t) + Len(e)
      /\ \A i \in 1 .. Len(t) : y[Len(p) + i] = t[i]
    <2>1. p = Bom(s) /\ e = Nul(s)
        BY DEF Bom, Nul
    <2>2. /\ Len(y) = Len(Bom(s)) + Len(t) + Len(Nul(s))
          /\ \A i \in 1 .. Len(t) : y[Len(Bom(s)) + i] = t[i]
        BY FullShape
    <2> HIDE DEF p, e, y
    <2> QED BY <2>1, <2>2
<1> HIDE DEF p, e, x, y
<1>3. Len(p) \in Nat /\ Len(e) \in Nat /\ Len(v) \in Nat /\ Len(t) \in Nat
    BY <1>1
<1>4. Len(x) <= Len(y) /\ \A i \in 1 .. Len(x) : x[i] = y[i]
    BY DEF Starts, x, y
<1>5. Len(v) <= Len(t)
    BY <1>1, <1>2, <1>3, <1>4
<1>6. ASSUME NEW i \in 1 .. Len(v) PROVE v[i] = t[i]
    <2> DEFINE j == Len(p) + i
    <2>1. j \in 1 .. Len(x) /\ i \in 1 .. Len(t)
        BY <1>1, <1>3, <1>5
    <2>2. x[j] = v[i] /\ y[j] = t[i]
        BY <1>1, <1>2, <2>1
    <2> HIDE DEF j
    <2> QED BY <1>4, <2>1, <2>2
<1> QED
    BY <1>5, <1>6 DEF Starts

(* A byte order mark shows the byte order.                                 *)
LEMMA BomShows ==
    ASSUME NEW o, IsUtf16(o), o.bom, NEW t \in Seq(Char)
    PROVE  /\ Starts(CharBytes(o, BomChar), Written(o, t))
           /\ CharBytes(o, BomChar) = BytesOf(BomChar, ConfiguredOrder(o))
           /\ CharBytes(o, BomChar) \in Data
           /\ Written(o, t) \in Data
<1> DEFINE w == Full(o, t)
           c == CharBytes(o, BomChar)
<1>1. c = BytesOf(BomChar, ConfiguredOrder(o)) /\ c \in Data
    BY MarksAreChars, CharIsNat, Utf16Bytes, CharBytesAreData
<1>2. w \in Seq(Char) /\ w[1] = BomChar /\ Len(w) >= 1
    <2> DEFINE e == Nul(o)
               b == <<BomChar>>
    <2>1. b \in Seq(Char) /\ e \in Seq(Char) /\ Len(b) = 1 /\ b[1] = BomChar
        BY MarksAreChars DEF Nul
    <2>2. w = (b \o t) \o e
        BY DEF Full, Bom
    <2> HIDE DEF b, e
    <2>3. b \o t \in Seq(Char) /\ Len(b \o t) = Len(b) + Len(t)
          /\ \A i \in 1 .. Len(b) + Len(t) : (b \o t)[i] = IF i <= Len(b) THEN b[i] ELSE t[i - Len(b)]
        <3>1. b \in Seq(Char)
            BY <2>1
        <3> QED BY ONLY <3>1, t \in Seq(Char), ConcatProperties
    <2> DEFINE x == b \o t
    <2>4. x \in Seq(Char) /\ Len(x) >= 1 /\ x[1] = BomChar
        <3>1. 1 \in 1 .. Len(b) + Len(t) /\ 1 <= Len(b) /\ Len(t) \in Nat
            BY <2>1
        <3> QED BY <2>1, <2>3, <3>1
    <2> HIDE DEF x
    <2>5. x \o e \in Seq(Char) /\ Len(x \o e) = Len(x) + Len(e)
          /\ \A i \in 1 .. Len(x) + Len(e) : (x \o e)[i] = IF i <= Len(x) THEN x[i] ELSE e[i - Len(x)]
        BY <2>1, <2>4, ConcatProperties
    <2>6. 1 \in 1 .. Len(x) + Len(e) /\ 1 <= Len(x) /\ Len(e) \in Nat /\ Len(x) \in Nat
        BY <2>1, <2>4
    <2>7. (x \o e)[1] = BomChar /\ Len(x \o e) >= 1
        BY <2>4, <2>5, <2>6
    <2> QED
        BY <2>2, <2>5, <2>7 DEF x
<1> HIDE DEF w
<1>3. Encode(o, SubSeq(w, 1, 1)) = c
    <2>1. SubSeq(w, 1, 0) = <<>>
        BY SubSeqEmpty
    <2>2. 0 \in Nat /\ 0 + 1 <= Len(w) /\ 0 + 1 = 1
        BY <1>2
    <2>3. Encode(o, SubSeq(w, 1, 0 + 1)) = Encode(o, SubSeq(w, 1, 0)) \o CharBytes(o, w[0 + 1])
        BY <1>2, <2>2, EncodeOneMore
    <2>4. Encode(o, <<>>) = <<>>
        BY EncodeNothing
    <2>5. Encode(o, SubSeq(w, 1, 1)) = <<>> \o c
        BY <1>2, <2>1, <2>2, <2>3, <2>4
    <2>6. <<>> \o c = c
        BY <1>1, ConcatEmptySeq DEF Data
    <2> QED BY <2>5, <2>6
<1>4. Starts(c, Encode(o, w))
    <2>1. 1 \in 0 .. Len(w)
        BY <1>2
    <2> QED BY <1>2, <1>3, <2>1, EncodeStarts
<1>5. Encode(o, w) = Written(o, t) /\ Encode(o, w) \in Data
    BY <1>2, WrittenIsFull, EncodeIsData DEF w
<1> QED
    BY <1>1, <1>4, <1>5

(* The bytes of the byte order mark, as read_utf16_string compares them.   *)
LEMMA BomBytes ==
    /\ BytesOf(BomChar, "Big") = <<254, 255>>
    /\ BytesOf(BomChar, "Little") = <<255, 254>>
<1>1. BomChar \div 256 = 254 /\ BomChar % 256 = 255
    BY SMT DEF BomChar
<1> HIDE DEF BomChar
<1> QED
    BY <1>1 DEF BytesOf

(* Who writes the byte order mark of data that starts with it has the byte *)
(* order of who wrote them.                                                *)
LEMMA SameOrder ==
    ASSUME NEW o, IsUtf16(o), ConfiguredOrder(o) \in Order,
           NEW s, IsUtf16(s), ConfiguredOrder(s) \in Order, s.bom,
           NEW t \in Seq(Char), Starts(CharBytes(o, BomChar), Written(s, t))
    PROVE  ConfiguredOrder(o) = ConfiguredOrder(s)
<1> DEFINE x == BytesOf(BomChar, ConfiguredOrder(o))
           y == BytesOf(BomChar, ConfiguredOrder(s))
           z == Written(s, t)
<1>1. CharBytes(o, BomChar) = x
    BY MarksAreChars, CharIsNat, Utf16Bytes
<1>2. CharBytes(s, BomChar) = y /\ Starts(y, z)
    BY BomShows
<1>3. Len(x) = 2 /\ Len(y) = 2
    BY BomBytes DEF Order
<1>4. x[1] = y[1]
    <2>1. Starts(x, z) /\ Starts(y, z)
        BY <1>1, <1>2
    <2> HIDE DEF x, y, z
    <2>2. 1 \in 1 .. Len(x) /\ 1 \in 1 .. Len(y)
        BY <1>3
    <2> QED BY <2>1, <2>2 DEF Starts
<1>5. x = (IF ConfiguredOrder(o) = "Big" THEN <<254, 255>> ELSE <<255, 254>>)
      /\ y = (IF ConfiguredOrder(s) = "Big" THEN <<254, 255>> ELSE <<255, 254>>)
    BY BomBytes DEF Order
<1>6. <<254, 255>>[1] = 254 /\ <<255, 254>>[1] = 255
    OBVIOUS
<1> HIDE DEF x, y
<1> QED
    BY <1>4, <1>5, <1>6 DEF Order

(* Texts that are written alike, as far as one of them goes.               *)
LEMMA SameText ==
    ASSUME NEW o, NEW s, o.bom = s.bom, o.terminator = s.terminator,
           IsUtf16(o) <=> IsUtf16(s),
           IsUtf16(o) => ConfiguredOrder(o) \in Order /\ ConfiguredOrder(s) \in Order,
           IsUtf16(o) /\ ~o.bom => ConfiguredOrder(o) = ConfiguredOrder(s),
           NEW v \in Seq(Char), NEW t \in Seq(Char), Starts(Written(o, v), Written(s, t))
    PROVE  Starts(v, t)
<1>1. IsUtf16(o) => ConfiguredOrder(o) = ConfiguredOrder(s)
    <2> SUFFICES ASSUME IsUtf16(o), o.bom PROVE ConfiguredOrder(o) = ConfiguredOrder(s)
        OBVIOUS
    <2>1. Starts(CharBytes(o, BomChar), Written(o, v))
          /\ CharBytes(o, BomChar) \in Data /\ Written(o, v) \in Data
        BY BomShows
    <2>2. Written(s, t) \in Data
        BY BomShows
    <2>3. Starts(CharBytes(o, BomChar), Written(s, t))
        BY <2>1, <2>2, StartsTransitive
    <2> QED
        BY <2>3, SameOrder
<1>2. Full(o, v) \in Seq(Char) /\ Full(s, t) \in Seq(Char)
    BY FullShape
<1>3. Written(o, v) = Encode(s, Full(o, v))
    <2>1. Encode(o, Full(o, v)) = Encode(s, Full(o, v))
        BY <1>1, EncodeAlike
    <2> QED BY <2>1, WrittenIsFull
<1>4. Written(s, t) = Encode(s, Full(s, t))
    BY WrittenIsFull
<1>5. Starts(Full(o, v), Full(s, t))
    BY <1>2, <1>3, <1>4, EncodeIsPrefixCode
<1> QED
    BY <1>5, FullStarts

----------------------------------------------------------------------------
(***************************************************************************)
(* The inductive invariant.  What has been read is what a serializer would *)
(* have written of it, byte for byte; and if a serializer has written the  *)
(* data, then neither a character nor a unit is found to be wrong.         *)
(***************************************************************************)
(* The options with the byte order that was found out.                     *)
Actual == [opts EXCEPT !.encoding = "Utf16", !.order = order]

SendersAreRelated ==
    \/ sender = opts
    \/ /\ IsUtf16(sender) /\ IsUtf16(opts) /\ sender.bom /\ opts.bom
       /\ sender.terminator = opts.terminator

Begun == Bom(opts) \o value
Waiting == IF high = None THEN <<>> ELSE BytesOf(high, order)

Flow ==
    /\ lent => available = Len(data)
    /\ pc = "borrow" => lent /\ opts.encoding # "Utf16"
    /\ pc = "utf8" => ~IsUtf16(opts)
    /\ pc \in {"utf16", "units"} => IsUtf16(opts)
    /\ pc \in {"write", "begin", "borrow", "utf8", "utf16"} =>
           at = 0 /\ high = None /\ value = <<>>
    /\ pc \notin {"write", "refused"} /\ sender.encoding = "Ascii" => IsAscii(sent)
    /\ pc = "ok" /\ IsUtf16(opts) => Wanted <= available

UnitsRead ==
    pc = "units" =>
        /\ Wanted % 2 = 0 /\ at % 2 = 0 /\ at <= Wanted /\ at <= available
        /\ ~opts.bom => order = ConfiguredOrder(opts)
        /\ Encode(Actual, Begun) \o Waiting = SubSeq(data, 1, at)

AcceptedWritten ==
    pc = "ok" /\ ~Mistaken =>
        \E o \in {opts, Actual} :
            /\ o = opts \/ (IsUtf16(opts) /\ opts.bom)
            /\ Written(o, value) = SubSeq(data, 1, Min({Wanted, available}))

NoFalseAlarm ==
    Genuine /\ ~Mistaken /\ Wanted = Len(data) =>
        /\ pc = "CannotCodeString" => available < Len(data) /\ ~IsUtf16(opts)
        /\ pc = "IoError" => available < Len(data)

IInv ==
    /\ TypeOK
    /\ SendersAreRelated
    /\ Flow
    /\ UnitsRead
    /\ AcceptedWritten
    /\ NoFalseAlarm

(* The beginning of data.                                                  *)
LEMMA Beginning ==
    ASSUME NEW b \in Data, NEW m \in 0 .. Len(b)
    PROVE  /\ SubSeq(b, 1, m) \in Data /\ Len(SubSeq(b, 1, m)) = m
           /\ \A i \in 1 .. m : SubSeq(b, 1, m)[i] = b[i]
           /\ Starts(SubSeq(b, 1, m), b)
<1>1. m \in Nat /\ m <= Len(b) /\ Len(b) \in Nat
    BY DEF Data
<1>2. \A i \in 1 .. m : b[i] \in Byte
    <2> TAKE i \in 1 .. m
    <2>1. i \in 1 .. Len(b)
        BY <1>1
    <2> QED BY <2>1, ElementOfSeq DEF Data
<1>3. /\ SubSeq(b, 1, m) \in Seq(Byte) /\ Len(SubSeq(b, 1, m)) = m
      /\ \A i \in 1 .. m : SubSeq(b, 1, m)[i] = b[i]
    BY <1>1, <1>2
<1> QED
    BY <1>1, <1>3 DEF Starts, Data

(* What is wanted and what is available is within the data.                *)
LEMMA WantedIsInData ==
    ASSUME TypeOK
    PROVE  /\ Wanted \in Nat /\ Wanted <= Len(data) /\ Len(data) \in Nat
           /\ available \in Nat /\ available <= Len(data)
           /\ Min({Wanted, available}) = IF Wanted <= available THEN Wanted ELSE available
<1>1. Len(data) \in Nat /\ available \in 0 .. Len(data) /\ maxSize \in Nat
    BY DEF TypeOK, Data
<1>2. Wanted \in Nat /\ Wanted <= Len(data)
    BY <1>1 DEF Wanted
<1> HIDE DEF Wanted
<1>3. Wanted \in Int /\ available \in Int /\ available <= Len(data)
    BY <1>1, <1>2
<1>4. Min({Wanted, available}) = IF Wanted <= available THEN Wanted ELSE available
    BY <1>3, MinOfTwo
<1> QED
    BY <1>1, <1>2, <1>4

(* The options with the byte order that was found out.                     *)
LEMMA ActualIsConfigured ==
    ASSUME TypeOK
    PROVE  /\ IsUtf16(Actual) /\ ConfiguredOrder(Actual) = order /\ order \in Order
           /\ Actual.bom = opts.bom /\ Actual.terminator = opts.terminator
           /\ ConfiguredOrder(opts) \in Order /\ ConfiguredOrder(sender) \in Order
<1>1. opts \in StringOptions /\ sender \in StringOptions /\ order \in Order
    BY DEF TypeOK, Order
<1>2. Actual.encoding = "Utf16" /\ Actual.order = order /\ Actual.bom = opts.bom
      /\ Actual.terminator = opts.terminator
    BY <1>1 DEF Actual, StringOptions
<1>3. IsUtf16(Actual) /\ ConfiguredOrder(Actual) = order
    BY <1>2 DEF IsUtf16, ConfiguredOrder
<1> QED
    BY <1>1, <1>2, <1>3, OrderOfOptions

(* What was accepted is the text that was sent, as far as it has come.     *)
LEMMA AcceptedIsSent ==
    ASSUME TypeOK, SendersAreRelated, AcceptedWritten,
           pc = "ok", ~Mistaken, data = Written(sender, sent)
    PROVE  /\ Starts(value, sent)
           /\ Wanted = Len(data) /\ available = Len(data) => value = sent
<1>1. value \in Seq(Char) /\ sent \in Seq(Char) /\ data \in Data
    BY TextIsChars DEF TypeOK
<1> DEFINE m == Min({Wanted, available})
<1>2. m \in 0 .. Len(data) /\ (Wanted = Len(data) /\ available = Len(data) => m = Len(data))
    <2> HIDE DEF Wanted
    <2> QED BY WantedIsInData
<1>3. PICK o \in {opts, Actual} :
          /\ o = opts \/ (IsUtf16(opts) /\ opts.bom)
          /\ Written(o, value) = SubSeq(data, 1, m)
    BY DEF AcceptedWritten
<1> HIDE DEF m
<1>4. o.bom = sender.bom /\ o.terminator = sender.terminator
    BY <1>3, ActualIsConfigured DEF SendersAreRelated
<1>5. IsUtf16(o) <=> IsUtf16(sender)
    BY <1>3, ActualIsConfigured DEF SendersAreRelated
<1>6. ConfiguredOrder(o) \in Order /\ ConfiguredOrder(sender) \in Order
    BY <1>3, ActualIsConfigured
<1>7. IsUtf16(o) /\ ~o.bom => ConfiguredOrder(o) = ConfiguredOrder(sender)
    BY <1>3, ActualIsConfigured DEF SendersAreRelated
<1>8. Starts(Written(o, value), Written(sender, sent))
    BY <1>1, <1>2, <1>3, Beginning
<1>9. Starts(value, sent)
    BY <1>1, <1>4, <1>5, <1>6, <1>7, <1>8, SameText
<1>10. ASSUME Wanted = Len(data) /\ available = Len(data) PROVE value = sent
    <2>1. Written(o, value) = Written(sender, sent)
        <3>1. SubSeq(data, 1, Len(data)) = data
            BY <1>1, SubSeqFull DEF Data
        <3> QED BY <1>2, <1>3, <1>10, <3>1
    <2>2. Starts(Written(sender, sent), Written(o, value))
        BY <1>1, <2>1, StartsItself
    <2>3. Starts(sent, value)
        <3>1. sender.bom = o.bom /\ sender.terminator = o.terminator /\ (IsUtf16(sender) <=> IsUtf16(o))
              /\ (IsUtf16(sender) => ConfiguredOrder(sender) \in Order /\ ConfiguredOrder(o) \in Order)
              /\ (IsUtf16(sender) /\ ~sender.bom => ConfiguredOrder(sender) = ConfiguredOrder(o))
            BY <1>4, <1>5, <1>6, <1>7
        <3> QED BY <1>1, <2>2, <3>1, SameText
    <2>4. Len(value) = Len(sent) /\ \A i \in 1 .. Len(value) : value[i] = sent[i]
        <3>1. Len(value) \in Nat /\ Len(sent) \in Nat
            BY <1>1
        <3> QED BY <1>9, <2>3, <3>1 DEF Starts
    <2> QED BY <1>1, <2>4, SeqEqual
<1> QED
    BY <1>9, <1>10

(* The properties follow from the invariant.                               *)
LEMMA InvGivesCutText == IInv => CutTextIsPrefix
<1> SUFFICES ASSUME IInv, pc = "ok", Genuine, ~Mistaken PROVE IsPrefix(value, sent)
    BY DEF CutTextIsPrefix
<1>1. Starts(value, sent)
    BY AcceptedIsSent DEF IInv, Genuine
<1>2. value \in Seq(Char) /\ sent \in Seq(Char)
    BY TextIsChars DEF IInv, TypeOK
<1>3. Len(value) <= Len(sent) /\ \A i \in 1 .. Len(value) : value[i] = sent[i]
    BY <1>1 DEF Starts
<1>4. Len(value) \in Nat /\ Len(sent) \in Nat
    BY <1>2
<1>5. SubSeq(value, 1, Len(value)) = SubSeq(sent, 1, Len(value))
    <2> DEFINE n == Len(value)
               x == SubSeq(sent, 1, n)
    <2>1. x \in Seq(Char) /\ Len(x) = n /\ \A i \in 1 .. n : x[i] = sent[i]
        <3>1. n \in Nat /\ \A i \in 1 .. n : sent[i] \in Char
            BY <1>2, <1>3, <1>4, ElementOfSeq
        <3> HIDE DEF n
        <3> QED BY <3>1
    <2> HIDE DEF x
    <2>2. value = x
        BY <1>2, <1>3, <2>1, SeqEqual
    <2>3. SubSeq(value, 1, n) = value
        BY <1>2, SubSeqFull
    <2> QED BY <2>2, <2>3 DEF x
<1> QED
    BY <1>3, <1>5 DEF IsPrefix

(* Hence a text that arrives completely is read.                           *)
LEMMA InvGivesTextArrives == IInv => TextArrives
<1> SUFFICES ASSUME IInv, Ended, Genuine, Whole, ~Mistaken, pc # "TooMuchData"
             PROVE  pc = "ok" /\ value = sent
    BY DEF TextArrives
<1>1. Wanted = Len(data) /\ available = Len(data) /\ data = Written(sender, sent)
    BY DEF Whole, Genuine
<1>2. Len(data) \in Nat
    BY DEF IInv, TypeOK, Data
<1>3. pc # "CannotCodeString" /\ pc # "IoError"
    <2>1. ~(available < Len(data))
        BY <1>1, <1>2
    <2> HIDE DEF Wanted
    <2> QED BY <1>1, <2>1 DEF IInv, NoFalseAlarm
<1>4. pc = "ok"
    BY <1>3 DEF Ended, Errors
<1> HIDE DEF Wanted
<1> QED
    BY <1>1, <1>4, AcceptedIsSent DEF IInv

(* Hence what is accepted is what would have been written.                 *)
LEMMA InvGivesAcceptedAsWritten == IInv => AcceptedAsWritten
<1> SUFFICES ASSUME IInv, pc = "ok", available = Len(data), ~Mistaken
             PROVE  \E o \in {opts, Actual} :
                        /\ o = opts \/ (IsUtf16(opts) /\ opts.bom)
                        /\ Written(o, value) = SubSeq(data, 1, Wanted)
    BY DEF AcceptedAsWritten, Actual
<1>1. Min({Wanted, available}) = Wanted
    <2> HIDE DEF Wanted
    <2> QED BY WantedIsInData DEF IInv
<1> HIDE DEF Wanted
<1> QED
    BY <1>1 DEF IInv, AcceptedWritten

(* Hence an early end is reported as such.                                 *)
LEMMA InvGivesEarlyEnd == IInv => EarlyEndIsReported
<1> SUFFICES ASSUME IInv, Ended, Genuine, IsUtf16(opts), Wanted = Len(data),
                    available < Len(data), pc # "TooMuchData"
             PROVE  pc = "IoError"
    BY DEF EarlyEndIsReported
<1> HIDE DEF Wanted
<1>1. Wanted \in Nat /\ available \in Nat /\ Len(data) \in Nat
    BY WantedIsInData DEF IInv
<1>2. ~Mistaken
    <2>1. available # Len(data)
        BY <1>1
    <2> QED BY <2>1 DEF IInv, Flow, Mistaken
<1>3. pc # "CannotCodeString"
    BY <1>2 DEF IInv, NoFalseAlarm
<1>4. pc # "ok"
    <2>1. ~(Wanted <= available)
        BY <1>1
    <2> QED BY <2>1 DEF IInv, Flow
<1> QED
    BY <1>3, <1>4 DEF Ended, Errors

----------------------------------------------------------------------------
(***************************************************************************)
(* The invariant holds initially and in every step.                        *)
(***************************************************************************)
LEMMA InitIInv == Init => IInv
<1> SUFFICES ASSUME Init PROVE IInv
    OBVIOUS
<1>1. opts \in StringOptions /\ OptionSet \subseteq StringOptions
    BY StringsAssumption DEF Init
<1>2. <<>> \in Text
    BY TextIsChars
<1>3. sent \in Text /\ data \in Data /\ maxSize \in Nat
    <2>1. <<>> \in Data
        BY DEF Data
    <2> QED BY <1>2, <2>1, StringsAssumption DEF Init
<1>4. sender \in StringOptions /\ SendersAreRelated
    <2>1. CASE sender = opts
        BY <1>1, <2>1 DEF SendersAreRelated
    <2>2. CASE sender \in Senders(opts)
        BY <1>1, <2>2 DEF Senders, SendersAreRelated
    <2> QED BY <2>1, <2>2 DEF Init
<1>5. Len(data) \in Nat /\ available = Len(data)
    BY <1>3 DEF Init, Data
<1>6. TypeOK
    <2>1. available \in 0 .. Len(data) /\ at \in 0 .. Len(data)
        BY <1>5 DEF Init
    <2>2. lent \in BOOLEAN /\ order \in {"Big", "Little"} /\ high = None /\ value \in Text
        BY <1>2 DEF Init
    <2>3. pc \in {"write", "begin", "borrow", "utf8", "utf16", "units", "refused"}
        BY DEF Init
    <2> QED BY <1>1, <1>3, <1>4, <2>1, <2>2, <2>3 DEF TypeOK
<1>7. Flow
    <2>1. pc = "write" \/ (pc = "begin" /\ sent = <<>>)
        BY DEF Init
    <2>2. sent = <<>> => IsAscii(sent)
        BY DEF IsAscii
    <2>3. pc # "borrow" /\ pc # "utf8" /\ pc \notin {"utf16", "units"} /\ pc # "ok"
        BY <2>1
    <2> QED BY <1>5, <2>1, <2>2, <2>3 DEF Init, Flow
<1>8. pc \notin {"units", "ok", "CannotCodeString", "IoError"}
    BY DEF Init
<1> QED
    BY <1>4, <1>6, <1>7, <1>8 DEF IInv, UnitsRead, AcceptedWritten, NoFalseAlarm

(* Standing still keeps the invariant.                                     *)
LEMMA StoppedIInv == IInv /\ UNCHANGED vars => IInv'
<1> SUFFICES ASSUME IInv, UNCHANGED vars PROVE IInv'
    OBVIOUS
<1>1. /\ opts' = opts /\ sender' = sender /\ sent' = sent /\ data' = data /\ maxSize' = maxSize
      /\ lent' = lent /\ available' = available /\ at' = at /\ order' = order /\ high' = high
      /\ value' = value /\ pc' = pc
    BY DEF vars
<1>2. TypeOK'
    BY <1>1 DEF IInv, TypeOK, Ended
<1>3. SendersAreRelated'
    BY <1>1 DEF IInv, SendersAreRelated
<1>4. Wanted' = Wanted /\ Mistaken' = Mistaken /\ (Genuine' <=> Genuine) /\ Actual' = Actual
      /\ Begun' = Begun /\ Waiting' = Waiting
    BY <1>1 DEF Wanted, Mistaken, Genuine, Actual, Begun, Waiting
<1>5. Flow'
    BY <1>1, <1>4 DEF IInv, Flow
<1>6. UnitsRead'
    BY <1>1, <1>4 DEF IInv, UnitsRead
<1>7. AcceptedWritten'
    BY <1>1, <1>4 DEF IInv, AcceptedWritten
<1>8. NoFalseAlarm'
    BY <1>1, <1>4 DEF IInv, NoFalseAlarm
<1> QED
    BY <1>2, <1>3, <1>5, <1>6, <1>7, <1>8 DEF IInv

----------------------------------------------------------------------------
(***************************************************************************)
(* What the actions find out.                                              *)
(***************************************************************************)

(* The beginning of a text is a text.                                      *)
LEMMA CharsOfData ==
    ASSUME NEW t \in Seq(Char), NEW n \in Nat, n <= Len(t)
    PROVE  /\ SubSeq(t, 1, n) \in Seq(Char) /\ Len(SubSeq(t, 1, n)) = n
           /\ \A i \in 1 .. n : SubSeq(t, 1, n)[i] = t[i]
<1>1. \A i \in 1 .. n : t[i] \in Char
    <2> TAKE i \in 1 .. n
    <2>1. i \in 1 .. Len(t)
        OBVIOUS
    <2> QED BY <2>1, ElementOfSeq
<1> QED
    BY <1>1

(* Unterminated takes the terminator away, if there is one.                *)
LEMMA UnterminatedIs ==
    ASSUME NEW t \in Seq(Char), NEW x
    PROVE  x \in Unterminated(t) <=> x \in Seq(Char) /\ t = x \o Nul(opts)
<1>1. CASE ~opts.terminator
    <2>1. Unterminated(t) = {t} /\ Nul(opts) = <<>>
        BY <1>1 DEF Unterminated, Nul
    <2>2. \A y \in Seq(Char) : y \o <<>> = y
        BY ConcatEmptySeq
    <2> QED BY <2>1, <2>2
<1>2. CASE opts.terminator
    <2>1. Nul(opts) = << 0 >>
        BY <1>2 DEF Nul
    <2>2. x \in Unterminated(t) <=> t # <<>> /\ Last(t) = 0 /\ x = Front(t)
        <3>1. Unterminated(t) = {y \in {IF t = <<>> THEN t ELSE Front(t)} : t # <<>> /\ Last(t) = 0}
            BY <1>2 DEF Unterminated
        <3> QED BY <3>1
    <2>3. ASSUME x \in Unterminated(t) PROVE x \in Seq(Char) /\ t = x \o << 0 >>
        <3>1. t # <<>> /\ Last(t) = 0 /\ x = Front(t)
            BY <2>2, <2>3
        <3>2. PICK s \in Seq(Char), c \in Char : t = Append(s, c)
            BY <3>1, SequenceEmptyOrAppend
        <3>3. /\ Len(t) = Len(s) + 1 /\ Len(s) \in Nat
              /\ \A i \in 1 .. Len(s) : t[i] = s[i]
              /\ t[Len(s) + 1] = c
            BY <3>2, AppendProperties
        <3>4. c = 0
            BY <3>1, <3>3 DEF Last
        <3>5. x = SubSeq(t, 1, Len(s))
            <4>1. Len(t) - 1 = Len(s)
                BY <3>3
            <4> QED BY <3>1, <4>1 DEF Front
        <3>6. x \in Seq(Char) /\ Len(x) = Len(s) /\ \A i \in 1 .. Len(s) : x[i] = t[i]
            BY <3>3, <3>5, CharsOfData
        <3>7. x = s
            BY <3>3, <3>6, SeqEqual
        <3>8. t = s \o <<c>>
            BY <3>2, AppendIsConcat
        <3> QED BY <3>4, <3>7, <3>8
    <2>4. ASSUME x \in Seq(Char), t = x \o << 0 >> PROVE x \in Unterminated(t)
        <3>1. t = Append(x, 0)
            BY <2>4, MarksAreChars, AppendIsConcat
        <3>2. /\ Len(t) = Len(x) + 1 /\ Len(x) \in Nat /\ t # <<>>
              /\ \A i \in 1 .. Len(x) : t[i] = x[i]
              /\ t[Len(x) + 1] = 0
            BY <2>4, <3>1, MarksAreChars, AppendProperties
        <3>3. Last(t) = 0
            BY <3>2 DEF Last
        <3>4. Front(t) = SubSeq(t, 1, Len(x))
            <4>1. Len(t) - 1 = Len(x)
                BY <3>2
            <4> QED BY <4>1 DEF Front
        <3>5. SubSeq(t, 1, Len(x)) = x
            <4> DEFINE y == SubSeq(t, 1, Len(x))
            <4>1. y \in Seq(Char) /\ Len(y) = Len(x) /\ \A i \in 1 .. Len(x) : y[i] = t[i]
                BY <3>2, CharsOfData
            <4> HIDE DEF y
            <4>2. \A i \in 1 .. Len(y) : y[i] = x[i]
                BY <3>2, <4>1
            <4>3. y = x
                BY <2>4, <4>1, <4>2, SeqEqual
            <4> QED BY <4>3 DEF y
        <3> QED BY <2>2, <3>2, <3>3, <3>4, <3>5
    <2> QED BY <2>1, <2>3, <2>4
<1> QED
    BY <1>1, <1>2

(* WithoutBom takes the byte order mark away, if there is one.             *)
LEMMA WithoutBomIs ==
    ASSUME NEW t \in Seq(Char), NEW x
    PROVE  x \in WithoutBom(t) <=> x \in Seq(Char) /\ t = Bom(opts) \o x
<1>1. CASE ~opts.bom
    <2>1. WithoutBom(t) = {t} /\ Bom(opts) = <<>>
        BY <1>1 DEF WithoutBom, Bom
    <2>2. \A y \in Seq(Char) : <<>> \o y = y
        BY ConcatEmptySeq
    <2> QED BY <2>1, <2>2
<1>2. CASE opts.bom
    <2> DEFINE b == <<BomChar>>
    <2>1. Bom(opts) = b
        BY <1>2 DEF Bom
    <2>2. x \in WithoutBom(t) <=> t # <<>> /\ Head(t) = BomChar /\ x = SubSeq(t, 2, Len(t))
        <3>1. WithoutBom(t) = {y \in {SubSeq(t, 2, Len(t))} : t # <<>> /\ Head(t) = BomChar}
            BY <1>2 DEF WithoutBom
        <3> QED BY <3>1
    <2>3. b \in Seq(Char) /\ Len(b) = 1 /\ b[1] = BomChar
        BY MarksAreChars
    <2>4. ASSUME x \in WithoutBom(t) PROVE x \in Seq(Char) /\ t = b \o x
        <3>1. t # <<>> /\ Head(t) = BomChar /\ x = SubSeq(t, 2, Len(t))
            BY <2>2, <2>4
        <3>2. x = Tail(t) /\ x \in Seq(Char) /\ Len(t) \in Nat /\ Len(t) # 0
            BY <3>1, TailIsSubSeq, HeadTailProperties, EmptySeq
        <3>3. t[1] = BomChar
            BY <3>1
        <3>4. SubSeq(t, 1, Len(t)) = <<t[1]>> \o SubSeq(t, 1 + 1, Len(t))
            <4>1. 1 \in 1 .. Len(t) /\ Len(t) \in 1 .. Len(t)
                BY <3>2
            <4> QED BY <4>1, SubSeqRecursiveFirst
        <3>5. SubSeq(t, 1, Len(t)) = t /\ 1 + 1 = 2
            BY SubSeqFull
        <3>6. t = <<t[1]>> \o x
            BY <3>1, <3>4, <3>5
        <3> QED BY <3>2, <3>3, <3>6
    <2>5. ASSUME x \in Seq(Char), t = b \o x PROVE x \in WithoutBom(t)
        <3> HIDE DEF b
        <3>1. /\ Len(t) = 1 + Len(x) /\ Len(x) \in Nat
              /\ \A i \in 1 .. 1 + Len(x) : t[i] = IF i <= 1 THEN b[i] ELSE x[i - 1]
            <4>1. b \in Seq(Char) /\ x \in Seq(Char)
                BY <2>3, <2>5
            <4>2. /\ Len(b \o x) = Len(b) + Len(x)
                  /\ \A i \in 1 .. Len(b) + Len(x) : (b \o x)[i] = IF i <= Len(b) THEN b[i] ELSE x[i - Len(b)]
                BY ONLY <4>1, ConcatProperties
            <4> QED BY <2>3, <2>5, <4>2
        <3>2. t # <<>> /\ t[1] = BomChar
            <4>1. 1 \in 1 .. 1 + Len(x) /\ Len(t) # 0
                BY <3>1
            <4>2. t[1] = BomChar
                BY <2>3, <3>1, <4>1
            <4>3. t # <<>>
                BY <4>1, EmptySeq
            <4> QED BY <4>2, <4>3
        <3>3. Head(t) = BomChar
            BY <3>2
        <3>4. Tail(t) \in Seq(Char) /\ Len(Tail(t)) = Len(x)
              /\ \A i \in 1 .. Len(Tail(t)) : Tail(t)[i] = t[i + 1]
            BY <3>1, <3>2, HeadTailProperties
        <3>5. \A i \in 1 .. Len(x) : t[i + 1] = x[i]
            <4> TAKE i \in 1 .. Len(x)
            <4> DEFINE j == i + 1
            <4>1. j \in 1 .. 1 + Len(x) /\ ~(j <= 1) /\ j - 1 = i
                BY <3>1
            <4> HIDE DEF j
            <4>2. t[j] = x[i]
                BY <3>1, <4>1
            <4> QED BY <4>2 DEF j
        <3>6. Tail(t) = x
            BY <2>5, <3>4, <3>5, SeqEqual
        <3>7. Tail(t) = SubSeq(t, 2, Len(t))
            BY <3>2, TailIsSubSeq
        <3> QED BY <2>2, <3>2, <3>3, <3>6, <3>7
    <2> QED BY <2>1, <2>4, <2>5
<1> QED
    BY <1>1, <1>2

(* UTF-16 is made of units.                                                *)
LEMMA EncodedUnits ==
    ASSUME NEW o, IsUtf16(o), NEW t \in Seq(Char)
    PROVE  Len(Encode(o, t)) % 2 = 0
<1> DEFINE S == {u \in Seq(Char) : Len(Encode(o, u)) % 2 = 0}
<1>1. <<>> \in S
    <2>1. Encode(o, <<>>) = <<>> /\ <<>> \in Seq(Char)
        BY EncodeNothing
    <2>2. Len(<<>>) % 2 = 0
        OBVIOUS
    <2>3. Len(Encode(o, <<>>)) % 2 = 0
        BY Zenon, <2>1, <2>2
    <2> QED BY <2>1, <2>3
<1>2. ASSUME NEW u \in Seq(Char), NEW c \in Char, u \in S PROVE Append(u, c) \in S
    <2> DEFINE x == Encode(o, u)
               y == CharBytes(o, c)
    <2>1. x \in Seq(Byte) /\ y \in Seq(Byte)
        BY EncodeIsData, CharBytesAreData DEF Data
    <2>2. Len(y) = 2 \/ Len(y) = 4
        <3>1. Len(y) = IF Short(c) THEN 2 ELSE 4
            BY CharBytesAreData
        <3> QED BY <3>1
    <2>3. Len(x) % 2 = 0
        BY <1>2
    <2>4. Encode(o, Append(u, c)) = x \o y /\ Append(u, c) \in Seq(Char)
        BY EncodeMore, AppendProperties
    <2> HIDE DEF x, y
    <2>5. Len(x \o y) = Len(x) + Len(y) /\ Len(x) \in Nat
        BY ONLY <2>1, ConcatProperties
    <2>6. (Len(x) + Len(y)) % 2 = 0
        <3> DEFINE m == Len(x)
                   k == Len(y)
        <3>1. m \in Nat /\ m % 2 = 0 /\ (k = 2 \/ k = 4)
            BY <2>2, <2>3, <2>5
        <3> HIDE DEF m, k
        <3>2. (m + 2) % 2 = 0 /\ (m + 4) % 2 = 0
            BY SMT, <3>1
        <3>3. (m + k) % 2 = 0
            BY <3>1, <3>2
        <3> QED BY <3>3 DEF m, k
    <2> QED BY <2>4, <2>5, <2>6
<1>3. t \in S
    <2> HIDE DEF S
    <2> QED BY <1>1, <1>2, SeqInductive
<1> QED
    BY <1>3

(* Bytes that follow those of v in what is encoded of w belong to a        *)
(* character.                                                              *)
LEMMA NextCharacter ==
    ASSUME NEW o, NEW v \in Seq(Char), NEW w \in Seq(Char), NEW b \in Data, Len(b) >= 1,
           Starts(Encode(o, v) \o b, Encode(o, w))
    PROVE  \E c \in Char : /\ Agree(b, CharBytes(o, c))
                           /\ Len(Encode(o, v)) + Len(CharBytes(o, c)) <= Len(Encode(o, w))
<1> DEFINE x == Encode(o, v)
           z == Encode(o, w)
<1>1. x \in Data /\ z \in Data
    BY EncodeIsData
<1>2. x \o b \in Data /\ Starts(x, x \o b) /\ Len(x \o b) = Len(x) + Len(b)
    <2> HIDE DEF x, z
    <2> QED BY <1>1, ConcatStarts
<1>3. Starts(x, z)
    <2>1. Starts(x \o b, z)
        OBVIOUS
    <2> HIDE DEF x, z
    <2> QED BY <1>1, <1>2, <2>1, StartsTransitive
<1>4. Starts(v, w)
    BY <1>3, EncodeIsPrefixCode
<1>5. Len(v) \in Nat /\ Len(w) \in Nat /\ Len(v) <= Len(w) /\ \A i \in 1 .. Len(v) : v[i] = w[i]
    BY <1>4 DEF Starts
<1>6. SubSeq(w, 1, Len(v)) = v
    <2> DEFINE y == SubSeq(w, 1, Len(v))
    <2>1. y \in Seq(Char) /\ Len(y) = Len(v) /\ \A i \in 1 .. Len(v) : y[i] = w[i]
        BY <1>5, CharsOfData
    <2> HIDE DEF y
    <2>2. \A i \in 1 .. Len(y) : y[i] = v[i]
        BY <1>5, <2>1
    <2>3. y = v
        BY <2>1, <2>2, SeqEqual
    <2> QED BY <2>3 DEF y
<1>7. Len(v) + 1 <= Len(w)
    <2> SUFFICES ASSUME Len(v) = Len(w) PROVE FALSE
        BY <1>5
    <2>1. v = w
        BY <1>5, SeqEqual
    <2>2. Len(x) + Len(b) <= Len(x)
        BY <1>2, <2>1 DEF Starts
    <2>3. Len(x) \in Nat /\ Len(b) \in Nat
        <3> HIDE DEF x
        <3> QED BY <1>1 DEF Data
    <2> HIDE DEF x
    <2> QED BY <2>2, <2>3
<1> DEFINE c == w[Len(v) + 1]
           y == CharBytes(o, c)
<1>8. c \in Char
    <2>1. Len(v) + 1 \in 1 .. Len(w)
        BY <1>5, <1>7
    <2> QED BY <2>1, ElementOfSeq
<1>9. Encode(o, SubSeq(w, 1, Len(v) + 1)) = x \o y
    BY <1>5, <1>6, <1>7, EncodeOneMore
<1>10. Starts(x \o y, z)
    <2>1. Len(v) + 1 \in 0 .. Len(w)
        BY <1>5, <1>7
    <2>2. Starts(Encode(o, SubSeq(w, 1, Len(v) + 1)), z)
        BY <2>1, EncodeStarts
    <2> QED BY <1>9, <2>2
<1>11. y \in Data
    <2> HIDE DEF c
    <2> QED BY <1>8, CharBytesAreData
<1>12. Starts(x \o b, z)
    OBVIOUS
<1> HIDE DEF x, y, z
<1>13. Agree(b, y)
    BY <1>1, <1>10, <1>11, <1>12, AgreeBehind
<1>14. Len(x) + Len(y) <= Len(z)
    <2>1. Len(x \o y) = Len(x) + Len(y)
        BY <1>1, <1>11, ConcatStarts
    <2> QED BY <1>10, <2>1 DEF Starts
<1> QED
    BY <1>8, <1>13, <1>14 DEF x, y, z, c

(* A unit of a character that is not a pair is not a surrogate; those of a *)
(* pair are a high one and a low one.                                      *)
LEMMA UnitsOfCharacter ==
    ASSUME NEW o, IsUtf16(o), NEW c \in Char, NEW u \in Unit,
           Agree(BytesOf(u, ConfiguredOrder(o)), CharBytes(o, c))
    PROVE  /\ ~IsLow(u)
           /\ IsHigh(u) => Len(CharBytes(o, c)) = 4
<1> DEFINE ord == ConfiguredOrder(o)
           k == IF Short(c) THEN c ELSE HighUnit(c)
<1>1. c \in Nat /\ c <= MaxChar /\ ~IsHigh(c) /\ ~IsLow(c)
    BY CharIsNat
<1>2. k \in Unit /\ Len(CharBytes(o, c)) = (IF Short(c) THEN 2 ELSE 4)
      /\ CharBytes(o, c)[1] = BytesOf(k, ord)[1] /\ CharBytes(o, c)[2] = BytesOf(k, ord)[2]
    <2>0. Len(CharBytes(o, c)) = IF Short(c) THEN 2 ELSE 4
        BY CharBytesAreData
    <2>1. CASE Short(c)
        <3>1. CharBytes(o, c) = BytesOf(c, ord) /\ k = c
            BY <1>1, <2>1, Utf16Bytes
        <3> QED BY <1>1, <2>0, <2>1, <3>1, ShortIsUnit
    <2>2. CASE ~Short(c)
        <3> DEFINE a == HighUnit(c)
                   b == LowUnit(c)
                   s == BytesOf(a, ord) \o BytesOf(b, ord)
        <3>1. CharBytes(o, c) = s /\ k = a
            BY <1>1, <2>2, Utf16Bytes
        <3>2. c \in 0 .. MaxChar /\ ~Short(c)
            BY <1>1, <2>2, MaxCharIsNat
        <3>3. a \in Unit /\ b \in Unit
            BY <3>2, SurrogatePair
        <3>4. s[1] = BytesOf(a, ord)[1] /\ s[2] = BytesOf(a, ord)[2]
            BY <3>3, UnitsShape
        <3> HIDE DEF s, a, k
        <3> QED BY <2>0, <3>1, <3>3, <3>4
    <2> QED BY <2>1, <2>2
<1>3. Len(BytesOf(u, ord)) = 2
    BY UnitBytes
<1>4. u = k
    <2>1. 1 \in 1 .. 2 /\ 2 \in 1 .. 2 /\ 1 <= Len(CharBytes(o, c)) /\ 2 <= Len(CharBytes(o, c))
        BY <1>2
    <2>2. BytesOf(u, ord)[1] = CharBytes(o, c)[1] /\ BytesOf(u, ord)[2] = CharBytes(o, c)[2]
        BY <1>3, <2>1 DEF Agree
    <2> HIDE DEF k
    <2>3. BytesOf(u, ord)[1] = BytesOf(k, ord)[1] /\ BytesOf(u, ord)[2] = BytesOf(k, ord)[2]
        BY <1>2, <2>2
    <2> QED BY <1>2, <2>3, UnitsApart
<1>5. CASE Short(c)
    BY <1>1, <1>4, <1>5
<1>6. CASE ~Short(c)
    <2>1. c \in 0 .. MaxChar /\ ~Short(c)
        BY <1>1, <1>6, MaxCharIsNat
    <2>2. IsHigh(HighUnit(c)) /\ HighUnit(c) \in Unit
        BY <2>1, SurrogatePair
    <2>3. u = HighUnit(c)
        BY <1>4, <1>6
    <2>4. ~IsLow(HighUnit(c))
        <3> DEFINE x == HighUnit(c)
        <3>1. IsHigh(x) /\ x \in Unit
            BY <2>2
        <3> HIDE DEF x
        <3>2. ~IsLow(x)
            BY SMT, <3>1 DEF IsHigh, IsLow, Unit
        <3> QED BY <3>2 DEF x
    <2> QED BY <1>2, <1>6, <2>3, <2>4
<1> QED
    BY <1>5, <1>6

(* What follows a high surrogate within a character is a low one.          *)
LEMMA SecondUnit ==
    ASSUME NEW o, IsUtf16(o), NEW c \in Char, NEW h \in Unit, IsHigh(h), NEW u \in Unit,
           Agree(BytesOf(h, ConfiguredOrder(o)) \o BytesOf(u, ConfiguredOrder(o)), CharBytes(o, c))
    PROVE  IsLow(u)
<1> DEFINE ord == ConfiguredOrder(o)
           s == BytesOf(h, ord) \o BytesOf(u, ord)
           a == HighUnit(c)
           b == LowUnit(c)
           t == BytesOf(a, ord) \o BytesOf(b, ord)
<1>1. /\ Len(s) = 4
      /\ s[1] = BytesOf(h, ord)[1] /\ s[2] = BytesOf(h, ord)[2]
      /\ s[3] = BytesOf(u, ord)[1] /\ s[4] = BytesOf(u, ord)[2]
    BY UnitsShape
<1>2. Len(BytesOf(h, ord)) = 2
    BY UnitBytes
<1>3. Agree(BytesOf(h, ord), CharBytes(o, c))
    <2>1. Agree(s, CharBytes(o, c))
        OBVIOUS
    <2> HIDE DEF s
    <2>2. \A i \in 1 .. 2 : i \in 1 .. 4 /\ (i = 1 \/ i = 2)
        OBVIOUS
    <2>3. \A i \in 1 .. 2 : i <= Len(CharBytes(o, c)) => BytesOf(h, ord)[i] = CharBytes(o, c)[i]
        BY <1>1, <2>1, <2>2 DEF Agree
    <2> QED BY <1>2, <2>3 DEF Agree
<1>4. Len(CharBytes(o, c)) = 4
    BY <1>3, UnitsOfCharacter
<1>5. ~Short(c)
    <2>1. Len(CharBytes(o, c)) = IF Short(c) THEN 2 ELSE 4
        BY CharBytesAreData
    <2> QED BY <1>4, <2>1
<1>6. c \in Nat /\ c <= MaxChar /\ c \in 0 .. MaxChar
    BY CharIsNat, MaxCharIsNat
<1>7. a \in Unit /\ b \in Unit /\ IsLow(b)
    BY <1>5, <1>6, SurrogatePair
<1>8. CharBytes(o, c) = t
    BY <1>5, <1>6, Utf16Bytes
<1>9. Len(t) = 4 /\ t[3] = BytesOf(b, ord)[1] /\ t[4] = BytesOf(b, ord)[2]
    BY <1>7, UnitsShape
<1>10. s[3] = t[3] /\ s[4] = t[4]
    <2>1. Agree(s, t)
        BY <1>8
    <2> HIDE DEF s, t
    <2>2. 3 \in 1 .. 4 /\ 4 \in 1 .. 4 /\ 3 <= 4 /\ 4 <= 4
        OBVIOUS
    <2> QED BY <1>1, <1>9, <2>1, <2>2 DEF Agree
<1>11. BytesOf(u, ord)[1] = BytesOf(b, ord)[1] /\ BytesOf(u, ord)[2] = BytesOf(b, ord)[2]
    <2> HIDE DEF s, t, b
    <2> QED BY <1>1, <1>9, <1>10
<1> HIDE DEF b, ord
<1>12. u = b
    BY <1>7, <1>11, UnitsApart
<1> QED
    BY <1>7, <1>12

(* Two halves are the halves of a character.                               *)
LEMMA PairUnits ==
    ASSUME NEW h \in Nat, IsHigh(h), NEW u \in Nat, IsLow(u)
    PROVE  /\ Paired(h, u) \in Char /\ ~Short(Paired(h, u))
           /\ HighUnit(Paired(h, u)) = h /\ LowUnit(Paired(h, u)) = u
<1> DEFINE a == h - 55296
           b == u - 56320
           c == Paired(h, u)
<1>1. a \in Nat /\ a <= 1023 /\ b \in Nat /\ b <= 1023 /\ h = 55296 + a /\ u = 56320 + b
    BY SMT DEF IsHigh, IsLow
<1>2. c = 65536 + a * 1024 + b
    BY SMT DEF Paired
<1> HIDE DEF a, b, c
<1>3. c \in Nat /\ 65536 <= c /\ c <= 1114111
    BY SMT, <1>1, <1>2
<1>4. ~Short(c)
    BY SMT, <1>3 DEF Short
<1>5. c \in Char
    <2>1. c \in 0 .. MaxChar
        BY SMT, <1>3, MaxCharIsNat
    <2>2. ~IsSurrogate(c)
        BY SMT, <1>3 DEF IsSurrogate, IsHigh, IsLow
    <2> QED BY <2>1, <2>2 DEF Char
<1> DEFINE d == c - 65536
<1>6. d = a * 1024 + b /\ d \in Nat
    BY SMT, <1>1, <1>2
<1>7. HighUnit(c) = 55296 + (d \div 1024) /\ LowUnit(c) = 56320 + (d % 1024)
    BY SMT DEF HighUnit, LowUnit
<1> HIDE DEF d
<1>8. d \div 1024 = a /\ d % 1024 = b
    BY SMT, <1>1, <1>6
<1> QED
    BY SMT, <1>1, <1>4, <1>5, <1>7, <1>8 DEF c

(* read_ux reads what write_ux writes.                                     *)
LEMMA UnitIsRead ==
    ASSUME data \in Data, NEW n \in Nat, n + 2 <= Len(data), NEW ord \in Order
    PROVE  /\ UnitAt(n, ord) \in Unit
           /\ SubSeq(data, 1, n + 2) = SubSeq(data, 1, n) \o BytesOf(UnitAt(n, ord), ord)
<1> DEFINE x == data[n + 1]
           y == data[n + 2]
           u == UnitAt(n, ord)
<1>1. x \in Byte /\ y \in Byte /\ Len(data) \in Nat
    <2>1. n + 1 \in 1 .. Len(data) /\ n + 2 \in 1 .. Len(data) /\ Len(data) \in Nat
        BY DEF Data
    <2> QED BY <2>1, ElementOfSeq DEF Data
<1>2. u = IF ord = "Big" THEN x * 256 + y ELSE y * 256 + x
    BY DEF UnitAt
<1>3. \A a, b \in Byte : /\ a * 256 + b \in Unit
                         /\ (a * 256 + b) \div 256 = a /\ (a * 256 + b) % 256 = b
    BY SMT DEF Byte, Unit
<1>4. SubSeq(data, n + 1, n + 2) = <<x, y>>
    <2> DEFINE s == SubSeq(data, n + 1, n + 2)
    <2>1. \A i \in n + 1 .. n + 2 : data[i] \in Byte
        <3> TAKE i \in n + 1 .. n + 2
        <3>1. i = n + 1 \/ i = n + 2
            OBVIOUS
        <3> QED BY <1>1, <3>1
    <2> DEFINE first == n + 1
               last == n + 2
    <2>2. first \in Int /\ last \in Int /\ first <= last /\ last - first + 1 = 2
          /\ first + 1 - 1 = n + 1 /\ first + 2 - 1 = n + 2
        OBVIOUS
    <2>3. s = SubSeq(data, first, last) /\ \A i \in first .. last : data[i] \in Byte
        BY <2>1
    <2> HIDE DEF s, first, last
    <2>4. s \in Seq(Byte) /\ Len(s) = 2 /\ \A i \in 1 .. 2 : s[i] = data[first + i - 1]
        BY <2>2, <2>3, SubSeqProperties
    <2>5. s[1] = x /\ s[2] = y
        <3>1. 1 \in 1 .. 2 /\ 2 \in 1 .. 2
            OBVIOUS
        <3>2. s[1] = data[first + 1 - 1] /\ s[2] = data[first + 2 - 1]
            BY <2>4, <3>1
        <3> QED BY <2>2, <3>2
    <2> HIDE DEF x, y
    <2>6. <<x, y>> \in Seq(Byte) /\ Len(<<x, y>>) = 2 /\ <<x, y>>[1] = x /\ <<x, y>>[2] = y
        BY <1>1
    <2>7. s = <<x, y>>
        <3> DEFINE t == <<x, y>>
        <3>1. t \in Seq(Byte) /\ Len(t) = 2 /\ t[1] = x /\ t[2] = y
            BY <2>6
        <3> HIDE DEF t
        <3>2. \A i \in 1 .. 2 : i = 1 \/ i = 2
            OBVIOUS
        <3>3. s = t
            BY <2>4, <2>5, <3>1, <3>2, SeqEqual
        <3> QED BY <3>3 DEF t
    <2> QED BY <2>7 DEF s
<1>5. SubSeq(data, 1, n) \o SubSeq(data, n + 1, n + 2) = SubSeq(data, 1, n + 2)
    <2>1. data \in Seq(Byte)
        BY DEF Data
    <2>2. 1 \in 1 .. Len(data) + 1 /\ n \in 1 - 1 .. Len(data) /\ n + 2 \in n .. Len(data)
        <3> DEFINE l == Len(data)
        <3>1. l \in Nat /\ n + 2 <= l
            BY <1>1
        <3> HIDE DEF l
        <3>2. 1 \in 1 .. l + 1 /\ n \in 1 - 1 .. l /\ n + 2 \in n .. l
            BY <3>1
        <3> QED BY <3>2 DEF l
    <2> QED BY <2>1, <2>2, ConcatAdjacentSubSeq
<1> HIDE DEF x, y, u
<1>6. u \in Unit /\ BytesOf(u, ord) = <<x, y>>
    <2>1. CASE ord = "Big"
        <3>1. u = x * 256 + y
            BY <1>2, <2>1
        <3>2. u \in Unit /\ u \div 256 = x /\ u % 256 = y
            BY <1>1, <1>3, <3>1
        <3> QED BY <2>1, <3>2 DEF BytesOf
    <2>2. CASE ord # "Big"
        <3>1. u = y * 256 + x
            BY <1>2, <2>2
        <3>2. u \in Unit /\ u \div 256 = y /\ u % 256 = x
            BY <1>1, <1>3, <3>1
        <3> QED BY <2>2, <3>2 DEF BytesOf
    <2> QED BY <2>1, <2>2
<1> QED
    BY <1>4, <1>5, <1>6 DEF u

----------------------------------------------------------------------------
(***************************************************************************)
(* The steps.                                                              *)
(***************************************************************************)
input == <<opts, sender, sent, data, maxSize, lent, available>>

(* Reading leaves alone what is read.                                      *)
LEMMA InputStays ==
    ASSUME IInv, UNCHANGED input, pc # "write", pc' # "write"
    PROVE  /\ Wanted' = Wanted /\ Mistaken' = Mistaken /\ SendersAreRelated'
           /\ Genuine' <=> Genuine
           /\ opts' = opts /\ sender' = sender /\ sent' = sent /\ data' = data
           /\ maxSize' = maxSize /\ lent' = lent /\ available' = available
<1>1. /\ opts' = opts /\ sender' = sender /\ sent' = sent /\ data' = data
      /\ maxSize' = maxSize /\ lent' = lent /\ available' = available
    BY DEF input
<1>2. Wanted' = Wanted /\ Mistaken' = Mistaken /\ (Genuine' <=> Genuine)
    BY <1>1 DEF Wanted, Mistaken, Genuine
<1>3. SendersAreRelated'
    BY <1>1 DEF IInv, SendersAreRelated
<1> QED
    BY <1>1, <1>2, <1>3

(* Writing keeps the invariant: what is written is data.                   *)
LEMMA SerializeStrIInv == IInv /\ SerializeStr => IInv'
<1> SUFFICES ASSUME IInv, SerializeStr PROVE IInv'
    OBVIOUS
<1>1. /\ opts' = opts /\ sender' = sender /\ sent' = sent /\ maxSize' = maxSize /\ lent' = lent
      /\ at' = at /\ order' = order /\ high' = high /\ value' = value /\ pc = "write"
    BY DEF SerializeStr, reading
<1>2. /\ at = 0 /\ high = None /\ value = <<>>
      /\ lent => available = Len(data)
    BY <1>1 DEF IInv, Flow
<1>3. \/ /\ pc' = "refused" /\ data' = data /\ available' = available
      \/ /\ pc' = "begin" /\ data' = Written(sender, sent)
         /\ available' \in IF lent THEN {Len(data')} ELSE 0 .. Len(data')
         /\ sender.encoding = "Ascii" => IsAscii(sent)
    BY DEF SerializeStr
<1>4. Written(sender, sent) \in Data
    BY TextIsChars, FullShape, EncodeIsData, WrittenIsFull DEF IInv, TypeOK
<1>5. data' \in Data /\ Len(data') \in Nat
    BY <1>3, <1>4 DEF IInv, TypeOK, Data
<1>6. available' \in 0 .. Len(data') /\ (lent => available' = Len(data'))
    <2>1. CASE data' = data /\ available' = available
        BY <1>2, <2>1 DEF IInv, TypeOK
    <2>2. CASE available' \in IF lent THEN {Len(data')} ELSE 0 .. Len(data')
        BY <1>5, <2>2
    <2> QED BY <1>3, <2>1, <2>2
<1>7. TypeOK'
    <2>1. at' \in 0 .. Len(data')
        BY <1>1, <1>2, <1>5
    <2>2. pc' \in {"begin", "refused"}
        BY <1>3
    <2> QED BY <1>1, <1>5, <1>6, <2>1, <2>2 DEF IInv, TypeOK
<1>8. SendersAreRelated'
    BY <1>1 DEF IInv, SendersAreRelated
<1>9. pc' \in {"begin", "refused"}
    BY <1>3
<1>10. Flow'
    <2>1. pc' \notin {"borrow", "utf8", "utf16", "units", "ok", "write"}
        BY <1>9
    <2>2. pc' \notin {"write", "refused"} /\ sender.encoding = "Ascii" => IsAscii(sent)
        BY <1>3
    <2> QED BY <1>1, <1>2, <1>6, <2>1, <2>2 DEF Flow
<1>11. UnitsRead' /\ AcceptedWritten' /\ NoFalseAlarm'
    <2>1. pc' \notin {"units", "ok", "CannotCodeString", "IoError"}
        BY <1>9
    <2> QED BY <2>1 DEF UnitsRead, AcceptedWritten, NoFalseAlarm
<1> QED
    BY <1>7, <1>8, <1>10, <1>11 DEF IInv

(* So does the choice of the way to read.                                  *)
LEMMA BeginIInv == IInv /\ Begin => IInv'
<1> SUFFICES ASSUME IInv, Begin PROVE IInv'
    OBVIOUS
<1>1. /\ at' = at /\ order' = order /\ high' = high /\ value' = value
      /\ UNCHANGED input /\ pc = "begin"
    BY DEF Begin, reading, input
<1>2. \/ pc' = "TooMuchData"
      \/ pc' = "borrow" /\ lent /\ opts.encoding # "Utf16"
      \/ pc' = "utf16" /\ IsUtf16(opts)
      \/ pc' = "utf8" /\ ~IsUtf16(opts)
    BY DEF Begin
<1>3. pc # "write" /\ pc' # "write" /\ pc' \in {"TooMuchData", "borrow", "utf16", "utf8"}
    BY <1>1, <1>2
<1>4. /\ SendersAreRelated'
      /\ opts' = opts /\ sender' = sender /\ sent' = sent /\ data' = data
      /\ maxSize' = maxSize /\ lent' = lent /\ available' = available
    BY <1>1, <1>3, InputStays
<1>5. TypeOK'
    BY <1>1, <1>3, <1>4 DEF IInv, TypeOK, Ended, Errors
<1>6. Flow'
    <2>1. /\ at = 0 /\ high = None /\ value = <<>>
          /\ lent => available = Len(data)
          /\ sender.encoding = "Ascii" => IsAscii(sent)
        BY <1>1 DEF IInv, Flow
    <2>2. /\ pc' = "borrow" => lent /\ opts.encoding # "Utf16"
          /\ pc' = "utf8" => ~IsUtf16(opts)
          /\ pc' \in {"utf16", "units"} => IsUtf16(opts)
          /\ pc' # "ok"
        BY <1>2
    <2> QED BY <1>1, <1>4, <2>1, <2>2 DEF Flow
<1>7. UnitsRead' /\ AcceptedWritten' /\ NoFalseAlarm'
    <2>1. pc' \notin {"units", "ok", "CannotCodeString", "IoError"}
        BY <1>3
    <2> QED BY <2>1 DEF UnitsRead, AcceptedWritten, NoFalseAlarm
<1> QED
    BY <1>4, <1>5, <1>6, <1>7 DEF IInv

(* UTF-8 and ASCII, decoded.                                               *)
Plain == [encoding |-> "Utf8"]

(* DecodeUtf8 inverts Encode, for the options of all that is not UTF-16.   *)
LEMMA DecodedTexts ==
    ASSUME NEW b \in Data
    PROVE  /\ DecodeUtf8(b) = {t \in Seq(Char) : Encode(Plain, t) = b}
           /\ ~IsUtf16(opts) => \A t : Encode(Plain, t) = Encode(opts, t)
<1>1. ~IsUtf16(Plain)
    BY DEF Plain, IsUtf16
<1>2. ASSUME ~IsUtf16(opts), NEW t PROVE Encode(Plain, t) = Encode(opts, t)
    BY <1>1, <1>2, EncodeAlike
<1> QED
    BY <1>1, <1>2, Decoded

BorrowedTexts ==
    Checked(UNION {UNION {Unterminated(chars) : chars \in WithoutBom(all)} :
                   all \in DecodeUtf8(SubSeq(data, 1, Wanted))})

(* A text that is borrowed, with its marks, is what the data encodes.      *)
LEMMA BorrowedIs ==
    ASSUME TypeOK
    PROVE  \A x : x \in BorrowedTexts <=>
               /\ x \in Seq(Char)
               /\ Encode(Plain, Full(opts, x)) = SubSeq(data, 1, Wanted)
               /\ opts.encoding = "Ascii" => IsAscii(x)
<1> DEFINE b == SubSeq(data, 1, Wanted)
<1>1. b \in Data
    <2>1. Wanted \in 0 .. Len(data) /\ data \in Data
        <3> HIDE DEF Wanted
        <3> QED BY WantedIsInData DEF TypeOK
    <2> HIDE DEF Wanted
    <2> QED BY <2>1, Beginning
<1>2. \A all : all \in DecodeUtf8(b) <=> all \in Seq(Char) /\ Encode(Plain, all) = b
    BY <1>1, DecodedTexts
<1>3. \A x : x \in BorrowedTexts <=>
          /\ \E all \in DecodeUtf8(b) : \E chars \in WithoutBom(all) : x \in Unterminated(chars)
          /\ opts.encoding = "Ascii" => IsAscii(x)
    BY DEF BorrowedTexts, Checked
<1> HIDE DEF b
<1>4. ASSUME NEW x PROVE
      (\E all \in DecodeUtf8(b) : \E chars \in WithoutBom(all) : x \in Unterminated(chars))
      <=> x \in Seq(Char) /\ Encode(Plain, Full(opts, x)) = b
    <2>1. ASSUME NEW all \in DecodeUtf8(b), NEW chars \in WithoutBom(all), x \in Unterminated(chars)
          PROVE  x \in Seq(Char) /\ Encode(Plain, Full(opts, x)) = b
        <3>1. all \in Seq(Char) /\ Encode(Plain, all) = b
            BY <1>2
        <3>2. chars \in Seq(Char) /\ all = Bom(opts) \o chars
            BY <3>1, WithoutBomIs
        <3>3. x \in Seq(Char) /\ chars = x \o Nul(opts)
            BY <2>1, <3>2, UnterminatedIs
        <3>4. Bom(opts) \in Seq(Char) /\ Nul(opts) \in Seq(Char)
            BY <3>3, FullShape
        <3>5. Bom(opts) \o (x \o Nul(opts)) = (Bom(opts) \o x) \o Nul(opts)
            <4>1. Bom(opts) \in Seq(Char) /\ x \in Seq(Char) /\ Nul(opts) \in Seq(Char)
                BY <3>3, <3>4
            <4> QED BY ONLY <4>1, ConcatAssociative
        <3>6. all = Full(opts, x)
            BY <3>2, <3>3, <3>5 DEF Full
        <3> QED BY <3>1, <3>3, <3>6
    <2>2. ASSUME x \in Seq(Char), Encode(Plain, Full(opts, x)) = b
          PROVE  \E all \in DecodeUtf8(b) : \E chars \in WithoutBom(all) : x \in Unterminated(chars)
        <3> DEFINE all == Full(opts, x)
                   chars == x \o Nul(opts)
        <3>1. Bom(opts) \in Seq(Char) /\ Nul(opts) \in Seq(Char) /\ all \in Seq(Char)
            BY <2>2, FullShape
        <3>2. chars \in Seq(Char)
            <4>1. x \in Seq(Char) /\ Nul(opts) \in Seq(Char)
                BY <2>2, <3>1
            <4> QED BY ONLY <4>1, ConcatProperties
        <3>3. Bom(opts) \o (x \o Nul(opts)) = (Bom(opts) \o x) \o Nul(opts)
            BY <2>2, <3>1, ConcatAssociative
        <3>4. all = Bom(opts) \o chars
            BY <3>3 DEF Full
        <3>5. all \in DecodeUtf8(b)
            BY <1>2, <2>2, <3>1
        <3>6. x \in Unterminated(chars)
            BY <2>2, <3>2, UnterminatedIs
        <3> HIDE DEF all, chars
        <3>7. chars \in WithoutBom(all)
            BY <3>1, <3>2, <3>4, WithoutBomIs
        <3> QED BY <3>5, <3>6, <3>7
    <2> QED BY <2>1, <2>2
<1> QED
    BY <1>3, <1>4 DEF b

(* How reading may end.                                                    *)
LEMMA EndedIInv ==
    ASSUME IInv, UNCHANGED input, pc \in {"borrow", "utf8", "utf16", "units"},
           at' \in 0 .. Len(data), order' \in Order,
           high' = None \/ (high' \in Nat /\ IsHigh(high')), value' \in Seq(Char),
           pc' \in {"ok", "CannotCodeString", "IoError"},
           pc' = "ok" /\ IsUtf16(opts) => Wanted <= available,
           pc' = "ok" /\ ~Mistaken =>
               \E o \in {opts, Actual'} :
                   /\ o = opts \/ (IsUtf16(opts) /\ opts.bom)
                   /\ Written(o, value') = SubSeq(data, 1, Min({Wanted, available})),
           data = Written(sender, sent) /\ ~Mistaken /\ Wanted = Len(data) =>
               /\ pc' = "CannotCodeString" => available < Len(data) /\ ~IsUtf16(opts)
               /\ pc' = "IoError" => available < Len(data)
    PROVE  IInv'
<1>1. pc # "write" /\ pc' # "write"
    OBVIOUS
<1>2. /\ Wanted' = Wanted /\ Mistaken' = Mistaken /\ SendersAreRelated'
      /\ opts' = opts /\ sender' = sender /\ sent' = sent /\ data' = data
      /\ maxSize' = maxSize /\ lent' = lent /\ available' = available
    BY <1>1, InputStays
<1>3. Genuine' <=> data = Written(sender, sent)
    BY <1>1, <1>2 DEF Genuine
<1>4. TypeOK'
    BY <1>2, TextIsChars DEF IInv, TypeOK, Ended, Errors, Order
<1>5. Flow'
    <2>1. /\ lent => available = Len(data)
          /\ sender.encoding = "Ascii" => IsAscii(sent)
        BY DEF IInv, Flow
    <2>2. /\ pc' \notin {"borrow", "utf8", "utf16", "units", "write", "begin"}
        OBVIOUS
    <2> HIDE DEF Wanted
    <2> QED BY <1>2, <2>1, <2>2 DEF Flow
<1>6. UnitsRead'
    BY DEF UnitsRead
<1>7. AcceptedWritten'
    BY <1>2 DEF AcceptedWritten
<1>8. NoFalseAlarm'
    BY <1>2, <1>3 DEF NoFalseAlarm
<1> QED
    BY <1>2, <1>4, <1>5, <1>6, <1>7, <1>8 DEF IInv

(* Borrowing keeps the invariant: the texts found are those whose bytes    *)
(* these are.                                                              *)
LEMMA ReadBorrowedIInv == IInv /\ ReadBorrowed => IInv'
<1> SUFFICES ASSUME IInv, ReadBorrowed PROVE IInv'
    OBVIOUS
<1>1. /\ at' = at /\ order' = order /\ high' = high
      /\ UNCHANGED input /\ pc = "borrow"
    BY DEF ReadBorrowed, input
<1>2. \/ BorrowedTexts = {} /\ pc' = "CannotCodeString" /\ value' = value
      \/ value' \in BorrowedTexts /\ pc' = "ok"
    BY DEF ReadBorrowed, Return, BorrowedTexts
<1>3. TypeOK /\ lent /\ available = Len(data) /\ opts.encoding # "Utf16"
      /\ (sender.encoding = "Ascii" => IsAscii(sent))
    BY <1>1 DEF IInv, Flow
<1>4. ~Mistaken => ~IsUtf16(opts)
    BY <1>3 DEF Mistaken, IsUtf16
<1>5. Wanted <= available /\ Min({Wanted, available}) = Wanted
    <2> HIDE DEF Wanted
    <2> QED BY <1>3, WantedIsInData
<1>6. at' \in 0 .. Len(data) /\ order' \in Order /\ (high' = None \/ (high' \in Nat /\ IsHigh(high')))
    BY <1>1, <1>3 DEF TypeOK, Order
<1>7. value' \in Seq(Char)
    BY <1>2, <1>3, BorrowedIs, TextIsChars DEF TypeOK
<1>8. ASSUME pc' = "ok", ~Mistaken
      PROVE  Written(opts, value') = SubSeq(data, 1, Min({Wanted, available}))
    <2>1. value' \in BorrowedTexts
        BY <1>2, <1>8
    <2>2. Encode(Plain, Full(opts, value')) = SubSeq(data, 1, Wanted)
        BY <1>3, <2>1, BorrowedIs
    <2>3. Encode(Plain, Full(opts, value')) = Encode(opts, Full(opts, value'))
        <3>1. <<>> \in Data
            BY DEF Data
        <3> QED BY <1>4, <1>8, <3>1, DecodedTexts
    <2> HIDE DEF Wanted
    <2> QED BY <1>5, <2>2, <2>3, WrittenIsFull
<1>9. ASSUME data = Written(sender, sent), ~Mistaken, Wanted = Len(data), pc' = "CannotCodeString"
      PROVE  FALSE
    <2>1. BorrowedTexts = {}
        BY <1>2, <1>9
    <2>2. sender = opts
        BY <1>4, <1>9 DEF IInv, SendersAreRelated
    <2>3. sent \in Seq(Char) /\ data \in Data
        BY <1>3, TextIsChars DEF TypeOK
    <2>4. Encode(Plain, Full(opts, sent)) = Encode(opts, Full(opts, sent))
        <3>1. <<>> \in Data
            BY DEF Data
        <3> QED BY <1>4, <1>9, <3>1, DecodedTexts
    <2>5. Encode(opts, Full(opts, sent)) = data
        BY <1>9, <2>2, WrittenIsFull
    <2>6. SubSeq(data, 1, Wanted) = data
        <3>1. SubSeq(data, 1, Len(data)) = data
            BY <2>3, SubSeqFull DEF Data
        <3> HIDE DEF Wanted
        <3> QED BY <1>9, <3>1
    <2> HIDE DEF Wanted
    <2>7. sent \in BorrowedTexts
        BY <1>3, <2>2, <2>3, <2>4, <2>5, <2>6, BorrowedIs
    <2> QED BY <2>1, <2>7
<1>10. pc' # "IoError" /\ pc' \in {"ok", "CannotCodeString", "IoError"}
    BY <1>2
<1>11. pc' = "ok" /\ ~Mistaken =>
           \E o \in {opts, Actual'} :
               /\ o = opts \/ (IsUtf16(opts) /\ opts.bom)
               /\ Written(o, value') = SubSeq(data, 1, Min({Wanted, available}))
    BY <1>8
<1>12. data = Written(sender, sent) /\ ~Mistaken /\ Wanted = Len(data) =>
           /\ pc' = "CannotCodeString" => available < Len(data) /\ ~IsUtf16(opts)
           /\ pc' = "IoError" => available < Len(data)
    BY <1>9, <1>10
<1> HIDE DEF Wanted
<1> QED
    BY <1>1, <1>5, <1>6, <1>7, <1>10, <1>11, <1>12, EndedIInv

(* The byte order mark of UTF-8, and what is read behind it.               *)
First8 == IF opts.bom THEN 3 ELSE 0
Rest8 == SubSeq(data, First8 + 1, Min({Wanted, available}))
Texts8 == Checked(UNION {Unterminated(chars) : chars \in DecodeUtf8(Rest8)})

(* The byte order mark of UTF-8 is the first three bytes.                  *)
LEMMA BomIsFirst ==
    ASSUME ~IsUtf16(opts)
    PROVE  /\ First8 \in Nat /\ Encode(opts, Bom(opts)) \in Data
           /\ Len(Encode(opts, Bom(opts))) = First8
           /\ Encode(opts, Bom(opts)) = IF opts.bom THEN Bom8 ELSE <<>>
<1>1. CASE ~opts.bom
    <2>1. Bom(opts) = <<>> /\ First8 = 0
        BY <1>1 DEF Bom, First8
    <2>2. Encode(opts, <<>>) = <<>>
        BY EncodeNothing
    <2>3. <<>> \in Data /\ Len(<<>>) = 0
        BY DEF Data
    <2>4. Encode(opts, Bom(opts)) = <<>>
        BY <2>1, <2>2
    <2> QED BY <1>1, <2>1, <2>3, <2>4
<1>2. CASE opts.bom
    <2> DEFINE b == <<BomChar>>
    <2>1. Bom(opts) = b /\ First8 = 3
        BY <1>2 DEF Bom, First8
    <2>2. b = Append(<<>>, BomChar) /\ <<>> \in Seq(Char)
        OBVIOUS
    <2> HIDE DEF b
    <2>3. Encode(opts, b) = Encode(opts, <<>>) \o CharBytes(opts, BomChar)
        BY <2>2, MarksAreChars, EncodeMore
    <2>4. CharBytes(opts, BomChar) = Bom8
        BY DEF CharBytes, Bom8
    <2>5. Bom8 \in Data
        BY <2>4, MarksAreChars, CharBytesAreData
    <2>6. <<>> \o Bom8 = Bom8
        BY <2>5, ConcatEmptySeq DEF Data
    <2>7. Encode(opts, b) = Bom8
        BY <2>3, <2>4, <2>6, EncodeNothing
    <2>8. Len(Bom8) = 3
        <3>1. ~(BomChar < 128) /\ ~(BomChar < 2048) /\ BomChar < 65536
            BY SMT DEF BomChar
        <3> HIDE DEF BomChar
        <3>2. \E x, y, z : Utf8(BomChar) = <<x, y, z>>
            BY <3>1 DEF Utf8
        <3> QED BY <3>2 DEF Bom8
    <2> QED BY <1>2, <2>1, <2>5, <2>7, <2>8
<1> QED
    BY <1>1, <1>2

(* What is written: the byte order mark, then the text with its            *)
(* terminator.                                                             *)
LEMMA WrittenInPieces ==
    ASSUME NEW t \in Seq(Char)
    PROVE  /\ t \o Nul(opts) \in Seq(Char)
           /\ Written(opts, t) = Encode(opts, Bom(opts)) \o Encode(opts, t \o Nul(opts))
<1>1. Bom(opts) \in Seq(Char) /\ Nul(opts) \in Seq(Char)
    BY FullShape
<1>2. t \o Nul(opts) \in Seq(Char)
    BY ONLY t \in Seq(Char), <1>1, ConcatProperties
<1>3. Full(opts, t) = Bom(opts) \o (t \o Nul(opts))
    <2>1. (Bom(opts) \o t) \o Nul(opts) = Bom(opts) \o (t \o Nul(opts))
        BY ONLY t \in Seq(Char), <1>1, ConcatAssociative
    <2> QED BY <2>1 DEF Full
<1>4. Encode(opts, Full(opts, t)) = Encode(opts, Bom(opts)) \o Encode(opts, t \o Nul(opts))
    BY <1>1, <1>2, <1>3, EncodeConcat
<1> QED
    BY <1>2, <1>4, WrittenIsFull

(* The texts that read_utf8_string finds behind the byte order mark.       *)
LEMMA Texts8Are ==
    ASSUME ~IsUtf16(opts), Rest8 \in Data
    PROVE  \A x : x \in Texts8 <=>
               /\ x \in Seq(Char)
               /\ Encode(opts, x \o Nul(opts)) = Rest8
               /\ opts.encoding = "Ascii" => IsAscii(x)
<1>1. \A t : t \in DecodeUtf8(Rest8) <=> t \in Seq(Char) /\ Encode(opts, t) = Rest8
    <2> HIDE DEF Rest8
    <2> QED BY DecodedTexts
<1>2. \A x : x \in Texts8 <=>
          /\ \E chars \in DecodeUtf8(Rest8) : x \in Unterminated(chars)
          /\ opts.encoding = "Ascii" => IsAscii(x)
    BY DEF Texts8, Checked
<1>3. ASSUME NEW x
      PROVE  (\E chars \in DecodeUtf8(Rest8) : x \in Unterminated(chars))
             <=> x \in Seq(Char) /\ Encode(opts, x \o Nul(opts)) = Rest8
    <2>1. ASSUME NEW chars \in DecodeUtf8(Rest8), x \in Unterminated(chars)
          PROVE  x \in Seq(Char) /\ Encode(opts, x \o Nul(opts)) = Rest8
        <3>1. chars \in Seq(Char) /\ Encode(opts, chars) = Rest8
            BY <1>1
        <3>2. x \in Seq(Char) /\ chars = x \o Nul(opts)
            BY <2>1, <3>1, UnterminatedIs
        <3> QED BY <3>1, <3>2
    <2>2. ASSUME x \in Seq(Char), Encode(opts, x \o Nul(opts)) = Rest8
          PROVE  \E chars \in DecodeUtf8(Rest8) : x \in Unterminated(chars)
        <3> DEFINE chars == x \o Nul(opts)
        <3>1. chars \in Seq(Char)
            BY <2>2, WrittenInPieces
        <3>2. chars \in DecodeUtf8(Rest8)
            BY <1>1, <2>2, <3>1
        <3>3. x \in Unterminated(chars)
            BY <2>2, <3>1, UnterminatedIs
        <3> QED BY <3>2, <3>3
    <2> QED BY <2>1, <2>2
<1> QED
    BY <1>2, <1>3

(* Reading UTF-8 keeps the invariant.                                      *)
LEMMA ReadUtf8IInv == IInv /\ ReadUtf8 => IInv'
<1> SUFFICES ASSUME IInv, ReadUtf8 PROVE IInv'
    OBVIOUS
<1> DEFINE m == Min({Wanted, available})
           first == First8
<1>1. /\ at' = at /\ order' = order /\ high' = high
      /\ UNCHANGED input /\ pc = "utf8"
    BY DEF ReadUtf8, input
<1>2. \/ Wanted < first /\ pc' = "CannotCodeString" /\ value' = value
      \/ Wanted >= first /\ available < first /\ pc' = "IoError" /\ value' = value
      \/ /\ Wanted >= first /\ available >= first
         /\ opts.bom /\ SubSeq(data, 1, first) # Bom8
         /\ pc' = "CannotCodeString" /\ value' = value
      \/ /\ Wanted >= first /\ available >= first
         /\ opts.bom => SubSeq(data, 1, first) = Bom8
         /\ \/ Texts8 = {} /\ pc' = "CannotCodeString" /\ value' = value
            \/ value' \in Texts8 /\ pc' = "ok"
    BY DEF ReadUtf8, Return, Fail, Texts8, Rest8, First8
<1>3. TypeOK /\ value = <<>> /\ ~IsUtf16(opts) /\ (sender.encoding = "Ascii" => IsAscii(sent))
    BY <1>1 DEF IInv, Flow
<1>4. data \in Data /\ sent \in Seq(Char)
    BY <1>3, TextIsChars DEF TypeOK
<1>5. /\ Wanted \in Nat /\ available \in Nat /\ Wanted <= Len(data) /\ available <= Len(data)
      /\ Len(data) \in Nat /\ m = IF Wanted <= available THEN Wanted ELSE available
    <2> HIDE DEF Wanted
    <2> QED BY <1>3, WantedIsInData
<1>6. first \in Nat /\ Encode(opts, Bom(opts)) \in Data /\ Len(Encode(opts, Bom(opts))) = first
      /\ Encode(opts, Bom(opts)) = IF opts.bom THEN Bom8 ELSE <<>>
    BY <1>3, BomIsFirst
<1> HIDE DEF Wanted, m, first
<1>7. at' \in 0 .. Len(data) /\ order' \in Order /\ (high' = None \/ (high' \in Nat /\ IsHigh(high')))
    BY <1>1, <1>3 DEF TypeOK, Order
<1>8. m \in 0 .. Len(data) /\ m <= Wanted
    BY <1>5
<1>9. ASSUME first <= m
      PROVE  Rest8 \in Data /\ SubSeq(data, 1, first) \o Rest8 = SubSeq(data, 1, m)
    <2>1. Rest8 = SubSeq(data, first + 1, m)
        BY DEF Rest8, m, first
    <2>2. \A i \in first + 1 .. m : data[i] \in Byte
        <3> TAKE i \in first + 1 .. m
        <3>1. i \in 1 .. Len(data)
            BY <1>5, <1>6, <1>8
        <3> QED BY <1>4, <3>1, ElementOfSeq DEF Data
    <2>3. first + 1 \in Int /\ m \in Int
        BY <1>6, <1>8
    <2>4. Rest8 \in Data
        BY <2>1, <2>2, <2>3, SubSeqProperties DEF Data
    <2>5. 1 \in 1 .. Len(data) + 1 /\ first \in 1 - 1 .. Len(data) /\ m \in first .. Len(data)
        BY <1>5, <1>6, <1>8, <1>9
    <2>6. SubSeq(data, 1, first) \o SubSeq(data, first + 1, m) = SubSeq(data, 1, m)
        BY <1>4, <2>5, ConcatAdjacentSubSeq DEF Data
    <2> QED BY <2>1, <2>4, <2>6
<1>10. ASSUME pc' = "ok"
       PROVE  value' \in Seq(Char) /\ Written(opts, value') = SubSeq(data, 1, m)
    <2>1. /\ Wanted >= first /\ available >= first
          /\ opts.bom => SubSeq(data, 1, first) = Bom8
          /\ value' \in Texts8
        BY <1>2, <1>10
    <2>2. first <= m
        BY <1>5, <1>6, <2>1
    <2>3. value' \in Seq(Char) /\ Encode(opts, value' \o Nul(opts)) = Rest8
        BY <1>3, <1>9, <2>1, <2>2, Texts8Are
    <2>4. Encode(opts, Bom(opts)) = SubSeq(data, 1, first)
        <3>1. CASE opts.bom
            BY <1>6, <2>1, <3>1
        <3>2. CASE ~opts.bom
            <4>1. first = 0
                BY <3>2 DEF first, First8
            <4>2. SubSeq(data, 1, 0) = <<>>
                BY SubSeqEmpty
            <4> QED BY <1>6, <3>2, <4>1, <4>2
        <3> QED BY <3>1, <3>2
    <2>5. Written(opts, value') = SubSeq(data, 1, first) \o Rest8
        BY <2>3, <2>4, WrittenInPieces
    <2> QED BY <1>9, <2>2, <2>3, <2>5
<1>11. value' \in Seq(Char)
    <2>1. pc' # "ok" => value' = <<>>
        BY <1>2, <1>3
    <2>2. <<>> \in Seq(Char)
        OBVIOUS
    <2> QED BY ONLY <1>10, <2>1, <2>2
<1>12. pc' = "ok" => first <= Wanted /\ first <= available
    BY <1>2
<1>13. ASSUME data = Written(sender, sent)
       PROVE  /\ first <= Len(data)
              /\ opts.bom => SubSeq(data, 1, first) = Bom8
              /\ m = Len(data) => sent \in Texts8
    <2>1. sender = opts
        BY <1>3 DEF IInv, SendersAreRelated
    <2> DEFINE a == Encode(opts, Bom(opts))
               c == Encode(opts, sent \o Nul(opts))
    <2>2. data = a \o c /\ sent \o Nul(opts) \in Seq(Char)
        BY <1>4, <1>13, <2>1, WrittenInPieces
    <2>3. a \in Data /\ c \in Data /\ Len(a) = first
        BY <1>6, <2>2, EncodeIsData
    <2> DEFINE n == Len(data)
    <2>4. SubSeq(data, 1, n) = data /\ n \in 0 .. Len(data)
        BY <1>4, <1>5, SubSeqFull DEF Data
    <2> HIDE DEF a, c, n
    <2>5. Len(a) + Len(c) = n /\ a = SubSeq(data, 1, n - Len(c)) /\ c = SubSeq(data, n - Len(c) + 1, n)
        <3>1. /\ data \in Data /\ n \in 0 .. Len(data) /\ a \in Data /\ c \in Data
              /\ a \o c = SubSeq(data, 1, n)
            BY <1>4, <2>2, <2>3, <2>4
        <3> QED BY ONLY <3>1, Pieces
    <2>6. Len(c) \in Nat /\ n \in Nat /\ n - Len(c) = first
        BY <1>5, <1>6, <2>3, <2>5 DEF Data, n
    <2>7. first <= n
        BY <1>6, <2>6
    <2>8. opts.bom => SubSeq(data, 1, first) = Bom8
        BY <1>6, <2>5, <2>6 DEF a
    <2>9. ASSUME m = n PROVE sent \in Texts8
        <3>1. Rest8 = c
            BY <2>5, <2>6, <2>9 DEF Rest8, m, first
        <3>2. Encode(opts, sent \o Nul(opts)) = Rest8 /\ Rest8 \in Data
            BY <2>3, <3>1 DEF c
        <3> QED BY <1>3, <1>4, <2>1, <3>2, Texts8Are
    <2> QED BY <2>7, <2>8, <2>9 DEF n
<1>14. ASSUME data = Written(sender, sent), Wanted = Len(data)
       PROVE  /\ pc' = "CannotCodeString" => available < Len(data) /\ ~IsUtf16(opts)
              /\ pc' = "IoError" => available < Len(data)
    <2>1. ASSUME pc' = "IoError" PROVE available < Len(data)
        <3>1. available < first
            BY <1>2, <2>1
        <3>2. first <= Len(data)
            BY <1>13, <1>14
        <3> QED BY <1>5, <1>6, <3>1, <3>2
    <2>2. ASSUME pc' = "CannotCodeString", available = Len(data) PROVE FALSE
        <3>1. m = Len(data)
            BY <1>5, <1>14, <2>2
        <3>2. ~(Wanted < first)
            BY <1>5, <1>6, <1>13, <1>14
        <3>3. sent \in Texts8 /\ (opts.bom => SubSeq(data, 1, first) = Bom8)
            BY <1>13, <1>14, <3>1
        <3>4. Texts8 # {}
            BY <3>3
        <3> QED BY <1>2, <2>2, <3>2, <3>3, <3>4
    <2>3. available # Len(data) => available < Len(data)
        BY <1>5
    <2> QED BY <1>3, <2>1, <2>2, <2>3
<1>15. pc' \in {"ok", "CannotCodeString", "IoError"}
    BY <1>2
<1>16. pc' = "ok" /\ ~Mistaken =>
           \E o \in {opts, Actual'} :
               /\ o = opts \/ (IsUtf16(opts) /\ opts.bom)
               /\ Written(o, value') = SubSeq(data, 1, Min({Wanted, available}))
    BY <1>10 DEF m
<1> QED
    BY <1>1, <1>3, <1>7, <1>11, <1>14, <1>15, <1>16, EndedIInv
(* The sender of UTF-16 differs at most in the byte order.                 *)
LEMMA SenderOfUtf16 ==
    ASSUME TypeOK, SendersAreRelated, IsUtf16(opts)
    PROVE  /\ IsUtf16(sender) /\ sender.bom = opts.bom /\ sender.terminator = opts.terminator
           /\ ~opts.bom => sender = opts
           /\ ConfiguredOrder(sender) \in Order /\ sent \in Seq(Char)
<1>1. sender = opts \/ (IsUtf16(sender) /\ sender.bom /\ opts.bom
                        /\ sender.terminator = opts.terminator)
    BY DEF SendersAreRelated
<1>2. ConfiguredOrder(sender) \in Order
    BY ActualIsConfigured
<1>3. sent \in Seq(Char)
    BY TextIsChars DEF TypeOK
<1>4. opts.bom \in BOOLEAN /\ sender.bom \in BOOLEAN
    BY DEF TypeOK, StringOptions
<1>5. CASE sender = opts
    BY <1>2, <1>3, <1>5
<1>6. CASE IsUtf16(sender) /\ sender.bom /\ opts.bom /\ sender.terminator = opts.terminator
    BY <1>2, <1>3, <1>4, <1>6
<1> QED
    BY <1>1, <1>5, <1>6

(* What was written in UTF-16 has whole units and begins with the byte     *)
(* order mark.                                                             *)
LEMMA WrittenUnits ==
    ASSUME TypeOK, SendersAreRelated, IsUtf16(opts), data = Written(sender, sent)
    PROVE  /\ Full(sender, sent) \in Seq(Char)
           /\ data = Encode(sender, Full(sender, sent))
           /\ Len(data) % 2 = 0
           /\ opts.bom => /\ 2 <= Len(data)
                          /\ SubSeq(data, 1, 2) = BytesOf(BomChar, ConfiguredOrder(sender))
<1>1. IsUtf16(sender) /\ sender.bom = opts.bom /\ sent \in Seq(Char)
    BY SenderOfUtf16
<1>2. Full(sender, sent) \in Seq(Char)
    BY <1>1, FullShape
<1>3. data = Encode(sender, Full(sender, sent))
    BY WrittenIsFull
<1>4. Len(data) % 2 = 0
    BY <1>1, <1>2, <1>3, EncodedUnits
<1>5. ASSUME opts.bom
      PROVE  2 <= Len(data) /\ SubSeq(data, 1, 2) = BytesOf(BomChar, ConfiguredOrder(sender))
    <2> DEFINE s == BytesOf(BomChar, ConfiguredOrder(sender))
    <2>1. Starts(s, data)
        <3>1. sender.bom
            BY <1>1, <1>5
        <3>2. Starts(CharBytes(sender, BomChar), Written(sender, sent))
              /\ CharBytes(sender, BomChar) = s
            BY <1>1, <3>1, BomShows
        <3> QED BY <3>2
    <2>2. s \in Data /\ Len(s) = 2
        BY MarksAreChars, ShortIsUnit, UnitBytes
    <2> HIDE DEF s
    <2>3. 2 <= Len(data) /\ \A i \in 1 .. 2 : s[i] = data[i]
        BY <2>1, <2>2 DEF Starts
    <2>4. 2 \in 0 .. Len(data) /\ data \in Data
        <3>1. data \in Data /\ Len(data) \in Nat
            BY DEF TypeOK, Data
        <3> QED BY <2>3, <3>1
    <2> DEFINE t == SubSeq(data, 1, 2)
    <2>5. t \in Data /\ Len(t) = 2 /\ \A i \in 1 .. 2 : t[i] = data[i]
        BY <2>4, Beginning
    <2> HIDE DEF t
    <2>6. \A i \in 1 .. 2 : t[i] = s[i]
        BY <2>3, <2>5
    <2>7. t = s
        BY <2>2, <2>5, <2>6, SeqEqual DEF Data
    <2> QED BY <2>3, <2>7 DEF s, t
<1> QED
    BY <1>2, <1>3, <1>4, <1>5

(* The bytes of the byte order mark are recognized.                        *)
LEMMA BomIsRecognized ==
    /\ \A ord \in Order : BomOrder(BytesOf(BomChar, ord)) = {ord}
    /\ \A first, ord : ord \in BomOrder(first) => ord \in Order /\ first = BytesOf(BomChar, ord)
<1> DEFINE b == <<254, 255>>
           l == <<255, 254>>
<1>1. b # l
    <2>1. b[1] # l[1]
        OBVIOUS
    <2> QED BY <2>1
<1>2. BytesOf(BomChar, "Big") = b /\ BytesOf(BomChar, "Little") = l
    BY BomBytes
<1>3. BomOrder(b) = {"Big"}
    BY DEF BomOrder
<1>4. BomOrder(l) = {"Little"}
    BY <1>1 DEF BomOrder
<1>5. \A first : first # b /\ first # l => BomOrder(first) = {}
    BY DEF BomOrder
<1> HIDE DEF b, l
<1>6. ASSUME NEW first, NEW ord, ord \in BomOrder(first)
      PROVE  ord \in Order /\ first = BytesOf(BomChar, ord)
    <2>1. CASE first = b
        <3>1. ord = "Big"
            BY <1>3, <1>6, <2>1
        <3> QED BY <1>2, <2>1, <3>1 DEF Order
    <2>2. CASE first = l
        <3>1. ord = "Little"
            BY <1>4, <1>6, <2>2
        <3> QED BY <1>2, <2>2, <3>1 DEF Order
    <2> QED BY <1>5, <1>6, <2>1, <2>2
<1>7. \A ord \in Order : BomOrder(BytesOf(BomChar, ord)) = {ord}
    BY <1>2, <1>3, <1>4 DEF Order
<1> QED
    BY <1>6, <1>7
(* A state of reading UTF-16 that still reads keeps the invariant when     *)
(* what has been read is what has been decoded.                            *)
LEMMA UnitsIInv ==
    ASSUME IInv, UNCHANGED input, pc \in {"utf16", "units"}, pc' = "units",
           at' \in Nat, at' <= Wanted, at' <= available, at' % 2 = 0, Wanted % 2 = 0,
           order' \in Order, ~opts.bom => order' = ConfiguredOrder(opts),
           high' = None \/ (high' \in Nat /\ IsHigh(high')), value' \in Seq(Char),
           Encode(Actual', Begun') \o Waiting' = SubSeq(data, 1, at')
    PROVE  IInv'
<1>1. /\ Wanted' = Wanted /\ SendersAreRelated'
      /\ opts' = opts /\ sender' = sender /\ sent' = sent /\ data' = data
      /\ maxSize' = maxSize /\ lent' = lent /\ available' = available
    BY InputStays
<1>2. TypeOK'
    <2>1. value' \in Text
        BY TextIsChars
    <2>2. at' \in 0 .. Len(data)
        <3>1. TypeOK
            BY DEF IInv
        <3>2. Wanted \in Nat /\ Wanted <= Len(data) /\ Len(data) \in Nat
            <4> HIDE DEF Wanted
            <4> QED BY <3>1, WantedIsInData
        <3>3. at' \in Nat /\ at' <= Wanted
            OBVIOUS
        <3> DEFINE n == Wanted
                   l == Len(data)
                   a == at'
        <3>4. a \in Nat /\ a <= n /\ n \in Nat /\ n <= l /\ l \in Nat
            BY <3>2, <3>3
        <3> HIDE DEF n, l, a
        <3>5. a \in 0 .. l
            BY ONLY <3>4
        <3> QED BY <3>5 DEF l, a
    <2> QED BY <1>1, <2>1, <2>2 DEF IInv, TypeOK, Order
<1>3. Flow'
    <2>1. IsUtf16(opts) /\ (lent => available = Len(data))
          /\ (sender.encoding = "Ascii" => IsAscii(sent))
        BY DEF IInv, Flow
    <2>2. pc' \notin {"write", "begin", "borrow", "utf8", "utf16", "ok"}
        OBVIOUS
    <2> QED BY <1>1, <2>1, <2>2 DEF Flow
<1>4. UnitsRead'
    <2> HIDE DEF Wanted
    <2> QED BY <1>1 DEF UnitsRead
<1>5. AcceptedWritten' /\ NoFalseAlarm'
    BY DEF AcceptedWritten, NoFalseAlarm
<1> QED
    BY <1>1, <1>2, <1>3, <1>4, <1>5 DEF IInv

(* Beginning with UTF-16 keeps it: the byte order is the one of the byte   *)
(* order mark.                                                             *)
LEMMA BeginUtf16IInv == IInv /\ BeginUtf16 => IInv'
<1> SUFFICES ASSUME IInv, BeginUtf16 PROVE IInv'
    OBVIOUS
<1>1. UNCHANGED input /\ high' = high /\ value' = value /\ pc = "utf16"
    BY DEF BeginUtf16, input
<1>2. TypeOK /\ SendersAreRelated /\ IsUtf16(opts) /\ at = 0 /\ high = None /\ value = <<>>
    BY <1>1 DEF IInv, Flow
<1>3. /\ Wanted \in Nat /\ available \in Nat /\ Wanted <= Len(data) /\ available <= Len(data)
      /\ Len(data) \in Nat
    <2> HIDE DEF Wanted
    <2> QED BY <1>2, WantedIsInData
<1>4. data \in Data /\ order \in Order /\ opts.bom \in BOOLEAN /\ ConfiguredOrder(opts) \in Order
    BY <1>2, ActualIsConfigured DEF TypeOK, StringOptions
<1>5. \/ /\ Wanted % 2 # 0 \/ (opts.bom /\ Wanted = 0)
         /\ pc' = "CannotCodeString" /\ at' = at /\ order' = order
      \/ /\ Wanted % 2 = 0 /\ ~opts.bom
         /\ order' = ConfiguredOrder(opts) /\ pc' = "units" /\ at' = at
      \/ /\ Wanted % 2 = 0 /\ opts.bom /\ Wanted > 0 /\ available < 2
         /\ pc' = "IoError" /\ at' = at /\ order' = order
      \/ /\ Wanted % 2 = 0 /\ opts.bom /\ Wanted > 0 /\ available >= 2 /\ at' = 2
         /\ \/ order' \in BomOrder(SubSeq(data, 1, 2)) /\ pc' = "units"
            \/ /\ BomOrder(SubSeq(data, 1, 2)) = {}
               /\ pc' = "CannotCodeString" /\ order' = order
    BY DEF BeginUtf16
<1> HIDE DEF Wanted
<1>6. ASSUME data = Written(sender, sent)
      PROVE  /\ Len(data) % 2 = 0
             /\ opts.bom => 2 <= Len(data) /\ BomOrder(SubSeq(data, 1, 2)) # {}
    <2>1. /\ Len(data) % 2 = 0
          /\ opts.bom => /\ 2 <= Len(data)
                         /\ SubSeq(data, 1, 2) = BytesOf(BomChar, ConfiguredOrder(sender))
        BY <1>2, <1>6, WrittenUnits
    <2>2. ConfiguredOrder(sender) \in Order
        BY <1>2, ActualIsConfigured
    <2>3. BomOrder(BytesOf(BomChar, ConfiguredOrder(sender))) = {ConfiguredOrder(sender)}
        BY <2>2, BomIsRecognized
    <2> QED BY <2>1, <2>3
<1>7. value' \in Seq(Char) /\ (high' = None \/ (high' \in Nat /\ IsHigh(high')))
    BY <1>1, <1>2
<1>8. ASSUME pc' \in {"CannotCodeString", "IoError"} PROVE IInv'
    <2>1. at' \in 0 .. Len(data) /\ order' \in Order
        BY <1>2, <1>3, <1>4, <1>5, <1>8
    <2>2. ASSUME data = Written(sender, sent), Wanted = Len(data)
          PROVE  pc' = "IoError" /\ available < Len(data)
        <3> DEFINE n == Len(data)
        <3>1. n \in Nat /\ n % 2 = 0 /\ (opts.bom => 2 <= n /\ BomOrder(SubSeq(data, 1, 2)) # {})
              /\ Wanted = n
            BY <1>3, <1>6, <2>2
        <3> HIDE DEF n
        <3>2. ~(Wanted % 2 # 0 \/ (opts.bom /\ Wanted = 0))
            BY <3>1
        <3>3. pc' = "IoError" /\ available < 2 /\ opts.bom
            BY <1>5, <1>8, <3>1, <3>2
        <3> QED BY <1>3, <3>1, <3>3 DEF n
    <2>3. pc' # "ok" /\ pc' \in {"ok", "CannotCodeString", "IoError"}
        BY <1>8
    <2> QED BY <1>1, <1>7, <2>1, <2>2, <2>3, EndedIInv
<1>9. Begun' = Bom(opts) /\ Waiting' = <<>>
    <2>1. opts' = opts /\ value' = <<>> /\ high' = None
        BY <1>1, <1>2 DEF input
    <2>2. Bom(opts) \in Seq(Char)
        BY MarksAreChars DEF Bom
    <2>3. Bom(opts) \o <<>> = Bom(opts)
        BY <2>2, ConcatEmptySeq
    <2> QED BY <2>1, <2>3 DEF Begun, Waiting, Bom
<1>10. ASSUME order' \in Order
       PROVE  IsUtf16(Actual') /\ ConfiguredOrder(Actual') = order'
    <2>1. Actual'.encoding = "Utf16" /\ Actual'.order = order'
        BY <1>1, <1>2 DEF Actual, input, TypeOK, StringOptions
    <2> QED BY <2>1 DEF IsUtf16, ConfiguredOrder
<1>11. CASE ~opts.bom /\ Wanted % 2 = 0 /\ order' = ConfiguredOrder(opts) /\ pc' = "units" /\ at' = at
    <2>1. Begun' = <<>>
        BY <1>9, <1>11 DEF Bom
    <2>2. SubSeq(data, 1, 0) = <<>>
        BY SubSeqEmpty
    <2>3. Encode(Actual', Begun') = <<>>
        BY <2>1, EncodeNothing
    <2>4. <<>> \o <<>> = <<>>
        OBVIOUS
    <2>5. Encode(Actual', Begun') \o Waiting' = SubSeq(data, 1, at')
        BY <1>2, <1>9, <1>11, <2>2, <2>3, <2>4
    <2>6. at' = 0 /\ 0 % 2 = 0
        BY <1>2, <1>11
    <2> QED BY <1>1, <1>3, <1>4, <1>7, <1>11, <2>5, <2>6, UnitsIInv
<1>12. CASE /\ Wanted % 2 = 0 /\ opts.bom /\ Wanted > 0 /\ available >= 2 /\ at' = 2
            /\ order' \in BomOrder(SubSeq(data, 1, 2)) /\ pc' = "units"
    <2>1. order' \in Order /\ SubSeq(data, 1, 2) = BytesOf(BomChar, order')
        BY <1>12, BomIsRecognized
    <2>2. Begun' = Append(<<>>, BomChar)
        <3>1. Append(<<>>, BomChar) = <<BomChar>>
            OBVIOUS
        <3> QED BY <1>9, <1>12, <3>1 DEF Bom
    <2>3. Encode(Actual', Append(<<>>, BomChar)) = Encode(Actual', <<>>) \o CharBytes(Actual', BomChar)
        <3>1. <<>> \in Seq(Char)
            OBVIOUS
        <3> QED BY <3>1, MarksAreChars, EncodeMore
    <2>4. CharBytes(Actual', BomChar) = BytesOf(BomChar, order')
        BY <1>10, <2>1, MarksAreChars, CharIsNat, Utf16Bytes
    <2>5. BytesOf(BomChar, order') \in Seq(Byte)
        BY MarksAreChars, ShortIsUnit, UnitBytes DEF Data
    <2>6. Encode(Actual', Begun') \o Waiting' = SubSeq(data, 1, at')
        <3> DEFINE b == BytesOf(BomChar, order')
        <3>1. Encode(Actual', <<>>) = <<>>
            BY EncodeNothing
        <3>2. <<>> \o b = b /\ b \o <<>> = b
            <4> HIDE DEF b
            <4> QED BY <2>5, ConcatEmptySeq DEF b
        <3>3. Encode(Actual', Begun') = b
            BY <2>2, <2>3, <2>4, <3>1, <3>2
        <3> QED BY <1>9, <1>12, <2>1, <3>2, <3>3
    <2>7. at' \in Nat /\ at' <= Wanted /\ at' <= available /\ at' % 2 = 0
        BY <1>3, <1>12
    <2>8. pc \in {"utf16", "units"} /\ pc' = "units" /\ Wanted % 2 = 0 /\ opts.bom
        BY <1>1, <1>12
    <2> QED BY <1>1, <1>7, <2>1, <2>6, <2>7, <2>8, UnitsIInv
<1>13. pc' \in {"CannotCodeString", "IoError"} \/
       (~opts.bom /\ Wanted % 2 = 0 /\ order' = ConfiguredOrder(opts) /\ pc' = "units" /\ at' = at) \/
       (/\ Wanted % 2 = 0 /\ opts.bom /\ Wanted > 0 /\ available >= 2 /\ at' = 2
        /\ order' \in BomOrder(SubSeq(data, 1, 2)) /\ pc' = "units")
    BY <1>5
<1> QED
    BY <1>8, <1>11, <1>12, <1>13
(* Where a UTF-16 text has been read to.                                   *)
LEMMA ReadSoFar ==
    ASSUME IInv, pc = "units"
    PROVE  /\ Begun \in Seq(Char) /\ value \in Seq(Char) /\ Bom(opts) \in Seq(Char)
           /\ Waiting \in Data /\ Encode(Actual, Begun) \in Data
           /\ Len(Waiting) = IF high = None THEN 0 ELSE 2
           /\ high # None => high \in Unit /\ high \in Nat /\ IsHigh(high)
           /\ Encode(Actual, Begun) \o Waiting = SubSeq(data, 1, at)
           /\ IsUtf16(Actual) /\ ConfiguredOrder(Actual) = order /\ order \in Order
           /\ Wanted \in Nat /\ at \in Nat /\ available \in Nat /\ Len(data) \in Nat
           /\ at <= Wanted /\ at <= available /\ Wanted <= Len(data) /\ available <= Len(data)
           /\ at % 2 = 0 /\ Wanted % 2 = 0
<1>1. TypeOK /\ UnitsRead
    BY DEF IInv
<1>2. value \in Seq(Char) /\ at \in Nat
    BY <1>1, TextIsChars DEF TypeOK
<1>3. Bom(opts) \in Seq(Char)
    BY <1>2, FullShape
<1>4. Begun \in Seq(Char)
    <2>1. Bom(opts) \o value \in Seq(Char)
        BY <1>2, FullShape
    <2> QED BY <2>1 DEF Begun
<1>5. high # None => high \in Nat /\ IsHigh(high)
    BY <1>1 DEF TypeOK
<1>6. high # None => high \in Unit
    <2> SUFFICES ASSUME high # None PROVE high \in Unit
        OBVIOUS
    <2> DEFINE h == high
    <2>1. h \in Nat /\ IsHigh(h)
        BY <1>5
    <2> HIDE DEF h
    <2>2. h \in Unit
        BY SMT, <2>1 DEF IsHigh, Unit
    <2> QED BY <2>2 DEF h
<1>7. Waiting \in Data /\ Len(Waiting) = IF high = None THEN 0 ELSE 2
    <2>1. CASE high = None
        <3>1. Waiting = <<>>
            BY <2>1 DEF Waiting
        <3> QED BY <2>1, <3>1 DEF Data
    <2>2. CASE high # None
        <3>1. Waiting = BytesOf(high, order)
            BY <2>2 DEF Waiting
        <3> QED BY <1>6, <2>2, <3>1, UnitBytes
    <2> QED BY <2>1, <2>2
<1>8. IsUtf16(Actual) /\ ConfiguredOrder(Actual) = order /\ order \in Order
    BY <1>1, ActualIsConfigured
<1>9. Encode(Actual, Begun) \in Data
    BY <1>4, EncodeIsData
<1>10. /\ Wanted \in Nat /\ available \in Nat /\ Len(data) \in Nat
       /\ Wanted <= Len(data) /\ available <= Len(data)
    BY <1>1, WantedIsInData
<1>11. /\ Encode(Actual, Begun) \o Waiting = SubSeq(data, 1, at)
       /\ at <= Wanted /\ at <= available /\ at % 2 = 0 /\ Wanted % 2 = 0
    BY <1>1 DEF UnitsRead
<1> QED
    BY <1>2, <1>3, <1>4, <1>5, <1>6, <1>7, <1>8, <1>9, <1>10, <1>11

(* The byte order in which the units are read is the sender's.             *)
LEMMA SendersBytes ==
    ASSUME IInv, pc = "units", data = Written(sender, sent)
    PROVE  /\ Full(sender, sent) \in Seq(Char)
           /\ data = Encode(Actual, Full(sender, sent))
<1>1. TypeOK /\ SendersAreRelated /\ IsUtf16(opts) /\ data \in Data
    BY DEF IInv, Flow, TypeOK
<1>2. /\ IsUtf16(sender) /\ sender.bom = opts.bom /\ ConfiguredOrder(sender) \in Order
      /\ (~opts.bom => sender = opts) /\ sent \in Seq(Char)
    BY <1>1, SenderOfUtf16
<1>3. Full(sender, sent) \in Seq(Char) /\ data = Encode(sender, Full(sender, sent))
    BY <1>1, WrittenUnits
<1>4. IsUtf16(Actual) /\ ConfiguredOrder(Actual) = order /\ order \in Order
    BY ReadSoFar
<1>5. order = ConfiguredOrder(sender)
    <2>1. CASE ~opts.bom
        BY <1>2, <2>1 DEF IInv, UnitsRead
    <2>2. CASE opts.bom
        <3> DEFINE a == CharBytes(Actual, BomChar)
                   e == Encode(Actual, value)
                   x == Encode(Actual, Begun)
        <3>1. value \in Seq(Char) /\ x \in Data /\ Waiting \in Data /\ at \in 0 .. Len(data)
              /\ x \o Waiting = SubSeq(data, 1, at)
            <4> HIDE DEF x
            <4> QED BY <1>1, ReadSoFar DEF TypeOK, x
        <3>2. a \in Data /\ e \in Data
            BY <3>1, MarksAreChars, CharBytesAreData, EncodeIsData
        <3>3. <<BomChar>> \in Seq(Char) /\ Begun = <<BomChar>> \o value
            BY <2>2, MarksAreChars DEF Begun, Bom
        <3>4. Encode(Actual, <<BomChar>>) = a
            <4>1. Append(<<>>, BomChar) = <<BomChar>> /\ <<>> \in Seq(Char)
                OBVIOUS
            <4>2. Encode(Actual, Append(<<>>, BomChar)) = Encode(Actual, <<>>) \o a
                BY <4>1, MarksAreChars, EncodeMore
            <4>3. <<>> \o a = a
                <5> HIDE DEF a
                <5> QED BY <3>2, ConcatEmptySeq DEF Data
            <4> QED BY <4>1, <4>2, <4>3, EncodeNothing
        <3>5. x = a \o e
            BY <3>1, <3>3, <3>4, EncodeConcat
        <3> HIDE DEF a, e, x
        <3>6. Starts(a, x)
            BY <3>2, <3>5, ConcatStarts
        <3>7. Starts(x, x \o Waiting) /\ x \o Waiting \in Data
            BY <3>1, ConcatStarts
        <3>8. Starts(x \o Waiting, data)
            BY <1>1, <3>1, Beginning
        <3>9. Starts(a, x \o Waiting)
            BY <3>1, <3>2, <3>6, <3>7, StartsTransitive
        <3>10. Starts(a, data)
            BY <1>1, <3>2, <3>7, <3>8, <3>9, StartsTransitive
        <3>11. Starts(CharBytes(Actual, BomChar), Written(sender, sent))
            BY <3>10 DEF a
        <3>12. sender.bom
            BY <1>2, <2>2
        <3> QED BY <1>2, <1>4, <3>11, <3>12, SameOrder
    <2> QED BY <2>1, <2>2
<1>6. Encode(Actual, Full(sender, sent)) = Encode(sender, Full(sender, sent))
    BY <1>2, <1>4, <1>5, EncodeAlike
<1> QED
    BY <1>3, <1>6

(* The unit that comes next, with what waits for it, is a character's or   *)
(* its beginning, in a text that somebody wrote.                           *)
LEMMA NextUnit ==
    ASSUME IInv, pc = "units", data = Written(sender, sent), at + 2 <= Len(data)
    PROVE  high = None <=> ~IsLow(UnitAt(at, order))
<1> DEFINE w == Full(sender, sent)
           x == Encode(Actual, Begun)
           u == UnitAt(at, order)
           b == Waiting \o BytesOf(u, order)
<1>1. /\ Begun \in Seq(Char) /\ x \in Data /\ Waiting \in Data /\ at \in Nat
      /\ x \o Waiting = SubSeq(data, 1, at)
      /\ (high # None => high \in Unit /\ IsHigh(high))
      /\ IsUtf16(Actual) /\ ConfiguredOrder(Actual) = order /\ order \in Order
      /\ Len(data) \in Nat /\ Len(Waiting) \in Nat
    <2>1. Len(Waiting) \in Nat
        BY ReadSoFar
    <2> HIDE DEF x
    <2> QED BY <2>1, ReadSoFar DEF x
<1>2. data \in Data /\ w \in Seq(Char) /\ data = Encode(Actual, w)
    <2> HIDE DEF w
    <2> QED BY SendersBytes DEF IInv, TypeOK, w
<1>3. u \in Unit /\ SubSeq(data, 1, at + 2) = SubSeq(data, 1, at) \o BytesOf(u, order)
    <2> HIDE DEF u
    <2> QED BY <1>1, <1>2, UnitIsRead DEF u
<1>4. BytesOf(u, order) \in Data /\ Len(BytesOf(u, order)) = 2
    <2> HIDE DEF u
    <2> QED BY <1>3, UnitBytes
<1> DEFINE e == BytesOf(u, order)
<1>5. b \in Data /\ Len(b) >= 1 /\ x \o b = SubSeq(data, 1, at + 2)
    <2> HIDE DEF x, e
    <2>1. e \in Data /\ Len(e) = 2
        BY <1>4 DEF e
    <2>2. Waiting \o e \in Data /\ Len(Waiting \o e) = Len(Waiting) + Len(e)
        BY ONLY <1>1, <2>1, ConcatStarts
    <2>3. x \in Seq(Byte) /\ Waiting \in Seq(Byte) /\ e \in Seq(Byte)
        BY <1>1, <2>1 DEF Data
    <2>4. (x \o Waiting) \o e = x \o (Waiting \o e)
        BY ONLY <2>3, ConcatAssociative
    <2> QED BY <1>1, <1>3, <2>1, <2>2, <2>4 DEF e
<1>6. Starts(x \o b, data)
    <2>1. at + 2 \in 0 .. Len(data)
        <3> DEFINE n == Len(data)
                   k == at
        <3>1. n \in Nat /\ k \in Nat /\ k + 2 <= n
            BY <1>1
        <3> HIDE DEF n, k
        <3>2. k + 2 \in 0 .. n
            BY ONLY <3>1
        <3> QED BY <3>2 DEF n, k
    <2>2. Starts(SubSeq(data, 1, at + 2), data)
        BY ONLY <1>2, <2>1, Beginning
    <2> QED BY <1>5, <2>2
<1>7. Starts(Encode(Actual, Begun) \o b, Encode(Actual, w))
    BY <1>2, <1>6
<1> HIDE DEF b, w
<1>8. PICK c \in Char : Agree(b, CharBytes(Actual, c))
    BY ONLY <1>1, <1>2, <1>5, <1>7, NextCharacter
<1> HIDE DEF u, x, e
<1>9. CASE high = None
    <2>1. Waiting = <<>>
        BY <1>9 DEF Waiting
    <2>2. <<>> \o BytesOf(u, order) = BytesOf(u, order)
        BY <1>4, ConcatEmptySeq DEF Data
    <2>3. Agree(BytesOf(u, ConfiguredOrder(Actual)), CharBytes(Actual, c))
        BY <1>1, <1>8, <2>1, <2>2 DEF b
    <2>4. ~IsLow(u)
        BY <1>1, <1>3, <2>3, UnitsOfCharacter
    <2> QED BY <1>9, <2>4 DEF u
<1>10. CASE high # None
    <2>1. Waiting = BytesOf(high, order)
        BY <1>10 DEF Waiting
    <2>2. Agree(BytesOf(high, ConfiguredOrder(Actual)) \o BytesOf(u, ConfiguredOrder(Actual)),
                CharBytes(Actual, c))
        BY <1>1, <1>8, <2>1 DEF b
    <2>3. IsLow(u)
        BY <1>1, <1>3, <1>10, <2>2, SecondUnit
    <2> QED BY <1>10, <2>3 DEF u
<1> QED
    BY <1>9, <1>10

(* No half of a character is left over at the end of a text that somebody  *)
(* wrote.                                                                  *)
LEMMA NothingWaits ==
    ASSUME IInv, pc = "units", data = Written(sender, sent), at = Len(data)
    PROVE  high = None
<1> SUFFICES ASSUME high # None PROVE FALSE
    OBVIOUS
<1> DEFINE w == Full(sender, sent)
           x == Encode(Actual, Begun)
<1>1. /\ Begun \in Seq(Char) /\ x \in Data /\ Waiting \in Data /\ Len(Waiting) = 2
      /\ x \o Waiting = SubSeq(data, 1, at)
      /\ high \in Unit /\ IsHigh(high)
      /\ IsUtf16(Actual) /\ ConfiguredOrder(Actual) = order
    <2> HIDE DEF x
    <2> QED BY ReadSoFar DEF x
<1>2. data \in Data /\ w \in Seq(Char) /\ data = Encode(Actual, w)
    <2> HIDE DEF w
    <2> QED BY SendersBytes DEF IInv, TypeOK, w
<1>3. x \o Waiting = data
    BY <1>1, <1>2, SubSeqFull DEF Data
<1>4. Starts(Encode(Actual, Begun) \o Waiting, Encode(Actual, w))
    BY <1>2, <1>3, StartsItself
<1>5. Len(Waiting) >= 1
    BY <1>1
<1> HIDE DEF w
<1>6. PICK c \in Char : /\ Agree(Waiting, CharBytes(Actual, c))
                        /\ Len(x) + Len(CharBytes(Actual, c)) <= Len(Encode(Actual, w))
    BY ONLY <1>1, <1>2, <1>4, <1>5, NextCharacter
<1> HIDE DEF x
<1>7. Waiting = BytesOf(high, ConfiguredOrder(Actual))
    BY <1>1 DEF Waiting
<1>8. Len(CharBytes(Actual, c)) = 4
    BY <1>1, <1>6, <1>7, UnitsOfCharacter
<1>9. Len(x) + 2 = Len(data) /\ Len(x) \in Nat
    <2>1. Len(x \o Waiting) = Len(x) + Len(Waiting)
        BY <1>1, ConcatStarts
    <2> QED BY <1>1, <1>3, <2>1 DEF Data
<1>10. Len(x) + 4 <= Len(x) + 2
    BY <1>2, <1>6, <1>8, <1>9
<1> QED
    BY <1>9, <1>10
(* A unit that is no surrogate is a character.                             *)
LEMMA UnitIsChar ==
    ASSUME NEW u \in Unit, ~IsHigh(u), ~IsLow(u)
    PROVE  u \in Char /\ u \in Nat /\ u <= MaxChar /\ Short(u)
<1>1. u \in 0 .. MaxChar /\ u \in Nat /\ Short(u)
    BY SMT, MaxCharIsNat DEF Unit, Short
<1>2. u \in Char
    BY <1>1 DEF Char, IsSurrogate
<1> QED
    BY <1>1, <1>2, MaxCharIsNat

(* One character more has been decoded when the bytes that belong to it    *)
(* have been read.                                                         *)
LEMMA OneMoreDecoded ==
    ASSUME IInv, pc = "units", NEW c \in Char, NEW e \in Data,
           Waiting \o e = CharBytes(Actual, c)
    PROVE  Encode(Actual, Append(Begun, c)) = SubSeq(data, 1, at) \o e
<1> DEFINE x == Encode(Actual, Begun)
<1>1. Begun \in Seq(Char) /\ Waiting \in Data /\ x \in Data /\ x \o Waiting = SubSeq(data, 1, at)
    <2> HIDE DEF x
    <2> QED BY ReadSoFar DEF x
<1>2. Encode(Actual, Append(Begun, c)) = x \o (Waiting \o e)
    BY <1>1, EncodeMore
<1>3. x \in Seq(Byte) /\ Waiting \in Seq(Byte) /\ e \in Seq(Byte)
    BY <1>1 DEF Data
<1> HIDE DEF x
<1>4. (x \o Waiting) \o e = x \o (Waiting \o e)
    BY ONLY <1>3, ConcatAssociative
<1> QED
    BY <1>1, <1>2, <1>4

(* A unit keeps it: bytes read are characters decoded and half of one that *)
(* waits.                                                                  *)
LEMMA ReadUnitIInv == IInv /\ ReadUnit => IInv'
<1> SUFFICES ASSUME IInv, ReadUnit PROVE IInv'
    OBVIOUS
<1> DEFINE u == UnitAt(at, order)
           e == BytesOf(u, order)
<1>1. UNCHANGED input /\ order' = order /\ pc = "units" /\ at < Wanted /\ available >= at + 2
      /\ at' = at + 2
    BY DEF ReadUnit, Units, input
<1>2. \/ high = None /\ IsHigh(u) /\ high' = u /\ value' = value /\ pc' = pc
      \/ high = None /\ ~IsHigh(u) /\ ~IsLow(u) /\ value' = Append(value, u) /\ high' = high /\ pc' = pc
      \/ high # None /\ IsLow(u) /\ value' = Append(value, Pair(u)) /\ high' = None /\ pc' = pc
      \/ (high = None) = IsLow(u) /\ pc' = "CannotCodeString" /\ value' = value /\ high' = high
    BY DEF ReadUnit, Decode, Fail
<1>3. /\ Begun \in Seq(Char) /\ value \in Seq(Char) /\ Bom(opts) \in Seq(Char)
      /\ high # None => high \in Nat /\ IsHigh(high)
      /\ IsUtf16(Actual) /\ ConfiguredOrder(Actual) = order /\ order \in Order
    BY <1>1, ReadSoFar
<1>4. /\ Wanted \in Nat /\ at \in Nat /\ available \in Nat /\ Len(data) \in Nat
      /\ Wanted <= Len(data) /\ available <= Len(data) /\ at % 2 = 0 /\ Wanted % 2 = 0
    BY <1>1, ReadSoFar
<1>5. at + 2 <= Wanted /\ at' \in Nat /\ at' <= Wanted /\ at' <= available /\ at' % 2 = 0
      /\ at + 2 <= Len(data) /\ at' \in 0 .. Len(data)
    <2> DEFINE a == at
               m == Wanted
               n == Len(data)
               k == available
    <2>1. a \in Nat /\ m \in Nat /\ n \in Nat /\ k \in Nat /\ m <= n /\ k <= n /\ a % 2 = 0 /\ m % 2 = 0
          /\ a < m /\ k >= a + 2
        BY <1>1, <1>4
    <2> HIDE DEF a, m, n, k
    <2>2. a + 2 <= m /\ (a + 2) % 2 = 0
        BY ONLY SMT, <2>1
    <2>3. a + 2 \in Nat /\ a + 2 <= k /\ a + 2 <= n /\ a + 2 \in 0 .. n
        BY ONLY <2>1, <2>2
    <2> QED BY <1>1, <2>2, <2>3 DEF a, m, n, k
<1>6. u \in Unit /\ SubSeq(data, 1, at') = SubSeq(data, 1, at) \o e
    <2>1. data \in Data
        BY DEF IInv, TypeOK
    <2> QED BY <1>1, <1>3, <1>4, <1>5, <2>1, UnitIsRead
<1>7. e \in Data
    <2> HIDE DEF u
    <2> QED BY <1>6, UnitBytes
<1>8. Actual' = Actual /\ Bom(opts)' = Bom(opts) /\ (~opts.bom => order' = ConfiguredOrder(opts))
    BY <1>1 DEF Actual, Bom, input, IInv, UnitsRead
<1>9. ASSUME pc' = pc, high' = None \/ (high' \in Nat /\ IsHigh(high')), value' \in Seq(Char),
             Encode(Actual, Begun') \o Waiting' = SubSeq(data, 1, at')
      PROVE  IInv'
    <2>1. Encode(Actual', Begun') \o Waiting' = SubSeq(data, 1, at')
        BY <1>8, <1>9
    <2>2. pc \in {"utf16", "units"} /\ pc' = "units" /\ order' \in Order
        BY <1>1, <1>3, <1>9
    <2> HIDE DEF u, e
    <2> QED BY <1>1, <1>4, <1>5, <1>8, <1>9, <2>1, <2>2, UnitsIInv
<1>10. ASSUME NEW c \in Char, value' = Append(value, c), high' = None, pc' = pc,
              Waiting \o e = CharBytes(Actual, c)
       PROVE  IInv'
    <2>1. Encode(Actual, Append(Begun, c)) = SubSeq(data, 1, at')
        <3> HIDE DEF e
        <3> QED BY <1>1, <1>6, <1>7, <1>10, OneMoreDecoded
    <2>2. value' \in Seq(Char)
        BY <1>3, <1>10, AppendProperties
    <2>3. Begun' = Append(Begun, c)
        <3>1. Bom(opts) \o Append(value, c) = Append(Bom(opts) \o value, c)
            <4> DEFINE a == Bom(opts)
            <4>1. a \in Seq(Char) /\ value \in Seq(Char) /\ c \in Char
                BY <1>3
            <4> HIDE DEF a
            <4>2. a \o Append(value, c) = Append(a \o value, c)
                BY ONLY <4>1, AppendProperties, ConcatProperties, AppendIsConcat, ConcatAssociative
            <4> QED BY <4>2 DEF a
        <3> QED BY <1>8, <1>10, <3>1 DEF Begun
    <2>4. Encode(Actual, Begun') \in Seq(Byte)
        <3>1. Append(Begun, c) \in Seq(Char)
            BY <1>3, AppendProperties
        <3> QED BY <2>3, <3>1, EncodeIsData DEF Data
    <2>5. Waiting' = <<>>
        BY <1>10 DEF Waiting
    <2>6. Encode(Actual, Begun') \o <<>> = Encode(Actual, Begun')
        <3> DEFINE z == Encode(Actual, Begun')
        <3>1. z \in Seq(Byte)
            BY <2>4
        <3> HIDE DEF z
        <3>2. z \o <<>> = z
            BY ONLY <3>1, ConcatEmptySeq
        <3> QED BY <3>2 DEF z
    <2>7. Encode(Actual, Begun') \o Waiting' = SubSeq(data, 1, at')
        BY <2>1, <2>3, <2>5, <2>6
    <2> HIDE DEF u, e
    <2> QED BY <1>9, <1>10, <2>2, <2>7
<1> HIDE DEF u, e
<1>11. CASE high = None /\ IsHigh(u) /\ high' = u /\ value' = value /\ pc' = pc
    <2>1. Begun' = Begun
        BY <1>8, <1>11 DEF Begun
    <2>2. u \in Nat
        BY <1>6 DEF Unit
    <2>3. Waiting' = e /\ Waiting = <<>>
        <3>1. u # None
            BY <2>2 DEF None
        <3> QED BY <1>1, <1>11, <3>1 DEF Waiting, e
    <2>4. Encode(Actual, Begun) = SubSeq(data, 1, at)
        <3>1. Encode(Actual, Begun) \o Waiting = SubSeq(data, 1, at) /\ Encode(Actual, Begun) \in Data
            BY <1>1, ReadSoFar
        <3> DEFINE z == Encode(Actual, Begun)
        <3>2. z \in Seq(Byte)
            BY <3>1 DEF Data
        <3> HIDE DEF z
        <3>3. z \o <<>> = z
            BY ONLY <3>2, ConcatEmptySeq
        <3> QED BY <2>3, <3>1, <3>3 DEF z
    <2> QED BY <1>3, <1>6, <1>9, <1>11, <2>1, <2>2, <2>3, <2>4
<1>12. CASE high = None /\ ~IsHigh(u) /\ ~IsLow(u) /\ value' = Append(value, u) /\ high' = high /\ pc' = pc
    <2>1. u \in Char /\ u \in Nat /\ u <= MaxChar /\ Short(u)
        BY <1>6, <1>12, UnitIsChar
    <2>2. CharBytes(Actual, u) = e
        BY <1>3, <2>1, Utf16Bytes DEF e
    <2>3. Waiting \o e = e
        <3>1. Waiting = <<>>
            BY <1>12 DEF Waiting
        <3> QED BY <1>7, <3>1, ConcatEmptySeq DEF Data
    <2> QED BY <1>10, <1>12, <2>1, <2>2, <2>3
<1>13. CASE high # None /\ IsLow(u) /\ value' = Append(value, Pair(u)) /\ high' = None /\ pc' = pc
    <2> DEFINE c == Paired(high, u)
    <2>1. Pair(u) = c
        BY DEF Pair, Paired
    <2>2. u \in Nat /\ high \in Nat /\ IsHigh(high)
        BY <1>3, <1>6, <1>13 DEF Unit
    <2>3. c \in Char /\ ~Short(c) /\ HighUnit(c) = high /\ LowUnit(c) = u
        BY <1>13, <2>2, PairUnits
    <2> HIDE DEF c
    <2>4. c \in Nat /\ c <= MaxChar
        BY <2>3, CharIsNat
    <2>5. CharBytes(Actual, c) = BytesOf(high, order) \o e
        BY <1>3, <2>3, <2>4, Utf16Bytes DEF e
    <2>6. Waiting \o e = CharBytes(Actual, c)
        BY <1>13, <2>5 DEF Waiting
    <2> QED BY <1>10, <1>13, <2>1, <2>3, <2>6
<1>14. CASE (high = None) = IsLow(u) /\ pc' = "CannotCodeString" /\ value' = value /\ high' = high
    <2>1. data # Written(sender, sent)
        <3>1. ~(high = None <=> ~IsLow(u))
            BY <1>14
        <3> QED BY <1>1, <1>5, <3>1, NextUnit DEF u
    <2>2. pc' # "ok" /\ pc' \in {"ok", "CannotCodeString", "IoError"}
        BY <1>14
    <2>3. pc \in {"borrow", "utf8", "utf16", "units"} /\ order' \in Order /\ value' \in Seq(Char)
          /\ (high' = None \/ (high' \in Nat /\ IsHigh(high')))
        BY <1>1, <1>3, <1>14
    <2> QED BY <1>1, <1>5, <2>1, <2>2, <2>3, EndedIInv
<1> QED
    BY <1>2, <1>11, <1>12, <1>13, <1>14

(* An end of file between two units keeps it.                              *)
LEMMA UnitMissingIInv == IInv /\ UnitMissing => IInv'
<1> SUFFICES ASSUME IInv, UnitMissing PROVE IInv'
    OBVIOUS
<1>1. /\ UNCHANGED input /\ at' = at /\ order' = order /\ high' = high /\ value' = value
      /\ pc = "units" /\ at < Wanted /\ available < at + 2 /\ pc' = "IoError"
    BY DEF UnitMissing, Units, input, reading
<1>2. /\ value \in Seq(Char) /\ order \in Order
      /\ high # None => high \in Nat /\ IsHigh(high)
      /\ Wanted \in Nat /\ at \in Nat /\ available \in Nat /\ Len(data) \in Nat
      /\ at <= Wanted /\ Wanted <= Len(data) /\ at % 2 = 0 /\ Wanted % 2 = 0
    BY <1>1, ReadSoFar
<1>3. at \in 0 .. Len(data) /\ available < Wanted
    <2> DEFINE a == at
               m == Wanted
               n == Len(data)
               k == available
    <2>1. a \in Nat /\ m \in Nat /\ n \in Nat /\ k \in Nat /\ m <= n /\ a % 2 = 0 /\ m % 2 = 0
          /\ a < m /\ k < a + 2
        BY <1>1, <1>2
    <2> HIDE DEF a, m, n, k
    <2>2. a + 2 <= m
        BY ONLY SMT, <2>1
    <2>3. a \in 0 .. n /\ k < m
        BY ONLY <2>1, <2>2
    <2> QED BY <2>3 DEF a, m, n, k
<1>4. Wanted = Len(data) => available < Len(data)
    BY <1>3
<1>5. pc' # "ok" /\ pc' # "CannotCodeString" /\ pc' \in {"ok", "CannotCodeString", "IoError"}
      /\ pc \in {"borrow", "utf8", "utf16", "units"}
    BY <1>1
<1> QED
    BY <1>1, <1>2, <1>3, <1>4, <1>5, EndedIInv

(* So does the end of the text.                                            *)
LEMMA EndUtf16IInv == IInv /\ EndUtf16 => IInv'
<1> SUFFICES ASSUME IInv, EndUtf16 PROVE IInv'
    OBVIOUS
<1>1. /\ UNCHANGED input /\ at' = at /\ order' = order /\ high' = high
      /\ pc = "units" /\ at = Wanted
    BY DEF EndUtf16, input
<1>2. \/ /\ (IF high = None THEN Unterminated(value) ELSE {}) = {}
         /\ pc' = "CannotCodeString" /\ value' = value
      \/ high = None /\ value' \in Unterminated(value) /\ pc' = "ok"
    BY DEF EndUtf16, Return
<1>3. /\ Begun \in Seq(Char) /\ value \in Seq(Char) /\ Bom(opts) \in Seq(Char)
      /\ high # None => high \in Nat /\ IsHigh(high)
      /\ IsUtf16(Actual) /\ ConfiguredOrder(Actual) = order /\ order \in Order
      /\ Encode(Actual, Begun) \in Data
      /\ Encode(Actual, Begun) \o Waiting = SubSeq(data, 1, at)
    BY <1>1, ReadSoFar
<1>4. /\ Wanted \in Nat /\ at \in Nat /\ available \in Nat /\ Len(data) \in Nat
      /\ Wanted <= Len(data) /\ at <= available
    BY <1>1, ReadSoFar
<1>5. at \in 0 .. Len(data) /\ Wanted <= available
    BY <1>1, <1>4
<1>6. TypeOK /\ SendersAreRelated /\ IsUtf16(opts) /\ data \in Data
    BY <1>1 DEF IInv, Flow, TypeOK
<1>7. ASSUME high = None PROVE Encode(Actual, Begun) = SubSeq(data, 1, Wanted)
    <2> DEFINE z == Encode(Actual, Begun)
    <2>1. z \in Seq(Byte)
        BY <1>3 DEF Data
    <2>2. Waiting = <<>>
        BY <1>7 DEF Waiting
    <2> HIDE DEF z
    <2>3. z \o <<>> = z
        BY ONLY <2>1, ConcatEmptySeq
    <2> QED BY <1>1, <1>3, <2>2, <2>3 DEF z
<1>8. ASSUME NEW x \in Unterminated(value)
      PROVE  x \in Seq(Char) /\ Begun = Full(opts, x)
    <2>1. x \in Seq(Char) /\ value = x \o Nul(opts)
        BY <1>3, UnterminatedIs
    <2>2. Bom(opts) \in Seq(Char) /\ x \in Seq(Char) /\ Nul(opts) \in Seq(Char)
        BY <2>1, FullShape
    <2>3. (Bom(opts) \o x) \o Nul(opts) = Bom(opts) \o (x \o Nul(opts))
        BY ONLY <2>2, ConcatAssociative
    <2> QED BY <2>1, <2>3 DEF Begun, Full
<1>9. CASE high = None /\ value' \in Unterminated(value) /\ pc' = "ok"
    <2>1. value' \in Seq(Char) /\ Begun = Full(opts, value')
        BY <1>8, <1>9
    <2>2. Min({Wanted, available}) = Wanted
        BY <1>5, <1>6, WantedIsInData
    <2>3. Actual' = Actual /\ Full(Actual, value') = Full(opts, value')
        <3>1. Actual.bom = opts.bom /\ Actual.terminator = opts.terminator
            BY <1>6, ActualIsConfigured
        <3>2. Actual' = Actual
            BY <1>1 DEF Actual, input
        <3> QED BY <3>1, <3>2 DEF Full, Bom, Nul
    <2>4. Written(Actual', value') = SubSeq(data, 1, Wanted)
        BY <1>7, <1>9, <2>1, <2>3, WrittenIsFull
    <2>5. \E o \in {opts, Actual'} :
              /\ o = opts \/ (IsUtf16(opts) /\ opts.bom)
              /\ Written(o, value') = SubSeq(data, 1, Min({Wanted, available}))
        <3>1. CASE opts.bom
            BY <1>6, <2>2, <2>4, <3>1
        <3>2. CASE ~opts.bom
            <4>1. order = ConfiguredOrder(opts)
                BY <1>1, <3>2 DEF IInv, UnitsRead
            <4>2. Encode(opts, Full(opts, value')) = Encode(Actual, Full(opts, value'))
                BY <1>3, <1>6, <4>1, EncodeAlike
            <4>3. Written(opts, value') = SubSeq(data, 1, Wanted)
                BY <1>7, <1>9, <2>1, <4>2, WrittenIsFull
            <4> QED BY <2>2, <4>3
        <3> QED BY <3>1, <3>2
    <2>6. pc' # "CannotCodeString" /\ pc' # "IoError" /\ pc' \in {"ok", "CannotCodeString", "IoError"}
          /\ pc \in {"borrow", "utf8", "utf16", "units"}
        BY <1>1, <1>9
    <2> QED BY <1>1, <1>3, <1>5, <1>9, <2>1, <2>5, <2>6, EndedIInv
<1>10. CASE /\ (IF high = None THEN Unterminated(value) ELSE {}) = {}
            /\ pc' = "CannotCodeString" /\ value' = value
    <2>1. ASSUME data = Written(sender, sent), Wanted = Len(data) PROVE FALSE
        <3> DEFINE w == Full(sender, sent)
        <3>1. w \in Seq(Char) /\ data = Encode(Actual, w)
            BY <1>1, <2>1, SendersBytes
        <3>2. high = None
            BY <1>1, <2>1, NothingWaits
        <3>3. SubSeq(data, 1, Wanted) = data
            BY <1>6, <2>1, SubSeqFull DEF Data
        <3>4. Begun = w
            <4>1. Encode(Actual, Begun) = Encode(Actual, w)
                BY <1>7, <3>1, <3>2, <3>3
            <4> HIDE DEF w
            <4> QED BY <1>3, <3>1, <4>1, EncodeInjective
        <3>5. sent \in Seq(Char) /\ Bom(sender) = Bom(opts) /\ Nul(sender) = Nul(opts)
            <4>1. sent \in Seq(Char) /\ sender.bom = opts.bom /\ sender.terminator = opts.terminator
                BY <1>6, SenderOfUtf16
            <4> QED BY <4>1 DEF Bom, Nul
        <3> DEFINE a == Bom(opts)
                   b == sent \o Nul(opts)
        <3>6. a \in Seq(Char) /\ b \in Seq(Char) /\ w = a \o b
            <4>1. a \in Seq(Char) /\ Nul(opts) \in Seq(Char) /\ sent \in Seq(Char)
                BY <3>5, FullShape
            <4> HIDE DEF a
            <4>2. (a \o sent) \o Nul(opts) = a \o (sent \o Nul(opts))
                BY ONLY <4>1, ConcatAssociative
            <4>3. b \in Seq(Char)
                BY ONLY <4>1, ConcatProperties
            <4> QED BY <3>5, <4>1, <4>2, <4>3 DEF Full, a
        <3>7. value = b
            <4> HIDE DEF a, b, w
            <4>1. a \o value = a \o b
                BY <3>4, <3>6 DEF Begun, a
            <4>2. a \in Seq(Char) /\ b \in Seq(Char) /\ value \in Seq(Char)
                BY <1>3, <3>6
            <4> QED BY ONLY <4>1, <4>2, ConcatSimplifications
        <3>8. sent \in Unterminated(value)
            BY <1>3, <3>5, <3>7, UnterminatedIs
        <3> QED BY <1>10, <3>2, <3>8
    <2>2. pc' # "ok" /\ pc' \in {"ok", "CannotCodeString", "IoError"}
          /\ pc \in {"borrow", "utf8", "utf16", "units"}
        BY <1>1, <1>10
    <2> QED BY <1>1, <1>3, <1>5, <1>10, <2>1, <2>2, EndedIInv
<1> QED
    BY <1>2, <1>9, <1>10

(* Every step keeps the invariant.                                         *)
LEMMA NextIInv == IInv /\ [Next]_vars => IInv'
<1> SUFFICES ASSUME IInv, [Next]_vars PROVE IInv'
    OBVIOUS
<1>1. CASE SerializeStr
    BY <1>1, SerializeStrIInv
<1>2. CASE Begin
    BY <1>2, BeginIInv
<1>3. CASE ReadBorrowed
    BY <1>3, ReadBorrowedIInv
<1>4. CASE ReadUtf8
    BY <1>4, ReadUtf8IInv
<1>5. CASE BeginUtf16
    BY <1>5, BeginUtf16IInv
<1>6. CASE ReadUnit
    BY <1>6, ReadUnitIInv
<1>7. CASE UnitMissing
    BY <1>7, UnitMissingIInv
<1>8. CASE EndUtf16
    BY <1>8, EndUtf16IInv
<1>9. CASE Stopped \/ UNCHANGED vars
    BY <1>9, StoppedIInv DEF Stopped
<1> QED
    BY <1>1, <1>2, <1>3, <1>4, <1>5, <1>6, <1>7, <1>8, <1>9 DEF Next

----------------------------------------------------------------------------
(***************************************************************************)
(* What holds in every state.                                              *)
(***************************************************************************)

(* The invariant, for all texts, data, options and bounds.                 *)
THEOREM AlwaysDecodedSoFar == Spec => []IInv
<1> QED
    BY InitIInv, NextIInv, PTL DEF Spec

(* The state is what it is taken to be: in particular, no surrogate and    *)
(* nothing above char::MAX is ever pushed onto the text that is read.      *)
THEOREM TypeCorrect == Spec => []TypeOK
<1>1. IInv => TypeOK
    BY DEF IInv
<1> QED
    BY <1>1, AlwaysDecodedSoFar, PTL

(* A text that arrives completely is read as what it was, in every         *)
(* encoding, with any byte order mark and terminator, of any length.       *)
THEOREM TextAlwaysArrives == Spec => []TextArrives
<1> QED
    BY AlwaysDecodedSoFar, InvGivesTextArrives, PTL

(* What is read of a text that is cut is the beginning of the text.        *)
THEOREM CutTextIsAlwaysPrefix == Spec => []CutTextIsPrefix
<1> QED
    BY AlwaysDecodedSoFar, InvGivesCutText, PTL

(* Whatever the data is, it is accepted only as what a serializer writes   *)
(* of the text that is read.                                               *)
THEOREM AcceptedAlwaysAsWritten == Spec => []AcceptedAsWritten
<1> QED
    BY AlwaysDecodedSoFar, InvGivesAcceptedAsWritten, PTL

(* A UTF-16 text that ends too early fails with the error of the Read.     *)
THEOREM EarlyEndIsAlwaysReported == Spec => []EarlyEndIsReported
<1> QED
    BY AlwaysDecodedSoFar, InvGivesEarlyEnd, PTL
=============================================================================
