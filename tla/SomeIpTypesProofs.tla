------------------------- MODULE SomeIpTypesProofs -------------------------
(***************************************************************************)
(* Lemmas on types, sizes and sequences that the proofs about serializer   *)
(* and deserializer share.                                                 *)
(***************************************************************************)
EXTENDS SomeIpTypes, Induction, FiniteSetTheorems, SequenceTheorems, TLAPS

----------------------------------------------------------------------------
(***************************************************************************)
(* Sequences.                                                              *)
(***************************************************************************)

(* All but the last element of a sequence, and one more.                   *)
LEMMA FrontIsSeq ==
    ASSUME NEW S, NEW q \in Seq(S), q # <<>>
    PROVE  /\ Front(q) \in Seq(S)
           /\ Len(Front(q)) = Len(q) - 1
           /\ Last(q) \in S
           /\ \A k \in 1 .. Len(q) - 1 : Front(q)[k] = q[k]
BY DEF Front, Last

(* A sequence with one more element at its end.                            *)
LEMMA AppendIsSeq ==
    ASSUME NEW S, NEW q \in Seq(S), NEW x \in S
    PROVE  /\ Append(q, x) \in Seq(S)
           /\ Append(q, x) # <<>>
           /\ Front(Append(q, x)) = q
           /\ Last(Append(q, x)) = x
BY DEF Front, Last

----------------------------------------------------------------------------
(***************************************************************************)
(* Sizes of length fields.                                                 *)
(***************************************************************************)

(* minimum_length_for gives a size that holds the length, or panics.       *)
LEMMA MinimumFits ==
    ASSUME NEW len \in Nat
    PROVE  /\ MinimumLengthFor[len] \in LengthFieldSize \cup {LengthPanic}
           /\ MinimumLengthFor[len] \in LengthFieldSize
                => len <= Capacity(MinimumLengthFor[len])
BY CapacityAssumption DEF MinimumLengthFor, LengthFieldSize, LengthPanic, Capacity

(* A bigger length field holds what a smaller one does.                    *)
LEMMA CapacityMonotonic ==
    ASSUME NEW a \in LengthFieldSize, NEW b \in LengthFieldSize, a <= b
    PROVE  Capacity(a) \in Nat /\ Capacity(b) \in Nat /\ Capacity(a) <= Capacity(b)
BY CapacityAssumption DEF LengthFieldSize, Capacity

(* Sizes are numbers, failures are not.                                    *)
LEMMA SizesDoNotFail ==
    /\ \A x \in OptSize : ~Failed(x)
    /\ LengthFieldSize = OptSize \ {None}
    /\ \A x \in {TooLong, LengthPanic, MissingPanic} : Failed(x)
BY DEF OptSize, LengthFieldSize, None, Failed, TooLong, LengthPanic, MissingPanic

(* A size selected by select_length_field_size holds the length.           *)
LEMMA SelectedSizeFits ==
    ASSUME NEW o \in Options, NEW configured \in LengthFieldSize, NEW len \in Nat,
           NEW tlv \in BOOLEAN, NEW actual,
           actual = SelectLengthFieldSize(o, configured, MinimumLengthFor[len], tlv)
    PROVE  \/ actual \in {TooLong, LengthPanic}
           \/ actual \in LengthFieldSize /\ len <= Capacity(actual)
<1> DEFINE needed == MinimumLengthFor[len]
<1>1. actual = IF Failed(needed) THEN needed
               ELSE IF tlv THEN IF o.selection = "AsConfigured"
                                THEN BiggerSize(needed, configured) ELSE needed
               ELSE IF configured < needed THEN TooLong ELSE configured
  BY DEF SelectLengthFieldSize
<1>2. needed \in LengthFieldSize \cup {LengthPanic}
  BY MinimumFits
<1>3. needed \in LengthFieldSize => len <= Capacity(needed)
  BY MinimumFits
<1> HIDE DEF needed
<1>4. CASE needed = LengthPanic
  BY <1>1, <1>4, SizesDoNotFail
<1>5. CASE needed \in LengthFieldSize
  <2>1. ~Failed(needed)
    BY <1>5, SizesDoNotFail
  <2>2. actual = TooLong \/ (actual \in LengthFieldSize /\ needed <= actual)
    BY <1>1, <1>5, <2>1 DEF BiggerSize, LengthFieldSize
  <2>3. ASSUME actual \in LengthFieldSize, needed <= actual
        PROVE  len <= Capacity(actual)
    BY <1>3, <1>5, <2>3, CapacityMonotonic
  <2> QED
    BY <2>2, <2>3
<1> QED
  BY <1>2, <1>4, <1>5

(* The type at a site is well formed.                                      *)
LEMMA TypeShapes ==
    ASSUME NEW t \in TypeId
    PROVE  /\ Types[t].kind \in {"prim", "bool", "enum", "string", "seq", "struct"}
           /\ IsFixed(Types[t]) => Types[t] \in SomeIpFixed
           /\ ~IsFixed(Types[t]) => Types[t].lfs \in OptSize
           /\ Types[t].kind = "string" => Types[t] \in SomeIpString
           /\ Types[t].kind = "seq" => Types[t] \in SomeIpSequence
           /\ Types[t].kind = "struct" => Types[t] \in SomeIpStruct
BY TypesAssumption DEF SomeIpType, SomeIpFixed, SomeIpString, SomeIpSequence,
                       SomeIpStruct, IsFixed

(* The length field wanted is a size or none, or its absence is a panic.   *)
LEMMA WantedIsSize ==
    ASSUME NEW s \in Site
    PROVE  WantedLengthField[s] \in OptSize \cup {MissingPanic}
<1> DEFINE ty == Types[s.type]
<1>1. ASSUME ~IsFixed(ty)
      PROVE  ConfiguredLengthField(s, ty) \in OptSize
  <2>1. ty.lfs \in OptSize
    BY <1>1, TypeShapes DEF Site
  <2>2. s.props.string \in OptSize /\ s.props.array \in OptSize /\ s.props.struct \in OptSize
    BY DEF Site, Properties
  <2>3. s.opts.defaultLfs \in OptSize
    BY DEF Site, Options
  <2> QED
    BY <2>1, <2>2, <2>3 DEF ConfiguredLengthField, ApplyDefaults, Or
<1>2. None \in OptSize
  BY DEF OptSize
<1>3. WantedLengthField[s] = WantedOf(s, ty)
  BY DEF WantedLengthField
<1> QED
  BY <1>1, <1>2, <1>3 DEF WantedOf, Or

(* Where something is reserved there is a length field and vice versa.     *)
LEMMA ReservationMatchesWanted ==
    ASSUME NEW s \in Site, ~Failed(Reservation[s])
    PROVE  /\ Reservation[s] \in OptSize
           /\ WantedLengthField[s] \in OptSize
           /\ Reservation[s] = None <=> WantedLengthField[s] = None
<1> DEFINE wanted == WantedLengthField[s]
           longest == MaxLen[s]
<1>1. Reservation[s] = ReservedFor(wanted, longest)
  BY DEF Reservation
<1>2. wanted \in OptSize
  BY <1>1, WantedIsSize, SizesDoNotFail DEF ReservedFor
<1> HIDE DEF wanted, longest
<1>3. CASE wanted = None
  BY <1>1, <1>2, <1>3 DEF ReservedFor, wanted
<1>4. CASE wanted # None
  <2>1. longest \in Nat
    BY <1>1, <1>2, <1>4, SizesDoNotFail DEF ReservedFor, Failed
  <2>2. MinimumLengthFor[longest] \in LengthFieldSize
    BY <1>1, <1>2, <1>4, <2>1, MinimumFits, SizesDoNotFail DEF ReservedFor, Failed
  <2>3. Reservation[s] = BiggerSize(wanted, MinimumLengthFor[longest])
    BY <1>1, <1>2, <1>4, <2>1, <2>2, SizesDoNotFail DEF ReservedFor, Failed
  <2>4. Reservation[s] \in LengthFieldSize
    BY <1>2, <1>4, <2>2, <2>3, SizesDoNotFail DEF BiggerSize
  <2> QED
    BY <1>2, <1>4, <2>4, SizesDoNotFail DEF wanted
<1> QED
  BY <1>3, <1>4

----------------------------------------------------------------------------
(***************************************************************************)
(* The scopes of transformation properties, for a sequence fs of open      *)
(* (de)serializers with a type and the properties they have replaced.      *)
(***************************************************************************)
BringsProps(f) == Types[f.type].kind = "struct" /\ Types[f.type].props.set

(* p are the properties of the innermost of the first n that brings some.  *)
InScope(fs, n, p) ==
    \/ /\ p = NoProps
       /\ \A i \in 1 .. n : ~BringsProps(fs[i])
    \/ \E i \in 1 .. n : /\ BringsProps(fs[i])
                         /\ p = Types[fs[i].type].props
                         /\ \A j \in i + 1 .. n : ~BringsProps(fs[j])

(* p are in scope, and each struct has kept those that were before it.     *)
Scoped(fs, p) ==
    /\ InScope(fs, Len(fs), p)
    /\ \A k \in 1 .. Len(fs) : BringsProps(fs[k]) => InScope(fs, k - 1, fs[k].orig)

(* Nothing but the types of the open ones matters for the scope.           *)
LEMMA InScopeOfTypes ==
    ASSUME NEW fs, NEW gs, NEW n \in Nat, NEW p, InScope(fs, n, p),
           \A i \in 1 .. n : gs[i].type = fs[i].type
    PROVE  InScope(gs, n, p)
<1>1. \A i \in 1 .. n : BringsProps(gs[i]) <=> BringsProps(fs[i])
  BY DEF BringsProps
<1>2. ASSUME NEW i \in 1 .. n, BringsProps(fs[i]), p = Types[fs[i].type].props,
             \A j \in i + 1 .. n : ~BringsProps(fs[j])
      PROVE  InScope(gs, n, p)
  <2>1. \A j \in i + 1 .. n : ~BringsProps(gs[j])
    BY <1>1, <1>2
  <2> QED
    BY <1>1, <1>2, <2>1 DEF InScope
<1> QED
  BY <1>1, <1>2 DEF InScope

(* Progress within the open ones leaves the scopes alone.                  *)
LEMMA ScopedStays ==
    ASSUME NEW S, NEW fs \in Seq(S), NEW gs \in Seq(S), NEW p, Scoped(fs, p),
           Len(gs) = Len(fs),
           \A i \in 1 .. Len(fs) : gs[i].type = fs[i].type /\ gs[i].orig = fs[i].orig
    PROVE  Scoped(gs, p)
<1>1. InScope(gs, Len(gs), p)
  BY InScopeOfTypes DEF Scoped
<1>2. ASSUME NEW k \in 1 .. Len(gs), BringsProps(gs[k])
      PROVE  InScope(gs, k - 1, gs[k].orig)
  <2>1. BringsProps(fs[k]) /\ gs[k].orig = fs[k].orig
    BY <1>2 DEF BringsProps
  <2>2. InScope(fs, k - 1, gs[k].orig)
    BY <1>2, <2>1 DEF Scoped
  <2>3. k - 1 \in Nat /\ \A i \in 1 .. k - 1 : gs[i].type = fs[i].type
    BY <1>2
  <2> QED
    BY <2>2, <2>3, InScopeOfTypes
<1> QED
  BY <1>1, <1>2 DEF Scoped

(* One that is opened brings its own properties into scope, if it has any, *)
(* and keeps those it replaces.                                            *)
LEMMA ScopedPush ==
    ASSUME NEW S, NEW fs \in Seq(S), NEW f \in S, NEW p, NEW q, Scoped(fs, p),
           IF BringsProps(f) THEN f.orig = p /\ q = Types[f.type].props ELSE q = p
    PROVE  Scoped(Append(fs, f), q)
<1> DEFINE gs == Append(fs, f)
           n == Len(fs)
<1>1. /\ n \in Nat /\ Len(gs) = n + 1 /\ gs[n + 1] = f
      /\ \A i \in 1 .. n : gs[i] = fs[i]
  OBVIOUS
<1> HIDE DEF gs
<1>2. InScope(gs, n, p)
  BY <1>1, InScopeOfTypes DEF Scoped
<1>3. InScope(gs, n + 1, q)
  <2>1. CASE BringsProps(f)
    <3>1. n + 1 \in 1 .. n + 1 /\ \A j \in n + 1 + 1 .. n + 1 : FALSE
      BY <1>1
    <3> QED
      BY <1>1, <2>1, <3>1 DEF InScope
  <2>2. CASE ~BringsProps(f)
    <3>1. ASSUME p = NoProps, \A i \in 1 .. n : ~BringsProps(gs[i])
          PROVE  InScope(gs, n + 1, q)
      <4>1. \A i \in 1 .. n + 1 : ~BringsProps(gs[i])
        BY <1>1, <2>2, <3>1
      <4> QED
        BY <2>2, <3>1, <4>1 DEF InScope
    <3>2. ASSUME NEW i \in 1 .. n, BringsProps(gs[i]), p = Types[gs[i].type].props,
                 \A j \in i + 1 .. n : ~BringsProps(gs[j])
          PROVE  InScope(gs, n + 1, q)
      <4>1. i \in 1 .. n + 1 /\ \A j \in i + 1 .. n + 1 : ~BringsProps(gs[j])
        BY <1>1, <2>2, <3>2
      <4> QED
        BY <2>2, <3>2, <4>1 DEF InScope
    <3> QED
      BY <1>2, <3>1, <3>2 DEF InScope
  <2> QED
    BY <2>1, <2>2
<1>4. ASSUME NEW k \in 1 .. n + 1, BringsProps(gs[k])
      PROVE  InScope(gs, k - 1, gs[k].orig)
  <2>1. CASE k = n + 1
    <3>1. gs[k] = f /\ k - 1 = n
      BY <1>1, <2>1
    <3> QED
      BY <1>2, <1>4, <3>1
  <2>2. CASE k \in 1 .. n
    <3>1. InScope(fs, k - 1, gs[k].orig)
      BY <1>1, <1>4, <2>2 DEF Scoped
    <3>2. k - 1 \in Nat /\ \A i \in 1 .. k - 1 : gs[i].type = fs[i].type
      BY <1>1, <2>2
    <3> QED
      BY <3>1, <3>2, InScopeOfTypes
  <2> QED
    BY <1>1, <2>1, <2>2
<1> QED
  BY <1>1, <1>3, <1>4 DEF Scoped, gs

(* One that is closed restores what it has kept.                           *)
LEMMA ScopedPop ==
    ASSUME NEW S, NEW fs \in Seq(S), fs # <<>>, NEW p, NEW q, Scoped(fs, p),
           q = IF BringsProps(fs[Len(fs)]) THEN fs[Len(fs)].orig ELSE p
    PROVE  Scoped(Front(fs), q)
<1> DEFINE gs == Front(fs)
           n == Len(fs)
<1>1. /\ n \in Nat \ {0} /\ Len(gs) = n - 1
      /\ \A i \in 1 .. n - 1 : gs[i] = fs[i]
  BY FrontIsSeq
<1> HIDE DEF gs
<1>2. InScope(fs, n - 1, q)
  <2>1. CASE BringsProps(fs[n])
    BY <1>1, <2>1 DEF Scoped
  <2>2. CASE ~BringsProps(fs[n])
    <3>1. ASSUME p = NoProps, \A i \in 1 .. n : ~BringsProps(fs[i])
          PROVE  InScope(fs, n - 1, p)
      BY <1>1, <3>1 DEF InScope
    <3>2. ASSUME NEW i \in 1 .. n, BringsProps(fs[i]), p = Types[fs[i].type].props,
                 \A j \in i + 1 .. n : ~BringsProps(fs[j])
          PROVE  InScope(fs, n - 1, p)
      <4>1. i # n
        BY <2>2, <3>2
      <4>2. i \in 1 .. n - 1 /\ \A j \in i + 1 .. n - 1 : ~BringsProps(fs[j])
        BY <1>1, <3>2, <4>1
      <4> QED
        BY <3>2, <4>2 DEF InScope
    <3> QED
      BY <2>2, <3>1, <3>2 DEF Scoped, InScope
  <2> QED
    BY <2>1, <2>2
<1>3. InScope(gs, n - 1, q)
  BY <1>1, <1>2, InScopeOfTypes
<1>4. ASSUME NEW k \in 1 .. n - 1, BringsProps(gs[k])
      PROVE  InScope(gs, k - 1, gs[k].orig)
  <2>1. InScope(fs, k - 1, gs[k].orig)
    BY <1>1, <1>4 DEF Scoped
  <2>2. k - 1 \in Nat /\ \A i \in 1 .. k - 1 : gs[i].type = fs[i].type
    BY <1>1
  <2> QED
    BY <2>1, <2>2, InScopeOfTypes
<1> QED
  BY <1>1, <1>3, <1>4 DEF Scoped, gs

(* Before anything is opened there are no properties in scope.             *)
LEMMA ScopedAtStart == Scoped(<<>>, NoProps)
BY DEF Scoped, InScope

----------------------------------------------------------------------------
(***************************************************************************)
(* Message wrappers, which the documentation of is_message_wrapper         *)
(* reserves for the parameters and return values of a function: they are   *)
(* not the field of a TLV struct.  Nothing in the code rejects that.       *)
(***************************************************************************)
NoWrapperInTlv ==
    \A t \in TypeId : Types[t].kind = "struct" /\ Types[t].tlv =>
        \A i \in DOMAIN Types[t].fields : ~IsWrapper(Types[Types[t].fields[i].type])

(* Then every length delimited field of a TLV struct has a length field.   *)
LEMMA DelimitedFieldHasLength ==
    ASSUME NEW s \in Site, s.tlv, ~IsFixed(Types[s.type]), ~IsWrapper(Types[s.type])
    PROVE  WantedLengthField[s] # None
<1> DEFINE ty == Types[s.type]
<1>1. WantedLengthField[s] = WantedOf(s, ty)
  BY DEF WantedLengthField
<1>2. NeedsLengthField(s, ty)
  BY DEF NeedsLengthField
<1>3. Or(ConfiguredLengthField(s, ty), MissingPanic) # None
  BY DEF Or, MissingPanic, None
<1> HIDE DEF ty
<1>4. ~IsFixed(ty) /\ ~IsWrapper(ty)
  BY DEF ty
<1> QED
  BY <1>1, <1>2, <1>3, <1>4 DEF WantedOf

----------------------------------------------------------------------------
(***************************************************************************)
(* What the recursive definitions of a type's size compute: they satisfy   *)
(* their own equations, as a type refers to types of smaller number only.  *)
(***************************************************************************)
PlusEach(lens, upTo, n) == IF n = 0 THEN 0 ELSE PlusLen(upTo[n - 1], lens[n])
SumsBy(lens, upTo) == upTo = [n \in 0 .. Len(lens) |-> PlusEach(lens, upTo, n)]

LEMMA SumsAreChosen ==
    ASSUME NEW lens
    PROVE  Sums(lens) = CHOOSE f : SumsBy(lens, f)
BY DEF Sums, SumsBy, PlusEach

(* The sums of the first lengths.                                          *)
LEMMA SumsAre ==
    ASSUME NEW lens \in Seq(Int)
    PROVE  /\ Sums(lens) \in [0 .. Len(lens) -> Int]
           /\ Sums(lens)[0] = 0
           /\ \A n \in 1 .. Len(lens) : Sums(lens)[n] = PlusLen(Sums(lens)[n - 1], lens[n])
<1> DEFINE S == 0 .. Len(lens)
           rank == [n \in S |-> n]
           G == [f \in [S -> Int] |-> [n \in S |-> PlusEach(lens, f, n)]]
           sums == Sums(lens)
<1>1. ASSUME NEW f \in [S -> Int], NEW n \in S
      PROVE  PlusEach(lens, f, n) \in Int
    <2>1. n # 0 => n - 1 \in S /\ n \in 1 .. Len(lens)
        OBVIOUS
    <2> QED
        BY <2>1 DEF PlusEach, PlusLen, Failed
<1>2. ASSUME NEW f, NEW g, NEW n \in S, \A m \in S : m < n => f[m] = g[m]
      PROVE  PlusEach(lens, f, n) = PlusEach(lens, g, n)
    <2>1. n # 0 => n - 1 \in S /\ n - 1 < n
        OBVIOUS
    <2> QED
        BY <1>2, <2>1 DEF PlusEach
<1>3. Contractive(S, Int, rank, G)
    <2>1. rank \in [S -> Nat]
        OBVIOUS
    <2>2. G \in [[S -> Int] -> [S -> Int]]
        BY <1>1
    <2>3. ASSUME NEW f \in [S -> Int], NEW g \in [S -> Int], NEW s \in S,
                 \A r \in S : rank[r] < rank[s] => f[r] = g[r]
          PROVE  G[f][s] = G[g][s]
        <3>1. PlusEach(lens, f, s) = PlusEach(lens, g, s)
            BY <1>2, <2>3
        <3> QED
            BY <3>1
    <2> QED
        BY <2>1, <2>2, <2>3 DEF Contractive
<1>4. PICK f \in [S -> Int] : \A n \in S : f[n] = G[f][n]
    <2>1. Int # {}
        BY 0 \in Int
    <2> HIDE DEF G, S, rank
    <2> QED BY <1>3, <2>1, Recursion
<1>5. SumsBy(lens, f)
    BY <1>4 DEF SumsBy
<1>6. SumsBy(lens, sums)
    BY <1>5, SumsAreChosen
<1>7. \A n \in S : sums[n] = PlusEach(lens, sums, n)
    BY <1>6 DEF SumsBy
<1>8. \A n \in S : sums[n] = f[n]
    <2>1. ASSUME NEW n \in S, \A m \in S : rank[m] < rank[n] => sums[m] = f[m]
          PROVE  sums[n] = f[n]
        <3>1. PlusEach(lens, sums, n) = PlusEach(lens, f, n)
            <4> HIDE DEF sums
            <4> QED BY <1>2, <2>1
        <3> QED
            BY <1>4, <1>7, <3>1
    <2>2. rank \in [S -> Nat]
        OBVIOUS
    <2> HIDE DEF S, rank, sums
    <2>3. SameByRank(S, rank, sums, f)
        BY <2>1 DEF SameByRank
    <2> QED BY <2>2, <2>3, AgreeByRank
<1>9. sums \in [S -> Int]
    <2>1. DOMAIN sums = S /\ sums = [n \in S |-> sums[n]]
        <3> HIDE DEF sums
        <3> QED BY <1>6 DEF SumsBy
    <2> HIDE DEF sums, S
    <2> QED BY <1>8, <2>1
<1> HIDE DEF sums
<1>10. sums[0] = 0
    BY <1>7 DEF PlusEach
<1>11. \A n \in 1 .. Len(lens) : sums[n] = PlusLen(sums[n - 1], lens[n])
    BY <1>7 DEF PlusEach
<1> QED
    BY <1>9, <1>10, <1>11 DEF sums

LEMMA SumIsInt ==
    ASSUME NEW lens \in Seq(Int)
    PROVE  SumOf(lens) \in Int
<1>1. Len(lens) \in 0 .. Len(lens)
    OBVIOUS
<1>2. Sums(lens) \in [0 .. Len(lens) -> Int]
    BY SumsAre
<1> QED
    BY <1>1, <1>2 DEF SumOf

(* A sum that does not fail is one of natural numbers.                     *)
LEMMA SumsGrow ==
    ASSUME NEW lens \in Seq(Int), SumOf(lens) \in Nat
    PROVE  /\ \A n \in 0 .. Len(lens) : Sums(lens)[n] \in Nat /\ Sums(lens)[n] <= SumOf(lens)
           /\ \A n \in 1 .. Len(lens) :
                 lens[n] \in Nat /\ Sums(lens)[n] = Sums(lens)[n - 1] + lens[n]
<1> DEFINE sums == Sums(lens)
           last == Len(lens)
           Fits == {m \in Nat : m <= last => sums[last - m] \in Nat /\ sums[last - m] <= sums[last]}
<1>1. last \in Nat /\ sums[last] \in Nat /\ sums[last] = SumOf(lens)
    BY DEF SumOf
<1>2. sums \in [0 .. last -> Int]
    BY SumsAre
<1>3. \A n \in 1 .. last : lens[n] \in Int /\ sums[n] = PlusLen(sums[n - 1], lens[n])
    BY SumsAre
<1> HIDE DEF sums, last
<1>4. ASSUME NEW n \in 1 .. last, sums[n] \in Nat
      PROVE  /\ sums[n - 1] \in Nat /\ sums[n - 1] <= sums[n]
             /\ lens[n] \in Nat /\ sums[n] = sums[n - 1] + lens[n]
    <2>1. n - 1 \in 0 .. last /\ sums[n - 1] \in Int /\ lens[n] \in Int
        BY <1>1, <1>2, <1>3
    <2>2. sums[n] = PlusLen(sums[n - 1], lens[n])
        BY <1>3
    <2> QED
        BY <1>4, <2>1, <2>2 DEF PlusLen, Failed
<1>5. 0 \in Fits
    BY <1>1
<1>6. ASSUME NEW m \in Nat, m \in Fits
      PROVE  m + 1 \in Fits
    <2> SUFFICES ASSUME m + 1 <= last
                 PROVE  sums[last - (m + 1)] \in Nat /\ sums[last - (m + 1)] <= sums[last]
        OBVIOUS
    <2>1. last - m \in 1 .. last /\ last - m - 1 = last - (m + 1)
        BY <1>1
    <2>2. sums[last - m] \in Nat /\ sums[last - m] <= sums[last]
        BY <1>1, <1>6
    <2> QED
        BY <1>1, <1>4, <2>1, <2>2
<1>7. Nat \subseteq Fits
    <2> HIDE DEF Fits
    <2> QED BY <1>5, <1>6, NatInductive
<1>8. ASSUME NEW n \in 0 .. last
      PROVE  sums[n] \in Nat /\ sums[n] <= sums[last]
    <2>1. last - n \in Nat /\ last - n <= last /\ last - (last - n) = n
        BY <1>1
    <2>2. last - n \in Fits
        BY <1>7, <2>1
    <2> QED
        BY <2>1, <2>2
<1>9. ASSUME NEW n \in 1 .. last
      PROVE  lens[n] \in Nat /\ sums[n] = sums[n - 1] + lens[n]
    <2>1. n \in 0 .. last
        BY <1>1
    <2> QED
        BY <1>4, <1>8, <2>1
<1> QED
    BY <1>1, <1>8, <1>9 DEF sums, last

(* Whether a type has a constant size.                                     *)
ConstBy(const) == const = [t \in TypeId |-> ConstSizeOf(Types[t], const)]

LEMMA ConstIsChosen == IsConstSize = CHOOSE f : ConstBy(f)
BY DEF IsConstSize, ConstBy

LEMMA PartsAreSmaller ==
    ASSUME NEW t \in TypeId
    PROVE  /\ t \in Nat
           /\ Types[t].kind = "seq" => Types[t].elem \in TypeId /\ Types[t].elem < t
           /\ Types[t].kind = "struct" =>
                 /\ Types[t].fields \in Seq(Field)
                 /\ \A i \in DOMAIN Types[t].fields :
                       Types[t].fields[i].type \in TypeId /\ Types[t].fields[i].type < t
<1>1. t \in Nat
    BY TypesAssumption
<1>2. Types[t].kind = "seq" => Types[t].elem \in TypeId /\ Types[t].elem < t
    BY TypeShapes, TypesAssumption DEF SomeIpSequence
<1>3. ASSUME Types[t].kind = "struct"
      PROVE  Types[t].fields \in Seq(Field)
    BY <1>3, TypeShapes DEF SomeIpStruct
<1>4. ASSUME Types[t].kind = "struct", NEW i \in DOMAIN Types[t].fields
      PROVE  Types[t].fields[i].type \in TypeId /\ Types[t].fields[i].type < t
    <2>1. Types[t].fields[i] \in Field
        BY <1>3, <1>4
    <2> QED
        BY <1>4, <2>1, TypesAssumption DEF Field
<1> QED
    BY <1>1, <1>2, <1>3, <1>4

LEMMA ConstSizeIs ==
    \A t \in TypeId : IsConstSize[t] = ConstSizeOf(Types[t], IsConstSize)
<1> DEFINE rank == [t \in TypeId |-> t]
           G == [f \in [TypeId -> BOOLEAN] |-> [t \in TypeId |-> ConstSizeOf(Types[t], f)]]
<1>1. ASSUME NEW f \in [TypeId -> BOOLEAN], NEW t \in TypeId
      PROVE  ConstSizeOf(Types[t], f) \in BOOLEAN
    BY PartsAreSmaller, TypeShapes DEF ConstSizeOf
<1>2. ASSUME NEW f \in [TypeId -> BOOLEAN], NEW g \in [TypeId -> BOOLEAN], NEW t \in TypeId,
             \A r \in TypeId : r < t => f[r] = g[r]
      PROVE  ConstSizeOf(Types[t], f) = ConstSizeOf(Types[t], g)
    BY <1>2, PartsAreSmaller DEF ConstSizeOf
<1>3. Contractive(TypeId, BOOLEAN, rank, G)
    <2>1. rank \in [TypeId -> Nat]
        BY TypesAssumption
    <2>2. G \in [[TypeId -> BOOLEAN] -> [TypeId -> BOOLEAN]]
        BY <1>1
    <2>3. ASSUME NEW f \in [TypeId -> BOOLEAN], NEW g \in [TypeId -> BOOLEAN], NEW t \in TypeId,
                 \A r \in TypeId : rank[r] < rank[t] => f[r] = g[r]
          PROVE  G[f][t] = G[g][t]
        <3>1. ConstSizeOf(Types[t], f) = ConstSizeOf(Types[t], g)
            BY <1>2, <2>3
        <3> QED
            BY <3>1
    <2> QED
        BY <2>1, <2>2, <2>3 DEF Contractive
<1>4. PICK f \in [TypeId -> BOOLEAN] : \A t \in TypeId : f[t] = G[f][t]
    <2>1. BOOLEAN # {}
        OBVIOUS
    <2> HIDE DEF G, rank
    <2> QED BY <1>3, <2>1, Recursion
<1>5. ConstBy(f)
    BY <1>4 DEF ConstBy
<1>6. ConstBy(IsConstSize)
    BY <1>5, ConstIsChosen
<1> QED
    BY <1>6 DEF ConstBy

(* The greatest length of a type at a site.                                *)
MaxLenOf(s, longest) ==
    WithLengthField(s, WantedLengthField[s], ContentOf(s, Types[s.type], longest))
MaxLenBy(longest) == longest = [s \in Site |-> MaxLenOf(s, longest)]

LEMMA MaxLenIsChosen == MaxLen = CHOOSE f : MaxLenBy(f)
BY DEF MaxLen, MaxLenBy, MaxLenOf

(* The site of a part of a type.                                           *)
PartSite(s, t, tlv) == [s EXCEPT !.type = t, !.tlv = tlv]

LEMMA PartSiteIs ==
    ASSUME NEW s \in Site, NEW t \in TypeId, NEW tlv \in BOOLEAN
    PROVE  /\ PartSite(s, t, tlv) \in Site
           /\ PartSite(s, t, tlv).type = t
           /\ PartSite(s, t, tlv) = [opts |-> s.opts, type |-> t, tlv |-> tlv, props |-> s.props]
<1>1. s = [opts |-> s.opts, type |-> s.type, tlv |-> s.tlv, props |-> s.props]
      /\ s.opts \in Options /\ s.props \in Properties
    BY DEF Site
<1>2. [s EXCEPT !.type = t] = [opts |-> s.opts, type |-> t, tlv |-> s.tlv, props |-> s.props]
    BY <1>1
<1> DEFINE r == [opts |-> s.opts, type |-> t, tlv |-> s.tlv, props |-> s.props]
<1>3. [r EXCEPT !.tlv = tlv] = [opts |-> s.opts, type |-> t, tlv |-> tlv, props |-> s.props]
    OBVIOUS
<1>4. PartSite(s, t, tlv) = [opts |-> s.opts, type |-> t, tlv |-> tlv, props |-> s.props]
    <2>1. PartSite(s, t, tlv) = [[s EXCEPT !.type = t] EXCEPT !.tlv = tlv]
        BY DEF PartSite
    <2> HIDE DEF r
    <2>2. PartSite(s, t, tlv) = [r EXCEPT !.tlv = tlv]
        BY <1>2, <2>1 DEF r
    <2> QED
        BY <1>3, <2>2
<1> QED
    BY <1>1, <1>4 DEF Site

(* The lengths of a struct's fields.                                       *)
FieldLens(s, longest) ==
    [i \in DOMAIN Types[s.type].fields |->
        longest[PartSite(s, Types[s.type].fields[i].type, Types[s.type].tlv)]]

LEMMA ContentIs ==
    ASSUME NEW s \in Site, NEW longest
    PROVE  /\ Types[s.type].kind = "string" =>
                ContentOf(s, Types[s.type], longest) = Types[s.type].max
           /\ Types[s.type].kind = "seq" =>
                ContentOf(s, Types[s.type], longest)
                  = TimesLen(Types[s.type].max, longest[PartSite(s, Types[s.type].elem, FALSE)])
           /\ Types[s.type].kind = "struct" =>
                ContentOf(s, Types[s.type], longest) = SumOf(FieldLens(s, longest))
           /\ IsFixed(Types[s.type]) =>
                ContentOf(s, Types[s.type], longest) = Types[s.type].size
<1> DEFINE ty == Types[s.type]
<1>1. ty.kind = "string" => ContentOf(s, ty, longest) = ty.max
    BY DEF ContentOf
<1>2. ty.kind = "seq" =>
        ContentOf(s, ty, longest) = TimesLen(ty.max, longest[PartSite(s, ty.elem, FALSE)])
    BY DEF ContentOf, PartSite
<1>3. ty.kind = "struct" => ContentOf(s, ty, longest) = SumOf(FieldLens(s, longest))
    BY DEF ContentOf, FieldLens, PartSite
<1>4. IsFixed(ty) => ContentOf(s, ty, longest) = ty.size
    BY DEF ContentOf, IsFixed
<1> QED
    BY <1>1, <1>2, <1>3, <1>4

LEMMA TimesIsInt ==
    ASSUME NEW n \in Nat, NEW len \in Int
    PROVE  TimesLen(n, len) \in Int
BY DEF TimesLen, Failed

LEMMA FieldLensAre ==
    ASSUME NEW s \in Site, Types[s.type].kind = "struct",
           NEW longest \in [Site -> Int]
    PROVE  FieldLens(s, longest) \in Seq(Int)
<1> DEFINE ty == Types[s.type]
<1>1. s.type \in TypeId
    BY DEF Site
<1>2. ty.fields \in Seq(Field) /\ ty.tlv \in BOOLEAN
    BY <1>1, TypeShapes DEF SomeIpStruct
<1>3. \A i \in DOMAIN ty.fields : longest[PartSite(s, ty.fields[i].type, ty.tlv)] \in Int
    BY <1>1, <1>2, PartsAreSmaller, PartSiteIs
<1>4. Len(ty.fields) \in Nat /\ DOMAIN ty.fields = 1 .. Len(ty.fields)
    BY <1>2
<1>5. FieldLens(s, longest) \in [1 .. Len(ty.fields) -> Int]
    BY <1>3, <1>4 DEF FieldLens
<1> QED
    BY <1>4, <1>5, SeqDef

LEMMA ContentIsInt ==
    ASSUME NEW s \in Site, NEW longest \in [Site -> Int]
    PROVE  ContentOf(s, Types[s.type], longest) \in Int
<1> DEFINE ty == Types[s.type]
<1>1. s.type \in TypeId
    BY DEF Site
<1>2. CASE ty.kind = "string"
    <2>1. ty \in SomeIpString
        BY <1>1, <1>2, TypeShapes
    <2>2. ty.max \in Nat
        BY <2>1 DEF SomeIpString
    <2>3. ContentOf(s, ty, longest) = ty.max
        BY <1>2 DEF ContentOf
    <2> QED
        BY <2>2, <2>3
<1>3. CASE ty.kind = "seq"
    <2>1. ty.max \in Nat /\ ty.elem \in TypeId
        BY <1>1, <1>3, TypeShapes DEF SomeIpSequence
    <2>2. longest[PartSite(s, ty.elem, FALSE)] \in Int
        BY <2>1, PartSiteIs
    <2>3. TimesLen(ty.max, longest[PartSite(s, ty.elem, FALSE)]) \in Int
        BY <2>1, <2>2, TimesIsInt
    <2> QED
        BY <1>3, <2>3, ContentIs
<1>4. CASE ty.kind = "struct"
    <2>1. FieldLens(s, longest) \in Seq(Int)
        BY <1>4, FieldLensAre
    <2>2. SumOf(FieldLens(s, longest)) \in Int
        BY <2>1, SumIsInt
    <2> QED
        BY <1>4, <2>2, ContentIs
<1>5. CASE IsFixed(ty)
    <2>1. ty \in SomeIpFixed
        BY <1>1, <1>5, TypeShapes
    <2>2. ty.size \in Nat
        BY <2>1 DEF SomeIpFixed
    <2>3. ContentOf(s, ty, longest) = ty.size
        BY <1>5 DEF ContentOf, IsFixed
    <2> QED
        BY <2>2, <2>3
<1> QED
    BY <1>1, <1>2, <1>3, <1>4, <1>5, TypeShapes DEF IsFixed

LEMMA WithLengthFieldIsInt ==
    ASSUME NEW s \in Site, NEW len \in Int
    PROVE  WithLengthField(s, WantedLengthField[s], len) \in Int
<1> DEFINE wanted == WantedLengthField[s]
<1>1. wanted \in OptSize \cup {MissingPanic}
    BY WantedIsSize
<1> HIDE DEF wanted
<1>2. CASE Failed(wanted) \/ wanted = None \/ Failed(len)
    BY <1>1, <1>2 DEF WithLengthField, OptSize, LengthFieldSize, None, MissingPanic, Failed,
                      wanted
<1>3. CASE ~Failed(wanted) /\ wanted # None /\ ~Failed(len)
    <2>1. wanted \in LengthFieldSize /\ len \in Nat
        BY <1>1, <1>3 DEF OptSize, LengthFieldSize, None, MissingPanic, Failed
    <2>2. SelectLengthFieldSize(s.opts, wanted, MinimumLengthFor[len], s.tlv)
            \in {TooLong, LengthPanic} \cup LengthFieldSize
        BY <2>1, SelectedSizeFits DEF Site
    <2> HIDE DEF SelectLengthFieldSize
    <2>3. WithLengthField(s, wanted, len)
            = PlusLen(len, SelectLengthFieldSize(s.opts, wanted, MinimumLengthFor[len], s.tlv))
        BY <1>3 DEF WithLengthField
    <2> QED
        BY <2>1, <2>2, <2>3 DEF PlusLen, Failed, TooLong, LengthPanic, LengthFieldSize, wanted
<1> QED
    BY <1>2, <1>3 DEF wanted

LEMMA ContentFollows ==
    ASSUME NEW s \in Site, NEW f, NEW g,
           \A r \in Site : r.type < s.type => f[r] = g[r]
    PROVE  ContentOf(s, Types[s.type], f) = ContentOf(s, Types[s.type], g)
<1> DEFINE ty == Types[s.type]
<1>1. s.type \in TypeId
    BY DEF Site
<1>2. CASE ty.kind = "string" \/ IsFixed(ty)
    BY <1>2, ContentIs
<1>3. CASE ty.kind = "seq"
    <2>1. ty.elem \in TypeId /\ ty.elem < s.type
        BY <1>1, <1>3, PartsAreSmaller
    <2>2. f[PartSite(s, ty.elem, FALSE)] = g[PartSite(s, ty.elem, FALSE)]
        BY <2>1, PartSiteIs
    <2> QED
        BY <1>3, <2>2, ContentIs
<1>4. CASE ty.kind = "struct"
    <2>1. ty.tlv \in BOOLEAN
        BY <1>1, <1>4, TypeShapes DEF SomeIpStruct
    <2>2. ASSUME NEW i \in DOMAIN ty.fields
          PROVE  f[PartSite(s, ty.fields[i].type, ty.tlv)] = g[PartSite(s, ty.fields[i].type, ty.tlv)]
        <3>1. ty.fields[i].type \in TypeId /\ ty.fields[i].type < s.type
            BY <1>1, <1>4, <2>2, PartsAreSmaller
        <3> QED
            BY <2>1, <3>1, PartSiteIs
    <2>3. FieldLens(s, f) = FieldLens(s, g)
        BY <2>2 DEF FieldLens
    <2> QED
        BY <1>4, <2>3, ContentIs
<1> QED
    BY <1>1, <1>2, <1>3, <1>4, TypeShapes DEF IsFixed

LEMMA MaxLenIs ==
    /\ MaxLen \in [Site -> Int]
    /\ \A s \in Site : MaxLen[s] = MaxLenOf(s, MaxLen)
<1> DEFINE rank == [s \in Site |-> s.type]
           G == [f \in [Site -> Int] |-> [s \in Site |-> MaxLenOf(s, f)]]
<1>1. ASSUME NEW f \in [Site -> Int], NEW s \in Site
      PROVE  MaxLenOf(s, f) \in Int
    BY ContentIsInt, WithLengthFieldIsInt DEF MaxLenOf
<1>2. ASSUME NEW f, NEW g, NEW s \in Site, \A r \in Site : r.type < s.type => f[r] = g[r]
      PROVE  MaxLenOf(s, f) = MaxLenOf(s, g)
    BY <1>2, ContentFollows DEF MaxLenOf
<1>3. rank \in [Site -> Nat]
    BY TypesAssumption DEF Site
<1>4. Contractive(Site, Int, rank, G)
    <2>1. G \in [[Site -> Int] -> [Site -> Int]]
        BY <1>1
    <2>2. ASSUME NEW f \in [Site -> Int], NEW g \in [Site -> Int], NEW s \in Site,
                 \A r \in Site : rank[r] < rank[s] => f[r] = g[r]
          PROVE  G[f][s] = G[g][s]
        <3>1. MaxLenOf(s, f) = MaxLenOf(s, g)
            BY <1>2, <2>2
        <3> QED
            BY <3>1
    <2> QED
        BY <1>3, <2>1, <2>2 DEF Contractive
<1>5. PICK f \in [Site -> Int] : \A s \in Site : f[s] = G[f][s]
    <2>1. Int # {}
        BY 0 \in Int
    <2> HIDE DEF G, rank
    <2> QED BY <1>4, <2>1, Recursion
<1>6. \A s \in Site : f[s] = MaxLenOf(s, f)
    BY <1>5
<1>7. MaxLenBy(f)
    BY <1>6 DEF MaxLenBy
<1>8. MaxLenBy(MaxLen)
    BY <1>7, MaxLenIsChosen
<1>9. DOMAIN MaxLen = Site /\ \A s \in Site : MaxLen[s] = MaxLenOf(s, MaxLen)
    BY <1>8 DEF MaxLenBy
<1>10. \A s \in Site : MaxLen[s] = f[s]
    <2>1. ASSUME NEW s \in Site, \A r \in Site : rank[r] < rank[s] => MaxLen[r] = f[r]
          PROVE  MaxLen[s] = f[s]
        <3>1. MaxLenOf(s, MaxLen) = MaxLenOf(s, f)
            BY <1>2, <2>1
        <3> QED
            BY <1>6, <1>9, <3>1
    <2>2. SameByRank(Site, rank, MaxLen, f)
        <3> HIDE DEF rank
        <3> QED BY <2>1 DEF SameByRank
    <2> HIDE DEF rank
    <2> QED BY <1>3, <2>2, AgreeByRank
<1>11. MaxLen \in [Site -> Int]
    <2>1. MaxLen = [s \in Site |-> MaxLen[s]]
        BY <1>8 DEF MaxLenBy
    <2> QED
        BY <1>10, <2>1
<1> QED
    BY <1>9, <1>11

(* Outside of TLV structs, a value of constant size is as long as its      *)
(* parts, and only a struct may have a length field.                       *)
LEMMA ConstWanted ==
    ASSUME NEW s \in Site, ~s.tlv, IsConstSize[s.type]
    PROVE  /\ Types[s.type].kind # "struct" => WantedLengthField[s] = None
           /\ Types[s.type].kind = "struct" =>
                 ~Types[s.type].tlv /\ WantedLengthField[s] \in OptSize
<1> DEFINE ty == Types[s.type]
<1>1. s.type \in TypeId /\ WantedLengthField[s] = WantedOf(s, ty)
    BY DEF WantedLengthField, Site
<1>2. ty.kind # "struct" => WantedOf(s, ty) = None
    BY DEF WantedOf, IsWrapper, IsStruct, NeedsLengthField
<1>3. ASSUME ty.kind = "struct"
      PROVE  ~ty.tlv
    BY <1>1, <1>3, ConstSizeIs DEF ConstSizeOf
<1>4. ASSUME ty.kind = "struct"
      PROVE  WantedOf(s, ty) # MissingPanic
    <2>1. ~NeedsLengthField(s, ty)
        BY <1>3, <1>4 DEF NeedsLengthField, IsStruct
    <2>2. WantedOf(s, ty) = None \/ WantedOf(s, ty) = ConfiguredLengthField(s, ty)
        BY <2>1 DEF WantedOf
    <2>3. ty.lfs \in OptSize
        BY <1>1, <1>4, TypeShapes DEF IsFixed
    <2>4. s.opts.defaultLfs \in OptSize /\ s.props.struct \in OptSize
        BY DEF Site, Options, Properties
    <2>5. ConfiguredLengthField(s, ty) \in OptSize
        BY <1>4, <2>3, <2>4 DEF ConfiguredLengthField, ApplyDefaults, Or
    <2>6. MissingPanic \notin OptSize
        BY SizesDoNotFail DEF OptSize, LengthFieldSize, MissingPanic, None
    <2> QED
        BY <2>2, <2>5, <2>6 DEF OptSize
<1> QED
    BY <1>1, <1>2, <1>3, <1>4, WantedIsSize

LEMMA ConstSizes ==
    ASSUME NEW s \in Site, ~s.tlv, IsConstSize[s.type], MaxLen[s] \in Nat
    PROVE  /\ IsFixed(Types[s.type]) => MaxLen[s] = Types[s.type].size
           /\ Types[s.type].kind = "string" => MaxLen[s] = Types[s.type].max
           /\ Types[s.type].kind = "seq" =>
                /\ IsConstSize[Types[s.type].elem]
                /\ Types[s.type].min = Types[s.type].max
                /\ MaxLen[PartSite(s, Types[s.type].elem, FALSE)] \in Nat
                /\ MaxLen[s] = Types[s.type].max * MaxLen[PartSite(s, Types[s.type].elem, FALSE)]
           /\ Types[s.type].kind = "struct" =>
                /\ \A i \in DOMAIN Types[s.type].fields : IsConstSize[Types[s.type].fields[i].type]
                /\ SumOf(FieldLens(s, MaxLen)) \in Nat
                /\ MaxLen[s] = SumOf(FieldLens(s, MaxLen)) + WantedLengthField[s]
<1> DEFINE ty == Types[s.type]
           wanted == WantedLengthField[s]
           content == ContentOf(s, ty, MaxLen)
<1>1. s.type \in TypeId /\ MaxLen[s] = WithLengthField(s, wanted, content)
    BY MaxLenIs DEF MaxLenOf, Site
<1>2. IsConstSize[s.type] = ConstSizeOf(ty, IsConstSize)
    BY <1>1, ConstSizeIs
<1>3. ASSUME wanted = None
      PROVE  MaxLen[s] = content
    <2>1. ~Failed(wanted)
        BY <1>3 DEF None, Failed
    <2> HIDE DEF content, wanted
    <2> QED
        BY <1>1, <1>3, <2>1 DEF WithLengthField
<1>4. IsFixed(ty) => MaxLen[s] = ty.size
    BY <1>3, ConstWanted, ContentIs DEF IsFixed
<1>5. ty.kind = "string" => MaxLen[s] = ty.max
    BY <1>3, ConstWanted, ContentIs
<1>6. ASSUME ty.kind = "seq"
      PROVE  /\ IsConstSize[ty.elem]
             /\ ty.min = ty.max
             /\ MaxLen[PartSite(s, ty.elem, FALSE)] \in Nat
             /\ MaxLen[s] = ty.max * MaxLen[PartSite(s, ty.elem, FALSE)]
    <2>1. IsConstSize[ty.elem] /\ ty.min = ty.max
        BY <1>2, <1>6 DEF ConstSizeOf
    <2> DEFINE each == MaxLen[PartSite(s, ty.elem, FALSE)]
    <2>2. MaxLen[s] = TimesLen(ty.max, each)
        BY <1>3, <1>6, ConstWanted, ContentIs
    <2> HIDE DEF each
    <2>3. each \in Nat /\ MaxLen[s] = ty.max * each
        BY <2>2 DEF TimesLen, Failed
    <2> QED
        BY <2>1, <2>3 DEF each
<1>7. ASSUME ty.kind = "struct"
      PROVE  /\ \A i \in DOMAIN ty.fields : IsConstSize[ty.fields[i].type]
             /\ SumOf(FieldLens(s, MaxLen)) \in Nat
             /\ MaxLen[s] = SumOf(FieldLens(s, MaxLen)) + wanted
    <2>1. \A i \in DOMAIN ty.fields : IsConstSize[ty.fields[i].type]
        BY <1>2, <1>7 DEF ConstSizeOf
    <2> DEFINE sum == SumOf(FieldLens(s, MaxLen))
    <2>2. content = sum
        BY <1>7, ContentIs
    <2>3. wanted \in OptSize /\ ~Failed(wanted)
        BY <1>7, ConstWanted, SizesDoNotFail
    <2>4. sum \in Int
        BY <1>7, FieldLensAre, MaxLenIs, SumIsInt
    <2> HIDE DEF sum, wanted, content
    <2>5. CASE wanted = None
        <3>1. MaxLen[s] = sum
            BY <1>3, <2>2, <2>5
        <3> QED
            BY <2>1, <2>4, <2>5, <3>1 DEF None, sum, wanted
    <2>6. CASE wanted # None
        <3> DEFINE actual == SelectLengthFieldSize(s.opts, wanted, MinimumLengthFor[sum], s.tlv)
        <3>1. MaxLen[s] = IF Failed(sum) THEN sum ELSE PlusLen(sum, actual)
            BY <1>1, <2>2, <2>3, <2>6 DEF WithLengthField
        <3> HIDE DEF actual
        <3>2. sum \in Nat /\ actual \in Nat /\ MaxLen[s] = sum + actual
            BY <2>4, <3>1 DEF PlusLen, Failed
        <3>3. actual = wanted
            <4>1. MinimumLengthFor[sum] \in LengthFieldSize \cup {LengthPanic}
                BY <3>2, MinimumFits
            <4>2. ~Failed(TooLong) => FALSE
                BY SizesDoNotFail
            <4> QED
                BY <3>2, <4>1, <4>2 DEF SelectLengthFieldSize, actual, Failed
        <3> QED
            BY <2>1, <3>2, <3>3 DEF sum, wanted
    <2> QED
        BY <2>5, <2>6
<1> QED
    BY <1>4, <1>5, <1>6, <1>7
=============================================================================
