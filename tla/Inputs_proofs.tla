---------------------------- MODULE Inputs_proofs ----------------------------
(***************************************************************************)
(* What the readers of Inputs promise, for every assignment of the         *)
(* constants the assumptions allow: the limits that follow the settings,   *)
(* the signals that are heard as they were said, the names that stay       *)
(* inside the folder, the links that mean what they say, and the messages  *)
(* that are heard as they were said.  What a reader computes is a fold     *)
(* over a sequence, which FoldFacts takes apart, one instance for each     *)
(* operator that is folded; a fact about every sequence is then shown by   *)
(* induction on its length, over the set of sequences of which it holds.   *)
(***************************************************************************)
EXTENDS Inputs, TLAPS, SequenceTheorems, FiniteSetTheorems, WellFoundedInduction

(***************************************************************************)
(* Numbers and sequences.                                                  *)
(***************************************************************************)

\* A set of natural numbers that is not empty has a least element.
LEMMA NatsAreWellOrdered == \A T \in SUBSET Nat : T # {} => \E x \in T : \A y \in T : x <= y
<1>. SUFFICES ASSUME NEW T \in SUBSET Nat, T # {} PROVE \E x \in T : \A y \in T : x <= y
  OBVIOUS
<1>. DEFINE R == OpToRel(<, Nat)
<1>1. IsWellFoundedOn(R, Nat)
  BY NatLessThanWellFounded
<1>2. \A x, y \in Nat : x < y => <<x, y>> \in R
  BY Zenon DEF OpToRel
<1>. HIDE DEF R
<1>3. PICK x \in T : \A y \in T : ~(<<y, x>> \in R)
  BY <1>1, WFMin
<1>4. ASSUME NEW y \in T PROVE x <= y
  <2>1. x \in Nat /\ y \in Nat
    OBVIOUS
  <2>2. ~(y < x)
    BY <1>2, <1>3, <2>1
  <2>. QED BY <2>1, <2>2
<1>. QED BY <1>4

\* A set that has 0, and the successor of each number it has, has them all.
LEMMA SetInduction ==
  ASSUME NEW T, 0 \in T, \A n \in Nat : n \in T => n + 1 \in T
  PROVE  \A n \in Nat : n \in T
<1>. SUFFICES ASSUME NEW k \in Nat, k \notin T PROVE FALSE
  OBVIOUS
<1>. DEFINE U == {n \in Nat : n \notin T}
<1>1. U # {} /\ U \in SUBSET Nat
  OBVIOUS
<1>2. PICK x \in U : \A y \in U : x <= y
  BY <1>1, NatsAreWellOrdered, Zenon
<1>3. x # 0
  OBVIOUS
<1>4. x - 1 \in Nat /\ x - 1 \notin U
  BY <1>2, <1>3
<1>. QED BY <1>4

\* What \div and % give.
LEMMA DivBounds ==
  ASSUME NEW n \in Nat, NEW d \in Nat \ {0}
  PROVE  /\ n \div d \in Nat /\ n % d \in Nat /\ n % d < d /\ n = (n \div d) * d + (n % d)
         /\ (n \div d) * d <= n /\ n < (n \div d + 1) * d
OBVIOUS

\* Division keeps the order.
LEMMA DivMonotone ==
  ASSUME NEW m \in Nat, NEW n \in Nat, NEW d \in Nat \ {0}, m <= n
  PROVE  m \div d <= n \div d
<1>. DEFINE a == m \div d
            b == n \div d
<1>1. a \in Nat /\ b \in Nat /\ a * d <= n /\ n < (b + 1) * d
  BY DivBounds
<1>. HIDE DEF a, b
<1>2. \A x \in Nat, y \in Nat : x >= y => x * d >= y * d
  OBVIOUS
<1>3. a < b + 1
  BY <1>1, <1>2
<1>. QED BY <1>1, <1>3

\* A number is cut at a multiple of the divisor.
LEMMA DivOfSum ==
  ASSUME NEW q \in Nat, NEW d \in Nat \ {0}, NEW r \in Nat, r < d
  PROVE  /\ q * d + r \in Nat /\ (q * d + r) \div d = q /\ (q * d + r) % d = r
         /\ q # 0 => q * d + r >= d
OBVIOUS

\* Two elements at once are two appended one after the other.
LEMMA AppendTwice ==
  ASSUME NEW S, NEW s \in Seq(S), NEW x \in S, NEW y \in S
  PROVE  s \o <<x, y>> = Append(Append(s, x), y)
OBVIOUS

Concat(s, t) == s \o t
Flat == INSTANCE FoldFacts WITH Op <- Concat

\* What its induction is on.
LEMMA FlatWellOrdered == Flat!WellOrdered
BY NatsAreWellOrdered DEF Flat!WellOrdered

\* What holds of the empty sequence and is kept by Append holds of every one.
LEMMA AppendInduction ==
  ASSUME NEW S, NEW T, <<>> \in T,
         \A s \in Seq(S), e \in S : s \in T => Append(s, e) \in T
  PROVE  \A s \in Seq(S) : s \in T
<1>. DEFINE N == {n \in Nat : \A s \in Seq(S) : Len(s) = n => s \in T}
<1>1. 0 \in N
  <2>1. \A s \in Seq(S) : Len(s) = 0 => s = <<>>
    OBVIOUS
  <2>. QED BY <2>1
<1>2. ASSUME NEW n \in Nat, n \in N PROVE n + 1 \in N
  <2>. SUFFICES ASSUME NEW s \in Seq(S), Len(s) = n + 1 PROVE s \in T
    <3>1. n + 1 \in Nat
      OBVIOUS
    <3>. QED BY <3>1, Zenon
  <2>1. /\ SubSeq(s, 1, n) \in Seq(S) /\ Len(SubSeq(s, 1, n)) = n
        /\ s[n + 1] \in S /\ s = Append(SubSeq(s, 1, n), s[n + 1])
    OBVIOUS
  <2>2. SubSeq(s, 1, n) \in T
    BY <1>2, <2>1, Zenon
  <2>. QED BY <2>1, <2>2, Zenon
<1>. HIDE DEF N
<1>3. \A n \in Nat : n \in N
  BY <1>1, <1>2, SetInduction
<1>. QED BY <1>3 DEF N

\* A sequence is determined by what follows a given beginning.
LEMMA ConcatCancels ==
  ASSUME NEW S, NEW s \in Seq(S), NEW t \in Seq(S), NEW u \in Seq(S), s \o t = s \o u
  PROVE  t = u
<1>1. Len(t) = Len(u)
  BY ConcatProperties, LenProperties
<1>2. ASSUME NEW k \in 1..Len(t) PROVE t[k] = u[k]
  <2>1. Len(s) + k \in 1..Len(s) + Len(t) /\ ~(Len(s) + k <= Len(s)) /\ (Len(s) + k) - Len(s) = k
    BY LenProperties
  <2>2. (s \o t)[Len(s) + k] = t[k] /\ (s \o u)[Len(s) + k] = u[k]
    BY <1>1, <2>1, ConcatProperties
  <2>. QED BY <2>2
<1>. QED BY <1>1, <1>2, SeqEqual

\* FlattenSeq, which is a recursive function of its own, is a fold.
LEMMA FlattenIsFold ==
  ASSUME NEW S, NEW ss \in Seq(Seq(S)), ss # <<>>
  PROVE  FlattenSeq(ss) = Flat!Folded(<<>>, ss)
<1>. DEFINE n == Len(ss)
            Flatten(f) == f = [k \in 1..n |-> IF k = 1 THEN ss[k] ELSE f[k - 1] \o ss[k]]
<1>1. n \in Nat /\ n >= 1 /\ DOMAIN ss = 1..n /\ \A k \in 1..n : ss[k] \in Seq(S)
  <2>1. n \in Nat \ {0}
    BY EmptySeq
  <2>. QED BY <2>1, LenProperties, ElementOfSeq
<1>. HIDE DEF n
<1>2. PICK g : Flat!Iterates(g, n, <<>>, ss) /\ Flat!Folded(<<>>, ss) = g[1..n]
  BY <1>1, Flat!FoldedIs, Flat!IterationExists, FlatWellOrdered, Zenon
<1>3. g[1..0] = <<>> /\ \A k \in 1..n : g[1..k] = g[1..(k - 1)] \o ss[k]
  <2>1. g[1..0] = <<>> /\ \A k \in 1..n : g[1..k] = Concat(g[1..(k - 1)], ss[k])
    <3>1. n \in Nat /\ Flat!Iterates(g, n, <<>>, ss)
      BY <1>1, <1>2
    <3>. QED BY <3>1, Flat!IterationStep
  <2>. QED BY <2>1, Zenon DEF Concat
<1>4. g[1..1] = ss[1]
  <2>1. g[1..1] = g[1..0] \o ss[1]
    <3>1. 1 \in 1..n /\ 1 - 1 = 0
      BY <1>1
    <3>2. g[1..1] = g[1..(1 - 1)] \o ss[1]
      BY <1>3, <3>1, Zenon
    <3>. QED BY <3>1, <3>2
  <2>2. ss[1] \in Seq(S)
    BY <1>1
  <2>. QED BY <1>3, <2>1, <2>2
<1>5. \E f : Flatten(f)
  <2>. DEFINE f == [k \in 1..n |-> g[1..k]]
  <2>1. ASSUME NEW k \in 1..n
        PROVE  f[k] = IF k = 1 THEN ss[k] ELSE f[k - 1] \o ss[k]
    <3>1. CASE k = 1  BY <1>4, <3>1
    <3>2. CASE k # 1
      <4>1. k - 1 \in 1..n
        BY <1>1, <3>2
      <4>. QED BY <1>3, <3>2, <4>1, Zenon
    <3>. QED BY <3>1, <3>2
  <2>2. f = [k \in 1..n |-> f[k]]
    OBVIOUS
  <2>3. Flatten(f)
    BY <2>1, <2>2, Zenon
  <2>. QED BY <2>3, Zenon
<1>6. PICK f : Flatten(f) /\ FlattenSeq(ss) = f[n]
  <2>1. Flatten(CHOOSE f : Flatten(f))
    BY <1>5, Zenon
  <2>2. Len(ss) # 0
    BY <1>1 DEF n
  <2>3. FlattenSeq(ss) = (CHOOSE f : Flatten(f))[n]
    BY <2>2, Zenon DEF FlattenSeq, n
  <2>. QED BY <2>1, <2>3, Zenon
<1>7. \A k \in 1..n : f[k] = IF k = 1 THEN ss[k] ELSE f[k - 1] \o ss[k]
  BY <1>6, Zenon
<1>. HIDE DEF Flatten
<1>. DEFINE T == {k \in Nat : k + 1 <= n => f[k + 1] = g[1..(k + 1)]}
<1>8. 0 \in T
  BY <1>1, <1>4, <1>7
<1>9. ASSUME NEW k \in Nat, k \in T PROVE k + 1 \in T
  <2>. SUFFICES ASSUME (k + 1) + 1 <= n PROVE f[(k + 1) + 1] = g[1..((k + 1) + 1)]
    <3>1. k + 1 \in Nat
      OBVIOUS
    <3>. QED BY <3>1, Zenon
  <2>1. PICK h : h = k + 1 /\ h \in 1..n
    BY <1>1
  <2>2. h + 1 \in 1..n /\ (h + 1) - 1 = h /\ h + 1 # 1
    BY <1>1, <2>1
  <2>3. f[h] = g[1..h]
    BY <1>9, <2>1
  <2>4. f[h + 1] = f[h] \o ss[h + 1] /\ g[1..(h + 1)] = g[1..h] \o ss[h + 1]
    BY <1>3, <1>7, <2>2, Zenon
  <2>. QED BY <2>1, <2>3, <2>4
<1>. HIDE DEF T
<1>10. n - 1 \in T /\ n - 1 \in Nat
  <2>1. \A k \in Nat : k \in T
    BY <1>8, <1>9, SetInduction, Zenon
  <2>. QED BY <1>1, <2>1
<1>11. f[n] = g[1..n]
  BY <1>1, <1>10 DEF T
<1>. QED BY <1>2, <1>6, <1>11

\* FlattenSeq of nothing.
LEMMA FlattenEmpty == FlattenSeq(<<>>) = <<>>
BY DEF FlattenSeq

\* FlattenSeq of one sequence more.
LEMMA FlattenAppend ==
  ASSUME NEW S, NEW ss \in Seq(Seq(S)), NEW s \in Seq(S)
  PROVE  FlattenSeq(Append(ss, s)) = FlattenSeq(ss) \o s
<1>1. Append(ss, s) \in Seq(Seq(S)) /\ Append(ss, s) # <<>>
  <2>1. Append(ss, s) \in Seq(Seq(S)) /\ Len(Append(ss, s)) = Len(ss) + 1 /\ Len(ss) \in Nat
    BY AppendProperties, LenProperties
  <2>2. Len(Append(ss, s)) # 0
    BY <2>1
  <2>. QED BY <2>1, <2>2, SMTT(60)
<1>2. FlattenSeq(Append(ss, s)) = Flat!Folded(<<>>, Append(ss, s))
  BY <1>1, FlattenIsFold, Zenon
<1>3. FlattenSeq(Append(ss, s)) = Flat!Folded(<<>>, ss) \o s
  BY <1>2, Flat!FoldedAppend, FlatWellOrdered DEF Concat
<1>4. ss = <<>> => Flat!Folded(<<>>, ss) = FlattenSeq(ss)
  BY FlattenEmpty, Flat!FoldedEmpty
<1>. QED BY <1>3, <1>4, FlattenIsFold, Zenon

\* FlattenSeq of sequences over a set.
LEMMA FlattenIsSeq ==
  ASSUME NEW S, NEW ss \in Seq(Seq(S))
  PROVE  FlattenSeq(ss) \in Seq(S)
<1>. DEFINE T == {s \in Seq(Seq(S)) : FlattenSeq(s) \in Seq(S)}
<1>1. <<>> \in T
  <2>1. <<>> \in Seq(Seq(S)) /\ <<>> \in Seq(S)
    BY EmptySeq
  <2>. QED BY <2>1, FlattenEmpty, Zenon
<1>2. ASSUME NEW s \in Seq(Seq(S)), NEW e \in Seq(S), s \in T PROVE Append(s, e) \in T
  <2>1. FlattenSeq(s) \o e \in Seq(S) /\ Append(s, e) \in Seq(Seq(S))
    BY <1>2, ConcatProperties, AppendProperties
  <2>. QED BY <2>1, FlattenAppend, Zenon
<1>. HIDE DEF T
<1>3. ss \in T
  BY <1>1, <1>2, AppendInduction
<1>. QED BY <1>3 DEF T

(***************************************************************************)
(* Preferences: the limits follow the settings.                            *)
(***************************************************************************)

\* A value of a Double that UserDefaults can hold.
AnyDouble == [finite : BOOLEAN, n : Int]

\* What is saved was written by a clamp or is whatever was found at launch, the
\* settings are what is loaded of it, and the limits are those of the settings.
PrefsInv ==
  /\ saved \in [Prefs!Setting -> AnyDouble]
  /\ settings = Prefs!Load(saved)
  /\ limits = IF attached THEN Prefs!ApplyLimits(settings) ELSE [k \in Prefs!Rate |-> {}]

\* What is assumed of rates.
LEMMA RateAssumption ==
  /\ Fraction \in Nat \ {0} /\ MaxRate \in Nat /\ MaxU32 \in Nat
  /\ MaxRate \div Fraction <= MaxU32 /\ MinRate \in 1..MaxU32 /\ Numbers \subseteq Int
BY InputAssumption

\* The settings that are loaded trap nothing and give the limits that are set.
LEMMA LimitsFromInv == PrefsInv => Prefs!LimitsFollow
<1>. SUFFICES ASSUME PrefsInv, NEW k \in Prefs!Rate
              PROVE  /\ ~Prefs!Traps(settings[k]) /\ Prefs!Load(saved)[k] = settings[k]
                     /\ attached =>
                         IF settings[k].n < Fraction THEN limits[k] = {}
                         ELSE \E bps \in limits[k] :
                                /\ bps >= MinRate
                                /\ bps > MinRate =>
                                     /\ bps * Fraction <= settings[k].n
                                     /\ settings[k].n < (bps + 1) * Fraction
  BY DEF Prefs!LimitsFollow
<1>. DEFINE n == settings[k].n
            q == n \div Fraction
<1>1. saved[k] \in AnyDouble
  BY DEF PrefsInv, Prefs!Setting
<1>2. settings[k] = Prefs!ClampRate(saved[k])
  BY DEF PrefsInv, Prefs!Load, Prefs!Setting
<1>3. settings[k].finite = TRUE /\ n \in 0..MaxRate
  BY <1>1, <1>2, RateAssumption DEF Prefs!ClampRate, Prefs!Finite, AnyDouble
<1>4. q \in Nat /\ q * Fraction <= n /\ n < (q + 1) * Fraction /\ q <= MaxU32
  <2>1. n \in Nat /\ n <= MaxRate /\ MaxRate \in Nat /\ Fraction \in Nat \ {0}
    BY <1>3, RateAssumption
  <2>. HIDE DEF n
  <2>2. q \in Nat /\ q * Fraction <= n /\ n < (q + 1) * Fraction
    BY <2>1, DivBounds
  <2>3. q <= MaxRate \div Fraction /\ MaxRate \div Fraction \in Nat
    BY <2>1, DivMonotone, DivBounds
  <2>. HIDE DEF q
  <2>. QED BY <2>2, <2>3, RateAssumption
<1>5. ~Prefs!Traps(settings[k])
  <2>1. q <= MaxU32 /\ MaxU32 \in Nat /\ q \in Nat /\ n >= 0 /\ settings[k].finite
    BY <1>3, <1>4, RateAssumption
  <2>2. Prefs!Traps(settings[k]) <=> ~settings[k].finite \/ n < 0 \/ q > MaxU32
    BY Zenon DEF Prefs!Traps, Prefs!Bytes
  <2>. HIDE DEF n, q
  <2>3. ~(n < 0) /\ ~(q > MaxU32)
    <3>1. n \in Int
      BY <1>3, RateAssumption
    <3>. QED BY <2>1, <3>1
  <2>. QED BY <2>1, <2>2, <2>3, Zenon
<1>6. Prefs!Load(saved)[k] = settings[k]
  BY DEF PrefsInv
<1>7. ASSUME attached
      PROVE  IF n < Fraction THEN limits[k] = {}
             ELSE \E bps \in limits[k] :
                    /\ bps >= MinRate
                    /\ bps > MinRate => bps * Fraction <= n /\ n < (bps + 1) * Fraction
  <2>1. limits[k] = Prefs!Limit(q)
    BY <1>7 DEF PrefsInv, Prefs!ApplyLimits, Prefs!Bytes
  <2>. HIDE DEF q, n
  <2>2. CASE n < Fraction
    <3>1. q = 0
      <4>. SUFFICES ASSUME q >= 1 PROVE FALSE
        BY <1>4
      <4>1. q * Fraction >= Fraction
        BY <1>4, RateAssumption
      <4>. QED BY <1>3, <1>4, <2>2, <4>1, RateAssumption
    <3>. QED BY <2>1, <2>2, <3>1 DEF Prefs!Limit
  <2>3. CASE ~(n < Fraction)
    <3>1. q # 0
      BY <1>3, <1>4, <2>3, RateAssumption
    <3>. DEFINE bps == IF q < MinRate THEN MinRate ELSE q
    <3>2. bps \in limits[k]
      BY <2>1, <3>1 DEF Prefs!Limit
    <3>3. bps >= MinRate /\ (bps > MinRate => bps = q)
      BY <1>4, RateAssumption
    <3>. HIDE DEF bps
    <3>. QED BY <1>4, <2>3, <3>2, <3>3
  <2>. QED BY <2>2, <2>3
<1>. QED BY <1>5, <1>6, <1>7

\* A clamped rate is its own clamp.
LEMMA ClampIsIdempotent ==
  ASSUME NEW k \in Prefs!Setting, NEW v \in AnyDouble
  PROVE  /\ Prefs!Clamp(k, v) \in AnyDouble
         /\ k \in Prefs!Rate => Prefs!ClampRate(Prefs!Clamp(k, v)) = Prefs!Clamp(k, v)
<1>1. v.n \in Int /\ MaxRate \in Nat
  BY RateAssumption DEF AnyDouble
<1>2. PICK c \in Nat : Prefs!Clamp(k, v) = Prefs!Finite(c) /\ (k \in Prefs!Rate => c <= MaxRate)
  BY <1>1 DEF Prefs!Clamp, Prefs!ClampRate
<1>3. Prefs!Finite(c) \in AnyDouble
  BY DEF Prefs!Finite, AnyDouble
<1>4. k \in Prefs!Rate => Prefs!ClampRate(Prefs!Finite(c)) = Prefs!Finite(c)
  <2>1. Prefs!Finite(c).finite = TRUE /\ Prefs!Finite(c).n = c
    BY DEF Prefs!Finite
  <2>2. k \in Prefs!Rate => Prefs!ClampRate(Prefs!Finite(c)) = Prefs!Finite(c)
    <3>1. CASE c > MaxRate  BY <1>1, <1>2, <3>1
    <3>2. CASE ~(c > MaxRate) /\ ~(c < 0)
      BY <2>1, <3>2 DEF Prefs!ClampRate
    <3>. QED BY <3>1, <3>2
  <2>. QED BY <2>2
<1>. QED BY <1>2, <1>3, <1>4

\* The values that are typed are Doubles.
LEMMA DoublesAreTyped == Prefs!Double \subseteq AnyDouble
<1>1. ASSUME NEW n \in Numbers PROVE [finite |-> TRUE, n |-> n] \in AnyDouble
  BY RateAssumption DEF AnyDouble
<1>2. [finite |-> FALSE, n |-> 0] \in AnyDouble
  BY DEF AnyDouble
<1>. QED BY <1>1, <1>2, Zenon DEF Prefs!Double

\* A launch loads the settings.
LEMMA PrefsInit == Prefs!Init => PrefsInv
BY DoublesAreTyped DEF Prefs!Init, PrefsInv

\* A setting that is typed is saved and applied as it is clamped.
LEMMA TypeStep ==
  ASSUME PrefsInv, NEW k \in Prefs!Setting, NEW v \in Prefs!Double, Prefs!Type(k, v)
  PROVE  PrefsInv'
<1> DEFINE w == Prefs!Clamp(k, v)
<1>1. v \in AnyDouble
  BY DoublesAreTyped
<1>2. w \in AnyDouble /\ (k \in Prefs!Rate => Prefs!ClampRate(w) = w)
  BY <1>1, ClampIsIdempotent
<1>3. /\ settings' = [settings EXCEPT ![k] = w] /\ saved' = [saved EXCEPT ![k] = w]
      /\ limits' = IF attached /\ k \in Prefs!Rate THEN Prefs!ApplyLimits(settings') ELSE limits
      /\ attached' = attached
  BY DEF Prefs!Type
<1>. HIDE DEF w
<1>4. saved' \in [Prefs!Setting -> AnyDouble]
  BY <1>2, <1>3 DEF PrefsInv
<1>5. settings' = Prefs!Load(saved')
  BY <1>2, <1>3, Zenon DEF PrefsInv, Prefs!Load
<1>6. k \notin Prefs!Rate => Prefs!ApplyLimits(settings') = Prefs!ApplyLimits(settings)
  <2>. SUFFICES ASSUME k \notin Prefs!Rate, NEW r \in Prefs!Rate PROVE settings'[r] = settings[r]
    BY DEF Prefs!ApplyLimits
  <2>. QED BY <1>3 DEF PrefsInv, Prefs!Load
<1>7. limits' = IF attached' THEN Prefs!ApplyLimits(settings') ELSE [r \in Prefs!Rate |-> {}]
  BY <1>3, <1>6 DEF PrefsInv
<1>. QED BY <1>4, <1>5, <1>7 DEF PrefsInv

\* Every step keeps them.
LEMMA PrefsStep == PrefsInv /\ [Prefs!Next]_prefVars => PrefsInv'
<1>. SUFFICES ASSUME PrefsInv, [Prefs!Next]_prefVars PROVE PrefsInv'
  OBVIOUS
<1>1. CASE Prefs!Attach
  BY <1>1 DEF PrefsInv, Prefs!Attach
<1>2. CASE Prefs!Relaunch
  BY <1>2 DEF PrefsInv, Prefs!Relaunch
<1>3. CASE UNCHANGED prefVars
  BY <1>3 DEF PrefsInv, prefVars
<1>. QED BY <1>1, <1>2, <1>3, TypeStep DEF Prefs!Next

\* The limits the session has are those of the settings, which load back as they
\* were saved and never trap on the way to a UInt32 (SettingsView.swift,
\* clampRate and applyLimits).
THEOREM RatesAreKept == InputSpec => []LimitsFollow
<1> DEFINE I == reader = "prefs" => PrefsInv
<1>1. InputInit => I
  BY PrefsInit DEF InputInit
<1>2. I /\ [InputNext]_inputVars => I'
  <2>. SUFFICES ASSUME reader = "prefs", PrefsInv, [InputNext]_inputVars PROVE PrefsInv'
    BY DEF InputNext, inputVars
  <2>1. [Prefs!Next]_prefVars
    BY DEF InputNext, inputVars, ReadBuffer, ReadLink, ReadPeer, ReadTracker, ReadPaths, ReadPrefs
  <2>. QED BY <2>1, PrefsStep
<1>3. I => LimitsFollow
  BY LimitsFromInv DEF LimitsFollow
<1>. QED BY <1>1, <1>2, <1>3, PTL DEF InputSpec

(***************************************************************************)
(* Signals.                                                                *)
(***************************************************************************)

\* A byte, and the 20 of an id.
ByteValue == 0..ByteBase - 1
Id20 == [1..HashLen -> ByteValue]

\* The operator Chars folds.
CharStep(cs, b) ==
  CASE b < Tracker!Half -> Append(cs, b)
    [] b >= 2 * Tracker!Half -> Append(cs, b - 2 * Tracker!Half)
    [] OTHER -> Append(Front(cs), Last(cs) * Tracker!Half + (b - Tracker!Half))
Reads == INSTANCE FoldFacts WITH Op <- CharStep

\* What its induction is on.
LEMMA ReadsWellOrdered == Reads!WellOrdered
BY NatsAreWellOrdered DEF Reads!WellOrdered

\* Chars is a fold over the bytes of a text.
LEMMA CharsIsFold ==
  ASSUME NEW text
  PROVE  Tracker!Chars(text) = Reads!Folded(<<>>, text)
BY DEF Tracker!Chars, Tracker!FoldLeft, Tracker!MapThenFoldSet, Tracker!Max, Reads!Folded,
       Reads!MapThenFoldSet, Reads!Largest, CharStep, Tracker!Front, Tracker!Last,
       Front, Last

\* Half of the bytes stand for themselves.
LEMMA HalfIs == Tracker!Half \in Nat /\ Tracker!Half > 0 /\ ByteBase = 2 * Tracker!Half
<1>1. ByteBase \in Nat /\ ByteBase > 20 /\ ByteBase % 2 = 0
  BY InputAssumption
<1>2. ByteBase = (ByteBase \div 2) * 2 + (ByteBase % 2) /\ ByteBase \div 2 \in Nat
  BY <1>1, DivBounds
<1>. QED BY <1>1, <1>2 DEF Tracker!Half

\* Chars of nothing, and of one byte more.
LEMMA CharsOf ==
  ASSUME NEW s \in Seq(Nat), NEW b \in Nat
  PROVE  Tracker!Chars(<<>>) = <<>> /\ Tracker!Chars(Append(s, b)) = CharStep(Tracker!Chars(s), b)
BY CharsIsFold, Reads!FoldedEmpty, Reads!FoldedAppend, ReadsWellOrdered

\* What is written for a character is a text.
LEMMA Utf8Of ==
  ASSUME NEW c \in Nat
  PROVE  Tracker!Utf8(c) \in Seq(Nat)
<1>. DEFINE h == Tracker!Half
<1>1. h \in Nat \ {0}
  BY HalfIs
<1>. HIDE DEF h
<1>2. c \div h \in Nat /\ c % h \in Nat
  BY <1>1, DivBounds
<1>3. 2 * h + (c \div h) \in Nat /\ h + (c % h) \in Nat
  BY <1>1, <1>2
<1>4. <<2 * h + (c \div h), h + (c % h)>> \in Seq(Nat) /\ <<c>> \in Seq(Nat)
  BY <1>3
<1>. QED BY <1>4 DEF Tracker!Utf8, h

\* ToText of nothing, and of one character more.
LEMMA TextOf ==
  ASSUME NEW s \in Seq(Nat), NEW c \in Nat
  PROVE  /\ Tracker!ToText(<<>>) = <<>>
         /\ Tracker!ToText(s) \in Seq(Nat)
         /\ Tracker!ToText(Append(s, c)) = Tracker!ToText(s) \o Tracker!Utf8(c)
<1>. DEFINE coded(u) == [k \in DOMAIN u |-> Tracker!Utf8(u[k])]
<1>1. \A u : Tracker!ToText(u) = FlattenSeq(coded(u))
  BY DEF Tracker!ToText, Tracker!FlattenSeq, FlattenSeq
<1>2. coded(s) \in Seq(Seq(Nat)) /\ DOMAIN coded(s) = DOMAIN s
  <2>1. s \in [1..Len(s) -> Nat] /\ Len(s) \in Nat
    OBVIOUS
  <2>2. coded(s) \in [1..Len(s) -> Seq(Nat)]
    BY <2>1, Utf8Of
  <2>. QED BY <2>1, <2>2, SeqDef
<1>3. coded(<<>>) = <<>>
  <2>1. coded(<<>>) = [k \in {} |-> Tracker!Utf8(<<>>[k])]
    OBVIOUS
  <2>. QED BY <2>1
<1>4. coded(Append(s, c)) = Append(coded(s), Tracker!Utf8(c))
  <2>1. Len(coded(s)) = Len(s) /\ Len(s) \in Nat /\ DOMAIN s = 1..Len(s)
    BY <1>2, LenProperties
  <2>2. DOMAIN Append(coded(s), Tracker!Utf8(c)) = 1..(Len(s) + 1)
    BY <1>2, <2>1, Utf8Of, AppendProperties, LenProperties
  <2>3. DOMAIN Append(s, c) = 1..(Len(s) + 1)
    OBVIOUS
  <2>4. ASSUME NEW k \in 1..(Len(s) + 1)
        PROVE  coded(Append(s, c))[k] = Append(coded(s), Tracker!Utf8(c))[k]
    <3>1. coded(Append(s, c))[k] = Tracker!Utf8(Append(s, c)[k])
      BY <2>3
    <3>2. CASE k = Len(s) + 1
      <4>1. Append(s, c)[k] = c
        BY <3>2
      <4>2. Append(coded(s), Tracker!Utf8(c))[k] = Tracker!Utf8(c)
        BY <1>2, <2>1, <3>2, Utf8Of, AppendProperties
      <4>. QED BY <3>1, <4>1, <4>2
    <3>3. CASE k # Len(s) + 1
      <4>1. Append(s, c)[k] = s[k] /\ k \in 1..Len(s)
        BY <3>3
      <4>2. Append(coded(s), Tracker!Utf8(c))[k] = coded(s)[k]
        BY <1>2, <2>1, <4>1, Utf8Of, AppendProperties
      <4>. QED BY <2>1, <3>1, <4>1, <4>2
    <3>. QED BY <3>2, <3>3
  <2>5. coded(Append(s, c)) = [k \in 1..(Len(s) + 1) |-> coded(Append(s, c))[k]]
    BY <2>3
  <2>6. Append(coded(s), Tracker!Utf8(c)) =
          [k \in 1..(Len(s) + 1) |-> Append(coded(s), Tracker!Utf8(c))[k]]
    BY <1>2, <2>2, Utf8Of, AppendProperties, LenProperties, Zenon
  <2>. HIDE DEF coded
  <2>. QED BY <2>4, <2>5, <2>6
<1>. HIDE DEF coded
<1>5. Tracker!ToText(s) \in Seq(Nat)
  BY <1>1, <1>2, FlattenIsSeq
<1>6. Tracker!ToText(Append(s, c)) = Tracker!ToText(s) \o Tracker!Utf8(c)
  BY <1>1, <1>2, <1>4, Utf8Of, FlattenAppend, Zenon
<1>. QED BY <1>1, <1>3, <1>5, <1>6, FlattenEmpty

\* The characters of what is written for one character.
LEMMA CharsOfUtf8 ==
  ASSUME NEW s \in Seq(Nat), NEW cs \in Seq(Nat), Tracker!Chars(s) = cs, NEW c \in ByteValue
  PROVE  Tracker!Chars(s \o Tracker!Utf8(c)) = Append(cs, c)
<1>. DEFINE h == Tracker!Half
            q == c \div h
            r == c % h
<1>1. h \in Nat \ {0} /\ c \in Nat
  BY HalfIs, InputAssumption DEF ByteValue
<1>. HIDE DEF h
<1>2. q \in Nat /\ r \in Nat /\ r < h /\ c = q * h + r
  BY <1>1, DivBounds, Zenon
<1>3. Tracker!Utf8(c) = IF c < h THEN <<c>> ELSE <<2 * h + q, h + r>>
  BY DEF Tracker!Utf8, h
<1>. HIDE DEF q, r
<1>4. CASE c < h
  <2>1. s \o <<c>> = Append(s, c)
    BY <1>1
  <2>2. Tracker!Chars(Append(s, c)) = CharStep(cs, c)
    BY <1>1, CharsOf
  <2>3. CharStep(cs, c) = Append(cs, c)
    BY <1>1, <1>4 DEF CharStep, h
  <2>. QED BY <1>3, <1>4, <2>1, <2>2, <2>3, Zenon
<1>5. CASE ~(c < h)
  <2>. DEFINE a == 2 * h + q
              b == h + r
              m == Append(cs, q)
  <2>1. a \in Nat /\ b \in Nat /\ a >= 2 * h /\ ~(a < h) /\ ~(b < h) /\ ~(b >= 2 * h) /\ a - 2 * h = q /\ b - h = r
    BY <1>1, <1>2
  <2>2. s \o <<a, b>> = Append(Append(s, a), b) /\ Append(s, a) \in Seq(Nat)
    BY <2>1
  <2>. HIDE DEF a, b
  <2>3. Tracker!Chars(Append(s, a)) = CharStep(cs, a)
    BY <2>1, CharsOf
  <2>4. CharStep(cs, a) = m
    BY <2>1 DEF CharStep, h
  <2>5. Tracker!Chars(Append(Append(s, a), b)) = CharStep(m, b)
    BY <2>1, <2>2, <2>3, <2>4, CharsOf, Zenon
  <2>6. Front(m) = cs /\ Last(m) = q
    BY <1>2 DEF Front, Last
  <2>. HIDE DEF m
  <2>7. CharStep(m, b) = Append(cs, q * h + r)
    BY <2>1, <2>6 DEF CharStep, h
  <2>. QED BY <1>2, <1>3, <1>5, <2>2, <2>5, <2>7, Zenon DEF a, b
<1>. QED BY <1>4, <1>5

\* An id comes out of its text.
LEMMA CharsOfText ==
  ASSUME NEW bytes \in Seq(ByteValue)
  PROVE  Tracker!Chars(Tracker!ToText(bytes)) = bytes
<1>. DEFINE T == {s \in Seq(ByteValue) : Tracker!Chars(Tracker!ToText(s)) = s}
<1>1. ByteValue \subseteq Nat
  BY InputAssumption DEF ByteValue
<1>2. <<>> \in T
  <2>1. 0 \in Nat /\ <<>> \in Seq(Nat) /\ <<>> \in Seq(ByteValue)
    BY EmptySeq
  <2>. QED BY <2>1, TextOf, CharsOf, Zenon
<1>3. ASSUME NEW s \in Seq(ByteValue), NEW c \in ByteValue, s \in T PROVE Append(s, c) \in T
  <2>1. s \in Seq(Nat) /\ c \in Nat
    BY <1>1, SeqMonotonic, Zenon
  <2>2. Tracker!ToText(s) \in Seq(Nat) /\ Tracker!ToText(Append(s, c)) = Tracker!ToText(s) \o Tracker!Utf8(c)
    BY <2>1, TextOf, Zenon
  <2>3. Tracker!Chars(Tracker!ToText(s) \o Tracker!Utf8(c)) = Append(s, c)
    BY <1>3, <2>1, <2>2, CharsOfUtf8
  <2>4. Append(s, c) \in Seq(ByteValue)
    BY <1>3, AppendProperties
  <2>. QED BY <2>2, <2>3, <2>4, Zenon
<1>. HIDE DEF T
<1>4. bytes \in T
  BY <1>2, <1>3, AppendInduction
<1>. QED BY <1>4 DEF T

\* What DecodeBinary gives of the text of an id.
LEMMA IdIsDecoded ==
  ASSUME NEW id \in Id20
  PROVE  Tracker!DecodeBinary(Tracker!ToText(id)) = {id}
<1>1. id \in Seq(ByteValue) /\ Len(id) = HashLen /\ \A k \in DOMAIN id : id[k] < ByteBase
  BY InputAssumption DEF Id20, ByteValue
<1>2. Tracker!Chars(Tracker!ToText(id)) = id
  BY <1>1, CharsOfText
<1>3. \A c \in Tracker!ToSet(id) : c < ByteBase
  BY <1>1 DEF Tracker!ToSet
<1>. QED BY <1>1, <1>2, <1>3 DEF Tracker!DecodeBinary, Tracker!CharCount

\* The text of the characters of a text is that text.
LEMMA TextOfChars ==
  ASSUME NEW text, Tracker!IsUtf8(text)
  PROVE  Tracker!ToText(Tracker!Chars(text)) = text
<1>. DEFINE h == Tracker!Half
            Lead(k) == k > 0 /\ text[k] >= 2 * h
            pre(k) == SubSeq(text, 1, k)
            Ok(k) == IF Lead(k)
                     THEN \E cs \in Seq(Nat) : /\ Tracker!ToText(cs) = pre(k - 1)
                                               /\ Tracker!Chars(pre(k)) = Append(cs, text[k] - 2 * h)
                     ELSE Tracker!Chars(pre(k)) \in Seq(Nat) /\ Tracker!ToText(Tracker!Chars(pre(k))) = pre(k)
            T == {k \in Nat : k <= Len(text) => Ok(k)}
<1>1. h \in Nat \ {0}
  BY HalfIs
<1>2. /\ text \in Seq(Nat)
      /\ \A k \in 1..Len(text) :
           /\ text[k] >= 2 * h => text[k] > 2 * h /\ k < Len(text) /\ text[k + 1] \in h..2 * h - 1
           /\ text[k] \in h..2 * h - 1 => k > 1 /\ text[k - 1] >= 2 * h
  BY SMTT(60) DEF Tracker!IsUtf8
<1>3. \A k \in 0..Len(text) : pre(k) \in Seq(Nat)
  BY <1>2
<1>. HIDE DEF h
<1>4. 0 \in T
  <2>1. pre(0) = <<>>
    BY <1>2
  <2>2. 0 \in Nat /\ <<>> \in Seq(Nat)
    BY EmptySeq
  <2>3. Tracker!Chars(pre(0)) \in Seq(Nat) /\ Tracker!ToText(Tracker!Chars(pre(0))) = pre(0)
    BY <2>1, <2>2, CharsOf, TextOf, Zenon
  <2>. QED BY <2>3
<1>5. ASSUME NEW n \in Nat, n \in T PROVE n + 1 \in T
  <2>. SUFFICES ASSUME n + 1 <= Len(text) PROVE Ok(n + 1)
    <3>1. n + 1 \in Nat
      OBVIOUS
    <3>. QED BY <3>1, Zenon
  <2>. DEFINE b == text[n + 1]
              cs == Tracker!Chars(pre(n))
  <2>1. n \in 0..Len(text) /\ n + 1 \in 1..Len(text) /\ b \in Nat /\ Ok(n)
    <3>1. Len(text) \in Nat /\ n <= Len(text) /\ n + 1 \in 1..Len(text) /\ b \in Nat
      BY <1>2
    <3>. HIDE DEF Ok
    <3>2. Ok(n)
      BY <1>5, <3>1
    <3>. QED BY <3>1, <3>2
  <2>2. pre(n) \in Seq(Nat) /\ pre(n + 1) = Append(pre(n), b) /\ (n + 1) - 1 = n
    BY <1>2, <2>1, SMTT(60)
  <2>3. Tracker!Chars(pre(n + 1)) = CharStep(cs, b)
    BY <2>1, <2>2, CharsOf, Zenon
  <2>4. n > 0 /\ text[n] >= 2 * h => b \in h..2 * h - 1
    BY <1>2, <2>1
  <2>. HIDE DEF pre
  <2>5. CASE b < h
    <3>1. ~Lead(n) /\ ~Lead(n + 1)
      BY <1>1, <2>1, <2>4, <2>5
    <3>2. cs \in Seq(Nat) /\ Tracker!ToText(cs) = pre(n)
      BY <2>1, <3>1
    <3>. HIDE DEF cs, Lead, b
    <3>3. CharStep(cs, b) = Append(cs, b) /\ Tracker!Utf8(b) = <<b>>
      BY <1>1, <2>1, <2>5 DEF CharStep, Tracker!Utf8, h
    <3>4. Append(cs, b) \in Seq(Nat)
      BY <2>1, <3>2
    <3>5. Tracker!ToText(Append(cs, b)) = pre(n) \o <<b>>
      BY <2>1, <3>2, <3>3, TextOf, Zenon
    <3>6. pre(n) \o <<b>> = Append(pre(n), b)
      BY <2>1, <2>2
    <3>. QED BY <2>2, <2>3, <3>1, <3>3, <3>4, <3>5, <3>6, Zenon
  <2>6. CASE b >= 2 * h
    <3>1. ~Lead(n) /\ Lead(n + 1)
      BY <1>1, <2>1, <2>4, <2>6
    <3>2. cs \in Seq(Nat) /\ Tracker!ToText(cs) = pre(n)
      BY <2>1, <3>1
    <3>. HIDE DEF cs, Lead
    <3>3. ~(b < h)
      BY <1>1, <2>1, <2>6
    <3>4. CharStep(cs, b) = Append(cs, b - 2 * h)
      BY <2>6, <3>3 DEF CharStep, h
    <3>. QED BY <2>2, <2>3, <3>1, <3>2, <3>4
  <2>7. CASE ~(b < h) /\ ~(b >= 2 * h)
    <3>1. b \in h..2 * h - 1 /\ n + 1 > 1 /\ text[n] > 2 * h /\ Lead(n) /\ ~Lead(n + 1)
      <4>1. b \in h..2 * h - 1
        BY <1>1, <2>1, <2>7
      <4>2. n + 1 > 1 /\ text[(n + 1) - 1] >= 2 * h
        BY <1>2, <2>1, <4>1
      <4>3. n \in 1..Len(text) /\ text[n] >= 2 * h
        BY <2>1, <2>2, <4>2
      <4>4. text[n] > 2 * h
        BY <1>2, <4>3
      <4>. QED BY <1>1, <2>7, <4>1, <4>2, <4>3, <4>4
    <3>2. n \in 1..Len(text) /\ text[n] \in Nat
      BY <1>2, <2>1, <3>1, SMTT(60)
    <3>3. PICK ds \in Seq(Nat) : /\ Tracker!ToText(ds) = pre(n - 1)
                                 /\ cs = Append(ds, text[n] - 2 * h)
      BY <2>1, <3>1
    <3>. DEFINE q == text[n] - 2 * h
                r == b - h
                c == q * h + r
    <3>4. q \in Nat \ {0} /\ r \in Nat /\ r < h
      BY <1>1, <2>1, <3>1, <3>2, SMTT(60)
    <3>5. text[n] = 2 * h + q /\ b = h + r
      BY <1>1, <2>1, <3>2, SMTT(60)
    <3>. HIDE DEF q, r, Lead, cs
    <3>6. c \in Nat /\ c >= h /\ c \div h = q /\ c % h = r
      BY <1>1, <3>4, DivOfSum, Zenon
    <3>7. CharStep(cs, b) = Append(ds, c)
      <4>1. cs = Append(ds, q)
        BY <3>3 DEF q
      <4>2. Front(cs) = ds /\ Last(cs) = q
        BY <3>4, <4>1 DEF Front, Last
      <4>3. CharStep(cs, b) = Append(Front(cs), Last(cs) * h + (b - h))
        BY <2>7 DEF CharStep, h
      <4>. QED BY <4>2, <4>3 DEF r
    <3>8. Tracker!Utf8(c) = <<2 * h + q, h + r>>
      <4>. HIDE DEF c
      <4>1. ~(c < h)
        BY <1>1, <3>6
      <4>. QED BY <3>6, <4>1 DEF Tracker!Utf8, h
    <3>. HIDE DEF c
    <3>9. Append(ds, c) \in Seq(Nat)
      BY <3>6
    <3>10. Tracker!ToText(Append(ds, c)) = pre(n - 1) \o <<text[n], b>>
      BY <3>3, <3>5, <3>6, <3>8, TextOf, Zenon
    <3>11. pre(n - 1) \o <<text[n], b>> = pre(n + 1)
      <4>1. pre(n - 1) \in Seq(Nat) /\ pre(n) = Append(pre(n - 1), text[n])
        BY <1>2, <3>2, SMTT(60) DEF pre
      <4>2. pre(n - 1) \o <<text[n], b>> = Append(Append(pre(n - 1), text[n]), b)
        BY <2>1, <3>2, <4>1, AppendTwice, SMTT(60)
      <4>. QED BY <2>2, <4>1, <4>2, Zenon
    <3>. QED BY <2>3, <3>1, <3>7, <3>9, <3>10, <3>11, Zenon
  <2>. QED BY <2>5, <2>6, <2>7
<1>. HIDE DEF T
<1>6. Len(text) \in Nat /\ Len(text) \in T
  <2>1. \A k \in Nat : k \in T
    BY <1>4, <1>5, SetInduction
  <2>. QED BY <1>2, <2>1
<1>7. Ok(Len(text))
  BY <1>6 DEF T
<1>8. ~Lead(Len(text))
  BY <1>2, <1>6
<1>9. pre(Len(text)) = text
  BY <1>2
<1>. HIDE DEF Lead, pre
<1>. QED BY <1>7, <1>8, <1>9

\* What Pass hands over of what a client sent.
PassedSignal(t, peer, offer) ==
  /\ t.peer_id = {Tracker!ToText(peer)} /\ t.offer_id = {Tracker!ToText(offer)}
  /\ t.interval = {} /\ t.complete = {} /\ t.incomplete = {}

Passed(by, t) ==
  \/ /\ by \in Answers /\ PassedSignal(t, by.peer_id, by.offer_id)
     /\ t.offer = {} /\ t.answer = {Tracker!Sdp("answer", by.sdp)}
  \/ /\ by \in Announces /\ t.answer = {}
     /\ \E k \in DOMAIN by.offers :
          /\ PassedSignal(t, by.peer_id, by.offers[k].offer_id)
          /\ t.offer = {Tracker!Sdp("offer", by.offers[k].sdp)}
  \/ /\ by \in Announces /\ t.offer = {} /\ t.answer = {} /\ t.interval # {}
     /\ by.left = {} => t.complete = {0}

\* What a client sent is on its way as it was written, what the other one has
\* is a text of the tracker's or what it passed on, and what was heard is what
\* was read in it.
TrackerInv ==
  /\ \/ sent = [by |-> Tracker!None, text |-> Tracker!None]
     \/ \E p \in Announces : sent = [by |-> p, text |-> Tracker!AnnounceWire(p)]
     \/ \E a \in Answers : sent = [by |-> a, text |-> Tracker!AnswerWire(a)]
  /\ received # {} =>
       \E t : /\ received = {t}
              /\ IF sent.by = Tracker!None THEN t \in Texts ELSE Passed(sent.by, t)
  /\ event = {} \/ \E t \in received : event = Tracker!ParseEvent(t)

\* The signal of what was passed on has the ids that were said.
LEMMA SignalOfPassed ==
  ASSUME NEW t, NEW peer \in Id20, NEW offer \in Id20, PassedSignal(t, peer, offer), NEW kind, NEW sdp
  PROVE  Tracker!Signal(kind, t, sdp) =
           {[kind |-> kind, peer_id |-> peer, offer_id |-> offer, sdp |-> sdp.sdp]}
<1>1. UNION {Tracker!DecodeBinary(id) : id \in t.peer_id} = {peer}
  BY IdIsDecoded DEF PassedSignal
<1>2. UNION {Tracker!DecodeBinary(id) : id \in t.offer_id} = {offer}
  BY IdIsDecoded DEF PassedSignal
<1>. QED BY <1>1, <1>2 DEF Tracker!Signal

\* The ids a client says are arrays of 20 bytes.
LEMMA IdsAreBytes ==
  /\ \A p \in Announces :
       p.kind = "announce" /\ p.peer_id \in Id20 /\ \A k \in DOMAIN p.offers : p.offers[k].offer_id \in Id20
  /\ \A a \in Answers : a.kind = "answer" /\ a.peer_id \in Id20 /\ a.offer_id \in Id20
<1>1. \A p \in Announces :
        p.kind = "announce" /\ p.peer_id \in Id20 /\ \A k \in DOMAIN p.offers : p.offers[k].offer_id \in Id20
  BY SignalAssumption, Zenon DEF Id20, ByteValue
<1>2. \A a \in Answers : a.kind = "answer" /\ {a.peer_id, a.offer_id} \subseteq Id20
  BY SignalAssumption, Zenon DEF Id20, ByteValue
<1>. QED BY <1>1, <1>2

\* What was passed on is heard as it was meant.
LEMMA PassedIsHeard ==
  ASSUME NEW by, NEW t, Passed(by, t)
  PROVE  /\ t.interval = {} => Tracker!ParseEvent(t) # {} /\ Tracker!ParseEvent(t) \subseteq Tracker!Told(by)
         /\ by.kind = "announce" /\ by.left = {} => t.complete \in {{}, {0}}
<1>1. CASE /\ by \in Answers /\ PassedSignal(t, by.peer_id, by.offer_id)
           /\ t.offer = {} /\ t.answer = {Tracker!Sdp("answer", by.sdp)}
  <2>1. by.kind = "answer" /\ by.peer_id \in Id20 /\ by.offer_id \in Id20
    BY <1>1, IdsAreBytes
  <2>2. Tracker!ParseEvent(t) = Tracker!Signal("PeerAnswer", t, Tracker!Sdp("answer", by.sdp))
    BY <1>1 DEF Tracker!ParseEvent
  <2>3. Tracker!Sdp("answer", by.sdp).sdp = by.sdp
    BY DEF Tracker!Sdp
  <2>4. Tracker!ParseEvent(t) =
          {[kind |-> "PeerAnswer", peer_id |-> by.peer_id, offer_id |-> by.offer_id, sdp |-> by.sdp]}
    BY <1>1, <2>1, <2>2, <2>3, SignalOfPassed
  <2>5. Tracker!ParseEvent(t) = Tracker!Told(by)
    BY <2>1, <2>4 DEF Tracker!Told
  <2>6. "answer" # "announce"
    OBVIOUS
  <2>. QED BY <2>1, <2>4, <2>5, <2>6
<1>2. CASE /\ by \in Announces /\ t.answer = {}
           /\ \E k \in DOMAIN by.offers :
                /\ PassedSignal(t, by.peer_id, by.offers[k].offer_id)
                /\ t.offer = {Tracker!Sdp("offer", by.offers[k].sdp)}
  <2>1. PICK k \in DOMAIN by.offers :
          /\ PassedSignal(t, by.peer_id, by.offers[k].offer_id)
          /\ t.offer = {Tracker!Sdp("offer", by.offers[k].sdp)}
    BY <1>2
  <2>2. by.kind = "announce" /\ by.peer_id \in Id20 /\ by.offers[k].offer_id \in Id20
    BY <1>2, IdsAreBytes
  <2>3. Tracker!ParseEvent(t) = Tracker!Signal("PeerOffer", t, Tracker!Sdp("offer", by.offers[k].sdp))
    BY <2>1 DEF Tracker!ParseEvent
  <2>4. Tracker!Sdp("offer", by.offers[k].sdp).sdp = by.offers[k].sdp
    BY DEF Tracker!Sdp
  <2>5. Tracker!ParseEvent(t) =
          {[kind |-> "PeerOffer", peer_id |-> by.peer_id, offer_id |-> by.offers[k].offer_id,
            sdp |-> by.offers[k].sdp]}
    BY <2>1, <2>2, <2>3, <2>4, SignalOfPassed
  <2>6. by.offers[k] \in Tracker!ToSet(by.offers) /\ by.kind # "answer"
    BY <2>2 DEF Tracker!ToSet
  <2>7. Tracker!ParseEvent(t) \subseteq Tracker!Told(by)
    BY <2>5, <2>6 DEF Tracker!Told
  <2>. QED BY <2>1, <2>5, <2>7 DEF PassedSignal
<1>3. CASE /\ by \in Announces /\ t.offer = {} /\ t.answer = {} /\ t.interval # {}
           /\ by.left = {} => t.complete = {0}
  BY <1>3
<1>. QED BY <1>1, <1>2, <1>3 DEF Passed

\* The ids of a signal are what was said, in whatever text.
LEMMA IdsAreSaid ==
  ASSUME NEW ids, \A x, y \in ids : x = y, \A id \in ids : Tracker!IsUtf8(id),
         NEW b \in UNION {Tracker!DecodeBinary(id) : id \in ids}
  PROVE  {Tracker!ToText(b)} = ids
<1>1. PICK id \in ids : b \in Tracker!DecodeBinary(id)
  OBVIOUS
<1>2. b = Tracker!Chars(id)
  BY <1>1 DEF Tracker!DecodeBinary
<1>3. Tracker!ToText(b) = id
  BY <1>2, TextOfChars
<1>. QED BY <1>3

\* The ids of an event are those of the text it was read in.
LEMMA EventHasItsIds ==
  ASSUME NEW t, \/ t \in Texts
                \/ \E by : Passed(by, t),
         NEW e \in Tracker!ParseEvent(t)
  PROVE  IF e.kind = "Stats" THEN t.offer \cup t.answer = {}
         ELSE {Tracker!ToText(e.peer_id)} = t.peer_id /\ {Tracker!ToText(e.offer_id)} = t.offer_id
<1>1. CASE t.offer = {} /\ t.answer = {}
  BY <1>1 DEF Tracker!ParseEvent
<1>2. CASE ~(t.offer = {} /\ t.answer = {})
  <2>1. PICK kind, sdp : kind \in {"PeerOffer", "PeerAnswer"} /\ e \in Tracker!Signal(kind, t, sdp)
    BY <1>2 DEF Tracker!ParseEvent
  <2>2. /\ e.kind = kind /\ e.peer_id \in UNION {Tracker!DecodeBinary(id) : id \in t.peer_id}
        /\ e.offer_id \in UNION {Tracker!DecodeBinary(id) : id \in t.offer_id}
    BY <2>1 DEF Tracker!Signal
  <2>3. e.kind # "Stats"
    BY <2>1, <2>2
  <2>4. CASE t \in Texts
    <3>1. /\ \A id \in t.peer_id \cup t.offer_id : Tracker!IsUtf8(id)
          /\ \A x, y \in t.peer_id : x = y
          /\ \A x, y \in t.offer_id : x = y
      BY <2>4, SignalAssumption, Zenon
    <3>. QED BY <2>2, <2>3, <3>1, IdsAreSaid
  <2>5. CASE \E by : Passed(by, t)
    <3>1. PICK peer \in Id20, offer \in Id20 : PassedSignal(t, peer, offer)
      BY <1>2, <2>5, IdsAreBytes DEF Passed
    <3>2. e.peer_id = peer /\ e.offer_id = offer
      BY <2>2, <3>1, IdIsDecoded DEF PassedSignal
    <3>. QED BY <2>3, <3>1, <3>2 DEF PassedSignal
  <2>. QED BY <2>4, <2>5
<1>. QED BY <1>1, <1>2

\* What was heard is what was said.
LEMMA HeardFromInv == TrackerInv => Tracker!SignalIsHeard
<1>. SUFFICES ASSUME TrackerInv, NEW t \in received
              PROVE  /\ sent.by # Tracker!None /\ t.interval = {} =>
                          Tracker!ParseEvent(t) # {} /\ Tracker!ParseEvent(t) \subseteq Tracker!Told(sent.by)
                     /\ sent.by # Tracker!None /\ sent.by.kind = "announce" /\ sent.by.left = {} =>
                          t.complete \in {{}, {0}}
                     /\ \A e \in event :
                          IF e.kind = "Stats" THEN t.offer \cup t.answer = {}
                          ELSE {Tracker!ToText(e.peer_id)} = t.peer_id /\ {Tracker!ToText(e.offer_id)} = t.offer_id
  BY DEF Tracker!SignalIsHeard
<1>1. received = {t} /\ IF sent.by = Tracker!None THEN t \in Texts ELSE Passed(sent.by, t)
  BY DEF TrackerInv
<1>2. \A e \in event : e \in Tracker!ParseEvent(t)
  BY <1>1 DEF TrackerInv
<1>. QED BY <1>1, <1>2, PassedIsHeard, EventHasItsIds

\* Every step keeps it.
LEMMA TrackerStep == TrackerInv /\ [Tracker!Next]_trackerVars => TrackerInv'
<1>. SUFFICES ASSUME TrackerInv, [Tracker!Next]_trackerVars PROVE TrackerInv'
  OBVIOUS
<1>1. CASE Tracker!Announce
  BY <1>1 DEF TrackerInv, Tracker!Announce
<1>2. CASE Tracker!SendAnswer
  BY <1>2 DEF TrackerInv, Tracker!SendAnswer
<1>3. CASE Tracker!Pass
  <2>1. /\ sent' = sent /\ event' = event /\ received = {} /\ sent.by # Tracker!None /\ event = {}
    BY <1>3, Zenon DEF TrackerInv, Tracker!Pass
  <2>2. \E t : received' = {t} /\ Passed(sent.by, t)
    <3>1. CASE \E a \in Answers : sent = [by |-> a, text |-> Tracker!AnswerWire(a)]
      <4>1. PICK a \in Answers : sent.by = a /\ sent.text = Tracker!AnswerWire(a)
        BY <3>1
      <4>2. a.kind = "answer"
        BY IdsAreBytes
      <4>. DEFINE t == [Tracker!Nothing EXCEPT !.peer_id = {Tracker!ToText(a.peer_id)},
                          !.offer_id = {Tracker!ToText(a.offer_id)}, !.answer = {Tracker!Sdp("answer", a.sdp)}]
      <4>3. received' = {t}
        BY <1>3, <4>1, <4>2 DEF Tracker!Pass, Tracker!AnswerWire
      <4>4. Passed(a, t)
        BY DEF Passed, PassedSignal, Tracker!Nothing
      <4>. QED BY <4>1, <4>3, <4>4
    <3>2. CASE \E p \in Announces : sent = [by |-> p, text |-> Tracker!AnnounceWire(p)]
      <4>1. PICK p \in Announces : sent.by = p /\ sent.text = Tracker!AnnounceWire(p)
        BY <3>2
      <4>2. p.kind # "answer"
        BY IdsAreBytes
      <4>3. CASE \E k \in DOMAIN sent.text.offers :
                   received' = {[Tracker!Nothing EXCEPT !.peer_id = {sent.text.peer_id},
                                   !.offer_id = {sent.text.offers[k].offer_id},
                                   !.offer = {sent.text.offers[k].offer}]}
        <5>1. DOMAIN sent.text.offers = DOMAIN p.offers /\ sent.text.peer_id = Tracker!ToText(p.peer_id)
          BY <4>1 DEF Tracker!AnnounceWire
        <5>2. PICK k \in DOMAIN p.offers :
                received' = {[Tracker!Nothing EXCEPT !.peer_id = {sent.text.peer_id},
                                !.offer_id = {sent.text.offers[k].offer_id},
                                !.offer = {sent.text.offers[k].offer}]}
          BY <4>3, <5>1, Zenon
        <5>3. /\ sent.text.offers[k].offer_id = Tracker!ToText(p.offers[k].offer_id)
              /\ sent.text.offers[k].offer = Tracker!Sdp("offer", p.offers[k].sdp)
          BY <4>1 DEF Tracker!AnnounceWire
        <5>. DEFINE t == [Tracker!Nothing EXCEPT !.peer_id = {Tracker!ToText(p.peer_id)},
                            !.offer_id = {Tracker!ToText(p.offers[k].offer_id)},
                            !.offer = {Tracker!Sdp("offer", p.offers[k].sdp)}]
        <5>4. received' = {t}
          BY <5>1, <5>2, <5>3
        <5>5. Passed(p, t)
          BY DEF Passed, PassedSignal, Tracker!Nothing
        <5>. QED BY <4>1, <5>4, <5>5
      <4>4. CASE received' = {[Tracker!Nothing EXCEPT !.interval = {1},
                                 !.complete = IF sent.text.left = {0} THEN {1} ELSE {0},
                                 !.incomplete = IF sent.text.left = {0} THEN {0} ELSE {1}]}
        <5>. DEFINE t == [Tracker!Nothing EXCEPT !.interval = {1},
                            !.complete = IF sent.text.left = {0} THEN {1} ELSE {0},
                            !.incomplete = IF sent.text.left = {0} THEN {0} ELSE {1}]
        <5>1. sent.text.left = p.left
          BY <4>1 DEF Tracker!AnnounceWire
        <5>2. Passed(p, t)
          BY <5>1, Zenon DEF Passed, Tracker!Nothing
        <5>. QED BY <4>1, <4>4, <5>2, Zenon
      <4>. QED BY <1>3, <4>1, <4>2, <4>3, <4>4, Zenon DEF Tracker!Pass
    <3>3. sent # [by |-> Tracker!None, text |-> Tracker!None]
      BY <2>1
    <3>. QED BY <3>1, <3>2, <3>3 DEF TrackerInv
  <2>. QED BY <2>1, <2>2 DEF TrackerInv
<1>4. CASE Tracker!Hear
  BY <1>4 DEF TrackerInv, Tracker!Hear
<1>5. CASE UNCHANGED trackerVars
  BY <1>5 DEF TrackerInv, trackerVars
<1>. QED BY <1>1, <1>2, <1>3, <1>4, <1>5 DEF Tracker!Next

\* An offer or an answer a tracker passes on is heard by the other client with
\* the ids and the SDP its sender gave, and the ids of every event are those of
\* its text (tracker.rs, parse_event and the messages it reads).
THEOREM SignalsAreHeard == InputSpec => []SignalIsHeard
<1> DEFINE I == reader = "tracker" => TrackerInv
<1>1. InputInit => I
  <2>. SUFFICES ASSUME Tracker!Init PROVE TrackerInv
    BY DEF InputInit
  <2>1. sent = [by |-> Tracker!None, text |-> Tracker!None] /\ event = {}
        /\ (received = {} \/ \E t \in Texts : received = {t})
    BY DEF Tracker!Init
  <2>. QED BY <2>1 DEF TrackerInv
<1>2. I /\ [InputNext]_inputVars => I'
  <2>. SUFFICES ASSUME reader = "tracker", TrackerInv, [InputNext]_inputVars PROVE TrackerInv'
    BY DEF InputNext, inputVars
  <2>1. [Tracker!Next]_trackerVars
    BY DEF InputNext, inputVars, ReadBuffer, ReadLink, ReadPeer, ReadTracker, ReadPaths, ReadPrefs
  <2>. QED BY <2>1, TrackerStep
<1>3. I => SignalIsHeard
  BY HeardFromInv DEF SignalIsHeard
<1>. QED BY <1>1, <1>2, <1>3, PTL DEF InputSpec

(***************************************************************************)
(* Paths.                                                                  *)
(***************************************************************************)

Letters == INSTANCE FoldFacts WITH Op <- Paths!Read
Steps == INSTANCE FoldFacts WITH Op <- Paths!Join

\* What its induction is on.
LEMMA StepsWellOrdered == Steps!WellOrdered
BY NatsAreWellOrdered DEF Steps!WellOrdered

\* The same.
LEMMA LettersWellOrdered == Letters!WellOrdered
BY NatsAreWellOrdered DEF Letters!WellOrdered

\* Reading the characters of a component is a fold.
LEMMA ReadAll ==
  ASSUME NEW at, NEW c
  PROVE  Paths!FoldLeft(Paths!Read, at, c) = Letters!Folded(at, c)
BY DEF Paths!FoldLeft, Paths!MapThenFoldSet, Paths!Max, Letters!Folded,
       Letters!MapThenFoldSet, Letters!Largest

\* Joining components is a fold.
LEMMA JoinAll ==
  ASSUME NEW at, NEW path
  PROVE  Paths!FoldLeft(Paths!Join, at, path) = Steps!Folded(at, path)
BY DEF Paths!FoldLeft, Paths!MapThenFoldSet, Paths!Max, Steps!Folded,
       Steps!MapThenFoldSet, Steps!Largest

\* Where a path leads.
Place(folder, last, above) == [folder |-> folder, name |-> last, above |-> above]

\* Whether a path has left the folder.
Under == FALSE
Above == TRUE

\* A place is determined by its fields.
LEMMA IsPlace ==
  ASSUME NEW r, NEW f, NEW n, NEW a,
         r = [k \in {"folder", "name", "above"} |-> r[k]],
         r.folder = f, r.name = n, r.above = a
  PROVE  r = Place(f, n, a)
<1>1. Place(f, n, a) = [k \in {"folder", "name", "above"} |-> Place(f, n, a)[k]]
  BY DEF Place
<1>2. Place(f, n, a).folder = f /\ Place(f, n, a).name = n /\ Place(f, n, a).above = a
  BY DEF Place
<1>3. ASSUME NEW k \in {"folder", "name", "above"} PROVE r[k] = Place(f, n, a)[k]
  <2>1. CASE k = "folder"  BY <1>2, <2>1
  <2>2. CASE k = "name"  BY <1>2, <2>2
  <2>3. CASE k = "above"  BY <1>2, <2>3
  <2>. QED BY <2>1, <2>2, <2>3
<1>. QED BY <1>1, <1>3, Zenon

\* The folder of a place.
LEMMA PlaceFolder ==
  ASSUME NEW f, NEW n, NEW a
  PROVE  Place(f, n, a).folder = f
BY DEF Place

\* What the end of a component does, by the name that was read.
LEMMA FinishOf ==
  ASSUME NEW f, NEW n, NEW a
  PROVE  /\ n \in {<<>>, <<".">>} => Paths!Finish(Place(f, n, a)) = Place(f, <<>>, a)
         /\ n = <<".", ".">> =>
              \E b : Paths!Finish(Place(f, n, a)) =
                       Place(IF f = <<>> THEN f ELSE SubSeq(f, 1, Len(f) - 1), <<>>, b)
         /\ n \notin {<<>>, <<".">>, <<".", ".">>} =>
              Paths!Finish(Place(f, n, a)) = Place(Append(f, n), <<>>, a)
<1>1. Place(f, n, a).folder = f /\ Place(f, n, a).name = n
  BY DEF Place
<1>2. <<>> # <<".", ".">> /\ <<".">> # <<".", ".">>
  <2>1. Len(<<>>) = 0 /\ Len(<<".">>) = 1 /\ Len(<<".", ".">>) = 2
    OBVIOUS
  <2>. QED BY <2>1
<1>. DEFINE at == Place(f, n, a)
            r == Paths!Finish(at)
            Fields == {"folder", "name", "above"}
<1>3. at = [k \in Fields |-> at[k]] /\ at.above = a
  BY DEF Place
<1>. HIDE DEF at
<1>4. ASSUME n \in {<<>>, <<".">>} PROVE r = Place(f, <<>>, a)
  <2>1. n # <<".", ".">>
    BY <1>2, <1>4
  <2>2. r = [at EXCEPT !.name = <<>>]
    BY <1>1, <1>4, <2>1 DEF Paths!Finish, at
  <2>3. r = [k \in Fields |-> r[k]] /\ r.folder = f /\ r.name = <<>> /\ r.above = a
    BY <1>1, <1>3, <2>2 DEF at
  <2>. HIDE DEF r
  <2>. QED BY <2>3, IsPlace
<1>5. ASSUME n = <<".", ".">>
      PROVE  \E b : r = Place(IF f = <<>> THEN f ELSE SubSeq(f, 1, Len(f) - 1), <<>>, b)
  <2>. DEFINE g == IF f = <<>> THEN f ELSE SubSeq(f, 1, Len(f) - 1)
  <2>1. n \notin {<<>>, <<".">>}
    BY <1>2, <1>5
  <2>2. PICK b : r = [at EXCEPT !.name = <<>>, !.above = b, !.folder = g]
    <3>1. r = [at EXCEPT !.name = <<>>, !.above = @ \/ at.folder \in {<<>>, BaseDir},
                         !.folder = IF @ = <<>> THEN @ ELSE Paths!Front(@)]
      BY <1>1, <1>5, <2>1 DEF Paths!Finish, at
    <3>. QED BY <1>1, <3>1, Zenon DEF Paths!Front, at
  <2>3. r = [k \in Fields |-> r[k]] /\ r.folder = g /\ r.name = <<>> /\ r.above = b
    BY <1>3, <2>2, Zenon
  <2>. HIDE DEF r, g
  <2>4. r = Place(g, <<>>, b)
    BY <2>3, IsPlace
  <2>. QED BY <2>4 DEF g
<1>6. ASSUME n \notin {<<>>, <<".">>, <<".", ".">>} PROVE r = Place(Append(f, n), <<>>, a)
  <2>. DEFINE g == Append(f, n)
  <2>1. r = [at EXCEPT !.name = <<>>, !.folder = Append(@, at.name)]
    BY <1>1, <1>6 DEF Paths!Finish, at
  <2>2. r = [k \in Fields |-> r[k]] /\ r.folder = g /\ r.name = <<>> /\ r.above = a
    BY <1>1, <1>3, <2>1, Zenon DEF at
  <2>. HIDE DEF r, g
  <2>3. r = Place(g, <<>>, a)
    BY <2>2, IsPlace
  <2>. QED BY <2>3 DEF g
<1>. QED BY <1>4, <1>5, <1>6, Zenon DEF at

\* A component that is a name is one more folder.
LEMMA NameIsJoined ==
  ASSUME NEW folder, NEW c \in Components, Paths!IsSafe(c)
  PROVE  Paths!Join(Place(folder, <<>>, Under), c) = Place(Append(folder, c), <<>>, Under)
<1>. DEFINE S == ToSet(c)
            at == Place(folder, <<>>, Under)
            T == {s \in Seq(S) : Letters!Folded(at, s) = Place(folder, s, Under)}
<1>1. c \in Seq(S) /\ \A x \in S : x \notin Paths!Separator
  BY PathAssumption DEF Paths!IsSafe, Paths!ToSet, ToSet
<1>2. <<>> \in T
  <2>1. <<>> \in Seq(S)
    BY EmptySeq
  <2>. QED BY <2>1, Letters!FoldedEmpty
<1>3. ASSUME NEW s \in Seq(S), NEW x \in S, s \in T PROVE Append(s, x) \in T
  <2>1. Append(s, x) \in Seq(S)
    BY AppendProperties
  <2>2. Letters!Folded(at, Append(s, x)) = Paths!Read(Letters!Folded(at, s), x)
    BY Letters!FoldedAppend, LettersWellOrdered
  <2>3. Letters!Folded(at, s) = Place(folder, s, Under)
    BY <1>3
  <2>4. Paths!Read(Place(folder, s, Under), x) = Place(folder, Append(s, x), Under)
    BY <1>1, Zenon DEF Paths!Read, Place
  <2>. QED BY <2>1, <2>2, <2>3, <2>4
<1>. HIDE DEF T
<1>4. c \in T
  BY <1>1, <1>2, <1>3, AppendInduction
<1>5. Letters!Folded(at, c) = Place(folder, c, Under)
  BY <1>4 DEF T
<1>6. c \notin {<<>>, <<".">>, <<".", ".">>}
  BY DEF Paths!IsSafe
<1>7. c # <<>> /\ c[1] \notin Paths!Separator
  <2>1. 1 \in DOMAIN c
    BY <1>1, <1>6, EmptySeq, LenProperties
  <2>. QED BY <1>1, <1>6, <2>1, ElementOfSeq DEF ToSet
<1>8. Paths!Join(at, c) = Paths!Finish(Place(folder, c, Under))
  BY <1>5, <1>7, ReadAll DEF Paths!Join
<1>9. Paths!Finish(Place(folder, c, Under)) = Place(Append(folder, c), <<>>, Under)
  <2>. HIDE DEF Place
  <2>. QED BY <1>6, FinishOf
<1>. QED BY <1>8, <1>9

\* Names one after the other lead beneath the folder, each one further.
LEMMA NamesAreResolved ==
  ASSUME NEW path \in Seq({c \in Components : Paths!IsSafe(c)})
  PROVE  Paths!Resolve(path) = Place(BaseDir \o path, <<>>, Under)
<1>. DEFINE S == {c \in Components : Paths!IsSafe(c)}
            at == Place(BaseDir, <<>>, Under)
            T == {s \in Seq(S) : Steps!Folded(at, s) = Place(BaseDir \o s, <<>>, Under)}
            N == ToSet(BaseDir) \cup Components
<1>1. BaseDir \in Seq(N)
  BY PathAssumption, SeqMonotonic
<1>2. <<>> \in T
  <2>1. <<>> \in Seq(S) /\ BaseDir \o <<>> = BaseDir
    BY <1>1, EmptySeq, ConcatEmptySeq
  <2>. QED BY <2>1, Steps!FoldedEmpty
<1>3. ASSUME NEW s \in Seq(S), NEW c \in S, s \in T PROVE Append(s, c) \in T
  <2>1. Append(s, c) \in Seq(S) /\ s \in Seq(N) /\ c \in N
    BY AppendProperties, SeqMonotonic
  <2>2. Steps!Folded(at, Append(s, c)) = Paths!Join(Steps!Folded(at, s), c)
    BY Steps!FoldedAppend, StepsWellOrdered
  <2>3. Steps!Folded(at, s) = Place(BaseDir \o s, <<>>, Under)
    BY <1>3
  <2>4. Paths!Join(Place(BaseDir \o s, <<>>, Under), c) = Place(Append(BaseDir \o s, c), <<>>, Under)
    BY NameIsJoined
  <2>5. Append(BaseDir \o s, c) = BaseDir \o Append(s, c)
    BY <1>1, <2>1
  <2>. QED BY <2>1, <2>2, <2>3, <2>4, <2>5
<1>. HIDE DEF T
<1>4. path \in T
  BY <1>2, <1>3, AppendInduction
<1>. QED BY <1>4, JoinAll DEF T, Paths!Resolve, Place, Under

\* Where a component that holds a separator leads: whatever is beneath the
\* folder has a name without one.
Clean(at, S) ==
  /\ at.name \in Seq(S) /\ ToSet(at.name) \cap Paths!Separator = {}
  /\ at.folder \in Seq(ToSet(BaseDir) \cup Seq(S))
  /\ \A k \in DOMAIN at.folder : k > Len(BaseDir) => ToSet(at.folder[k]) \cap Paths!Separator = {}
  /\ at = Place(at.folder, at.name, at.above)

\* The end of a component keeps that.
LEMMA FinishIsClean ==
  ASSUME NEW S, NEW at, Clean(at, S)
  PROVE  Clean(Paths!Finish(at), S) /\ Paths!Finish(at).name = <<>>
<1>. DEFINE N == ToSet(BaseDir) \cup Seq(S)
            f == at.folder
            n == at.name
<1>1. /\ n \in Seq(S) /\ ToSet(n) \cap Paths!Separator = {} /\ f \in Seq(N)
      /\ \A k \in DOMAIN f : k > Len(BaseDir) => ToSet(f[k]) \cap Paths!Separator = {}
      /\ at = Place(f, n, at.above)
  BY DEF Clean
<1>2. <<>> \in Seq(S) /\ ToSet(<<>>) \cap Paths!Separator = {}
  BY EmptySeq DEF ToSet
<1>. HIDE DEF N, f, n
<1>3. CASE n \in {<<>>, <<".">>}
  <2>1. Paths!Finish(at) = Place(f, <<>>, at.above)
    BY <1>1, <1>3, FinishOf
  <2>. QED BY <1>1, <1>2, <2>1 DEF Clean, Place, N
<1>4. CASE n = <<".", ".">>
  <2>. DEFINE g == IF f = <<>> THEN f ELSE SubSeq(f, 1, Len(f) - 1)
  <2>1. PICK a : Paths!Finish(at) = Place(g, <<>>, a)
    BY <1>1, <1>4, FinishOf
  <2>3. g \in Seq(N) /\ \A k \in DOMAIN g : k \in DOMAIN f /\ g[k] = f[k]
    <3>1. CASE f = <<>>  BY <1>1, <3>1
    <3>2. CASE f # <<>>
      <4>1. g = SubSeq(f, 1, Len(f) - 1) /\ Len(f) \in Nat \ {0}
        BY <1>1, <3>2, EmptySeq
      <4>. QED BY <1>1, <4>1
    <3>. QED BY <3>1, <3>2
  <2>4. \A k \in DOMAIN g : k > Len(BaseDir) => ToSet(g[k]) \cap Paths!Separator = {}
    BY <1>1, <2>3
  <2>. HIDE DEF g
  <2>. QED BY <1>2, <2>1, <2>3, <2>4 DEF Clean, Place, N
<1>5. CASE n \notin {<<>>, <<".">>} /\ n # <<".", ".">>
  <2>. DEFINE g == Append(f, n)
  <2>1. Paths!Finish(at) = Place(g, <<>>, at.above)
    BY <1>1, <1>5, FinishOf
  <2>2. n \in N
    BY <1>1 DEF N
  <2>3. g \in Seq(N) /\ \A k \in DOMAIN g : (k \in DOMAIN f /\ g[k] = f[k]) \/ g[k] = n
    BY <1>1, <2>2
  <2>4. \A k \in DOMAIN g : k > Len(BaseDir) => ToSet(g[k]) \cap Paths!Separator = {}
    BY <1>1, <2>3
  <2>. HIDE DEF g
  <2>. QED BY <1>2, <2>1, <2>3, <2>4 DEF Clean, Place, N
<1>. QED BY <1>3, <1>4, <1>5

\* A character of a component keeps that.
LEMMA ReadIsClean ==
  ASSUME NEW S, NEW at, Clean(at, S), NEW x \in S
  PROVE  Clean(Paths!Read(at, x), S)
<1>1. CASE x \in Paths!Separator
  BY <1>1, FinishIsClean DEF Paths!Read
<1>2. CASE x \notin Paths!Separator
  <2>1. Paths!Read(at, x) = Place(at.folder, Append(at.name, x), at.above)
    BY <1>2, Zenon DEF Paths!Read, Clean, Place
  <2>2. Append(at.name, x) \in Seq(S) /\ ToSet(Append(at.name, x)) = ToSet(at.name) \cup {x}
    <3>1. at.name \in Seq(S)
      BY DEF Clean
    <3>. QED BY <3>1 DEF ToSet
  <2>. QED BY <1>2, <2>1, <2>2 DEF Clean, Place
<1>. QED BY <1>1, <1>2

\* A component that is not a name leads somewhere else than to its name.
LEMMA OtherIsElsewhere ==
  ASSUME NEW c \in Components, ~Paths!IsSafe(c)
  PROVE  Paths!Resolve(<<c>>).folder # Append(BaseDir, c)
<1>. DEFINE S == ToSet(c)
            N == ToSet(BaseDir) \cup Seq(S)
            at == Place(BaseDir, <<>>, Under)
            from == IF c # <<>> /\ c[1] \in Paths!Separator THEN Place(<<>>, <<>>, Above) ELSE at
            end == Letters!Folded(from, c)
            T == {s \in Seq(S) : Clean(Letters!Folded(from, s), S)}
<1>1. c \in Seq(S) /\ BaseDir \in Seq(N) /\ c \in N
  BY PathAssumption, SeqMonotonic
<1>2. Paths!Resolve(<<c>>) = Paths!Finish(end)
  <2>1. <<>> \in Seq(N) /\ <<c>> = Append(<<>>, c)
    BY EmptySeq
  <2>2. Steps!Folded(at, <<c>>) = Paths!Join(at, c)
    <3>1. Steps!Folded(at, <<>>) = at
      BY Steps!FoldedEmpty
    <3>2. PICK e \in N : e = c
      BY <1>1
    <3>3. PICK none \in Seq(N) : none = <<>>
      BY <2>1
    <3>4. PICK here : here = at
      OBVIOUS
    <3>5. Steps!Folded(here, Append(none, e)) = Paths!Join(Steps!Folded(here, none), e)
      BY Steps!FoldedAppend, StepsWellOrdered
    <3>. QED BY <2>1, <3>1, <3>2, <3>3, <3>4, <3>5, Zenon
  <2>3. Paths!Resolve(<<c>>) = Steps!Folded(at, <<c>>)
    BY JoinAll DEF Paths!Resolve, Place, Under
  <2>4. Paths!Join(at, c) = Paths!Finish(end)
    <3>1. [at EXCEPT !.folder = <<>>, !.above = Above] = Place(<<>>, <<>>, Above)
      <4>. DEFINE r == [at EXCEPT !.folder = <<>>, !.above = Above]
      <4>1. /\ r = [k \in {"folder", "name", "above"} |-> r[k]]
            /\ r.folder = <<>> /\ r.name = <<>> /\ r.above = Above
        BY Zenon DEF Place
      <4>. HIDE DEF r
      <4>2. r = Place(<<>>, <<>>, Above)
        BY <4>1, IsPlace
      <4>. QED BY <4>2 DEF r
    <3>2. Paths!Join(at, c) = Paths!Finish(Paths!FoldLeft(Paths!Read, from, c))
      BY <3>1, Zenon DEF Paths!Join, Above
    <3>. QED BY <3>2, ReadAll
  <2>. QED BY <2>2, <2>3, <2>4
<1>3. Clean(from, S)
  <2>1. <<>> \in Seq(S) /\ <<>> \in Seq(N) /\ ToSet(<<>>) = {} /\ DOMAIN <<>> = {}
    BY EmptySeq DEF ToSet
  <2>2. DOMAIN BaseDir = 1..Len(BaseDir) /\ Len(BaseDir) \in Nat
    BY <1>1, LenProperties
  <2>3. Clean(Place(<<>>, <<>>, Above), S)
    BY <2>1 DEF Clean, Place
  <2>4. Clean(at, S)
    BY <1>1, <2>1, <2>2 DEF Clean, Place
  <2>. QED BY <2>3, <2>4
<1>. HIDE DEF from
<1>4. <<>> \in T
  <2>1. <<>> \in Seq(S) /\ Letters!Folded(from, <<>>) = from
    BY EmptySeq, Letters!FoldedEmpty
  <2>. QED BY <1>3, <2>1
<1>5. ASSUME NEW s \in Seq(S), NEW x \in S, s \in T PROVE Append(s, x) \in T
  <2>1. Append(s, x) \in Seq(S) /\ Letters!Folded(from, Append(s, x)) = Paths!Read(Letters!Folded(from, s), x)
    BY AppendProperties, Letters!FoldedAppend, LettersWellOrdered
  <2>. QED BY <1>5, <2>1, ReadIsClean
<1>. HIDE DEF T
<1>6. Clean(end, S)
  <2>1. c \in T
    BY <1>1, <1>4, <1>5, AppendInduction
  <2>. QED BY <2>1 DEF T
<1>. SUFFICES ASSUME Paths!Finish(end).folder = Append(BaseDir, c) PROVE FALSE
  BY <1>2
<1>7. Append(BaseDir, c)[Len(BaseDir) + 1] = c /\ Len(BaseDir) + 1 \in DOMAIN Append(BaseDir, c)
      /\ Len(Append(BaseDir, c)) = Len(BaseDir) + 1 /\ Len(BaseDir) \in Nat
  BY <1>1
<1>8. ToSet(c) \cap Paths!Separator = {}
  <2>1. Clean(Paths!Finish(end), S)
    BY <1>6, FinishIsClean
  <2>. HIDE DEF end
  <2>. QED BY <1>7, <2>1 DEF Clean
<1>9. c \in {<<>>, <<".">>, <<".", ".">>}
  BY <1>8 DEF Paths!IsSafe, Paths!ToSet, ToSet
<1>10. from = at
  <2>1. c # <<>> => c[1] \in S
    BY <1>9 DEF ToSet
  <2>. QED BY <1>8, <2>1 DEF from
<1>11. end = Place(BaseDir, c, Under)
  <2>1. \A x \in S : x \notin Paths!Separator
    BY <1>8
  <2>. DEFINE U == {s \in Seq(S) : Letters!Folded(at, s) = Place(BaseDir, s, Under)}
  <2>2. <<>> \in U
    BY EmptySeq, Letters!FoldedEmpty
  <2>3. ASSUME NEW s \in Seq(S), NEW x \in S, s \in U PROVE Append(s, x) \in U
    <3>1. Append(s, x) \in Seq(S)
      BY AppendProperties
    <3>2. Letters!Folded(at, Append(s, x)) = Paths!Read(Letters!Folded(at, s), x)
      BY Letters!FoldedAppend, LettersWellOrdered
    <3>3. Letters!Folded(at, s) = Place(BaseDir, s, Under)
      BY <2>3
    <3>4. Paths!Read(Place(BaseDir, s, Under), x) = Place(BaseDir, Append(s, x), Under)
      BY <2>1, Zenon DEF Paths!Read, Place
    <3>. QED BY <3>1, <3>2, <3>3, <3>4
  <2>. HIDE DEF U
  <2>4. c \in U
    BY <1>1, <2>2, <2>3, AppendInduction
  <2>. QED BY <1>10, <2>4 DEF U
<1>12. Len(Paths!Finish(end).folder) <= Len(BaseDir)
  <2>1. CASE c \in {<<>>, <<".">>}
    <3>1. Paths!Finish(end).folder = BaseDir
      <4>1. Paths!Finish(end) = Place(BaseDir, <<>>, Under)
        BY <1>11, <2>1, FinishOf
      <4>. QED BY <4>1 DEF Place
    <3>. HIDE DEF end
    <3>. QED BY <1>7, <3>1
  <2>2. CASE c = <<".", ".">>
    <3>1. PICK a : end = Place(BaseDir, c, Under) /\ Paths!Finish(end) =
                     Place(IF BaseDir = <<>> THEN BaseDir ELSE SubSeq(BaseDir, 1, Len(BaseDir) - 1), <<>>, a)
      BY <1>11, <2>2, FinishOf
    <3>. HIDE DEF end
    <3>2. Paths!Finish(end).folder = IF BaseDir = <<>> THEN BaseDir ELSE SubSeq(BaseDir, 1, Len(BaseDir) - 1)
      BY <3>1 DEF Place
    <3>3. Len(SubSeq(BaseDir, 1, Len(BaseDir) - 1)) <= Len(BaseDir)
      BY <1>1, <1>7
    <3>. QED BY <1>7, <3>2, <3>3
  <2>. QED BY <1>9, <2>1, <2>2
<1>. HIDE DEF end
<1>. QED BY <1>7, <1>12

\* The names parse accepts.
SafeNames == {c \in Components : Paths!IsSafe(c)}

\* The names and the files are sequences of components, the files that were
\* looked at are made of names, and parse answers for what it saw.
PathsInv ==
  /\ name \in Components /\ files \in Seq(Seq(Components))
  /\ checked \in 0..Len(files)
  /\ \A k \in 1..checked : files[k] # <<>> /\ files[k] \in Seq(SafeNames)
  /\ verdict = "parsed" => Paths!IsSafe(name) /\ checked = Len(files)
  /\ verdict = "UnsafePath" =>
       \/ ~Paths!IsSafe(name)
       \/ \E k \in DOMAIN files :
            files[k] = <<>> \/ \E m \in DOMAIN files[k] : ~Paths!IsSafe(files[k][m])

\* Where the files of an accepted torrent are.
LEMMA JoinedIsBeneath ==
  ASSUME PathsInv, verdict = "parsed"
  PROVE  \A path \in Paths!Joined :
           /\ path \in Seq(SafeNames) /\ path # <<>>
           /\ Paths!Resolve(path) = Place(BaseDir \o path, <<>>, Under)
<1>1. <<name>> \in Seq(SafeNames) /\ name \in SafeNames /\ <<name>> # <<>>
  BY DEF PathsInv, SafeNames
<1>2. ASSUME NEW p \in Paths!ToSet(files)
      PROVE  <<name>> \o p \in Seq(SafeNames) /\ <<name>> \o p # <<>>
  <2>1. p \in Seq(SafeNames)
    BY LenProperties DEF PathsInv, Paths!ToSet
  <2>. QED BY <1>1, <2>1
<1>3. \A path \in Paths!Joined : path \in Seq(SafeNames) /\ path # <<>>
  BY <1>1, <1>2, Zenon DEF Paths!Joined
<1>. QED BY <1>3, NamesAreResolved DEF SafeNames

\* What parse accepts stays inside, and what it refuses does not.
LEMMA StayFromInv == PathsInv => Paths!PathsStayInside
<1>. SUFFICES ASSUME PathsInv PROVE Paths!PathsStayInside
  OBVIOUS
<1>. DEFINE N == ToSet(BaseDir) \cup Components
<1>1. BaseDir \in Seq(N) /\ Len(BaseDir) \in Nat
  BY PathAssumption, SeqMonotonic
<1>2. ASSUME verdict = "parsed"
      PROVE  /\ \A path \in Paths!Joined : Paths!Beneath(Paths!Resolve(path))
             /\ \A p, q \in Paths!Joined : Paths!Resolve(p) = Paths!Resolve(q) => p = q
             /\ \A path \in Paths!ToSet(files) :
                  Len(Paths!Resolve(<<name>> \o path).folder) > Len(BaseDir) + 1
  <2>1. \A path \in Paths!Joined :
          /\ path \in Seq(N) /\ path # <<>>
          /\ Paths!Resolve(path) = Place(BaseDir \o path, <<>>, Under)
    BY <1>2, JoinedIsBeneath, SeqMonotonic, Zenon DEF SafeNames
  <2>. HIDE DEF N
  <2>2. ASSUME NEW path \in Paths!Joined PROVE Paths!Beneath(Paths!Resolve(path))
    <3>1. /\ Len(BaseDir \o path) = Len(BaseDir) + Len(path) /\ Len(path) \in Nat \ {0}
          /\ SubSeq(BaseDir \o path, 1, Len(BaseDir)) = SubSeq(BaseDir, 1, Len(BaseDir))
      BY <1>1, <2>1
    <3>2. Paths!Resolve(path).folder = BaseDir \o path /\ ~Paths!Resolve(path).above
      BY <2>1 DEF Place, Under
    <3>. QED BY <1>1, <3>1, <3>2 DEF Paths!Beneath, Paths!IsPrefix
  <2>3. ASSUME NEW p \in Paths!Joined, NEW q \in Paths!Joined, Paths!Resolve(p) = Paths!Resolve(q)
        PROVE  p = q
    <3>1. BaseDir \o p = BaseDir \o q
      <4>1. Paths!Resolve(p).folder = BaseDir \o p /\ Paths!Resolve(q).folder = BaseDir \o q
        BY <2>1, PlaceFolder, ZenonT(60)
      <4>. QED BY <2>3, <4>1
    <3>. QED BY <1>1, <2>1, <3>1, ConcatCancels, Zenon
  <2>4. ASSUME NEW path \in Paths!ToSet(files)
        PROVE  Len(Paths!Resolve(<<name>> \o path).folder) > Len(BaseDir) + 1
    <3>1. path \in Seq(SafeNames) /\ path # <<>>
      BY <1>2, LenProperties DEF PathsInv, Paths!ToSet
    <3>2. path \in Seq(N) /\ name \in N
      BY <3>1, SeqMonotonic DEF SafeNames, PathsInv, N
    <3>3. Len(BaseDir \o (<<name>> \o path)) = Len(BaseDir) + 1 + Len(path) /\ Len(path) \in Nat \ {0}
      BY <1>1, <3>1, <3>2
    <3>4. <<name>> \o path \in Paths!Joined
      BY DEF Paths!Joined
    <3>5. Paths!Resolve(<<name>> \o path).folder = BaseDir \o (<<name>> \o path)
      BY <2>1, <3>4, PlaceFolder, ZenonT(60)
    <3>. QED BY <1>1, <3>3, <3>5
  <2>. QED BY <2>2, <2>3, <2>4
<1>3. ASSUME verdict = "UnsafePath"
      PROVE  \/ <<>> \in Paths!ToSet(files)
             \/ \E path \in Paths!Joined, c \in Components :
                  c \in Paths!ToSet(path) /\ Paths!Resolve(<<c>>).folder # Append(BaseDir, c)
  <2>1. CASE ~Paths!IsSafe(name)
    <3>1. <<name>> \in Paths!Joined /\ name \in Paths!ToSet(<<name>>) /\ name \in Components
      BY DEF Paths!Joined, Paths!ToSet, PathsInv
    <3>. QED BY <2>1, <3>1, OtherIsElsewhere
  <2>2. CASE \E k \in DOMAIN files :
               files[k] = <<>> \/ \E m \in DOMAIN files[k] : ~Paths!IsSafe(files[k][m])
    <3>1. PICK k \in DOMAIN files :
            files[k] = <<>> \/ \E m \in DOMAIN files[k] : ~Paths!IsSafe(files[k][m])
      BY <2>2
    <3>2. files[k] \in Paths!ToSet(files)
      BY <3>1 DEF Paths!ToSet
    <3>3. ASSUME NEW m \in DOMAIN files[k], ~Paths!IsSafe(files[k][m])
          PROVE  \E path \in Paths!Joined, c \in Components :
                   c \in Paths!ToSet(path) /\ Paths!Resolve(<<c>>).folder # Append(BaseDir, c)
      <4>. DEFINE c == files[k][m]
                  path == <<name>> \o files[k]
      <4>1. files[k] \in Seq(Components) /\ name \in Components
        BY <3>1, LenProperties DEF PathsInv
      <4>2. c \in Components /\ m + 1 \in DOMAIN path /\ path[m + 1] = c
        BY <4>1
      <4>3. path \in Paths!Joined /\ c \in Paths!ToSet(path)
        BY <3>2, <4>2 DEF Paths!Joined, Paths!ToSet
      <4>. HIDE DEF c, path
      <4>4. ~Paths!IsSafe(c)
        BY <3>3 DEF c
      <4>. QED BY <4>2, <4>3, <4>4, OtherIsElsewhere
    <3>. QED BY <3>1, <3>2, <3>3, Zenon
  <2>. QED BY <1>3, <2>1, <2>2, Zenon DEF PathsInv
<1>. QED BY <1>2, <1>3, Zenon DEF Paths!PathsStayInside

\* At the start nothing has been looked at.
LEMMA PathsStart == Paths!Init => PathsInv
<1>. SUFFICES ASSUME Paths!Init PROVE PathsInv
  OBVIOUS
<1>1. Paths!Path \subseteq Seq(Components)
  BY PathAssumption DEF Paths!Path
<1>2. files \in UNION {[1..n -> Paths!Path] : n \in 0..MaxFiles}
  BY DEF Paths!Init
<1>3. files \in Seq(Paths!Path)
  <2>1. PICK n \in 0..MaxFiles : files \in [1..n -> Paths!Path]
    BY <1>2
  <2>2. n \in Nat
    BY PathAssumption
  <2>. QED BY <2>1, <2>2, SeqDef
<1>4. files \in Seq(Seq(Components))
  BY <1>1, <1>3, SeqMonotonic
<1>. QED BY <1>4, LenProperties DEF Paths!Init, PathsInv

\* Every step keeps it.
LEMMA PathsStep == PathsInv /\ [Paths!Next]_pathVars => PathsInv'
<1>. SUFFICES ASSUME PathsInv, [Paths!Next]_pathVars PROVE PathsInv'
  OBVIOUS
<1>1. DOMAIN files = 1..Len(files) /\ Len(files) \in Nat
  BY LenProperties DEF PathsInv
<1>2. CASE Paths!CheckName /\ name' = name /\ files' = files
  BY <1>2 DEF PathsInv, Paths!CheckName, Paths!Refuse
<1>3. CASE Paths!CheckFile /\ name' = name /\ files' = files
  <2>. DEFINE path == files[checked + 1]
  <2>1. checked + 1 \in DOMAIN files /\ path \in Seq(Components)
    <3>1. checked + 1 \in DOMAIN files
      BY <1>1, <1>3 DEF PathsInv, Paths!CheckFile
    <3>. QED BY <1>1, <3>1, ElementOfSeq, Zenon DEF PathsInv
  <2>2. CASE path = <<>> \/ \E c \in Paths!ToSet(path) : ~Paths!IsSafe(c)
    <3>1. verdict' = "UnsafePath" /\ checked' = checked
      BY <1>3, <2>2 DEF Paths!CheckFile, Paths!Refuse
    <3>2. files[checked + 1] = <<>> \/ \E m \in DOMAIN files[checked + 1] : ~Paths!IsSafe(files[checked + 1][m])
      BY <2>2 DEF Paths!ToSet
    <3>. HIDE DEF path
    <3>. QED BY <1>3, <2>1, <3>1, <3>2 DEF PathsInv
  <2>3. CASE ~(path = <<>> \/ \E c \in Paths!ToSet(path) : ~Paths!IsSafe(c))
    <3>1. verdict' = verdict /\ verdict = "reading" /\ checked' = checked + 1
      BY <1>3, <2>3 DEF Paths!CheckFile
    <3>2. path \in Seq(SafeNames)
      BY <2>1, <2>3 DEF Paths!ToSet, SafeNames
    <3>3. \A k \in 1..checked' : files[k] # <<>> /\ files[k] \in Seq(SafeNames)
      <4>1. \A k \in 1..checked' : k \in 1..checked \/ k = checked + 1
        BY <3>1 DEF PathsInv
      <4>. QED BY <2>3, <3>2, <4>1 DEF PathsInv
    <3>. HIDE DEF path
    <3>. QED BY <1>1, <1>3, <2>1, <3>1, <3>3 DEF PathsInv
  <2>. QED BY <2>2, <2>3
<1>4. CASE Paths!Accept /\ name' = name /\ files' = files
  BY <1>4 DEF PathsInv, Paths!Accept
<1>5. CASE UNCHANGED pathVars
  BY <1>5 DEF PathsInv, pathVars
<1>. QED BY <1>2, <1>3, <1>4, <1>5 DEF Paths!Next, Paths!Answered, Paths!vars, pathVars

\* Every file of a torrent whose info dict is accepted is beneath the download
\* folder, two paths at two places, and an info dict that is refused has a
\* component that would not have been a name (extension.rs, InfoDict::parse).
THEOREM NamesStayInside == InputSpec => []PathsStayInside
<1> DEFINE I == reader = "paths" => PathsInv
<1>1. InputInit => I
  BY PathsStart DEF InputInit
<1>2. I /\ [InputNext]_inputVars => I'
  <2>. SUFFICES ASSUME reader = "paths", PathsInv, [InputNext]_inputVars PROVE PathsInv'
    BY DEF InputNext, inputVars
  <2>1. [Paths!Next]_pathVars
    BY DEF InputNext, inputVars, ReadBuffer, ReadLink, ReadPeer, ReadTracker, ReadPaths, ReadPrefs
  <2>. QED BY <2>1, PathsStep
<1>3. I => PathsStayInside
  BY StayFromInv DEF PathsStayInside
<1>. QED BY <1>1, <1>2, <1>3, PTL DEF InputSpec

(***************************************************************************)
(* Powers of two.                                                          *)
(***************************************************************************)

\* The provers do not know what a power is.  The library does: it counts the
\* subsets of a set.
LEMMA PowerCounts ==
  ASSUME NEW a \in Nat, NEW n \in Nat
  PROVE  /\ IsFiniteSet(SUBSET (a + 1..a + n)) /\ Cardinality(SUBSET (a + 1..a + n)) = 2^n
<1>1. IsFiniteSet(a + 1..a + n) /\ Cardinality(a + 1..a + n) = n
  <2>1. a + 1 \in Int /\ a + n \in Int
    OBVIOUS
  <2>2. IsFiniteSet(a + 1..a + n) /\ Cardinality(a + 1..a + n) = IF a + 1 > a + n THEN 0 ELSE a + n - (a + 1) + 1
    BY <2>1, FS_Interval
  <2>. QED BY <2>2
<1>. QED BY <1>1, FS_SUBSET, Zenon

\* A power of two is a positive number.
LEMMA PowerIsNat ==
  ASSUME NEW n \in Nat
  PROVE  2^n \in Nat \ {0}
<1>. DEFINE S == SUBSET (0 + 1..0 + n)
<1>1. IsFiniteSet(S) /\ Cardinality(S) = 2^n
  BY PowerCounts
<1>2. S # {}
  BY Zenon
<1>. HIDE DEF S
<1>. QED BY <1>1, <1>2, FS_CardinalityType, FS_EmptySet

\* A subset of two parts is a subset of the first and one of the second.
LEMMA PowerOfSum ==
  ASSUME NEW a \in Nat, NEW b \in Nat
  PROVE  2^(a + b) = 2^a * 2^b
<1>. DEFINE A == 0 + 1..0 + a
            B == a + 1..a + b
            S == (SUBSET A) \X (SUBSET B)
            T == SUBSET (0 + 1..0 + (a + b))
            f == [p \in S |-> p[1] \cup p[2]]
<1>1. IsFiniteSet(S) /\ Cardinality(S) = 2^a * 2^b
  <2>1. IsFiniteSet(SUBSET A) /\ Cardinality(SUBSET A) = 2^a
    BY PowerCounts, Zenon
  <2>2. IsFiniteSet(SUBSET B) /\ Cardinality(SUBSET B) = 2^b
    BY PowerCounts, Zenon
  <2>. HIDE DEF A, B
  <2>. QED BY <2>1, <2>2, FS_Product, ZenonT(60)
<1>2. Cardinality(T) = 2^(a + b)
  <2>1. a + b \in Nat
    OBVIOUS
  <2>. QED BY <2>1, PowerCounts, Zenon
<1>3. A \cup B = 0 + 1..0 + (a + b) /\ A \cap B = {}
  OBVIOUS
<1>. HIDE DEF A, B
<1>4. f \in Bijection(S, T)
  <2>1. f \in [S -> T]
    <3>. SUFFICES ASSUME NEW p \in S PROVE p[1] \cup p[2] \in T
      OBVIOUS
    <3>. QED BY <1>3
  <2>2. ASSUME NEW p \in S, NEW q \in S, f[p] = f[q] PROVE p = q
    <3>1. p[1] \cup p[2] = q[1] \cup q[2]
      BY <2>2
    <3>2. p[1] = f[p] \cap A /\ q[1] = f[q] \cap A /\ p[2] = f[p] \cap B /\ q[2] = f[q] \cap B
      BY <1>3
    <3>3. p[1] = q[1] /\ p[2] = q[2]
      BY <2>2, <3>2
    <3>. QED BY <3>3
  <2>3. ASSUME NEW t \in T PROVE \E p \in S : f[p] = t
    <3>. DEFINE p == <<t \cap A, t \cap B>>
    <3>1. p \in S
      OBVIOUS
    <3>2. f[p] = (t \cap A) \cup (t \cap B)
      BY <3>1
    <3>3. t \subseteq A \cup B
      BY <1>3
    <3>4. (t \cap A) \cup (t \cap B) = t
      BY <3>3, Zenon
    <3>. QED BY <3>1, <3>2, <3>4, Zenon
  <2>. HIDE DEF f, S, T
  <2>. QED BY <2>1, <2>2, <2>3 DEF Bijection, Injection, Surjection, IsInjective
<1>. HIDE DEF S, T, f
<1>5. Cardinality(T) = Cardinality(S)
  BY <1>1, <1>4, FS_Bijection DEF ExistsBijection
<1>. QED BY <1>1, <1>2, <1>5

(***************************************************************************)
(* Digits.                                                                 *)
(***************************************************************************)

\* The number that digits write in each of the three bases.
NibbleDigit(n, d) == n * 2^NibbleBits + d
CharDigit(n, d) == n * 2^CharBits + d
ByteDigit(n, d) == n * 2^Link!ByteBits + d
Nibbles == INSTANCE FoldFacts WITH Op <- NibbleDigit
Chars == INSTANCE FoldFacts WITH Op <- CharDigit
Octets == INSTANCE FoldFacts WITH Op <- ByteDigit

\* What its induction is on.
LEMMA CharsWellOrdered == Chars!WellOrdered
BY NatsAreWellOrdered DEF Chars!WellOrdered

\* The same.
LEMMA OctetsWellOrdered == Octets!WellOrdered
BY NatsAreWellOrdered DEF Octets!WellOrdered

\* The same.
LEMMA NibblesWellOrdered == Nibbles!WellOrdered
BY NatsAreWellOrdered DEF Nibbles!WellOrdered

Widths == {NibbleBits, CharBits, Link!ByteBits}

\* What is assumed of the digits' widths.
LEMMA WidthsAreNat ==
  /\ Widths \subseteq Nat \ {0} /\ Link!ByteBits = NibbleBits + NibbleBits
  /\ NibbleBits \in Nat \ {0} /\ CharBits \in Nat \ {0} /\ HashLen \in Nat \ {0}
  /\ CharBits <= Link!ByteBits
BY InputAssumption DEF Widths, Link!ByteBits

\* ValueOf is a fold over the digits, in each of the three bases.
LEMMA ValueIsFold ==
  ASSUME NEW s
  PROVE  /\ Link!ValueOf(s, NibbleBits) = Nibbles!Folded(0, s)
         /\ Link!ValueOf(s, CharBits) = Chars!Folded(0, s)
         /\ Link!ValueOf(s, Link!ByteBits) = Octets!Folded(0, s)
<1>1. Link!ValueOf(s, NibbleBits) = Nibbles!Folded(0, s)
  BY DEF Link!ValueOf, Link!FoldLeft, Link!MapThenFoldSet, Link!Max, Nibbles!Folded,
         Nibbles!MapThenFoldSet, Nibbles!Largest, NibbleDigit
<1>2. Link!ValueOf(s, CharBits) = Chars!Folded(0, s)
  BY DEF Link!ValueOf, Link!FoldLeft, Link!MapThenFoldSet, Link!Max, Chars!Folded,
         Chars!MapThenFoldSet, Chars!Largest, CharDigit
<1>3. Link!ValueOf(s, Link!ByteBits) = Octets!Folded(0, s)
  BY DEF Link!ValueOf, Link!FoldLeft, Link!MapThenFoldSet, Link!Max, Octets!Folded,
         Octets!MapThenFoldSet, Octets!Largest, ByteDigit
<1>. QED BY <1>1, <1>2, <1>3

\* The number of no digits, and of one digit more.
LEMMA ValueAppend ==
  ASSUME NEW bits \in Widths, NEW s \in Seq(Nat), NEW d \in Nat
  PROVE  /\ Link!ValueOf(<<>>, bits) = 0
         /\ Link!ValueOf(Append(s, d), bits) = Link!ValueOf(s, bits) * 2^bits + d
<1>1. CASE bits = NibbleBits
  <2>1. /\ Nibbles!Folded(0, <<>>) = 0
        /\ Nibbles!Folded(0, Append(s, d)) = NibbleDigit(Nibbles!Folded(0, s), d)
    BY Nibbles!FoldedEmpty, Nibbles!FoldedAppend, NibblesWellOrdered
  <2>. QED BY <1>1, <2>1, ValueIsFold DEF NibbleDigit
<1>2. CASE bits = CharBits
  <2>1. /\ Chars!Folded(0, <<>>) = 0
        /\ Chars!Folded(0, Append(s, d)) = CharDigit(Chars!Folded(0, s), d)
    BY Chars!FoldedEmpty, Chars!FoldedAppend, CharsWellOrdered
  <2>. QED BY <1>2, <2>1, ValueIsFold DEF CharDigit
<1>3. CASE bits = Link!ByteBits
  <2>1. /\ Octets!Folded(0, <<>>) = 0
        /\ Octets!Folded(0, Append(s, d)) = ByteDigit(Octets!Folded(0, s), d)
    BY Octets!FoldedEmpty, Octets!FoldedAppend, OctetsWellOrdered
  <2>. QED BY <1>3, <2>1, ValueIsFold DEF ByteDigit
<1>. QED BY <1>1, <1>2, <1>3 DEF Widths

\* Digits write a number.
LEMMA ValueIsNat ==
  ASSUME NEW bits \in Widths, NEW s \in Seq(Nat)
  PROVE  Link!ValueOf(s, bits) \in Nat
<1>. DEFINE T == {u \in Seq(Nat) : Link!ValueOf(u, bits) \in Nat}
<1>1. 2^bits \in Nat
  BY WidthsAreNat, PowerIsNat
<1>2. <<>> \in T
  <2>1. <<>> \in Seq(Nat) /\ 0 \in Nat
    BY EmptySeq
  <2>. QED BY <2>1, ValueAppend
<1>3. ASSUME NEW u \in Seq(Nat), NEW d \in Nat, u \in T PROVE Append(u, d) \in T
  <2>1. Link!ValueOf(Append(u, d), bits) = Link!ValueOf(u, bits) * 2^bits + d
    BY ValueAppend
  <2>2. Link!ValueOf(u, bits) \in Nat
    BY <1>3
  <2>3. Append(u, d) \in Seq(Nat)
    BY AppendProperties
  <2>4. \A v, p \in Nat : v * p + d \in Nat
    OBVIOUS
  <2>5. Link!ValueOf(Append(u, d), bits) \in Nat
    BY <1>1, <2>1, <2>2, <2>4, Zenon
  <2>. QED BY <2>3, <2>5
<1>. HIDE DEF T
<1>4. s \in T
  BY <1>2, <1>3, AppendInduction
<1>. QED BY <1>4 DEF T

(***************************************************************************)
(* Hex.                                                                    *)
(***************************************************************************)

\* A digit, a byte and an info hash.
Nibble == 2^NibbleBits
Octet == 2^Link!ByteBits
Hash == [1..HashLen -> 0..Octet - 1]

\* A byte has two digits.
LEMMA OctetIs ==
  Nibble \in Nat \ {0} /\ Octet = Nibble * Nibble /\ Octet \in Nat \ {0}
<1>1. Nibble \in Nat \ {0}
  BY WidthsAreNat, PowerIsNat DEF Nibble
<1>2. Octet = Nibble * Nibble
  BY WidthsAreNat, PowerOfSum DEF Nibble, Octet
<1>. QED BY <1>1, <1>2

\* Two digits make a byte, and a byte two digits.
LEMMA TwoDigits ==
  ASSUME NEW n \in Nat \ {0}, NEW x \in Nat, NEW y \in Nat, x < n, y < n
  PROVE  x * n + y \in 0..n * n - 1
<1>1. x * n <= (n - 1) * n
  <2>1. \A u, v \in Nat : u <= v => u * n <= v * n
    OBVIOUS
  <2>2. n - 1 \in Nat /\ x <= n - 1
    OBVIOUS
  <2>. QED BY <2>1, <2>2
<1>2. (n - 1) * n = n * n - n
  OBVIOUS
<1>. DEFINE a == x * n
            b == n * n
            c == (n - 1) * n
<1>3. a \in Nat /\ b \in Nat /\ c \in Int
  OBVIOUS
<1>4. a <= c /\ c = b - n
  BY <1>1, <1>2
<1>. HIDE DEF a, b, c
<1>5. a + y \in 0..b - 1
  BY <1>3, <1>4
<1>. QED BY <1>5 DEF a, b

\* A byte is cut in two digits, which make it again.
LEMMA DigitsOfByte ==
  ASSUME NEW n \in Nat \ {0}, NEW b \in 0..n * n - 1
  PROVE  /\ b \div n \in Nat /\ b % n \in Nat /\ b \div n < n /\ b % n < n
         /\ (b \div n) * n + (b % n) = b
<1>1. n * n \in Nat
  OBVIOUS
<1>2. b \in Nat /\ b < n * n
  BY <1>1
<1>3. b \div n \in Nat /\ b % n \in Nat /\ b % n < n /\ b = (b \div n) * n + (b % n) /\ (b \div n) * n <= b
  BY <1>2, DivBounds
<1>4. b \div n < n
  <2>. DEFINE q == b \div n
  <2>1. q \in Nat /\ q * n < n * n
    BY <1>1, <1>2, <1>3
  <2>. HIDE DEF q
  <2>2. \A u, v \in Nat : u <= v => u * n <= v * n
    OBVIOUS
  <2>3. ~(n <= q)
    BY <2>1, <2>2
  <2>. QED BY <2>1, <2>3 DEF q
<1>. QED BY <1>3, <1>4

\* What is written of a hash has two digits for each byte.
LEMMA HexLenIs == Link!HexLen = 2 * HashLen /\ Link!HexLen \in Nat \ {0}
BY WidthsAreNat DEF Link!HexLen

\* What DecodeHex gives of a text of digits.
HexBytes(text) == [k \in 1..HashLen |-> text[2 * k - 1] * Nibble + text[2 * k]]

\* DecodeHex gives a hash, and the number the digits wrote.
LEMMA HexIsDecoded ==
  ASSUME NEW text \in Seq(Nat), Len(text) = Link!HexLen, \A k \in 1..Link!HexLen : text[k] < Nibble
  PROVE  /\ Link!DecodeHex(text) = {HexBytes(text)}
         /\ HexBytes(text) \in Hash
         /\ Link!ValueOf(HexBytes(text), Link!ByteBits) = Link!ValueOf(text, NibbleBits)
<1>1. Link!DecodeHex(text) = {HexBytes(text)}
  BY DEF Link!DecodeHex, HexBytes, Nibble
<1>2. \A k \in 1..HashLen : /\ 2 * k - 1 \in 1..Link!HexLen /\ 2 * k \in 1..Link!HexLen
                            /\ text[2 * k - 1] \in Nat /\ text[2 * k] \in Nat
                            /\ text[2 * k - 1] < Nibble /\ text[2 * k] < Nibble
  <2>. SUFFICES ASSUME NEW k \in 1..HashLen
                PROVE  /\ 2 * k - 1 \in 1..Link!HexLen /\ 2 * k \in 1..Link!HexLen
                       /\ text[2 * k - 1] \in Nat /\ text[2 * k] \in Nat
                       /\ text[2 * k - 1] < Nibble /\ text[2 * k] < Nibble
    OBVIOUS
  <2>1. 2 * k - 1 \in 1..Link!HexLen /\ 2 * k \in 1..Link!HexLen
    BY HexLenIs, WidthsAreNat
  <2>. QED BY <2>1
<1>3. \A k \in 1..HashLen : HexBytes(text)[k] \in 0..Octet - 1
  <2>. SUFFICES ASSUME NEW k \in 1..HashLen PROVE HexBytes(text)[k] \in 0..Octet - 1
    OBVIOUS
  <2>1. text[2 * k - 1] * Nibble + text[2 * k] \in 0..Nibble * Nibble - 1
    BY <1>2, OctetIs, TwoDigits, Zenon
  <2>. QED BY <2>1, OctetIs DEF HexBytes
<1>4. HexBytes(text) \in Hash
  BY <1>3, Zenon DEF HexBytes, Hash
<1>5. HexBytes(text) \in Seq(Nat) /\ Len(HexBytes(text)) = HashLen
  BY <1>4, WidthsAreNat, OctetIs DEF Hash
<1>. DEFINE B(n) == Link!ValueOf(SubSeq(HexBytes(text), 1, n), Link!ByteBits)
            C(n) == Link!ValueOf(SubSeq(text, 1, n), NibbleBits)
            T == {n \in Nat : n <= HashLen => B(n) = C(2 * n)}
<1>6. 0 \in T
  <2>1. SubSeq(HexBytes(text), 1, 0) = <<>> /\ SubSeq(text, 1, 2 * 0) = <<>>
    BY <1>5
  <2>2. <<>> \in Seq(Nat) /\ 0 \in Nat /\ NibbleBits \in Widths /\ Link!ByteBits \in Widths
    BY EmptySeq DEF Widths
  <2>. QED BY <2>1, <2>2, ValueAppend, Zenon
<1>7. ASSUME NEW n \in Nat, n \in T PROVE n + 1 \in T
  <2>. SUFFICES ASSUME n + 1 <= HashLen PROVE B(n + 1) = C(2 * (n + 1))
    <3>1. n + 1 \in Nat
      OBVIOUS
    <3>. QED BY <3>1, Zenon
  <2>. DEFINE k == n + 1
              x == text[2 * k - 1]
              y == text[2 * k]
  <2>1. /\ k \in 1..HashLen /\ 2 * k - 1 \in 1..Link!HexLen /\ 2 * k \in 1..Link!HexLen
        /\ x \in Nat /\ y \in Nat
    <3>1. k \in 1..HashLen
      BY WidthsAreNat
    <3>. QED BY <1>2, <3>1
  <2>2. /\ SubSeq(HexBytes(text), 1, n) \in Seq(Nat)
        /\ SubSeq(HexBytes(text), 1, n + 1) = Append(SubSeq(HexBytes(text), 1, n), x * Nibble + y)
    <3>1. HexBytes(text)[k] = x * Nibble + y
      BY <2>1 DEF HexBytes
    <3>. QED BY <1>5, <2>1, <3>1, SMTT(60)
  <2>3. /\ SubSeq(text, 1, 2 * n) \in Seq(Nat)
        /\ SubSeq(text, 1, 2 * (n + 1)) = Append(Append(SubSeq(text, 1, 2 * n), x), y)
    <3>1. 2 * n + 1 \in 1..Len(text) /\ 2 * n + 2 \in 1..Len(text) /\ 2 * (n + 1) = 2 * n + 2
          /\ 2 * k - 1 = 2 * n + 1 /\ 2 * k = 2 * n + 2 /\ 2 * n \in Nat
      BY <2>1
    <3>2. SubSeq(text, 1, 2 * n) \in Seq(Nat)
          /\ SubSeq(text, 1, 2 * n + 1) = Append(SubSeq(text, 1, 2 * n), text[2 * n + 1])
      BY <3>1, SMTT(60)
    <3>3. SubSeq(text, 1, 2 * n + 2) = Append(SubSeq(text, 1, 2 * n + 1), text[2 * n + 2])
      BY <3>1
    <3>. QED BY <3>1, <3>2, <3>3, Zenon
  <2>. HIDE DEF k, x, y
  <2>4. B(n) = C(2 * n) /\ C(2 * n) \in Nat
    <3>1. B(n) = C(2 * n)
      BY <1>7, WidthsAreNat
    <3>. QED BY <2>3, <3>1, ValueIsNat, Zenon DEF Widths
  <2>5. B(n + 1) = B(n) * Octet + (x * Nibble + y)
    <3>1. x * Nibble + y \in Nat
      <4>1. \A u, v \in Nat : u * v + y \in Nat
        BY <2>1
      <4>. QED BY <2>1, <4>1, OctetIs, Zenon
    <3>. QED BY <2>2, <3>1, ValueAppend, Zenon DEF Widths, Octet
  <2>6. C(2 * (n + 1)) = (C(2 * n) * Nibble + x) * Nibble + y
    <3>1. Append(SubSeq(text, 1, 2 * n), x) \in Seq(Nat)
      BY <2>1, <2>3
    <3>2. Link!ValueOf(Append(SubSeq(text, 1, 2 * n), x), NibbleBits) = C(2 * n) * Nibble + x
      BY <2>1, <2>3, ValueAppend, Zenon DEF Widths, Nibble
    <3>. QED BY <2>1, <2>3, <3>1, <3>2, ValueAppend, ZenonT(60) DEF Widths, Nibble
  <2>. DEFINE c == C(2 * n)
  <2>7. c \in Nat /\ Nibble \in Nat
    BY <2>4, OctetIs
  <2>. HIDE DEF c
  <2>8. (c * Nibble + x) * Nibble + y = c * (Nibble * Nibble) + (x * Nibble + y)
    BY <2>1, <2>7
  <2>. QED BY <2>4, <2>5, <2>6, <2>8, OctetIs DEF c
<1>. HIDE DEF T
<1>8. HashLen \in T
  <2>1. \A n \in Nat : n \in T
    BY <1>6, <1>7, SetInduction, Zenon
  <2>. QED BY <2>1, WidthsAreNat
<1>9. SubSeq(HexBytes(text), 1, HashLen) = HexBytes(text) /\ SubSeq(text, 1, 2 * HashLen) = text
  BY <1>5, HexLenIs
<1>10. B(HashLen) = C(2 * HashLen)
  BY <1>8, WidthsAreNat DEF T
<1>. QED BY <1>1, <1>4, <1>9, <1>10, Zenon

\* Writing a hash in hex, and reading that.
LEMMA HexOf ==
  ASSUME NEW h \in Hash
  PROVE  /\ Link!Hex(h) \in Seq(Nat) /\ Len(Link!Hex(h)) = Link!HexLen
         /\ \A k \in 1..Link!HexLen : Link!Hex(h)[k] < Nibble
         /\ HexBytes(Link!Hex(h)) = h
<1>. DEFINE t == Link!Hex(h)
            digit(k) == LET b == h[(k + 1) \div 2]
                        IN IF k % 2 = 1 THEN b \div Nibble ELSE b % Nibble
<1>1. t = [k \in 1..Link!HexLen |-> digit(k)]
  BY DEF Link!Hex, Nibble
<1>2. ASSUME NEW b \in 0..Octet - 1
      PROVE  /\ b \div Nibble \in Nat /\ b % Nibble \in Nat /\ b \div Nibble < Nibble /\ b % Nibble < Nibble
             /\ (b \div Nibble) * Nibble + (b % Nibble) = b
  BY OctetIs, DigitsOfByte
<1>3. \A k \in 1..Link!HexLen : digit(k) \in Nat /\ digit(k) < Nibble
  <2>. SUFFICES ASSUME NEW k \in 1..Link!HexLen PROVE digit(k) \in Nat /\ digit(k) < Nibble
    OBVIOUS
  <2>1. (k + 1) \div 2 \in 1..HashLen
    BY HexLenIs, WidthsAreNat
  <2>2. h[(k + 1) \div 2] \in 0..Octet - 1
    BY <2>1 DEF Hash
  <2>. QED BY <1>2, <2>2
<1>4. t \in Seq(Nat) /\ Len(t) = Link!HexLen
  <2>1. t \in [1..Link!HexLen -> Nat]
    BY <1>1, <1>3
  <2>. HIDE DEF t
  <2>. QED BY <2>1, HexLenIs
<1>5. \A k \in 1..Link!HexLen : t[k] < Nibble
  <2>1. \A k \in 1..Link!HexLen : t[k] = digit(k)
    BY <1>1
  <2>. HIDE DEF t, digit
  <2>. QED BY <1>3, <2>1
<1>6. HexBytes(t) = h
  <2>1. h = [k \in 1..HashLen |-> h[k]]
    BY DEF Hash
  <2>2. ASSUME NEW k \in 1..HashLen PROVE t[2 * k - 1] * Nibble + t[2 * k] = h[k]
    <3>1. /\ 2 * k - 1 \in 1..Link!HexLen /\ 2 * k \in 1..Link!HexLen
          /\ ((2 * k - 1) + 1) \div 2 = k /\ (2 * k + 1) \div 2 = k
          /\ (2 * k - 1) % 2 = 1 /\ (2 * k) % 2 = 0
      BY HexLenIs, WidthsAreNat
    <3>2. t[2 * k - 1] = h[k] \div Nibble /\ t[2 * k] = h[k] % Nibble
      BY <1>1, <3>1
    <3>3. h[k] \in 0..Octet - 1
      BY DEF Hash
    <3>. HIDE DEF t
    <3>. QED BY <1>2, <3>2, <3>3
  <2>. HIDE DEF t
  <2>. QED BY <2>1, <2>2 DEF HexBytes
<1>. QED BY <1>4, <1>5, <1>6

(***************************************************************************)
(* Base32.                                                                 *)
(***************************************************************************)

\* A character of base32, and what DecodeBase32 folds.
Letter == 2^CharBits
Shifts == INSTANCE FoldFacts WITH Op <- Link!Shift

\* What its induction is on.
LEMMA ShiftsWellOrdered == Shifts!WellOrdered
BY NatsAreWellOrdered DEF Shifts!WellOrdered

Empty == [buf |-> 0, bits |-> 0, out |-> <<>>]

\* DecodeBase32 is a fold over the characters.
LEMMA Base32IsFold ==
  ASSUME NEW text
  PROVE  Link!DecodeBase32(text) =
           IF \A k \in 1..Link!Base32Len : text[k] < Letter
           THEN {bytes \in {Shifts!Folded(Empty, text).out} : Len(bytes) = HashLen}
           ELSE {}
<1>1. Link!FoldLeft(Link!Shift, Empty, text) = Shifts!Folded(Empty, text)
  BY DEF Link!FoldLeft, Link!MapThenFoldSet, Link!Max, Shifts!Folded,
         Shifts!MapThenFoldSet, Shifts!Largest
<1>. QED BY <1>1, Zenon DEF Link!DecodeBase32, Letter, Empty

\* Acc(buf, bits, out), without the fields of a record.
Acc(b, n, o) == [buf |-> b, bits |-> n, out |-> o]

\* What is assumed of a character, and the power that is one.
LEMMA LetterIs ==
  /\ Letter \in Nat \ {0} /\ \A n \in Nat : 2^n \in Nat \ {0}
  /\ 2^0 = 1
<1>1. \A n \in Nat : 2^n \in Nat \ {0}
  BY PowerIsNat
<1>2. 2^0 = 1
  <2>. DEFINE p == 2^0
  <2>1. 2^(0 + 0) = 2^0 * 2^0 /\ 2^0 \in Nat \ {0}
    BY PowerOfSum, PowerIsNat
  <2>2. p = p * p /\ p \in Nat \ {0}
    BY <2>1
  <2>. HIDE DEF p
  <2>3. p = 1
    BY <2>2
  <2>. QED BY <2>3 DEF p
<1>. QED BY <1>1, <1>2, WidthsAreNat DEF Letter

\* The bits that were read are those that were written and those in buf.
Holds(a, n, v) ==
  \E b \in Nat, k \in Nat, o \in Seq(0..Octet - 1) :
    /\ a = Acc(b, k, o) /\ k < Link!ByteBits /\ b < 2^k
    /\ Len(o) * Link!ByteBits + k = n * CharBits
    /\ Link!ValueOf(o, Link!ByteBits) * 2^k + b = v

\* A byte taken out of the buffer: arithmetic.
LEMMA TakeByte ==
  ASSUME NEW b \in Nat, NEW l \in Nat \ {0}, NEW o \in Nat \ {0}, b < l * o
  PROVE  /\ (b \div l) \in Nat /\ (b \div l) < o /\ (b \div l) % o = b \div l
         /\ b % l \in Nat /\ b % l < l /\ (b \div l) * l + (b % l) = b
<1>1. b \div l \in Nat /\ b % l \in Nat /\ b % l < l /\ b = (b \div l) * l + (b % l) /\ (b \div l) * l <= b
  BY DivBounds
<1>. DEFINE q == b \div l
<1>2. q \in Nat /\ q * l < l * o
  <2>. DEFINE x == q * l
              y == l * o
  <2>1. x \in Int /\ y \in Int /\ x <= b /\ b < y
    BY <1>1
  <2>. HIDE DEF x, y
  <2>2. x < y
    BY <2>1
  <2>. QED BY <1>1, <2>2 DEF x, y
<1>. HIDE DEF q
<1>3. q < o
  <2>1. \A u, v \in Nat : u <= v => u * l <= v * l
    OBVIOUS
  <2>2. o * l = l * o /\ l * o \in Int /\ q * l \in Int
    BY <1>2
  <2>3. ~(o <= q)
    BY <1>2, <2>1, <2>2
  <2>. QED BY <1>2, <2>3
<1>4. q % o = q
  BY <1>2, <1>3
<1>. QED BY <1>1, <1>3, <1>4 DEF q

\* One character more is held, whether a byte is taken out or not.
LEMMA ShiftHolds ==
  ASSUME NEW a, NEW n \in Nat, NEW v \in Nat, Holds(a, n, v), NEW c \in Nat, c < Letter
  PROVE  Holds(Link!Shift(a, c), n + 1, v * Letter + c)
<1>1. PICK b \in Nat, k \in Nat, o \in Seq(0..Octet - 1) :
        /\ a = Acc(b, k, o) /\ k < Link!ByteBits /\ b < 2^k
        /\ Len(o) * Link!ByteBits + k = n * CharBits
        /\ Link!ValueOf(o, Link!ByteBits) * 2^k + b = v
  BY Zenon DEF Holds
<1>. DEFINE w == Link!ValueOf(o, Link!ByteBits)
            d == b * Letter + c
            m == k + CharBits
            l == m - Link!ByteBits
            P == 2^k
            M == 2^m
<1>2. a.buf = b /\ a.bits = k /\ a.out = o
  BY <1>1 DEF Acc
<1>3. /\ CharBits \in Nat \ {0} /\ Link!ByteBits \in Nat \ {0} /\ CharBits <= Link!ByteBits
      /\ Letter \in Nat \ {0} /\ Octet \in Nat \ {0} /\ P \in Nat \ {0}
      /\ m \in Nat /\ M \in Nat \ {0} /\ M = P * Letter
  <2>1. CharBits \in Nat \ {0} /\ Link!ByteBits \in Nat \ {0} /\ CharBits <= Link!ByteBits
    BY WidthsAreNat DEF Widths
  <2>2. m \in Nat
    BY <2>1
  <2>3. M = P * Letter
    BY <2>1, PowerOfSum DEF Letter
  <2>. QED BY <2>1, <2>2, <2>3, LetterIs, OctetIs
<1>4. o \in Seq(Nat) /\ w \in Nat
  <2>1. o \in Seq(Nat)
    BY SeqMonotonic, OctetIs
  <2>. QED BY <2>1, ValueIsNat DEF Widths
<1>. HIDE DEF P, M, w
<1>5. /\ d \in Nat /\ d < M
      /\ w * M + d = v * Letter + c
  <2>1. b * Letter + c \in Nat /\ b * Letter + c < P * Letter
    <3>1. b + 1 <= P /\ b + 1 \in Nat
      BY <1>1, <1>3 DEF P
    <3>2. (b + 1) * Letter <= P * Letter
      <4>1. \A x, y \in Nat : x <= y => x * Letter <= y * Letter
        BY <1>3
      <4>. QED BY <1>3, <3>1, <4>1
    <3>. DEFINE x == b * Letter
                y == P * Letter
    <3>3. (b + 1) * Letter = x + Letter /\ x \in Nat /\ y \in Nat
      BY <1>3
    <3>4. x + Letter <= y
      BY <3>2, <3>3
    <3>. HIDE DEF x, y
    <3>5. x + c \in Nat /\ x + c < y
      BY <1>3, <3>3, <3>4
    <3>. QED BY <3>5 DEF x, y
  <2>2. v = w * P + b
    BY <1>1 DEF w, P
  <2>3. (w * P + b) * Letter + c = w * (P * Letter) + (b * Letter + c)
    BY <1>3, <1>4
  <2>. QED BY <1>3, <2>1, <2>2, <2>3
<1>6. Len(o) * Link!ByteBits + m = (n + 1) * CharBits
  <2>. DEFINE x == Len(o) * Link!ByteBits
              y == n * CharBits
  <2>1. x \in Int /\ y \in Int /\ x + k = y /\ (n + 1) * CharBits = y + CharBits
    BY <1>1, <1>3
  <2>. HIDE DEF x, y
  <2>2. x + (k + CharBits) = y + CharBits
    BY <1>3, <2>1
  <2>. QED BY <2>1, <2>2 DEF x
<1>. HIDE DEF d
<1>7. CASE ~(m >= Link!ByteBits)
  <2>1. Link!Shift(a, c) = [a EXCEPT !.buf = d, !.bits = m]
    BY <1>2, <1>7 DEF Link!Shift, Link!Full, d, Letter
  <2>2. Link!Shift(a, c) = Acc(d, m, o)
    BY <1>1, <2>1, Zenon DEF Acc
  <2>3. m < Link!ByteBits
    BY <1>3, <1>7
  <2>. QED BY <1>3, <1>5, <1>6, <2>2, <2>3, Zenon DEF Holds, M, w
<1>8. CASE m >= Link!ByteBits
  <2>. DEFINE L == 2^l
              q == d \div L
              r == d % L
  <2>1. l \in Nat /\ l < Link!ByteBits /\ m = l + Link!ByteBits
    BY <1>1, <1>3, <1>8
  <2>2. L \in Nat \ {0} /\ M = L * Octet
    BY <1>3, <2>1, PowerOfSum, LetterIs, SMTT(60) DEF M, Octet
  <2>3. Link!Shift(a, c) = [buf |-> d % 2^l, bits |-> l, out |-> Append(o, (d \div 2^l) % Octet)]
    BY <1>2, <1>8 DEF Link!Shift, Link!Full, d, Letter, Octet
  <2>. HIDE DEF L
  <2>4. q \in Nat /\ q < Octet /\ q % Octet = q /\ r \in Nat /\ r < L /\ q * L + r = d
    <3>1. d \in Nat /\ L \in Nat \ {0} /\ Octet \in Nat \ {0} /\ d < L * Octet
      BY <1>3, <1>5, <2>2
    <3>. QED BY <3>1, TakeByte, Zenon
  <2>5. Link!Shift(a, c) = Acc(r, l, Append(o, q))
    BY <2>3, <2>4, Zenon DEF Acc, L
  <2>. HIDE DEF q, r
  <2>6. q \in 0..Octet - 1 /\ Append(o, q) \in Seq(0..Octet - 1) /\ Len(Append(o, q)) = Len(o) + 1 /\ Len(o) \in Nat
    <3>1. q \in 0..Octet - 1
      BY <1>3, <2>4
    <3>. QED BY <3>1, AppendProperties, LenProperties
  <2>7. (Len(o) + 1) * Link!ByteBits + l = (n + 1) * CharBits
    <3>. DEFINE x == Len(o) * Link!ByteBits
    <3>1. x \in Int /\ (Len(o) + 1) * Link!ByteBits = x + Link!ByteBits
      BY <1>3, <2>6
    <3>2. x + m = (n + 1) * CharBits
      BY <1>6
    <3>. HIDE DEF x
    <3>3. (x + Link!ByteBits) + l = x + m
      BY <1>3, <2>1, <3>1
    <3>. QED BY <3>1, <3>2, <3>3
  <2>8. Link!ValueOf(Append(o, q), Link!ByteBits) = w * Octet + q
    BY <1>4, <2>4, ValueAppend DEF Widths, Octet, w
  <2>9. (w * Octet + q) * L + r = v * Letter + c
    <3>1. (w * Octet + q) * L + r = w * (L * Octet) + (q * L + r)
      BY <1>3, <1>4, <2>2, <2>4
    <3>. QED BY <1>5, <2>2, <2>4, <3>1
  <2>. HIDE DEF l
  <2>. QED BY <2>1, <2>4, <2>5, <2>6, <2>7, <2>8, <2>9, Zenon DEF Holds, L
<1>. QED BY <1>7, <1>8

\* A text of base32 has the bits of a hash, and is no text of hex.
LEMMA Base32LenIs ==
  /\ Link!Base32Len \in Nat \ {0} /\ Link!Base32Len * CharBits = HashLen * Link!ByteBits
  /\ Link!Base32Len # Link!HexLen
<1>. DEFINE n == HashLen * Link!ByteBits
            l == Link!Base32Len
<1>1. /\ NibbleBits \in Nat \ {0} /\ CharBits \in Nat \ {0} /\ HashLen \in Nat \ {0}
      /\ Link!ByteBits = 2 * NibbleBits /\ CharBits # NibbleBits
  BY InputAssumption DEF Link!ByteBits
<1>2. n \in Nat \ {0}
  <2>1. Link!ByteBits \in Nat \ {0}
    BY <1>1
  <2>2. \A x, y \in Nat \ {0} : x * y \in Nat \ {0}
    OBVIOUS
  <2>. QED BY <1>1, <2>1, <2>2
<1>3. n % CharBits = 0
  <2>1. (HashLen * 2 * NibbleBits) % CharBits = 0
    BY InputAssumption
  <2>2. HashLen * 2 * NibbleBits = n
    BY <1>1
  <2>. QED BY <2>1, <2>2
<1>4. l = n \div CharBits
  BY DEF Link!Base32Len
<1>. HIDE DEF n, l
<1>5. l \in Nat /\ n = l * CharBits
  <2>1. l \in Nat /\ n = l * CharBits + (n % CharBits)
    BY <1>1, <1>2, <1>4, DivBounds
  <2>. DEFINE x == l * CharBits
  <2>2. x \in Int /\ n = x + 0
    BY <1>1, <1>3, <2>1
  <2>. QED BY <2>1, <2>2
<1>6. l # 0
  BY <1>1, <1>2, <1>5
<1>7. l # Link!HexLen
  <2>. SUFFICES ASSUME l = 2 * HashLen PROVE FALSE
    BY DEF Link!HexLen
  <2>1. HashLen * (2 * NibbleBits) = 2 * HashLen * CharBits
    BY <1>1, <1>5 DEF n
  <2>2. \A x, y, z \in Nat \ {0} : x * (2 * y) = 2 * x * z => y = z
    OBVIOUS
  <2>. QED BY <1>1, <2>1, <2>2
<1>. QED BY <1>5, <1>6, <1>7 DEF n, l

\* DecodeBase32 gives a hash, and the number the characters wrote.
LEMMA Base32IsDecoded ==
  ASSUME NEW text \in Seq(Nat), Len(text) = Link!Base32Len,
         \A k \in 1..Link!Base32Len : text[k] < Letter
  PROVE  \E h \in Hash : /\ Link!DecodeBase32(text) = {h}
                         /\ Link!ValueOf(h, Link!ByteBits) = Link!ValueOf(text, CharBits)
<1>. DEFINE S == 0..Letter - 1
            T == {s \in Seq(S) : Holds(Shifts!Folded(Empty, s), Len(s), Link!ValueOf(s, CharBits))}
<1>1. S \subseteq Nat /\ text \in Seq(S)
  <2>1. S \subseteq Nat
    BY LetterIs
  <2>2. \A k \in 1..Len(text) : text[k] \in S
    BY LetterIs
  <2>. HIDE DEF S
  <2>. QED BY <2>1, <2>2
<1>2. <<>> \in T
  <2>1. <<>> \in Seq(S) /\ Len(<<>>) = 0 /\ Shifts!Folded(Empty, <<>>) = Acc(0, 0, <<>>)
        /\ <<>> \in Seq(0..Octet - 1) /\ <<>> \in Seq(Nat) /\ 0 \in Nat
    BY EmptySeq, Shifts!FoldedEmpty DEF Empty, Acc
  <2>2. Link!ValueOf(<<>>, CharBits) = 0 /\ Link!ValueOf(<<>>, Link!ByteBits) = 0
    BY <2>1, ValueAppend DEF Widths
  <2>3. 0 < 2^0 /\ 0 < Link!ByteBits /\ 0 * Link!ByteBits + 0 = 0 * CharBits
    BY LetterIs, WidthsAreNat DEF Widths
  <2>4. 0 * 2^0 + 0 = 0
    BY LetterIs
  <2>. QED BY <2>1, <2>2, <2>3, <2>4, Zenon DEF Holds
<1>3. ASSUME NEW s \in Seq(S), NEW c \in S, s \in T PROVE Append(s, c) \in T
  <2>1. s \in Seq(Nat) /\ c \in Nat /\ c < Letter
    BY <1>1, LetterIs, SeqMonotonic
  <2>2. Append(s, c) \in Seq(S) /\ Len(Append(s, c)) = Len(s) + 1 /\ Len(s) \in Nat
    BY <1>3, AppendProperties, LenProperties
  <2>3. Link!ValueOf(Append(s, c), CharBits) = Link!ValueOf(s, CharBits) * Letter + c
        /\ Link!ValueOf(s, CharBits) \in Nat
    BY <2>1, ValueAppend, ValueIsNat DEF Widths, Letter
  <2>4. Shifts!Folded(Empty, Append(s, c)) = Link!Shift(Shifts!Folded(Empty, s), c)
    BY <1>3, Shifts!FoldedAppend, ShiftsWellOrdered, Zenon
  <2>5. Holds(Shifts!Folded(Empty, s), Len(s), Link!ValueOf(s, CharBits))
    BY <1>3
  <2>6. Holds(Link!Shift(Shifts!Folded(Empty, s), c), Len(s) + 1, Link!ValueOf(s, CharBits) * Letter + c)
    BY <2>1, <2>2, <2>3, <2>5, ShiftHolds
  <2>. QED BY <2>2, <2>3, <2>4, <2>6
<1>. HIDE DEF T, S
<1>4. text \in T
  BY <1>1, <1>2, <1>3, AppendInduction, Zenon
<1>. DEFINE v == Link!ValueOf(text, CharBits)
<1>5. PICK b \in Nat, k \in Nat, o \in Seq(0..Octet - 1) :
        /\ Shifts!Folded(Empty, text) = Acc(b, k, o) /\ k < Link!ByteBits /\ b < 2^k
        /\ Len(o) * Link!ByteBits + k = Len(text) * CharBits
        /\ Link!ValueOf(o, Link!ByteBits) * 2^k + b = v
  BY <1>4, Zenon DEF Holds, T
<1>6. Len(o) = HashLen /\ k = 0
  <2>1. Len(o) * Link!ByteBits + k = HashLen * Link!ByteBits
    BY <1>5, Base32LenIs
  <2>2. Len(o) \in Nat /\ HashLen \in Nat /\ Link!ByteBits \in Nat \ {0}
    BY WidthsAreNat, LenProperties DEF Widths
  <2>. DEFINE n == Len(o)
              B == Link!ByteBits
  <2>3. n * B + k = HashLen * B /\ n \in Nat /\ HashLen \in Nat /\ B \in Nat \ {0} /\ k < B
    BY <1>5, <2>1, <2>2
  <2>. HIDE DEF n, B
  <2>4. (n * B + k) \div B = n /\ (n * B + k) % B = k
    BY <2>3, DivOfSum, Zenon
  <2>5. (HashLen * B + 0) \div B = HashLen /\ (HashLen * B + 0) % B = 0
    <3>1. 0 \in Nat /\ 0 < B
      BY <2>3
    <3>. QED BY <2>3, <3>1, DivOfSum, Zenon
  <2>6. HashLen * B + 0 = n * B + k
    <3>1. HashLen * B \in Int
      BY <2>3
    <3>. QED BY <2>3, <3>1
  <2>. QED BY <2>4, <2>5, <2>6 DEF n
<1>7. b = 0 /\ Link!ValueOf(o, Link!ByteBits) = v
  <2>1. b = 0
    BY <1>5, <1>6, LetterIs
  <2>2. o \in Seq(Nat)
    BY SeqMonotonic, OctetIs
  <2>3. Link!ValueOf(o, Link!ByteBits) \in Nat
    BY <2>2, ValueIsNat DEF Widths
  <2>4. Link!ValueOf(o, Link!ByteBits) * 1 + 0 = v
    BY <1>5, <1>6, <2>1, LetterIs
  <2>. QED BY <2>1, <2>3, <2>4
<1>8. o \in Hash
  <2>1. o \in [1..Len(o) -> 0..Octet - 1]
    BY LenProperties, Zenon
  <2>. QED BY <1>6, <2>1 DEF Hash
<1>9. Shifts!Folded(Empty, text).out = o
  BY <1>5 DEF Acc
<1>10. Link!DecodeBase32(text) = {o}
  BY <1>6, <1>9, Base32IsFold
<1>. QED BY <1>7, <1>8, <1>10

(***************************************************************************)
(* Info hashes.                                                            *)
(***************************************************************************)

\* WellFormed, by the places of the characters.
LEMMA WellFormedIs ==
  ASSUME NEW text \in Seq(Nat)
  PROVE  Link!WellFormed(text) <=>
           \/ Len(text) = Link!HexLen /\ \A k \in 1..Link!HexLen : text[k] < Nibble
           \/ Len(text) = Link!Base32Len /\ \A k \in 1..Link!Base32Len : text[k] < Letter
<1>1. DOMAIN text = 1..Len(text)
  OBVIOUS
<1>2. Link!ToSet(text) = {text[k] : k \in 1..Len(text)}
  BY <1>1 DEF Link!ToSet
<1>. QED BY <1>2, Zenon DEF Link!WellFormed, Nibble, Letter

\* What is decoded of a text, if anything, is the number it writes.
LEMMA InfoHashIsDecoded ==
  ASSUME NEW text \in Seq(Nat)
  PROVE  /\ ~Link!WellFormed(text) => Link!DecodeInfoHash(text) = {}
         /\ Link!WellFormed(text) =>
              \E h \in Hash : /\ Link!DecodeInfoHash(text) = {h}
                              /\ Link!ValueOf(h, Link!ByteBits) = Link!InfoHashNumber(text)
<1>1. CASE Len(text) = Link!HexLen
  <2>1. Link!DecodeInfoHash(text) = Link!DecodeHex(text)
    BY <1>1, Base32LenIs, SMTT(60) DEF Link!DecodeInfoHash
  <2>2. Link!InfoHashNumber(text) = Link!ValueOf(text, NibbleBits)
    BY <1>1, SMTT(60) DEF Link!InfoHashNumber
  <2>3. Link!WellFormed(text) <=> \A k \in 1..Link!HexLen : text[k] < Nibble
    BY <1>1, Base32LenIs, WellFormedIs
  <2>4. ~Link!WellFormed(text) => Link!DecodeHex(text) = {}
    BY <2>3 DEF Link!DecodeHex, Nibble
  <2>. QED BY <1>1, <2>1, <2>2, <2>3, <2>4, HexIsDecoded
<1>2. CASE Len(text) # Link!HexLen /\ Len(text) = Link!Base32Len
  <2>1. Link!DecodeInfoHash(text) = Link!DecodeBase32(text)
    BY <1>2, Base32LenIs DEF Link!DecodeInfoHash
  <2>2. Link!InfoHashNumber(text) = Link!ValueOf(text, CharBits)
    BY <1>2 DEF Link!InfoHashNumber
  <2>3. Link!WellFormed(text) <=> \A k \in 1..Link!Base32Len : text[k] < Letter
    BY <1>2, WellFormedIs
  <2>4. ~Link!WellFormed(text) => Link!DecodeBase32(text) = {}
    BY <2>3, SMTT(60) DEF Link!DecodeBase32, Letter
  <2>. QED BY <1>2, <2>1, <2>2, <2>3, <2>4, Base32IsDecoded
<1>3. CASE Len(text) # Link!HexLen /\ Len(text) # Link!Base32Len
  BY <1>3, WellFormedIs DEF Link!DecodeInfoHash
<1>. QED BY <1>1, <1>2, <1>3

\* A hash is written as what it is read from.
LEMMA HexIsUnderstood ==
  ASSUME NEW h \in Hash
  PROVE  /\ Link!Hex(h) \in Seq(Nat) /\ Link!WellFormed(Link!Hex(h))
         /\ Link!InfoHashNumber(Link!Hex(h)) = Link!ValueOf(h, Link!ByteBits)
<1>1. /\ Link!Hex(h) \in Seq(Nat) /\ Len(Link!Hex(h)) = Link!HexLen
      /\ \A k \in 1..Link!HexLen : Link!Hex(h)[k] < Nibble
      /\ HexBytes(Link!Hex(h)) = h
  BY HexOf
<1>2. Link!ValueOf(h, Link!ByteBits) = Link!ValueOf(Link!Hex(h), NibbleBits)
  BY <1>1, HexIsDecoded
<1>. QED BY <1>1, <1>2, WellFormedIs DEF Link!InfoHashNumber

(***************************************************************************)
(* Links.                                                                  *)
(***************************************************************************)

\* The parameters that are read, those of a link that was written among them.
AnyValue == {p.value : p \in UNION {ToSet(params) : params \in Links}} \cup Seq(Nat)
Param == {p \in [key : Link!Key, value : AnyValue] : p.key = "btih" => p.value \in Seq(Nat)}

\* The operator ValuesIn folds.
Given(values, p) == [values EXCEPT ![p.key] = Append(@, p.value)]
Givens == INSTANCE FoldFacts WITH Op <- Given

\* What its induction is on.
LEMMA GivensWellOrdered == Givens!WellOrdered
BY NatsAreWellOrdered DEF Givens!WellOrdered

NoValues == [key \in Link!Key |-> <<>>]

\* The keys.
LEMMA KeysAre == Link!Key = {"btih", "dn", "tr", "other"}
BY DEF Link!Key

\* ValuesIn is a fold over the parameters.
LEMMA ValuesIsFold ==
  ASSUME NEW s
  PROVE  Link!ValuesIn(s) = Givens!Folded(NoValues, s)
BY DEF Link!ValuesIn, Link!FoldLeft, Link!MapThenFoldSet, Link!Max, Givens!Folded,
       Givens!MapThenFoldSet, Givens!Largest, Given, NoValues

\* What the keys are given are sequences of values, texts for btih.
LEMMA ValuesOfAll ==
  ASSUME NEW s \in Seq(Param)
  PROVE  Link!ValuesIn(s) \in [Link!Key -> Seq(AnyValue)] /\ Link!ValuesIn(s)["btih"] \in Seq(Seq(Nat))
<1>. DEFINE Typed(v) == v \in [Link!Key -> Seq(AnyValue)] /\ v["btih"] \in Seq(Seq(Nat))
            T == {u \in Seq(Param) : Typed(Link!ValuesIn(u))}
<1>1. <<>> \in T
  <2>1. <<>> \in Seq(Param) /\ Link!ValuesIn(<<>>) = NoValues
    BY EmptySeq, ValuesIsFold, Givens!FoldedEmpty
  <2>2. <<>> \in Seq(AnyValue) /\ <<>> \in Seq(Seq(Nat)) /\ "btih" \in Link!Key
    BY EmptySeq, KeysAre
  <2>3. NoValues \in [Link!Key -> Seq(AnyValue)] /\ NoValues["btih"] = <<>>
    BY <2>2 DEF NoValues
  <2>. QED BY <2>1, <2>2, <2>3
<1>2. ASSUME NEW u \in Seq(Param), NEW p \in Param, u \in T PROVE Append(u, p) \in T
  <2>. DEFINE v == Link!ValuesIn(u)
  <2>1. Append(u, p) \in Seq(Param) /\ Link!ValuesIn(Append(u, p)) = Given(v, p)
    BY AppendProperties, ValuesIsFold, Givens!FoldedAppend, GivensWellOrdered
  <2>2. v \in [Link!Key -> Seq(AnyValue)] /\ v["btih"] \in Seq(Seq(Nat))
    BY <1>2
  <2>. HIDE DEF v
  <2>3. p.key \in Link!Key /\ p.value \in AnyValue /\ (p.key = "btih" => p.value \in Seq(Nat))
    BY DEF Param
  <2>4. Append(v[p.key], p.value) \in Seq(AnyValue)
    BY <2>2, <2>3, AppendProperties
  <2>5. p.key = "btih" => Append(v["btih"], p.value) \in Seq(Seq(Nat))
    BY <2>2, <2>3, AppendProperties
  <2>6. Typed(Given(v, p))
    <3>1. Given(v, p) \in [Link!Key -> Seq(AnyValue)]
      BY <2>2, <2>3, <2>4 DEF Given
    <3>2. Given(v, p)["btih"] = IF p.key = "btih" THEN Append(v["btih"], p.value) ELSE v["btih"]
      BY <2>2, KeysAre DEF Given
    <3>. QED BY <2>2, <2>5, <3>1, <3>2
  <2>. HIDE DEF Typed
  <2>. QED BY <2>1, <2>6
<1>. HIDE DEF T
<1>3. s \in T
  BY <1>1, <1>2, AppendInduction
<1>. QED BY <1>3 DEF T

\* What a key is given by one parameter more.
LEMMA ValuesAppend ==
  ASSUME NEW s \in Seq(Param), NEW p \in Param, NEW k \in Link!Key
  PROVE  /\ Link!ValuesIn(<<>>)[k] = <<>>
         /\ Link!ValuesIn(Append(s, p))[k] =
              IF p.key = k THEN Append(Link!ValuesIn(s)[k], p.value) ELSE Link!ValuesIn(s)[k]
<1>1. Link!ValuesIn(<<>>) = NoValues /\ Link!ValuesIn(Append(s, p)) = Given(Link!ValuesIn(s), p)
  BY ValuesIsFold, Givens!FoldedEmpty, Givens!FoldedAppend, GivensWellOrdered
<1>2. Link!ValuesIn(s) \in [Link!Key -> Seq(AnyValue)]
  BY ValuesOfAll
<1>. QED BY <1>1, <1>2 DEF Given, NoValues

\* What is appended to the second of two sequences is appended to both.
LEMMA ConcatAppend ==
  ASSUME NEW S, NEW s \in Seq(S), NEW t \in Seq(S), NEW e \in S
  PROVE  \A u : u = Append(t, e) => Append(s \o t, e) = s \o u
<1>1. Append(s \o t, e) = s \o Append(t, e)
  OBVIOUS
<1>. QED BY <1>1

\* What a key is given by two sequences of parameters.
LEMMA ValuesConcat ==
  ASSUME NEW s \in Seq(Param), NEW t \in Seq(Param), NEW k \in Link!Key
  PROVE  Link!ValuesIn(s \o t)[k] = Link!ValuesIn(s)[k] \o Link!ValuesIn(t)[k]
<1>. DEFINE T == {u \in Seq(Param) : Link!ValuesIn(s \o u)[k] = Link!ValuesIn(s)[k] \o Link!ValuesIn(u)[k]}
<1>1. Link!ValuesIn(s)[k] \in Seq(AnyValue)
  BY ValuesOfAll
<1>2. <<>> \in T
  <2>1. <<>> \in Seq(Param) /\ s \o <<>> = s /\ Link!ValuesIn(s)[k] \o <<>> = Link!ValuesIn(s)[k]
    BY <1>1, EmptySeq, ConcatEmptySeq
  <2>2. Param # {} => Link!ValuesIn(<<>>)[k] = <<>>
    BY ValuesAppend
  <2>3. Link!ValuesIn(<<>>)[k] = <<>>
    BY ValuesIsFold, Givens!FoldedEmpty DEF NoValues
  <2>. QED BY <2>1, <2>3, Zenon
<1>3. ASSUME NEW u \in Seq(Param), NEW p \in Param, u \in T PROVE Append(u, p) \in T
  <2>1. s \o Append(u, p) = Append(s \o u, p) /\ s \o u \in Seq(Param) /\ Append(u, p) \in Seq(Param)
    OBVIOUS
  <2>2. Link!ValuesIn(s \o u)[k] = Link!ValuesIn(s)[k] \o Link!ValuesIn(u)[k]
    BY <1>3, Zenon
  <2>3. Link!ValuesIn(u)[k] \in Seq(AnyValue) /\ p.value \in AnyValue
    BY ValuesOfAll DEF Param
  <2>. DEFINE a == Link!ValuesIn(s)[k]
              b == Link!ValuesIn(u)[k]
  <2>4. /\ Link!ValuesIn(Append(s \o u, p))[k] = IF p.key = k THEN Append(a \o b, p.value) ELSE a \o b
        /\ Link!ValuesIn(Append(u, p))[k] = IF p.key = k THEN Append(b, p.value) ELSE b
    <3>1. Link!ValuesIn(Append(s \o u, p))[k] =
            IF p.key = k THEN Append(Link!ValuesIn(s \o u)[k], p.value) ELSE Link!ValuesIn(s \o u)[k]
      BY <2>1, ValuesAppend, Zenon
    <3>2. Link!ValuesIn(Append(u, p))[k] =
            IF p.key = k THEN Append(Link!ValuesIn(u)[k], p.value) ELSE Link!ValuesIn(u)[k]
      BY ValuesAppend
    <3>. QED BY <2>2, <3>1, <3>2
  <2>5. Append(a \o b, p.value) = a \o Append(b, p.value)
    <3>1. a \in Seq(AnyValue) /\ b \in Seq(AnyValue) /\ p.value \in AnyValue
      BY <1>1, <2>3
    <3>. HIDE DEF a, b
    <3>. QED BY <3>1, ConcatAppend, ZenonT(60)
  <2>. HIDE DEF a, b
  <2>6. Link!ValuesIn(s \o Append(u, p))[k] = a \o Link!ValuesIn(Append(u, p))[k]
    BY <2>1, <2>4, <2>5, Zenon
  <2>. QED BY <2>1, <2>6, Zenon DEF a
<1>. HIDE DEF T
<1>4. t \in T
  BY <1>2, <1>3, AppendInduction
<1>. QED BY <1>4, Zenon DEF T

\* A set of at most one as a sequence.
LEMMA SetToSeqOf ==
  ASSUME NEW x
  PROVE  Link!SetToSeq({x}) = <<x>> /\ Link!SetToSeq({}) = <<>>
<1>1. Cardinality({x}) = 1 /\ Cardinality({}) = 0
  BY FS_Singleton, FS_EmptySet
<1>2. \A S : Link!SetToSeq(S) = CHOOSE f \in [1..Cardinality(S) -> S] : IsInjective(f)
  BY DEF Link!SetToSeq, Link!Cardinality, Cardinality, Link!IsFiniteSet, IsFiniteSet, Link!IsInjective, IsInjective
<1>3. <<x>> \in [1..1 -> {x}] /\ IsInjective(<<x>>)
  BY DEF IsInjective
<1>4. \A f \in [1..1 -> {x}] : f = <<x>>
  OBVIOUS
<1>5. <<>> \in [1..0 -> {}] /\ IsInjective(<<>>) /\ \A f \in [1..0 -> {}] : f = <<>>
  BY DEF IsInjective
<1>6. (CHOOSE f \in [1..1 -> {x}] : IsInjective(f)) = <<x>>
  BY <1>3, <1>4
<1>7. (CHOOSE f \in [1..0 -> {}] : IsInjective(f)) = <<>>
  BY <1>5
<1>8. Link!SetToSeq({x}) = (CHOOSE f \in [1..1 -> {x}] : IsInjective(f))
  BY <1>1, <1>2, Zenon
<1>9. Link!SetToSeq({}) = (CHOOSE f \in [1..0 -> {}] : IsInjective(f))
  BY <1>1, <1>2
<1>. QED BY <1>6, <1>7, <1>8, <1>9, Zenon

\* The parameters that trackers are written as.
Trackers(ts) == [k \in DOMAIN ts |-> [key |-> "tr", value |-> ts[k]]]

\* Trackers that are written are those that are read.
LEMMA TrackersAreSaid ==
  ASSUME NEW ts \in Seq(AnyValue)
  PROVE  /\ Trackers(ts) \in Seq(Param)
         /\ Link!ValuesIn(Trackers(ts))["tr"] = ts
         /\ \A k \in Link!Key : k # "tr" => Link!ValuesIn(Trackers(ts))[k] = <<>>
<1>. DEFINE Said(u) == /\ Trackers(u) \in Seq(Param)
                       /\ Link!ValuesIn(Trackers(u))["tr"] = u
                       /\ \A k \in Link!Key : k # "tr" => Link!ValuesIn(Trackers(u))[k] = <<>>
            T == {u \in Seq(AnyValue) : Said(u)}
<1>1. \A v \in AnyValue : [key |-> "tr", value |-> v] \in Param
  BY KeysAre DEF Param
<1>2. <<>> \in T
  <2>1. Trackers(<<>>) = <<>>
    <3>1. Trackers(<<>>) = [k \in {} |-> [key |-> "tr", value |-> <<>>[k]]]
      BY DEF Trackers
    <3>. QED BY <3>1
  <2>2. \A k \in Link!Key : Link!ValuesIn(<<>>)[k] = <<>>
    BY ValuesIsFold, Givens!FoldedEmpty DEF NoValues
  <2>3. <<>> \in Seq(Param) /\ <<>> \in Seq(AnyValue) /\ "tr" \in Link!Key
    BY EmptySeq, KeysAre
  <2>. QED BY <2>1, <2>2, <2>3, Zenon
<1>3. ASSUME NEW u \in Seq(AnyValue), NEW v \in AnyValue, u \in T PROVE Append(u, v) \in T
  <2>. DEFINE p == [key |-> "tr", value |-> v]
  <2>1. Said(u)
    BY <1>3
  <2>2. Trackers(Append(u, v)) = Append(Trackers(u), p)
    BY DEF Trackers
  <2>3. p \in Param /\ p.key = "tr" /\ p.value = v
    BY <1>1
  <2>. HIDE DEF p
  <2>4. Append(Trackers(u), p) \in Seq(Param) /\ Append(u, v) \in Seq(AnyValue)
    BY <2>1, <2>3, AppendProperties
  <2>5. \A k \in Link!Key : Link!ValuesIn(Append(Trackers(u), p))[k] =
                              IF "tr" = k THEN Append(Link!ValuesIn(Trackers(u))[k], v)
                              ELSE Link!ValuesIn(Trackers(u))[k]
    BY <2>1, <2>3, ValuesAppend
  <2>6. "tr" \in Link!Key
    BY KeysAre
  <2>7. Said(Append(u, v))
    BY <2>1, <2>2, <2>4, <2>5, <2>6, Zenon
  <2>. QED BY <2>4, <2>7
<1>. HIDE DEF T
<1>4. ts \in T
  BY <1>2, <1>3, AppendInduction
<1>. QED BY <1>4 DEF T

(***************************************************************************)
(* Trackers.                                                               *)
(***************************************************************************)

\* The operators WsTrackers and ResolveTrackers fold.
Spoken(ws, t) == IF t \in WsTracker THEN Append(ws, t) ELSE ws
Once(seen, t) == IF Link!Known(t, seen) THEN seen ELSE Append(seen, t)
Spokens == INSTANCE FoldFacts WITH Op <- Spoken
Onces == INSTANCE FoldFacts WITH Op <- Once

\* What its induction is on.
LEMMA OncesWellOrdered == Onces!WellOrdered
BY NatsAreWellOrdered DEF Onces!WellOrdered

\* The same.
LEMMA SpokensWellOrdered == Spokens!WellOrdered
BY NatsAreWellOrdered DEF Spokens!WellOrdered

\* WsTrackers keeps those with a WebSocket scheme.
LEMMA WsTrackersAre ==
  ASSUME NEW ts \in Seq(AnyValue)
  PROVE  Link!WsTrackers(ts) \in Seq(WsTracker)
<1>. DEFINE T == {u \in Seq(AnyValue) : Link!WsTrackers(u) \in Seq(WsTracker)}
<1>1. \A u : Link!WsTrackers(u) = Spokens!Folded(<<>>, u)
  BY DEF Link!WsTrackers, Link!FoldLeft, Link!MapThenFoldSet, Link!Max, Spokens!Folded,
         Spokens!MapThenFoldSet, Spokens!Largest, Spoken
<1>2. <<>> \in T
  <2>1. <<>> \in Seq(AnyValue) /\ <<>> \in Seq(WsTracker)
    BY EmptySeq
  <2>. QED BY <1>1, <2>1, Spokens!FoldedEmpty, Zenon
<1>3. ASSUME NEW u \in Seq(AnyValue), NEW t \in AnyValue, u \in T PROVE Append(u, t) \in T
  <2>1. Append(u, t) \in Seq(AnyValue)
    BY AppendProperties
  <2>2. Link!WsTrackers(Append(u, t)) = Spoken(Link!WsTrackers(u), t)
    BY <1>1, Spokens!FoldedAppend, SpokensWellOrdered
  <2>3. Link!WsTrackers(u) \in Seq(WsTracker)
    BY <1>3
  <2>4. Spoken(Link!WsTrackers(u), t) \in Seq(WsTracker)
    BY <2>3, AppendProperties DEF Spoken
  <2>. QED BY <2>1, <2>2, <2>4
<1>. HIDE DEF T
<1>4. ts \in T
  BY <1>2, <1>3, AppendInduction
<1>. QED BY <1>4 DEF T

\* Where an element is first named.
IsFirst(s, t, k) == k \in DOMAIN s /\ s[k] = t /\ \A m \in 1..k - 1 : s[m] # t

\* What is in a sequence is first named at one place.
LEMMA FirstIs ==
  ASSUME NEW S, NEW s \in Seq(S), NEW t \in ToSet(s)
  PROVE  /\ \E k : IsFirst(s, t, k)
         /\ \A j, k : IsFirst(s, t, j) /\ IsFirst(s, t, k) => j = k
<1>1. DOMAIN s = 1..Len(s) /\ Len(s) \in Nat
  BY LenProperties
<1>2. \E k : IsFirst(s, t, k)
  <2>. DEFINE K == {k \in DOMAIN s : s[k] = t}
  <2>1. K \subseteq Nat /\ K # {}
    BY <1>1 DEF ToSet
  <2>2. PICK k \in K : \A m \in K : k <= m
    <3>. HIDE DEF K
    <3>. QED BY <2>1, NatsAreWellOrdered, Zenon
  <2>3. ASSUME NEW m \in 1..k - 1 PROVE s[m] # t
    <3>1. k \in 1..Len(s)
      BY <1>1
    <3>2. m \in DOMAIN s /\ ~(k <= m)
      BY <1>1, <3>1
    <3>. QED BY <2>2, <3>2
  <2>. QED BY <2>3 DEF IsFirst
<1>3. ASSUME NEW j, NEW k, IsFirst(s, t, j), IsFirst(s, t, k) PROVE j = k
  <2>1. j \in 1..Len(s) /\ k \in 1..Len(s)
    BY <1>1, <1>3 DEF IsFirst
  <2>2. ~(j < k) /\ ~(k < j)
    <3>1. j < k => j \in 1..k - 1
      BY <1>1, <2>1
    <3>2. k < j => k \in 1..j - 1
      BY <1>1, <2>1
    <3>. QED BY <1>3, <3>1, <3>2 DEF IsFirst
  <2>. QED BY <1>1, <2>1, <2>2
<1>. QED BY <1>2, <1>3

\* The same elements, by where they are first named.
Orders(u, s) ==
  /\ ToSet(u) = ToSet(s)
  /\ \A k, m \in DOMAIN u : k < m =>
       \A a, b : IsFirst(s, u[k], a) /\ IsFirst(s, u[m], b) => a < b

\* Where the elements of a sequence are first named with one element more.
LEMMA FirstOfMore ==
  ASSUME NEW S, NEW s \in Seq(S), NEW t \in S, NEW x
  PROVE  /\ x \in ToSet(s) => \A k : IsFirst(Append(s, t), x, k) <=> IsFirst(s, x, k)
         /\ t \notin ToSet(s) => \A k : IsFirst(Append(s, t), t, k) => k = Len(s) + 1
<1>1. /\ DOMAIN s = 1..Len(s) /\ Len(s) \in Nat
      /\ DOMAIN Append(s, t) = 1..(Len(s) + 1)
      /\ \A k \in 1..Len(s) : Append(s, t)[k] = s[k]
      /\ Append(s, t)[Len(s) + 1] = t
  OBVIOUS
<1>. DEFINE n == Len(s)
            w == Append(s, t)
<1>. HIDE DEF n, w
<1>2. ASSUME x \in ToSet(s), NEW k, IsFirst(s, x, k) PROVE IsFirst(w, x, k)
  <2>1. k \in 1..n /\ s[k] = x /\ \A m \in 1..k - 1 : s[m] # x
    BY <1>1, <1>2 DEF IsFirst, n
  <2>2. \A m \in 1..k - 1 : m \in 1..n
    BY <1>1, <2>1 DEF n
  <2>. QED BY <1>1, <2>1, <2>2 DEF IsFirst, n, w
<1>3. ASSUME x \in ToSet(s), NEW k, IsFirst(w, x, k) PROVE IsFirst(s, x, k)
  <2>1. k \in 1..n + 1 /\ w[k] = x /\ \A m \in 1..k - 1 : w[m] # x
    BY <1>1, <1>3 DEF IsFirst, n, w
  <2>2. PICK j \in 1..n : s[j] = x
    BY <1>1, <1>3 DEF ToSet, n
  <2>3. w[j] = x
    BY <1>1, <2>2 DEF n, w
  <2>4. k \in 1..n
    <3>. SUFFICES ASSUME k = n + 1 PROVE FALSE
      BY <1>1, <2>1, SMTT(60) DEF n
    <3>1. j \in 1..k - 1
      BY <1>1, <2>2 DEF n
    <3>. QED BY <2>1, <2>3, <3>1
  <2>5. \A m \in 1..k - 1 : m \in 1..n
    BY <1>1, <2>4 DEF n
  <2>. QED BY <1>1, <2>1, <2>4, <2>5 DEF IsFirst, n, w
<1>4. ASSUME t \notin ToSet(s), NEW k, IsFirst(w, t, k) PROVE k = n + 1
  <2>1. k \in 1..n + 1 /\ w[k] = t
    BY <1>1, <1>4 DEF IsFirst, n, w
  <2>2. k \notin 1..n
    BY <1>1, <1>4, <2>1 DEF ToSet, n, w
  <2>. QED BY <1>1, <2>1, <2>2 DEF n
<1>. QED BY <1>2, <1>3, <1>4 DEF n, w

\* Each tracker is asked once, in the order of its first place.
LEMMA EachIsAskedOnce ==
  ASSUME NEW s \in Seq(WsTracker)
  PROVE  Orders(Onces!Folded(<<>>, s), s)
<1>. DEFINE Good(v) == LET u == Onces!Folded(<<>>, v) IN u \in Seq(WsTracker) /\ Orders(u, v)
            T == {v \in Seq(WsTracker) : Good(v)}
<1>1. <<>> \in T
  <2>1. <<>> \in Seq(WsTracker) /\ Onces!Folded(<<>>, <<>>) = <<>> /\ DOMAIN <<>> = {}
    BY EmptySeq, Onces!FoldedEmpty
  <2>. QED BY <2>1, Zenon DEF Orders
<1>2. ASSUME NEW v \in Seq(WsTracker), NEW t \in WsTracker, v \in T PROVE Append(v, t) \in T
  <2>. DEFINE u == Onces!Folded(<<>>, v)
              w == Append(v, t)
  <2>1. u \in Seq(WsTracker) /\ Orders(u, v)
    BY <1>2
  <2>2. Onces!Folded(<<>>, w) = Once(u, t)
    BY Onces!FoldedAppend, OncesWellOrdered
  <2>. HIDE DEF u
  <2>3. w \in Seq(WsTracker) /\ ToSet(w) = ToSet(v) \cup {t}
    <3>1. w \in Seq(WsTracker) /\ DOMAIN w = 1..(Len(v) + 1) /\ DOMAIN v = 1..Len(v) /\ Len(v) \in Nat
          /\ w[Len(v) + 1] = t /\ \A k \in 1..Len(v) : w[k] = v[k]
      OBVIOUS
    <3>2. 1..(Len(v) + 1) = 1..Len(v) \cup {Len(v) + 1}
      BY <3>1
    <3>. HIDE DEF w
    <3>. QED BY <3>1, <3>2 DEF ToSet
  <2>4. /\ DOMAIN u = 1..Len(u) /\ Len(u) \in Nat /\ DOMAIN v = 1..Len(v) /\ Len(v) \in Nat
    BY <2>1, LenProperties
  <2>5. \A k \in DOMAIN u : u[k] \in ToSet(v)
    BY <2>1, Zenon DEF Orders, ToSet
  <2>6. \A x \in ToSet(v) : \A k : IsFirst(w, x, k) <=> IsFirst(v, x, k)
    BY FirstOfMore
  <2>7. t \notin ToSet(v) => \A k : IsFirst(w, t, k) => k = Len(v) + 1
    BY FirstOfMore
  <2>8. Link!Known(t, u) <=> t \in ToSet(v)
    BY <2>1, Zenon DEF Link!Known, Link!ToSet, ToSet, Orders
  <2>. HIDE DEF w
  <2>9. CASE t \in ToSet(v)
    <3>1. Once(u, t) = u
      BY <2>8, <2>9 DEF Once
    <3>2. Orders(u, w)
      BY <2>1, <2>3, <2>5, <2>6, <2>9 DEF Orders
    <3>. QED BY <2>1, <2>2, <2>3, <3>1, <3>2 DEF w
  <2>10. CASE t \notin ToSet(v)
    <3>. DEFINE x == Append(u, t)
    <3>1. Once(u, t) = x
      BY <2>8, <2>10 DEF Once
    <3>2. /\ x \in Seq(WsTracker) /\ DOMAIN x = 1..(Len(u) + 1)
          /\ \A k \in 1..Len(u) : x[k] = u[k]
          /\ x[Len(u) + 1] = t
      BY <2>1
    <3>. HIDE DEF x
    <3>3. ToSet(x) = ToSet(w)
      <4>1. 1..(Len(u) + 1) = 1..Len(u) \cup {Len(u) + 1}
        BY <2>4
      <4>2. ToSet(x) = ToSet(u) \cup {t}
        BY <2>4, <3>2, <4>1, SMTT(60) DEF ToSet
      <4>. QED BY <2>1, <2>3, <4>2 DEF Orders
    <3>4. ASSUME NEW k \in DOMAIN x, NEW m \in DOMAIN x, k < m, NEW a, NEW b,
                 IsFirst(w, x[k], a), IsFirst(w, x[m], b)
          PROVE  a < b
      <4>1. k \in 1..Len(u)
        BY <2>4, <3>2, <3>4
      <4>2. x[k] = u[k] /\ u[k] \in ToSet(v) /\ IsFirst(v, u[k], a)
        BY <2>4, <2>5, <2>6, <3>2, <3>4, <4>1
      <4>3. CASE m \in 1..Len(u)
        <5>1. x[m] = u[m] /\ IsFirst(v, u[m], b)
          BY <2>4, <2>5, <2>6, <3>2, <3>4, <4>3
        <5>. QED BY <2>1, <2>4, <3>4, <4>1, <4>2, <4>3, <5>1 DEF Orders
      <4>4. CASE m = Len(u) + 1
        <5>1. b = Len(v) + 1
          BY <2>7, <2>10, <3>2, <3>4, <4>4
        <5>2. a \in 1..Len(v)
          BY <2>4, <4>2 DEF IsFirst
        <5>. QED BY <2>4, <5>1, <5>2
      <4>. QED BY <2>4, <3>2, <4>3, <4>4
    <3>5. Orders(x, w)
      BY <3>3, <3>4 DEF Orders
    <3>. QED BY <2>2, <2>3, <3>1, <3>2, <3>5 DEF w
  <2>. QED BY <2>9, <2>10
<1>. HIDE DEF T
<1>3. s \in T
  BY <1>1, <1>2, AppendInduction
<1>. QED BY <1>3 DEF T

(***************************************************************************)
(* The reading of a link.                                                  *)
(***************************************************************************)

\* What a key is given, and a sequence with one element more.
Of(params, key) == Link!ValuesIn(params)[key]
Ended(s, e) == Append(s, e)
Text == Seq(Nat)

\* The next parameter goes from what is to be read to what was read.
LEMMA OneMoreRead ==
  ASSUME NEW S, NEW done \in Seq(S), NEW todo \in Seq(S), todo # <<>>
  PROVE  /\ Head(todo) \in S /\ Tail(todo) \in Seq(S) /\ Ended(done, Head(todo)) \in Seq(S)
         /\ \A u : u = Ended(done, Head(todo)) => done \o todo = u \o Tail(todo)
<1>1. done \o todo = Append(done, Head(todo)) \o Tail(todo)
  BY SMTT(60)
<1>2. Head(todo) \in S /\ Tail(todo) \in Seq(S) /\ Append(done, Head(todo)) \in Seq(S)
  OBVIOUS
<1>. QED BY <1>1, <1>2, Zenon DEF Ended

\* The last of a sequence, and what is in it.
LEMMA LastIs ==
  ASSUME NEW S, NEW s \in Seq(S), NEW e \in S
  PROVE  /\ Link!LastOf(<<>>) = {} /\ Link!LastOf(Ended(s, e)) = {e}
         /\ Ended(s, e) # <<>> /\ Ended(s, e) \in Seq(S)
         /\ Link!Last(Ended(s, e)) = e
         /\ s # <<>> => Link!Last(s) \in ToSet(s) /\ Link!Last(s) \in S /\ Link!LastOf(s) = {Link!Last(s)}
<1>1. /\ Append(s, e) # <<>> /\ Append(s, e) \in Seq(S)
      /\ DOMAIN Append(s, e) = 1..(Len(s) + 1) /\ Len(Append(s, e)) = Len(s) + 1
      /\ Append(s, e)[Len(s) + 1] = e /\ Len(s) \in Nat /\ DOMAIN s = 1..Len(s)
      /\ \A k \in 1..Len(s) : Append(s, e)[k] = s[k]
  OBVIOUS
<1>3. Link!Last(Append(s, e)) = e
  BY <1>1 DEF Link!Last
<1>4. s # <<>> => Len(s) \in DOMAIN s /\ s[Len(s)] \in S
  OBVIOUS
<1>. QED BY <1>1, <1>3, <1>4 DEF Link!LastOf, Link!Last, Ended, ToSet

\* What is in a sequence with one element more.
LEMMA InEnded ==
  ASSUME NEW S, NEW s \in Seq(S), NEW e \in S
  PROVE  ToSet(Ended(s, e)) = ToSet(s) \cup {e}
<1>1. /\ DOMAIN Append(s, e) = 1..(Len(s) + 1) /\ Append(s, e)[Len(s) + 1] = e
      /\ Len(s) \in Nat /\ DOMAIN s = 1..Len(s)
      /\ \A k \in 1..Len(s) : Append(s, e)[k] = s[k]
  OBVIOUS
<1>2. 1..(Len(s) + 1) = 1..Len(s) \cup {Len(s) + 1}
  BY <1>1
<1>. QED BY <1>1, <1>2 DEF ToSet, Ended

\* What has been read of the link is what the variables hold.
Means(done, hash, label, asked) ==
  /\ \A text \in ToSet(Of(done, "btih")) : Link!WellFormed(text)
  /\ hash = IF Of(done, "btih") = <<>> THEN {}
            ELSE Link!DecodeInfoHash(Link!Last(Of(done, "btih")))
  /\ label = Link!LastOf(Of(done, "dn"))
  /\ asked = Of(done, "tr")

\* Two links mean the same.
Same(all, other) ==
  /\ Of(all, "btih") # <<>> /\ Of(other, "btih") # <<>>
  /\ \A text \in ToSet(Of(all, "btih")) \cup ToSet(Of(other, "btih")) : Link!WellFormed(text)
  /\ Link!InfoHashNumber(Link!Last(Of(all, "btih"))) = Link!InfoHashNumber(Link!Last(Of(other, "btih")))
  /\ Link!LastOf(Of(all, "dn")) = Link!LastOf(Of(other, "dn"))
  /\ Of(all, "tr") = Of(other, "tr")

\* Of what is read, done has been; what came of it.
Progress(all, done, todo, verdict0, hash, label, asked) ==
  /\ all = done \o todo
  /\ IF verdict0 = "InvalidInfoHash"
     THEN \E text \in ToSet(Of(all, "btih")) : ~Link!WellFormed(text)
     ELSE Means(done, hash, label, asked)
  /\ verdict0 \in {"parsed", "MissingInfoHash"} => todo = <<>>
  /\ verdict0 = "parsed" => hash # {}
  /\ verdict0 = "MissingInfoHash" => hash = {}

\* The trackers that are asked for a link.
AskedOf(params) == Onces!Folded(<<>>, Link!WsTrackers(Of(params, "tr")) \o DefaultTrackers)

\* The link, or the one that was written of it, is read; its trackers are asked
\* when it has been.
LinkInv ==
  /\ link \in Seq(Param) /\ rest \in Seq(Param)
  /\ outcome \in {"reading", "parsed", "InvalidInfoHash", "MissingInfoHash"}
  /\ \E all, done \in Seq(Param) :
       /\ Progress(all, done, rest, outcome, infoHash, displayName, trackers)
       /\ IF shared THEN Same(all, link) ELSE all = link
  /\ urls = <<>> \/ urls = AskedOf(link)

\* What the keys are given of what has been read.
LEMMA OfIs ==
  ASSUME NEW done \in Seq(Param)
  PROVE  /\ Of(done, "btih") \in Seq(Seq(Nat)) /\ Of(done, "dn") \in Seq(AnyValue)
         /\ Of(done, "tr") \in Seq(AnyValue)
<1>1. "dn" \in Link!Key /\ "tr" \in Link!Key
  BY KeysAre
<1>2. Link!ValuesIn(done) \in [Link!Key -> Seq(AnyValue)] /\ Link!ValuesIn(done)["btih"] \in Seq(Seq(Nat))
  BY ValuesOfAll
<1>. QED BY <1>1, <1>2 DEF Of

\* What is meant of the hash, once one has been read.
LEMMA HashIsMeant ==
  ASSUME NEW done \in Seq(Param), NEW hash, NEW label, NEW asked, Means(done, hash, label, asked)
  PROVE  /\ hash = {} <=> Of(done, "btih") = <<>>
         /\ Of(done, "btih") # <<>> =>
              \E h \in Hash : /\ hash = {h}
                              /\ Link!ValueOf(h, Link!ByteBits) =
                                   Link!InfoHashNumber(Link!Last(Of(done, "btih")))
<1>. DEFINE s == Of(done, "btih")
            t == Link!Last(s)
<1>1. s \in Seq(Seq(Nat))
  BY OfIs
<1>2. /\ \A text \in ToSet(s) : Link!WellFormed(text)
      /\ hash = IF s = <<>> THEN {} ELSE Link!DecodeInfoHash(t)
  BY DEF Means
<1>. HIDE DEF s
<1>3. ASSUME s # <<>>
      PROVE  \E h \in Hash : hash = {h} /\ Link!ValueOf(h, Link!ByteBits) = Link!InfoHashNumber(t)
  <2>1. s[Len(s)] \in Seq(Nat) /\ Len(s) \in DOMAIN s
    <3>1. Len(s) \in 1..Len(s) /\ DOMAIN s = 1..Len(s)
      <4>1. Len(s) \in Nat /\ Len(s) # 0 /\ DOMAIN s = 1..Len(s)
        BY <1>1, <1>3, LenProperties, EmptySeq
      <4>. QED BY <4>1
    <3>. QED BY <1>1, <3>1, ElementOfSeq
  <2>2. t \in Seq(Nat) /\ t \in ToSet(s)
    BY <2>1 DEF Link!Last, ToSet
  <2>. HIDE DEF t
  <2>3. Link!WellFormed(t) /\ hash = Link!DecodeInfoHash(t)
    BY <1>2, <1>3, <2>2 DEF t
  <2>. QED BY <2>2, <2>3, InfoHashIsDecoded
<1>4. s = <<>> => hash = {}
  BY <1>2
<1>. QED BY <1>3, <1>4, Zenon DEF s

\* What a key is given of what has been read, with one parameter more.
LEMMA OfEnded ==
  ASSUME NEW done \in Seq(Param), NEW p \in Param
  PROVE  /\ Of(Ended(done, p), "btih") =
              IF p.key = "btih" THEN Ended(Of(done, "btih"), p.value) ELSE Of(done, "btih")
         /\ Of(Ended(done, p), "dn") =
              IF p.key = "dn" THEN Ended(Of(done, "dn"), p.value) ELSE Of(done, "dn")
         /\ Of(Ended(done, p), "tr") =
              IF p.key = "tr" THEN Ended(Of(done, "tr"), p.value) ELSE Of(done, "tr")
         /\ p.value \in AnyValue /\ (p.key = "btih" => p.value \in Seq(Nat))
<1>1. "btih" \in Link!Key /\ "dn" \in Link!Key /\ "tr" \in Link!Key
  BY KeysAre
<1>2. p.value \in AnyValue /\ (p.key = "btih" => p.value \in Seq(Nat))
  BY DEF Param
<1>. QED BY <1>1, <1>2, ValuesAppend DEF Of, Ended

\* One parameter more, of each kind.
LEMMA OneMoreMeans ==
  ASSUME NEW done \in Seq(Param), NEW p \in Param,
         NEW hash, NEW label, NEW asked, Means(done, hash, label, asked)
  PROVE  /\ p.key = "btih" /\ Link!WellFormed(p.value) =>
              Means(Ended(done, p), Link!DecodeInfoHash(p.value), label, asked)
         /\ p.key = "dn" => Means(Ended(done, p), hash, {p.value}, asked)
         /\ p.key = "tr" => Means(Ended(done, p), hash, label, Append(asked, p.value))
         /\ p.key = "other" => Means(Ended(done, p), hash, label, asked)
<1>. DEFINE w == Ended(done, p)
            b == Of(done, "btih")
            d == Of(done, "dn")
            t == Of(done, "tr")
            v == p.value
<1>1. b \in Seq(Seq(Nat)) /\ d \in Seq(AnyValue) /\ t \in Seq(AnyValue)
  BY OfIs
<1>2. /\ Of(w, "btih") = IF p.key = "btih" THEN Ended(b, v) ELSE b
      /\ Of(w, "dn") = IF p.key = "dn" THEN Ended(d, v) ELSE d
      /\ Of(w, "tr") = IF p.key = "tr" THEN Ended(t, v) ELSE t
      /\ v \in AnyValue /\ (p.key = "btih" => v \in Seq(Nat))
  BY OfEnded
<1>3. /\ \A text \in ToSet(b) : Link!WellFormed(text)
      /\ hash = IF b = <<>> THEN {} ELSE Link!DecodeInfoHash(Link!Last(b))
      /\ label = Link!LastOf(d) /\ asked = t
  BY DEF Means
<1>. HIDE DEF w, b, d, t, v
<1>4. ASSUME p.key = "btih", Link!WellFormed(v)
      PROVE  Means(w, Link!DecodeInfoHash(v), label, asked)
  <2>1. Of(w, "btih") = Ended(b, v) /\ Of(w, "dn") = d /\ Of(w, "tr") = t
    BY <1>2, <1>4
  <2>2. Ended(b, v) # <<>> /\ Link!Last(Ended(b, v)) = v /\ ToSet(Ended(b, v)) = ToSet(b) \cup {v}
    <3>1. b \in Seq(Text) /\ v \in Text
      BY <1>1, <1>2, <1>4 DEF Text
    <3>2. Ended(b, v) # <<>> /\ Link!Last(Ended(b, v)) = v
      BY <3>1, LastIs
    <3>3. ToSet(Ended(b, v)) = ToSet(b) \cup {v}
      BY <3>1, InEnded
    <3>. QED BY <3>2, <3>3
  <2>. QED BY <1>3, <1>4, <2>1, <2>2 DEF Means
<1>5. ASSUME p.key = "dn" PROVE Means(w, hash, {v}, asked)
  <2>1. Of(w, "btih") = b /\ Of(w, "dn") = Ended(d, v) /\ Of(w, "tr") = t
    BY <1>2, <1>5
  <2>2. Link!LastOf(Ended(d, v)) = {v}
    BY <1>1, <1>2, LastIs
  <2>. QED BY <1>3, <2>1, <2>2, Zenon DEF Means
<1>6. ASSUME p.key = "tr" PROVE Means(w, hash, label, Append(asked, v))
  <2>1. Of(w, "btih") = b /\ Of(w, "dn") = d /\ Of(w, "tr") = Append(t, v)
    BY <1>2, <1>6 DEF Ended
  <2>. QED BY <1>3, <2>1, Zenon DEF Means
<1>7. ASSUME p.key = "other" PROVE Means(w, hash, label, asked)
  <2>1. Of(w, "btih") = b /\ Of(w, "dn") = d /\ Of(w, "tr") = t
    BY <1>2, <1>7
  <2>. QED BY <1>3, <2>1, Zenon DEF Means
<1>. QED BY <1>4, <1>5, <1>6, <1>7 DEF w, v

\* A text that cannot be decoded is one of the link's.
LEMMA BadTextIsSaid ==
  ASSUME NEW done \in Seq(Param), NEW todo \in Seq(Param), NEW p \in Param, p.key = "btih"
  PROVE  p.value \in ToSet(Of(Ended(done, p) \o todo, "btih"))
<1>. DEFINE w == Ended(done, p)
            a == Of(w, "btih")
            c == Of(todo, "btih")
<1>1. w \in Seq(Param)
  BY LastIs
<1>2. Of(w \o todo, "btih") = a \o c
  <2>1. "btih" \in Link!Key
    BY KeysAre
  <2>. HIDE DEF w
  <2>. QED BY <1>1, <2>1, ValuesConcat, Zenon DEF Of
<1>3. a \in Seq(Seq(Nat)) /\ c \in Seq(Seq(Nat)) /\ Of(done, "btih") \in Seq(Seq(Nat))
  BY <1>1, OfIs
<1>4. a = Ended(Of(done, "btih"), p.value) /\ p.value \in Seq(Nat)
  BY OfEnded
<1>5. p.value \in ToSet(a)
  <2>1. Of(done, "btih") \in Seq(Text) /\ p.value \in Text
    BY <1>3, <1>4 DEF Text
  <2>2. ToSet(Ended(Of(done, "btih"), p.value)) = ToSet(Of(done, "btih")) \cup {p.value}
    BY <2>1, InEnded
  <2>. QED BY <1>4, <2>2
<1>. HIDE DEF w, a, c
<1>6. ToSet(a) \subseteq ToSet(a \o c)
  <2>. SUFFICES ASSUME NEW k \in DOMAIN a PROVE a[k] \in ToSet(a \o c)
    BY DEF ToSet
  <2>1. /\ k \in 1..Len(a) /\ Len(a) \in Nat /\ Len(c) \in Nat
        /\ Len(a \o c) = Len(a) + Len(c) /\ a \o c \in Seq(Seq(Nat))
        /\ \A m \in 1..Len(a) + Len(c) : (a \o c)[m] = IF m <= Len(a) THEN a[m] ELSE c[m - Len(a)]
    BY <1>3, LenProperties, ConcatProperties
  <2>2. k \in 1..Len(a) + Len(c) /\ k <= Len(a)
    BY <2>1
  <2>3. DOMAIN (a \o c) = 1..Len(a) + Len(c)
    BY <2>1, LenProperties, SMTT(60)
  <2>4. (a \o c)[k] = a[k]
    BY <2>1, <2>2
  <2>. QED BY <2>2, <2>3, <2>4 DEF ToSet
<1>. QED BY <1>2, <1>5, <1>6, Zenon DEF w

\* Reading one parameter.
LEMMA ReadKeepsProgress ==
  ASSUME NEW all \in Seq(Param), NEW done \in Seq(Param), NEW hash, NEW label, NEW asked,
         Progress(all, done, rest, "reading", hash, label, asked),
         rest \in Seq(Param), rest # <<>>
  PROVE  LET p == Head(rest)
         IN /\ p \in Param /\ Tail(rest) \in Seq(Param) /\ Ended(done, p) \in Seq(Param)
            /\ all = Ended(done, p) \o Tail(rest)
            /\ Means(done, hash, label, asked)
<1>1. all = done \o rest /\ Means(done, hash, label, asked)
  BY DEF Progress
<1>2. /\ Head(rest) \in Param /\ Tail(rest) \in Seq(Param) /\ Ended(done, Head(rest)) \in Seq(Param)
      /\ done \o rest = Ended(done, Head(rest)) \o Tail(rest)
  BY OneMoreRead, Zenon
<1>. QED BY <1>1, <1>2

\* Reading a parameter of a kind keeps what was read of any link and its meaning
\* together: a refused text is one of the link's, any other is meant.
Gathers(key, verdict0, hash, label, asked) ==
  \A all, done \in Seq(Param) :
    /\ Head(rest) \in Param /\ Head(rest).key = key /\ Tail(rest) \in Seq(Param)
    /\ all = Ended(done, Head(rest)) \o Tail(rest)
    /\ Means(done, infoHash, displayName, trackers)
    => IF verdict0 = "InvalidInfoHash"
       THEN \E text \in ToSet(Of(all, "btih")) : ~Link!WellFormed(text)
       ELSE Means(Ended(done, Head(rest)), hash, label, asked)

\* Such a reading keeps the invariant.
LEMMA ReadKeepsLink ==
  ASSUME LinkInv, NEW key, Link!Reading(key),
         outcome' \in {"reading", "InvalidInfoHash"},
         Gathers(key, outcome', infoHash', displayName', trackers')
  PROVE  LinkInv'
<1>. DEFINE verdict0 == outcome'
            hash == infoHash'
            label == displayName'
            asked == trackers'
<1>1. /\ outcome = "reading" /\ rest # <<>> /\ Head(rest).key = key /\ rest' = Tail(rest)
      /\ link' = link /\ shared' = shared /\ urls' = urls
  BY DEF Link!Reading
<1>2. PICK all \in Seq(Param), done \in Seq(Param) :
        /\ Progress(all, done, rest, "reading", infoHash, displayName, trackers)
        /\ IF shared THEN Same(all, link) ELSE all = link
  BY <1>1, Zenon DEF LinkInv
<1>3. rest \in Seq(Param) /\ link \in Seq(Param) /\ (urls = <<>> \/ urls = AskedOf(link))
  BY Zenon DEF LinkInv
<1>. DEFINE w == Ended(done, Head(rest))
<1>4. /\ Head(rest) \in Param /\ Tail(rest) \in Seq(Param) /\ w \in Seq(Param)
      /\ all = w \o Tail(rest) /\ Means(done, infoHash, displayName, trackers)
  BY <1>1, <1>2, <1>3, ReadKeepsProgress
<1>5. IF verdict0 = "InvalidInfoHash"
      THEN \E text \in ToSet(Of(all, "btih")) : ~Link!WellFormed(text)
      ELSE Means(w, hash, label, asked)
  BY <1>1, <1>4, Zenon DEF Gathers
<1>6. Progress(all, w, Tail(rest), verdict0, hash, label, asked)
  <2>1. verdict0 \notin {"parsed", "MissingInfoHash"} /\ verdict0 # "parsed" /\ verdict0 # "MissingInfoHash"
    OBVIOUS
  <2>. QED BY <1>4, <1>5, <2>1, Zenon DEF Progress
<1>. HIDE DEF w
<1>7. \E all1, done1 \in Seq(Param) :
        /\ Progress(all1, done1, rest', outcome', infoHash', displayName', trackers')
        /\ IF shared' THEN Same(all1, link') ELSE all1 = link'
  BY <1>1, <1>2, <1>4, <1>6, Zenon
<1>8. link' \in Seq(Param) /\ rest' \in Seq(Param)
  BY <1>1, <1>3, <1>4
<1>9. outcome' \in {"reading", "parsed", "InvalidInfoHash", "MissingInfoHash"}
  OBVIOUS
<1>10. urls' = <<>> \/ urls' = AskedOf(link')
  BY <1>1, <1>3, Zenon
<1>. QED BY <1>7, <1>8, <1>9, <1>10, Zenon DEF LinkInv

\* The links are sequences of parameters.
LEMMA LinksAreParams ==
  ASSUME NEW params \in Links
  PROVE  params \in Seq(Param)
<1>1. params \in Seq(ToSet(params))
  BY LinkAssumption
<1>2. \A p \in ToSet(params) : p \in Param
  <2>. SUFFICES ASSUME NEW p \in ToSet(params) PROVE p \in Param
    OBVIOUS
  <2>1. /\ p = [key |-> p.key, value |-> p.value] /\ p.key \in Link!Key
        /\ p.key = "btih" => p.value \in Seq(Nat)
    BY LinkAssumption
  <2>2. p.value \in AnyValue
    BY DEF AnyValue
  <2>3. p \in [key : Link!Key, value : AnyValue]
    BY <2>1, <2>2
  <2>. QED BY <2>1, <2>3 DEF Param
<1>. HIDE DEF Param
<1>. QED BY <1>1, <1>2, SeqMonotonic

\* Nothing is given by no parameters.
LEMMA NothingIsSaid == Of(<<>>, "btih") = <<>> /\ Of(<<>>, "dn") = <<>> /\ Of(<<>>, "tr") = <<>>
BY ValuesIsFold, Givens!FoldedEmpty, KeysAre DEF Of, NoValues

\* Before anything is read.
LEMMA NothingIsMeant == Means(<<>>, {}, {}, <<>>)
BY NothingIsSaid DEF Means, Link!LastOf, ToSet

\* A link that is to be read.
LEMMA StartOfReading ==
  ASSUME NEW all \in Seq(Param)
  PROVE  Progress(all, <<>>, all, "reading", {}, {}, <<>>) /\ <<>> \in Seq(Param)
<1>1. <<>> \in Seq(Param) /\ <<>> \o all = all
  BY EmptySeq, ConcatEmptySeq
<1>. QED BY <1>1, NothingIsMeant DEF Progress

\* At the start the link is to be read.
LEMMA LinkStart == Link!Init => LinkInv
<1>. SUFFICES ASSUME Link!Init PROVE LinkInv
  OBVIOUS
<1>1. /\ link \in Links /\ rest = link /\ outcome = "reading"
      /\ infoHash = {} /\ displayName = {} /\ trackers = <<>> /\ shared = FALSE /\ urls = <<>>
  BY DEF Link!Init
<1>2. link \in Seq(Param)
  BY <1>1, LinksAreParams
<1>3. Progress(link, <<>>, rest, outcome, infoHash, displayName, trackers) /\ <<>> \in Seq(Param)
  <2>1. Progress(link, <<>>, link, "reading", {}, {}, <<>>) /\ <<>> \in Seq(Param)
    BY <1>2, StartOfReading
  <2>. QED BY <1>1, <2>1
<1>4. ~shared
  BY <1>1
<1>5. \E all, done \in Seq(Param) :
        /\ Progress(all, done, rest, outcome, infoHash, displayName, trackers)
        /\ IF shared THEN Same(all, link) ELSE all = link
  BY <1>2, <1>3, <1>4, Zenon
<1>. QED BY <1>1, <1>2, <1>5 DEF LinkInv

\* An info hash that is decoded is the one that is written; the text of one that
\* is not is no text of digits.
LEMMA ReadInfoHashStep == LinkInv /\ Link!ReadInfoHash => LinkInv'
<1>. SUFFICES ASSUME LinkInv, Link!ReadInfoHash PROVE LinkInv'
  OBVIOUS
<1>. DEFINE p == Head(rest)
            hash == Link!DecodeInfoHash(p.value)
<1>1. /\ Link!Reading("btih") /\ outcome = "reading" /\ displayName' = displayName /\ trackers' = trackers
      /\ IF hash = {} THEN outcome' = "InvalidInfoHash" /\ infoHash' = infoHash
         ELSE infoHash' = hash /\ outcome' = outcome
  BY DEF Link!ReadInfoHash, Link!Reading
<1>2. ASSUME NEW all \in Seq(Param), NEW done \in Seq(Param),
             p \in Param, p.key = "btih", Tail(rest) \in Seq(Param),
             all = Ended(done, p) \o Tail(rest),
             Means(done, infoHash, displayName, trackers)
      PROVE  IF hash = {} THEN \E text \in ToSet(Of(all, "btih")) : ~Link!WellFormed(text)
             ELSE Means(Ended(done, p), hash, displayName, trackers)
  <2>1. p.value \in Seq(Nat) /\ p.value \in ToSet(Of(all, "btih"))
    <3>1. p.value \in Seq(Nat)
      BY <1>2, OfEnded
    <3>. HIDE DEF p
    <3>2. p.value \in ToSet(Of(Ended(done, p) \o Tail(rest), "btih"))
      BY <1>2, BadTextIsSaid, Zenon
    <3>. QED BY <1>2, <3>1, <3>2
  <2>2. hash = {} <=> ~Link!WellFormed(p.value)
    BY <2>1, InfoHashIsDecoded, Zenon
  <2>3. Link!WellFormed(p.value) => Means(Ended(done, p), hash, displayName, trackers)
    BY <1>2, OneMoreMeans, Zenon
  <2>. HIDE DEF p, hash
  <2>. QED BY <2>1, <2>2, <2>3
<1>. HIDE DEF p, hash
<1>3. CASE hash = {}
  <2>1. outcome' = "InvalidInfoHash"
    BY <1>1, <1>3
  <2>2. Gathers("btih", outcome', infoHash', displayName', trackers')
    BY <1>2, <1>3, <2>1, Zenon DEF p, Gathers
  <2>. QED BY <1>1, <2>1, <2>2, ReadKeepsLink
<1>4. CASE hash # {}
  <2>1. outcome' = "reading" /\ infoHash' = hash
    BY <1>1, <1>4
  <2>2. Gathers("btih", outcome', infoHash', displayName', trackers')
    BY <1>1, <1>2, <1>4, <2>1, Zenon DEF p, Gathers
  <2>. QED BY <1>1, <2>1, <2>2, ReadKeepsLink
<1>. QED BY <1>3, <1>4

\* A name, a tracker and any other parameter.
LEMMA ReadNameStep == LinkInv /\ (Link!ReadName \/ Link!ReadTracker \/ Link!ReadOther) => LinkInv'
<1>. SUFFICES ASSUME LinkInv, Link!ReadName \/ Link!ReadTracker \/ Link!ReadOther PROVE LinkInv'
  OBVIOUS
<1>1. CASE Link!ReadName
  <2>1. /\ Link!Reading("dn") /\ outcome' = "reading" /\ displayName' = {Head(rest).value}
        /\ trackers' = trackers /\ infoHash' = infoHash
    BY <1>1 DEF Link!ReadName, Link!Reading
  <2>2. Gathers("dn", outcome', infoHash', displayName', trackers')
    BY <2>1, OneMoreMeans, Zenon DEF Gathers
  <2>. QED BY <2>1, <2>2, ReadKeepsLink
<1>2. CASE Link!ReadTracker
  <2>1. /\ Link!Reading("tr") /\ outcome' = "reading" /\ displayName' = displayName
        /\ trackers' = Append(trackers, Head(rest).value) /\ infoHash' = infoHash
    BY <1>2 DEF Link!ReadTracker, Link!Reading
  <2>2. Gathers("tr", outcome', infoHash', displayName', trackers')
    BY <2>1, OneMoreMeans, Zenon DEF Gathers
  <2>. QED BY <2>1, <2>2, ReadKeepsLink
<1>3. CASE Link!ReadOther
  <2>1. /\ Link!Reading("other") /\ outcome' = "reading" /\ displayName' = displayName
        /\ trackers' = trackers /\ infoHash' = infoHash
    BY <1>3 DEF Link!ReadOther, Link!Reading
  <2>2. Gathers("other", outcome', infoHash', displayName', trackers')
    BY <2>1, OneMoreMeans, Zenon DEF Gathers
  <2>. QED BY <2>1, <2>2, ReadKeepsLink
<1>. QED BY <1>1, <1>2, <1>3

\* When all is read, the variables hold what the link, or what was written of
\* it, means.
LEMMA AllIsRead ==
  ASSUME LinkInv, outcome # "InvalidInfoHash", rest = <<>>
  PROVE  \E all \in Seq(Param) :
           /\ Means(all, infoHash, displayName, trackers)
           /\ IF shared THEN Same(all, link) ELSE all = link
<1>1. PICK all \in Seq(Param), done \in Seq(Param) :
        /\ Progress(all, done, rest, outcome, infoHash, displayName, trackers)
        /\ IF shared THEN Same(all, link) ELSE all = link
  BY Zenon DEF LinkInv
<1>2. all = done \o <<>> /\ Means(done, infoHash, displayName, trackers)
  BY <1>1 DEF Progress
<1>3. all = done
  BY <1>2, ConcatEmptySeq
<1>. QED BY <1>1, <1>2, <1>3, Zenon

\* What is known of each outcome.
LEMMA OutcomeIs ==
  ASSUME LinkInv
  PROVE  /\ outcome \in {"parsed", "MissingInfoHash"} => rest = <<>>
         /\ outcome = "parsed" => infoHash # {}
         /\ outcome = "MissingInfoHash" => infoHash = {}
         /\ outcome = "InvalidInfoHash" =>
              \E all \in Seq(Param) :
                /\ \E text \in ToSet(Of(all, "btih")) : ~Link!WellFormed(text)
                /\ IF shared THEN Same(all, link) ELSE all = link
<1>1. PICK all \in Seq(Param), done \in Seq(Param) :
        /\ Progress(all, done, rest, outcome, infoHash, displayName, trackers)
        /\ IF shared THEN Same(all, link) ELSE all = link
  BY Zenon DEF LinkInv
<1>2. outcome = "InvalidInfoHash" => \E text \in ToSet(Of(all, "btih")) : ~Link!WellFormed(text)
  BY <1>1 DEF Progress
<1>3. /\ outcome \in {"parsed", "MissingInfoHash"} => rest = <<>>
      /\ outcome = "parsed" => infoHash # {}
      /\ outcome = "MissingInfoHash" => infoHash = {}
  BY <1>1, Zenon DEF Progress
<1>. QED BY <1>1, <1>2, <1>3, Zenon

\* With nothing left to read, the link is parsed if it had an info hash.
LEMMA ReadAllStep == LinkInv /\ Link!ReadAll => LinkInv'
<1>. SUFFICES ASSUME LinkInv, Link!ReadAll PROVE LinkInv'
  OBVIOUS
<1>1. /\ outcome = "reading" /\ rest = <<>>
      /\ outcome' = IF infoHash = {} THEN "MissingInfoHash" ELSE "parsed"
      /\ link' = link /\ rest' = <<>> /\ infoHash' = infoHash /\ displayName' = displayName
      /\ trackers' = trackers /\ shared' = shared /\ urls' = urls
  BY DEF Link!ReadAll
<1>2. PICK all \in Seq(Param) :
        /\ Means(all, infoHash, displayName, trackers)
        /\ IF shared THEN Same(all, link) ELSE all = link
  BY <1>1, AllIsRead
<1>3. all = all \o <<>> /\ <<>> \in Seq(Param)
  BY ConcatEmptySeq, EmptySeq, SMTT(60)
<1>4. /\ outcome' # "InvalidInfoHash"
      /\ outcome' = "parsed" => infoHash # {}
      /\ outcome' = "MissingInfoHash" => infoHash = {}
      /\ outcome' \in {"reading", "parsed", "InvalidInfoHash", "MissingInfoHash"}
  BY <1>1
<1>5. Progress(all, all, <<>>, outcome', infoHash, displayName, trackers)
  BY <1>2, <1>3, <1>4, Zenon DEF Progress
<1>6. \E all1, done1 \in Seq(Param) :
        /\ Progress(all1, done1, rest', outcome', infoHash', displayName', trackers')
        /\ IF shared' THEN Same(all1, link') ELSE all1 = link'
  BY <1>1, <1>2, <1>5, Zenon
<1>7. link \in Seq(Param) /\ (urls = <<>> \/ urls = AskedOf(link))
  BY Zenon DEF LinkInv
<1>. QED BY <1>1, <1>3, <1>4, <1>6, <1>7, Zenon DEF LinkInv

\* The trackers of a link that was parsed are those it names.
LEMMA TrackersAreAsked ==
  ASSUME LinkInv, outcome = "parsed"
  PROVE  Link!ResolveTrackers = AskedOf(link)
<1>1. trackers = Of(link, "tr")
  <2>1. PICK all \in Seq(Param) :
          /\ Means(all, infoHash, displayName, trackers)
          /\ IF shared THEN Same(all, link) ELSE all = link
    BY OutcomeIs, AllIsRead
  <2>2. trackers = Of(all, "tr")
    BY <2>1 DEF Means
  <2>3. Of(all, "tr") = Of(link, "tr")
    BY <2>1 DEF Same
  <2>. QED BY <2>2, <2>3
<1>2. Link!ResolveTrackers = Onces!Folded(<<>>, Link!WsTrackers(trackers) \o DefaultTrackers)
  BY DEF Link!ResolveTrackers, Link!FoldLeft, Link!MapThenFoldSet, Link!Max, Onces!Folded,
         Onces!MapThenFoldSet, Onces!Largest, Once
<1>. QED BY <1>1, <1>2 DEF AskedOf

\* The trackers are asked.
LEMMA FetchStep == LinkInv /\ Link!FetchMetadata => LinkInv'
<1>. SUFFICES ASSUME LinkInv, Link!FetchMetadata PROVE LinkInv'
  OBVIOUS
<1>1. /\ outcome = "parsed" /\ urls' = Link!ResolveTrackers
      /\ link' = link /\ rest' = rest /\ infoHash' = infoHash /\ displayName' = displayName
      /\ trackers' = trackers /\ outcome' = outcome /\ shared' = shared
  BY DEF Link!FetchMetadata
<1>2. urls' = AskedOf(link)
  BY <1>1, TrackersAreAsked
<1>. QED BY <1>1, <1>2, Zenon DEF LinkInv

\* What one parameter says.
LEMMA OneIsSaid ==
  ASSUME NEW p \in Param, NEW k \in Link!Key
  PROVE  <<p>> \in Seq(Param) /\ Of(<<p>>, k) = IF p.key = k THEN <<p.value>> ELSE <<>>
<1>1. <<p>> = Append(<<>>, p) /\ <<>> \in Seq(Param) /\ <<p>> \in Seq(Param)
  OBVIOUS
<1>2. /\ Link!ValuesIn(<<>>)[k] = <<>>
      /\ Link!ValuesIn(Append(<<>>, p))[k] =
           IF p.key = k THEN Append(Link!ValuesIn(<<>>)[k], p.value) ELSE Link!ValuesIn(<<>>)[k]
  BY <1>1, ValuesAppend, Zenon
<1>3. Append(<<>>, p.value) = <<p.value>>
  OBVIOUS
<1>. QED BY <1>1, <1>2, <1>3, Zenon DEF Of

\* What three parts of a link say.
LEMMA PartsAreSaid ==
  ASSUME NEW a \in Seq(Param), NEW b \in Seq(Param), NEW c \in Seq(Param), NEW k \in Link!Key
  PROVE  /\ a \o b \o c \in Seq(Param)
         /\ Of(a \o b \o c, k) = Of(a, k) \o Of(b, k) \o Of(c, k)
<1>1. a \o b \in Seq(Param) /\ a \o b \o c \in Seq(Param)
  BY ConcatProperties
<1>2. Of(a \o b, k) = Of(a, k) \o Of(b, k)
  BY ValuesConcat, Zenon DEF Of
<1>3. Of(a \o b \o c, k) = Of(a \o b, k) \o Of(c, k)
  BY <1>1, ValuesConcat, ZenonT(60) DEF Of
<1>. QED BY <1>1, <1>2, <1>3

\* What is written of a hash, a name and trackers.
WrittenOf(hash, label, asked) ==
  Link!SetToSeq({[key |-> "btih", value |-> Link!Hex(h)] : h \in hash})
    \o Link!SetToSeq({[key |-> "dn", value |-> n] : n \in label}) \o Trackers(asked)

\* What the keys are given of what is written.
LEMMA WrittenIs ==
  ASSUME NEW h \in Hash, NEW names \in Seq(AnyValue), NEW asked \in Seq(AnyValue),
         NEW written, written = WrittenOf({h}, Link!LastOf(names), asked)
  PROVE  /\ written \in Seq(Param)
         /\ Of(written, "btih") = <<Link!Hex(h)>>
         /\ Link!LastOf(Of(written, "dn")) = Link!LastOf(names)
         /\ Of(written, "tr") = asked
<1>. DEFINE label == Link!LastOf(names)
            p == [key |-> "btih", value |-> Link!Hex(h)]
            a == <<p>>
            b == Link!SetToSeq({[key |-> "dn", value |-> n] : n \in label})
            c == Trackers(asked)
<1>1. written = a \o b \o c
  <2>1. {[key |-> "btih", value |-> Link!Hex(g)] : g \in {h}} = {p}
    OBVIOUS
  <2>. HIDE DEF p
  <2>2. Link!SetToSeq({[key |-> "btih", value |-> Link!Hex(g)] : g \in {h}}) = <<p>>
    BY <2>1, SetToSeqOf, Zenon
  <2>. QED BY <2>2, Zenon DEF WrittenOf
<1>2. p \in Param
  <2>1. Link!Hex(h) \in Seq(Nat)
    BY HexIsUnderstood
  <2>. QED BY <2>1, KeysAre DEF Param, AnyValue
<1>3. "btih" \in Link!Key /\ "dn" \in Link!Key /\ "tr" \in Link!Key
  BY KeysAre
<1>4. /\ a \in Seq(Param) /\ Of(a, "btih") = <<Link!Hex(h)>> /\ Of(a, "dn") = <<>> /\ Of(a, "tr") = <<>>
  <2>1. p.key = "btih" /\ p.value = Link!Hex(h)
    OBVIOUS
  <2>. HIDE DEF p
  <2>. QED BY <1>2, <1>3, <2>1, OneIsSaid, Zenon
<1>5. /\ b \in Seq(Param) /\ Of(b, "btih") = <<>> /\ Link!LastOf(Of(b, "dn")) = label
      /\ Of(b, "tr") = <<>> /\ Of(b, "dn") \in Seq(AnyValue)
  <2>1. CASE names = <<>>
    <3>1. label = {} /\ b = <<>>
      <4>1. label = {}
        BY <2>1 DEF Link!LastOf
      <4>2. {[key |-> "dn", value |-> n] : n \in label} = {}
        BY <4>1
      <4>3. b = Link!SetToSeq({})
        BY <4>2, Zenon
      <4>. HIDE DEF b
      <4>. QED BY <4>1, <4>3, SetToSeqOf, Zenon
    <3>2. Of(<<>>, "btih") = <<>> /\ Of(<<>>, "dn") = <<>> /\ Of(<<>>, "tr") = <<>>
      BY NothingIsSaid
    <3>3. <<>> \in Seq(Param) /\ <<>> \in Seq(AnyValue) /\ Link!LastOf(<<>>) = {}
      BY EmptySeq DEF Link!LastOf
    <3>. QED BY <3>1, <3>2, <3>3, Zenon
  <2>2. CASE names # <<>>
    <3>. DEFINE n == Link!Last(names)
                q == [key |-> "dn", value |-> n]
    <3>1. label = {n} /\ n \in AnyValue
      <4>1. \A e \in AnyValue :
              names # <<>> => Link!Last(names) \in AnyValue /\ Link!LastOf(names) = {Link!Last(names)}
        BY LastIs
      <4>2. \E e \in AnyValue : TRUE
        <5>1. <<>> \in Seq(Nat)
          BY EmptySeq
        <5>. QED BY <5>1, Zenon DEF AnyValue
      <4>. QED BY <2>2, <4>1, <4>2
    <3>. HIDE DEF n
    <3>2. q \in Param
      BY <3>1, KeysAre DEF Param
    <3>3. b = <<q>>
      <4>1. {[key |-> "dn", value |-> m] : m \in label} = {q}
        BY <3>1
      <4>. HIDE DEF q
      <4>. QED BY <4>1, SetToSeqOf, Zenon
    <3>4. q.key = "dn" /\ q.value = n
      OBVIOUS
    <3>. HIDE DEF q, b
    <3>5. b \in Seq(Param) /\ Of(b, "btih") = <<>> /\ Of(b, "dn") = <<n>> /\ Of(b, "tr") = <<>>
      BY <1>3, <3>2, <3>3, <3>4, OneIsSaid, Zenon
    <3>6. <<n>> \in Seq(AnyValue) /\ Link!LastOf(<<n>>) = {n}
      <4>1. <<n>> # <<>> /\ Len(<<n>>) = 1 /\ <<n>>[1] = n /\ <<n>> \in Seq(AnyValue)
        BY <3>1
      <4>. QED BY <4>1, SMTT(60) DEF Link!LastOf, Link!Last
    <3>. QED BY <3>1, <3>5, <3>6, Zenon
  <2>. QED BY <2>1, <2>2
<1>6. c \in Seq(Param) /\ Of(c, "btih") = <<>> /\ Of(c, "dn") = <<>> /\ Of(c, "tr") = asked
  <2>1. /\ Trackers(asked) \in Seq(Param)
        /\ Link!ValuesIn(Trackers(asked))["tr"] = asked
        /\ \A k \in Link!Key : k # "tr" => Link!ValuesIn(Trackers(asked))[k] = <<>>
    BY TrackersAreSaid
  <2>2. "btih" # "tr" /\ "dn" # "tr"
    OBVIOUS
  <2>. QED BY <1>3, <2>1, <2>2, Zenon DEF Of
<1>. HIDE DEF label, p, a, b, c
<1>0. \A x, y, z \in Seq(Param), k \in Link!Key :
        x \o y \o z \in Seq(Param) /\ Of(x \o y \o z, k) = Of(x, k) \o Of(y, k) \o Of(z, k)
  BY PartsAreSaid, Zenon
<1>7. /\ a \o b \o c \in Seq(Param)
      /\ \A k \in Link!Key : Of(a \o b \o c, k) = Of(a, k) \o Of(b, k) \o Of(c, k)
  <2>1. a \in Seq(Param)
    BY <1>4
  <2>2. b \in Seq(Param)
    BY <1>5
  <2>3. c \in Seq(Param)
    BY <1>6
  <2>4. \A y, z \in Seq(Param), k \in Link!Key : Of(a \o y \o z, k) = Of(a, k) \o Of(y, k) \o Of(z, k)
    BY <1>0, <2>1, ZenonT(60)
  <2>5. \A k \in Link!Key : Of(a \o b \o c, k) = Of(a, k) \o Of(b, k) \o Of(c, k)
    BY <2>2, <2>3, <2>4, Zenon
  <2>6. a \o b \o c \in Seq(Param)
    BY <1>0, <2>1, <2>2, <2>3
  <2>. QED BY <2>5, <2>6
<1>8. Of(written, "btih") = <<Link!Hex(h)>>
  <2>1. <<Link!Hex(h)>> \o <<>> \o <<>> = <<Link!Hex(h)>>
    BY ConcatEmptySeq
  <2>. QED BY <1>1, <1>3, <1>4, <1>5, <1>6, <1>7, <2>1, ZenonT(60)
<1>9. Link!LastOf(Of(written, "dn")) = label
  <2>1. <<>> \o Of(b, "dn") \o <<>> = Of(b, "dn")
    BY <1>5, ConcatEmptySeq
  <2>2. Of(written, "dn") = <<>> \o Of(b, "dn") \o <<>>
    BY <1>1, <1>3, <1>4, <1>6, <1>7, Zenon
  <2>. QED BY <1>5, <2>1, <2>2
<1>10. Of(written, "tr") = asked
  <2>1. <<>> \o <<>> \o asked = asked
    BY ConcatEmptySeq, EmptySeq
  <2>. QED BY <1>1, <1>3, <1>4, <1>5, <1>6, <1>7, <2>1, ZenonT(60)
<1>. QED BY <1>1, <1>7, <1>8, <1>9, <1>10, Zenon DEF label

\* A sequence of one text.
LEMMA SingleText ==
  ASSUME NEW text \in Seq(Nat)
  PROVE  <<text>> # <<>> /\ Link!Last(<<text>>) = text /\ ToSet(<<text>>) = {text}
<1>1. text \in Text
  BY DEF Text
<1>2. Len(<<text>>) = 1 /\ <<text>>[1] = text /\ <<text>> # <<>> /\ DOMAIN <<text>> = {1}
  OBVIOUS
<1>. QED BY <1>2 DEF Link!Last, ToSet

\* What is written of a link means the same.
LEMMA WrittenMeans ==
  ASSUME NEW all \in Seq(Param), NEW hash, NEW label, NEW asked, Means(all, hash, label, asked),
         hash # {}, NEW written, written = WrittenOf(hash, label, asked)
  PROVE  written \in Seq(Param) /\ Same(written, all)
<1>. DEFINE text == Link!Last(Of(all, "btih"))
<1>1. PICK h \in Hash : hash = {h} /\ Link!ValueOf(h, Link!ByteBits) = Link!InfoHashNumber(text)
  BY HashIsMeant
<1>2. Of(all, "btih") # <<>>
  BY HashIsMeant
<1>3. /\ \A t \in ToSet(Of(all, "btih")) : Link!WellFormed(t)
      /\ label = Link!LastOf(Of(all, "dn")) /\ asked = Of(all, "tr")
  BY DEF Means
<1>4. Of(all, "dn") \in Seq(AnyValue) /\ Of(all, "tr") \in Seq(AnyValue)
  BY OfIs
<1>5. /\ written \in Seq(Param)
      /\ Of(written, "btih") = <<Link!Hex(h)>>
      /\ Link!LastOf(Of(written, "dn")) = Link!LastOf(Of(all, "dn"))
      /\ Of(written, "tr") = Of(all, "tr")
  <2>1. written = WrittenOf({h}, Link!LastOf(Of(all, "dn")), Of(all, "tr"))
    BY <1>1, <1>3
  <2>2. \A names, given \in Seq(AnyValue) :
          written = WrittenOf({h}, Link!LastOf(names), given) =>
            /\ written \in Seq(Param)
            /\ Of(written, "btih") = <<Link!Hex(h)>>
            /\ Link!LastOf(Of(written, "dn")) = Link!LastOf(names)
            /\ Of(written, "tr") = given
    BY WrittenIs, SMTT(60)
  <2>. QED BY <1>4, <2>1, <2>2, Zenon
<1>6. /\ Link!Hex(h) \in Seq(Nat) /\ Link!WellFormed(Link!Hex(h))
      /\ Link!InfoHashNumber(Link!Hex(h)) = Link!ValueOf(h, Link!ByteBits)
  BY HexIsUnderstood
<1>7. /\ Of(written, "btih") # <<>> /\ Link!Last(Of(written, "btih")) = Link!Hex(h)
      /\ ToSet(Of(written, "btih")) = {Link!Hex(h)}
  <2>1. <<Link!Hex(h)>> # <<>> /\ Link!Last(<<Link!Hex(h)>>) = Link!Hex(h)
        /\ ToSet(<<Link!Hex(h)>>) = {Link!Hex(h)}
    BY <1>6, SingleText
  <2>. QED BY <1>5, <2>1, Zenon
<1>8. \A t \in ToSet(Of(written, "btih")) \cup ToSet(Of(all, "btih")) : Link!WellFormed(t)
  BY <1>3, <1>6, <1>7
<1>9. Link!InfoHashNumber(Link!Last(Of(written, "btih"))) = Link!InfoHashNumber(text)
  BY <1>1, <1>6, <1>7
<1>. HIDE DEF text
<1>. QED BY <1>2, <1>5, <1>7, <1>8, <1>9 DEF Same, text

\* What is written of the link is to be read.
LEMMA ShareStep == LinkInv /\ Link!Share => LinkInv'
<1>. SUFFICES ASSUME LinkInv, Link!Share PROVE LinkInv'
  OBVIOUS
<1>1. /\ outcome = "parsed" /\ ~shared /\ rest' = Link!Written
      /\ outcome' = "reading" /\ shared'
      /\ infoHash' = {} /\ displayName' = {} /\ trackers' = <<>>
      /\ link' = link /\ urls' = urls
  BY DEF Link!Share
<1>2. infoHash # {} /\ rest = <<>>
  BY <1>1, OutcomeIs
<1>3. link \in Seq(Param) /\ Means(link, infoHash, displayName, trackers)
  <2>1. PICK all \in Seq(Param) :
          /\ Means(all, infoHash, displayName, trackers)
          /\ IF shared THEN Same(all, link) ELSE all = link
    BY <1>1, <1>2, AllIsRead
  <2>2. all = link
    BY <1>1, <2>1
  <2>. QED BY <2>1, <2>2
<1>4. PICK written : written = WrittenOf(infoHash, displayName, trackers)
  OBVIOUS
<1>5. rest' = written
  BY <1>1, <1>4 DEF Link!Written, WrittenOf, Trackers
<1>6. written \in Seq(Param) /\ Same(written, link)
  BY <1>2, <1>3, <1>4, WrittenMeans
<1>7. Progress(written, <<>>, written, "reading", {}, {}, <<>>) /\ <<>> \in Seq(Param)
  BY <1>6, StartOfReading
<1>8. Progress(written, <<>>, rest', outcome', infoHash', displayName', trackers')
  BY <1>1, <1>5, <1>7
<1>9. IF shared' THEN Same(written, link') ELSE written = link'
  BY <1>1, <1>6
<1>10. \E all, done \in Seq(Param) :
        /\ Progress(all, done, rest', outcome', infoHash', displayName', trackers')
        /\ IF shared' THEN Same(all, link') ELSE all = link'
  BY <1>6, <1>7, <1>8, <1>9, Zenon
<1>11. urls = <<>> \/ urls = AskedOf(link)
  BY Zenon DEF LinkInv
<1>12. outcome' \in {"reading", "parsed", "InvalidInfoHash", "MissingInfoHash"}
  BY <1>1, SMTT(60)
<1>13. link' \in Seq(Param) /\ rest' \in Seq(Param) /\ (urls' = <<>> \/ urls' = AskedOf(link'))
  BY <1>1, <1>3, <1>5, <1>6, <1>11
<1>. QED BY <1>10, <1>12, <1>13, Zenon DEF LinkInv

\* Every step keeps the invariant.
LEMMA LinkStep == LinkInv /\ [Link!Next]_linkVars => LinkInv'
<1>. SUFFICES ASSUME LinkInv, [Link!Next]_linkVars PROVE LinkInv'
  OBVIOUS
<1>1. CASE UNCHANGED linkVars
  <2>1. /\ link' = link /\ rest' = rest /\ infoHash' = infoHash /\ displayName' = displayName
        /\ trackers' = trackers /\ outcome' = outcome /\ shared' = shared /\ urls' = urls
    BY <1>1 DEF linkVars
  <2>. QED BY <2>1, Zenon DEF LinkInv
<1>2. CASE Link!Next
  <2>1. CASE Link!Done
    <3>1. /\ link' = link /\ rest' = rest /\ infoHash' = infoHash /\ displayName' = displayName
          /\ trackers' = trackers /\ outcome' = outcome /\ shared' = shared /\ urls' = urls
      BY <2>1 DEF Link!Done, Link!vars
    <3>. QED BY <3>1, Zenon DEF LinkInv
  <2>. QED BY <1>2, <2>1, ReadInfoHashStep, ReadNameStep, ReadAllStep, FetchStep, ShareStep, Zenon
           DEF Link!Next
<1>. QED BY <1>1, <1>2

(***************************************************************************)
(* What is meant of a link.                                                *)
(***************************************************************************)

\* What was read is what the link means, and what is refused means nothing.
LEMMA LinkMeaning ==
  ASSUME LinkInv
  PROVE  Link!LinkIsUnderstood
<1>. DEFINE texts == Of(link, "btih")
<1>0. /\ Link!Values("btih") = texts /\ Link!Values("dn") = Of(link, "dn")
      /\ Link!Values("tr") = Of(link, "tr")
  BY DEF Link!Values, Of
<1>1. Link!AllWellFormed <=> \A text \in ToSet(texts) : Link!WellFormed(text)
  BY <1>0 DEF Link!AllWellFormed, Link!ToSet, ToSet
<1>2. ASSUME outcome = "InvalidInfoHash" PROVE ~Link!AllWellFormed
  <2>1. PICK all \in Seq(Param) :
          /\ \E text \in ToSet(Of(all, "btih")) : ~Link!WellFormed(text)
          /\ IF shared THEN Same(all, link) ELSE all = link
    BY <1>2, OutcomeIs
  <2>2. ~shared
    BY <2>1 DEF Same
  <2>. QED BY <1>1, <2>1, <2>2
<1>3. ASSUME outcome \in {"parsed", "MissingInfoHash"}
      PROVE  \E all \in Seq(Param) :
               /\ Means(all, infoHash, displayName, trackers)
               /\ IF shared THEN Same(all, link) ELSE all = link
  BY <1>3, OutcomeIs, AllIsRead
<1>4. ASSUME outcome = "MissingInfoHash" PROVE texts = <<>>
  <2>1. PICK all \in Seq(Param) :
          /\ Means(all, infoHash, displayName, trackers)
          /\ IF shared THEN Same(all, link) ELSE all = link
    BY <1>3, <1>4
  <2>2. infoHash = {}
    BY <1>4, OutcomeIs
  <2>3. Of(all, "btih") = <<>>
    BY <2>1, <2>2, HashIsMeant
  <2>4. ~shared
    BY <2>1, <2>3 DEF Same
  <2>. QED BY <2>1, <2>3, <2>4
<1>5. ASSUME outcome = "parsed" PROVE infoHash # {} /\ Link!ParsedRightly
  <2>1. PICK all \in Seq(Param) :
          /\ Means(all, infoHash, displayName, trackers)
          /\ IF shared THEN Same(all, link) ELSE all = link
    BY <1>3, <1>5
  <2>2. infoHash # {}
    BY <1>5, OutcomeIs
  <2>3. PICK h \in Hash : /\ infoHash = {h}
                          /\ Link!ValueOf(h, Link!ByteBits) = Link!InfoHashNumber(Link!Last(Of(all, "btih")))
    BY <2>1, <2>2, HashIsMeant
  <2>4. Of(all, "btih") # <<>>
    BY <2>1, <2>2, HashIsMeant
  <2>5. /\ \A text \in ToSet(Of(all, "btih")) : Link!WellFormed(text)
        /\ displayName = Link!LastOf(Of(all, "dn")) /\ trackers = Of(all, "tr")
    BY <2>1, SMTT(60) DEF Means
  <2>6. /\ texts # <<>> /\ \A text \in ToSet(texts) : Link!WellFormed(text)
        /\ Link!ValueOf(h, Link!ByteBits) = Link!InfoHashNumber(Link!Last(texts))
        /\ displayName = Link!LastOf(Of(link, "dn")) /\ trackers = Of(link, "tr")
    <3>1. CASE shared
      <4>1. Same(all, link)
        BY <2>1, <3>1
      <4>. QED BY <2>3, <2>5, <4>1 DEF Same
    <3>2. CASE ~shared
      <4>1. all = link
        BY <2>1, <3>2
      <4>. QED BY <2>3, <2>4, <2>5, <4>1
    <3>. QED BY <3>1, <3>2
  <2>. HIDE DEF texts
  <2>7. {Link!ValueOf(g, Link!ByteBits) : g \in infoHash} =
          {Link!InfoHashNumber(text) : text \in Link!LastOf(texts)}
    BY <2>3, <2>6 DEF Link!LastOf
  <2>8. \A g \in infoHash : g \in [1..HashLen -> 0..2^Link!ByteBits - 1]
    BY <2>3, SMTT(60) DEF Hash, Octet
  <2>. QED BY <1>0, <1>1, <2>2, <2>6, <2>7, <2>8, ZenonT(60) DEF Link!ParsedRightly
<1>. QED BY <1>0, <1>2, <1>4, <1>5 DEF Link!LinkIsUnderstood

\* Its trackers are asked once.
LEMMA LinkTrackers ==
  ASSUME LinkInv
  PROVE  Link!TrackersAskedOnce
<1>. SUFFICES ASSUME urls # <<>> PROVE Link!TrackersAskedOnce
  BY DEF Link!TrackersAskedOnce
<1>. DEFINE s == Link!WsTrackers(Of(link, "tr")) \o DefaultTrackers
<1>1. link \in Seq(Param) /\ urls = Onces!Folded(<<>>, s)
  BY Zenon DEF LinkInv, AskedOf
<1>2. s \in Seq(WsTracker)
  <2>1. Of(link, "tr") \in Seq(AnyValue)
    BY <1>1, OfIs
  <2>2. Link!WsTrackers(Of(link, "tr")) \in Seq(WsTracker)
    BY <2>1, WsTrackersAre
  <2>3. DefaultTrackers \in Seq(WsTracker)
    BY InputAssumption, SMTT(60)
  <2>. QED BY <2>2, <2>3, ConcatProperties
<1>3. Link!Named = s
  BY DEF Link!Named, Link!Values, Of
<1>. HIDE DEF s
<1>4. Orders(urls, s)
  BY <1>1, <1>2, EachIsAskedOnce
<1>5. ToSet(urls) = ToSet(s)
  BY <1>4, SMTT(60) DEF Orders
<1>6. \A t \in ToSet(s) : IsFirst(s, t, Link!FirstNamed(t))
  <2>1. \A t : Link!FirstNamed(t) = CHOOSE k \in DOMAIN s : s[k] = t /\ \A m \in 1..k - 1 : s[m] # t
    BY <1>3, SMTT(60) DEF Link!FirstNamed
  <2>2. ASSUME NEW t \in ToSet(s)
        PROVE  \E k \in DOMAIN s : s[k] = t /\ \A m \in 1..k - 1 : s[m] # t
    <3>1. \E k : IsFirst(s, t, k)
      BY <1>2, FirstIs
    <3>. QED BY <3>1 DEF IsFirst
  <2>. QED BY <2>1, <2>2 DEF IsFirst
<1>7. ASSUME NEW k \in DOMAIN urls, NEW m \in DOMAIN urls, k < m
      PROVE  Link!FirstNamed(urls[k]) < Link!FirstNamed(urls[m])
  <2>1. urls[k] \in ToSet(s) /\ urls[m] \in ToSet(s)
    BY <1>5, Zenon DEF ToSet
  <2>2. IsFirst(s, urls[k], Link!FirstNamed(urls[k])) /\ IsFirst(s, urls[m], Link!FirstNamed(urls[m]))
    BY <1>6, <2>1
  <2>. QED BY <1>4, <1>7, <2>2 DEF Orders
<1>8. Link!ToSet(urls) = Link!ToSet(Link!Named)
  BY <1>3, <1>5, Zenon DEF Link!ToSet, ToSet
<1>. QED BY <1>7, <1>8 DEF Link!TrackersAskedOnce

\* A link that is parsed means the number its last info hash writes, in hex or in
\* base32, its last name and all its trackers; one that is refused has an info
\* hash that is none, or has none; a link that was written of another means the
\* same; and its trackers and the default ones are asked once each, in the order
\* in which they are first named (magnet.rs, MagnetLink::parse, decode_info_hash
\* and Display; engine.rs, resolve_trackers).
THEOREM LinksAreUnderstood == InputSpec => []LinkIsUnderstood
<1>. DEFINE I == reader = "link" => LinkInv
<1>1. InputInit => I
  BY LinkStart DEF InputInit
<1>2. I /\ [InputNext]_inputVars => I'
  <2>. SUFFICES ASSUME I, [InputNext]_inputVars, reader' = "link" PROVE LinkInv'
    OBVIOUS
  <2>1. reader = "link" /\ [Link!Next]_linkVars
    BY DEF InputNext, inputVars, ReadBuffer, ReadLink, ReadPeer, ReadTracker, ReadPaths, ReadPrefs
  <2>. QED BY <2>1, LinkStep
<1>3. I => LinkIsUnderstood
  BY LinkMeaning, LinkTrackers DEF LinkIsUnderstood
<1>. QED BY <1>1, <1>2, <1>3, PTL DEF InputSpec

(***************************************************************************)
(* Wire: what a peer says is heard.                                        *)
(***************************************************************************)

WireByte == 0..ByteBase - 1
Bytes == Seq(WireByte)

\* The number that bytes write, and the bytes of a number.
WireDigit(n, b) == n * ByteBase + b
Numbered == INSTANCE FoldFacts WITH Op <- WireDigit
Cut == INSTANCE FoldFacts WITH Op <- Peer!Shift

\* What its induction is on.
LEMMA NumberedWellOrdered == Numbered!WellOrdered
BY NatsAreWellOrdered DEF Numbered!WellOrdered

\* The same.
LEMMA CutWellOrdered == Cut!WellOrdered
BY NatsAreWellOrdered DEF Cut!WellOrdered

\* A byte may be any id, and the widths are numbers.
LEMMA WireBase ==
  /\ ByteBase \in Nat \ {0} /\ WordLen \in Nat \ {0} /\ Peer!HalfLen \in Nat /\ HashLen \in Nat
  /\ 0 \in WireByte /\ 1 \in WireByte /\ 0..20 \subseteq WireByte
BY InputAssumption DEF WireByte, Peer!HalfLen

\* A digit more counts once, and those before it the base times as much.
LEMMA WireValueAppend ==
  ASSUME NEW s \in Bytes, NEW b \in WireByte
  PROVE  Peer!Value(<<>>) = 0 /\ Peer!Value(Append(s, b)) = Peer!Value(s) * ByteBase + b
<1>1. \A t : Peer!Value(t) = Numbered!Folded(0, t)
  BY DEF Peer!Value, Peer!FoldLeft, Peer!MapThenFoldSet, Peer!Max, Numbered!Folded,
         Numbered!MapThenFoldSet, Numbered!Largest, WireDigit
<1>2. Numbered!Folded(0, <<>>) = 0 /\ Numbered!Folded(0, Append(s, b)) = WireDigit(Numbered!Folded(0, s), b)
  BY Numbered!FoldedEmpty, Numbered!FoldedAppend, NumberedWellOrdered DEF Bytes
<1>. QED BY <1>1, <1>2, Zenon DEF WireDigit

\* What bytes write is a number.
LEMMA WireValueIsNat ==
  ASSUME NEW s \in Bytes
  PROVE  Peer!Value(s) \in Nat
<1>. DEFINE T == {u \in Bytes : Peer!Value(u) \in Nat}
<1>1. <<>> \in T
  <2>1. <<>> \in Bytes /\ 0 \in WireByte
    BY EmptySeq, WireBase DEF Bytes
  <2>. QED BY <2>1, WireValueAppend
<1>2. ASSUME NEW u \in Seq(WireByte), NEW d \in WireByte, u \in T PROVE Append(u, d) \in T
  <2>1. Peer!Value(Append(u, d)) = Peer!Value(u) * ByteBase + d
    BY WireValueAppend DEF Bytes
  <2>2. Peer!Value(u) \in Nat /\ ByteBase \in Nat /\ d \in Nat
    BY <1>2, WireBase DEF WireByte
  <2>3. \A v, p \in Nat : v * p + d \in Nat
    BY <2>2
  <2>4. Peer!Value(Append(u, d)) \in Nat
    BY <2>1, <2>2, <2>3, Zenon
  <2>5. Append(u, d) \in Bytes
    BY AppendProperties DEF Bytes
  <2>. QED BY <2>4, <2>5
<1>. HIDE DEF T
<1>3. s \in T
  BY <1>1, <1>2, AppendInduction DEF Bytes
<1>. QED BY <1>3 DEF T

\* What is left of a number when its last k bytes have been taken out.
Taken(bytes, k) ==
  [left |-> Peer!Value(SubSeq(bytes, 1, Len(bytes) - k)),
   bytes |-> SubSeq(bytes, Len(bytes) - k + 1, Len(bytes))]

CountTo(k) == [x \in 1..k |-> x]

\* Counting one further is one more at the end.
LEMMA CountMore ==
  ASSUME NEW k \in Nat
  PROVE  CountTo(k) \in Seq(Nat) /\ CountTo(k + 1) = Append(CountTo(k), k + 1) /\ CountTo(0) = <<>>
<1>1. CountTo(k) \in Seq(Nat) /\ CountTo(k + 1) \in Seq(Nat) /\ Len(CountTo(k)) = k /\ Len(CountTo(k + 1)) = k + 1
  BY DEF CountTo
<1>2. Append(CountTo(k), k + 1) \in Seq(Nat) /\ Len(Append(CountTo(k), k + 1)) = k + 1
  BY <1>1
<1>3. ASSUME NEW x \in 1..k + 1 PROVE CountTo(k + 1)[x] = Append(CountTo(k), k + 1)[x]
  BY <1>1 DEF CountTo
<1>4. CountTo(k + 1) = Append(CountTo(k), k + 1)
  BY <1>1, <1>2, <1>3, SeqEqual
<1>5. CountTo(0) = <<>>
  BY DEF CountTo
<1>. QED BY <1>1, <1>4, <1>5

\* One byte more.
LEMMA TakeOne ==
  ASSUME NEW bytes \in Bytes, NEW k \in Nat, k < Len(bytes)
  PROVE  Peer!Shift(Taken(bytes, k), k + 1) = Taken(bytes, k + 1)
<1>. DEFINE n == Len(bytes) - k
            s == SubSeq(bytes, 1, n - 1)
            b == bytes[n]
<1>1. n \in 1..Len(bytes) /\ n - 1 \in Nat /\ Len(bytes) \in Nat
  BY DEF Bytes
<1>2. s \in Bytes /\ b \in WireByte /\ SubSeq(bytes, 1, n) = Append(s, b)
  BY <1>1 DEF Bytes
<1>3. SubSeq(bytes, n, Len(bytes)) = <<b>> \o SubSeq(bytes, n + 1, Len(bytes))
  <2>1. Len(bytes) \in n..Len(bytes)
    BY <1>1
  <2>. QED BY <1>1, <2>1, SubSeqRecursiveFirst DEF Bytes
<1>4. n - 1 = Len(bytes) - (k + 1) /\ (n - 1) + 1 = n /\ Len(bytes) - (k + 1) + 1 = n
  BY <1>1
<1>5. Taken(bytes, k) = [left |-> Peer!Value(Append(s, b)), bytes |-> SubSeq(bytes, n + 1, Len(bytes))]
  BY <1>2 DEF Taken
<1>6. Taken(bytes, k + 1) = [left |-> Peer!Value(s), bytes |-> <<b>> \o SubSeq(bytes, n + 1, Len(bytes))]
  BY <1>3, <1>4 DEF Taken
<1>. HIDE DEF n, s, b
<1>7. Peer!Value(Append(s, b)) = Peer!Value(s) * ByteBase + b /\ Peer!Value(s) \in Nat
  BY <1>2, WireValueAppend, WireValueIsNat
<1>8. b \in Nat /\ b < ByteBase /\ ByteBase \in Nat \ {0}
  BY <1>2, WireBase DEF WireByte
<1>9. Peer!Value(Append(s, b)) \div ByteBase = Peer!Value(s) /\ Peer!Value(Append(s, b)) % ByteBase = b
  BY <1>7, <1>8, DivOfSum, SMTT(60)
<1>10. \A v, r, x : Peer!Shift([left |-> v, bytes |-> r], x)
                       = [left |-> v \div ByteBase, bytes |-> <<v % ByteBase>> \o r]
  BY DEF Peer!Shift
<1>. QED BY <1>5, <1>6, <1>9, <1>10, Zenon

\* The bytes of a number are those that write it.
LEMMA BytesOfValue ==
  ASSUME NEW bytes \in Bytes
  PROVE  Peer!BigEndian(Peer!Value(bytes), Len(bytes)) = bytes
<1>. DEFINE start == [left |-> Peer!Value(bytes), bytes |-> <<>>]
            T == {k \in Nat : k <= Len(bytes) => Cut!Folded(start, CountTo(k)) = Taken(bytes, k)}
<1>1. Peer!BigEndian(Peer!Value(bytes), Len(bytes)) = Cut!Folded(start, CountTo(Len(bytes))).bytes
  BY DEF Peer!BigEndian, Peer!FoldLeft, Peer!MapThenFoldSet, Peer!Max, Cut!Folded,
         Cut!MapThenFoldSet, Cut!Largest, CountTo
<1>2. Len(bytes) \in Nat /\ SubSeq(bytes, 1, Len(bytes)) = bytes
  BY SubSeqFull, LenProperties DEF Bytes
<1>3. Taken(bytes, 0) = start
  <2>1. Len(bytes) - 0 = Len(bytes) /\ SubSeq(bytes, Len(bytes) + 1, Len(bytes)) = <<>>
    BY <1>2
  <2>. QED BY <1>2, <2>1 DEF Taken
<1>4. Taken(bytes, Len(bytes)).bytes = bytes
  <2>1. Len(bytes) - Len(bytes) + 1 = 1
    BY <1>2
  <2>. QED BY <1>2, <2>1 DEF Taken
<1>. HIDE DEF start
<1>5. 0 \in T
  <2>1. CountTo(0) = <<>>
    BY CountMore
  <2>2. Cut!Folded(start, CountTo(0)) = start
    BY <2>1, Cut!FoldedEmpty
  <2>. QED BY <1>3, <2>2
<1>6. ASSUME NEW k \in Nat, k \in T PROVE k + 1 \in T
  <2>. SUFFICES ASSUME k + 1 <= Len(bytes)
                PROVE  Cut!Folded(start, CountTo(k + 1)) = Taken(bytes, k + 1)
    <3>1. k + 1 \in Nat
      OBVIOUS
    <3>. QED BY <3>1, Zenon
  <2>1. k < Len(bytes) /\ k <= Len(bytes) /\ k + 1 \in Nat
    BY <1>2
  <2>2. Cut!Folded(start, CountTo(k)) = Taken(bytes, k)
    BY <1>6, <2>1
  <2>3. CountTo(k) \in Seq(Nat) /\ CountTo(k + 1) = Append(CountTo(k), k + 1)
    BY CountMore
  <2>4. Cut!Folded(start, Append(CountTo(k), k + 1)) = Peer!Shift(Cut!Folded(start, CountTo(k)), k + 1)
    BY <2>1, <2>3, Cut!FoldedAppend, CutWellOrdered
  <2>. QED BY <2>1, <2>2, <2>3, <2>4, TakeOne, Zenon
<1>. HIDE DEF T
<1>7. Len(bytes) \in T
  BY <1>2, <1>5, <1>6, SetInduction
<1>8. Cut!Folded(start, CountTo(Len(bytes))) = Taken(bytes, Len(bytes))
  BY <1>2, <1>7 DEF T
<1>. QED BY <1>1, <1>4, <1>8

\* A number of a width has as many bytes, which write it.
LEMMA UnsignedIs ==
  ASSUME NEW width \in Nat, NEW n \in Peer!Unsigned(width)
  PROVE  /\ Peer!BigEndian(n, width) \in Bytes /\ Len(Peer!BigEndian(n, width)) = width
         /\ Peer!Value(Peer!BigEndian(n, width)) = n /\ n \in Nat
<1>1. PICK bytes \in [1..width -> WireByte] : n = Peer!Value(bytes)
  BY DEF Peer!Unsigned, WireByte
<1>2. bytes \in Bytes /\ Len(bytes) = width
  BY DEF Bytes
<1>. QED BY <1>1, <1>2, BytesOfValue, WireValueIsNat

(***************************************************************************)
(* Numbers, one behind another.                                            *)
(***************************************************************************)
Plus(a, b) == a + b
Summed == INSTANCE FoldFacts WITH Op <- Plus

\* What its induction is on.
LEMMA SummedWellOrdered == Summed!WellOrdered
BY NatsAreWellOrdered DEF Summed!WellOrdered

Kind == DOMAIN Peer!Id
Count(kind) == Len(Peer!Fields[kind])
HeaderLen(kind) == Peer!Starts(kind, Count(kind) + 1)

\* The kinds of messages.
LEMMA KindsAre ==
  Kind = {"Choke", "Unchoke", "Interested", "NotInterested", "Have", "Bitfield", "Request",
          "Piece", "Cancel", "Port", "Extended"}
BY DEF Kind, Peer!Id

\* The widths of their numbers.
LEMMA FieldsAre ==
  ASSUME NEW kind \in Kind
  PROVE  /\ Peer!Fields[kind] \in Seq(Nat) /\ Count(kind) \in Nat /\ DOMAIN Peer!Fields[kind] = 1..Count(kind)
         /\ Peer!Fields[kind] = CASE kind = "Have" -> <<WordLen>>
                                  [] kind \in {"Request", "Cancel"} -> <<WordLen, WordLen, WordLen>>
                                  [] kind = "Piece" -> <<WordLen, WordLen>>
                                  [] kind = "Port" -> <<Peer!HalfLen>>
                                  [] kind = "Extended" -> <<1>>
                                  [] OTHER -> <<>>
<1>1. Peer!Fields[kind] = CASE kind = "Have" -> <<WordLen>>
                                  [] kind \in {"Request", "Cancel"} -> <<WordLen, WordLen, WordLen>>
                                  [] kind = "Piece" -> <<WordLen, WordLen>>
                                  [] kind = "Port" -> <<Peer!HalfLen>>
                                  [] kind = "Extended" -> <<1>>
                                  [] OTHER -> <<>>
  BY Zenon DEF Peer!Fields, Kind
<1>2. Peer!Fields[kind] \in Seq(Nat)
  <2>1. <<WordLen>> \in Seq(Nat) /\ <<WordLen, WordLen>> \in Seq(Nat) /\ <<WordLen, WordLen, WordLen>> \in Seq(Nat)
        /\ <<Peer!HalfLen>> \in Seq(Nat) /\ <<1>> \in Seq(Nat) /\ <<>> \in Seq(Nat)
    BY WireBase
  <2>. HIDE DEF Peer!HalfLen
  <2>. QED BY <1>1, <2>1, KindsAre
<1>3. Count(kind) \in Nat /\ DOMAIN Peer!Fields[kind] = 1..Count(kind)
  BY <1>2, LenProperties DEF Count
<1>. QED BY <1>1, <1>2, <1>3

\* A field starts where the one before it ends.
LEMMA StartsAre ==
  ASSUME NEW kind \in Kind
  PROVE  /\ Peer!Starts(kind, 1) = 0
         /\ \A k \in 1..Count(kind) : Peer!Starts(kind, k + 1) = Peer!Starts(kind, k) + Peer!Fields[kind][k]
<1>1. \A t : Peer!FoldLeft(+, 0, t) = Summed!Folded(0, t)
  BY DEF Peer!FoldLeft, Peer!MapThenFoldSet, Peer!Max, Summed!Folded, Summed!MapThenFoldSet,
         Summed!Largest, Plus
<1>. DEFINE w == Peer!Fields[kind]
<1>2. \A k : Peer!Starts(kind, k) = Summed!Folded(0, SubSeq(w, 1, k - 1))
  BY <1>1, Zenon DEF Peer!Starts
<1>3. w \in Seq(Nat) /\ Len(w) = Count(kind) /\ Count(kind) \in Nat
  BY FieldsAre DEF Count
<1>. HIDE DEF w
<1>4. Peer!Starts(kind, 1) = 0
  <2>1. SubSeq(w, 1, 1 - 1) = <<>>
    OBVIOUS
  <2>. QED BY <1>2, <2>1, Summed!FoldedEmpty
<1>5. ASSUME NEW k \in 1..Count(kind) PROVE Peer!Starts(kind, k + 1) = Peer!Starts(kind, k) + w[k]
  <2>1. /\ SubSeq(w, 1, k - 1) \in Seq(Nat) /\ w[k] \in Nat
        /\ SubSeq(w, 1, (k + 1) - 1) = Append(SubSeq(w, 1, k - 1), w[k])
    BY <1>3
  <2>2. PICK u \in Seq(Nat), v \in Nat : u = SubSeq(w, 1, k - 1) /\ v = w[k]
    BY <2>1
  <2>3. Summed!Folded(0, Append(u, v)) = Plus(Summed!Folded(0, u), v)
    BY Summed!FoldedAppend, SummedWellOrdered
  <2>. QED BY <1>2, <2>1, <2>2, <2>3, Zenon DEF Plus
<1>. QED BY <1>4, <1>5 DEF w

\* The starts are within the header.
LEMMA StartsGrow ==
  ASSUME NEW kind \in Kind
  PROVE  /\ HeaderLen(kind) \in Nat
         /\ \A k \in 1..Count(kind) + 1 : Peer!Starts(kind, k) \in 0..HeaderLen(kind)
<1>. DEFINE n == Count(kind)
            T == {k \in Nat : k <= n => Peer!Starts(kind, k + 1) \in Nat}
            U == {k \in Nat : k <= n => Peer!Starts(kind, (n - k) + 1) <= HeaderLen(kind)}
<1>1. n \in Nat /\ \A k \in 1..n : Peer!Fields[kind][k] \in Nat
  BY FieldsAre DEF Count
<1>2. \A k \in 1..n : Peer!Starts(kind, k + 1) = Peer!Starts(kind, k) + Peer!Fields[kind][k]
  BY StartsAre
<1>. HIDE DEF n
<1>3. 0 \in T
  BY StartsAre
<1>4. ASSUME NEW k \in Nat, k \in T PROVE k + 1 \in T
  <2>. SUFFICES ASSUME k + 1 <= n PROVE Peer!Starts(kind, (k + 1) + 1) \in Nat
    <3>1. k + 1 \in Nat
      OBVIOUS
    <3>. QED BY <3>1, Zenon
  <2>1. k + 1 \in 1..n /\ Peer!Starts(kind, k + 1) \in Nat
    BY <1>1, <1>4
  <2>. QED BY <1>1, <1>2, <2>1
<1>. HIDE DEF T
<1>5. \A k \in Nat : k \in T
  BY <1>3, <1>4, SetInduction
<1>6. \A k \in 0..n : Peer!Starts(kind, k + 1) \in Nat
  BY <1>1, <1>5 DEF T
<1>7. 0 \in U
  <2>1. (n - 0) + 1 = n + 1 /\ n \in 0..n
    BY <1>1
  <2>2. HeaderLen(kind) = Peer!Starts(kind, n + 1) /\ HeaderLen(kind) \in Nat
    BY <1>6, <2>1 DEF HeaderLen, n
  <2>. QED BY <2>1, <2>2
<1>8. ASSUME NEW k \in Nat, k \in U PROVE k + 1 \in U
  <2>. SUFFICES ASSUME k + 1 <= n PROVE Peer!Starts(kind, (n - (k + 1)) + 1) <= HeaderLen(kind)
    <3>1. k + 1 \in Nat
      OBVIOUS
    <3>. QED BY <3>1, Zenon
  <2>1. PICK m : m = n - k
    OBVIOUS
  <2>2. m \in 1..n /\ (n - (k + 1)) + 1 = m /\ m - 1 \in 0..n /\ (m - 1) + 1 = m /\ n \in 0..n
    BY <1>1, <2>1
  <2>3. Peer!Starts(kind, m + 1) <= HeaderLen(kind)
    <3>1. k <= n
      BY <1>1
    <3>. QED BY <1>8, <2>1, <3>1
  <2>4. Peer!Starts(kind, m) \in Nat /\ HeaderLen(kind) \in Nat
    <3>1. Peer!Starts(kind, (m - 1) + 1) \in Nat /\ Peer!Starts(kind, n + 1) \in Nat
      BY <1>6, <2>2, Zenon
    <3>. QED BY <2>2, <3>1 DEF HeaderLen, n
  <2>5. Peer!Starts(kind, m + 1) = Peer!Starts(kind, m) + Peer!Fields[kind][m] /\ Peer!Fields[kind][m] \in Nat
    BY <1>1, <1>2, <2>2
  <2>6. Peer!Starts(kind, m) <= HeaderLen(kind)
    BY <2>3, <2>4, <2>5
  <2>. QED BY <2>2, <2>6
<1>. HIDE DEF U
<1>9. \A k \in Nat : k \in U
  BY <1>7, <1>8, SetInduction
<1>10. HeaderLen(kind) \in Nat
  <2>1. n \in 0..n
    BY <1>1
  <2>. QED BY <1>6, <2>1 DEF HeaderLen, n
<1>11. ASSUME NEW k \in 1..n + 1 PROVE Peer!Starts(kind, k) \in 0..HeaderLen(kind)
  <2>1. PICK j, m : j = k - 1 /\ m = (n + 1) - k
    OBVIOUS
  <2>2. j \in 0..n /\ j + 1 = k /\ m \in Nat /\ m <= n /\ (n - m) + 1 = k
    BY <1>1, <2>1
  <2>3. Peer!Starts(kind, (n - m) + 1) <= HeaderLen(kind)
    BY <1>9, <2>2 DEF U
  <2>4. Peer!Starts(kind, j + 1) \in Nat
    BY <1>6, <2>2
  <2>. QED BY <1>10, <2>2, <2>3, <2>4
<1>. QED BY <1>10, <1>11 DEF n

\* The length of what comes before the rest of a message.
LEMMA HeaderIs ==
  ASSUME NEW kind \in Kind
  PROVE  HeaderLen(kind) = CASE kind = "Have" -> WordLen
                          [] kind \in {"Request", "Cancel"} -> 3 * WordLen
                          [] kind = "Piece" -> 2 * WordLen
                          [] kind = "Port" -> Peer!HalfLen
                          [] kind = "Extended" -> 1
                          [] OTHER -> 0
<1>. DEFINE w == Peer!Fields[kind]
            n == Count(kind)
<1>1. /\ Peer!Starts(kind, 1) = 0 /\ n \in Nat /\ n = Len(w) /\ HeaderLen(kind) = Peer!Starts(kind, n + 1)
      /\ \A k \in 1..n : Peer!Starts(kind, k + 1) = Peer!Starts(kind, k) + w[k]
  BY StartsAre, FieldsAre DEF Count, HeaderLen
<1>2. w = CASE kind = "Have" -> <<WordLen>>
            [] kind \in {"Request", "Cancel"} -> <<WordLen, WordLen, WordLen>>
            [] kind = "Piece" -> <<WordLen, WordLen>>
            [] kind = "Port" -> <<Peer!HalfLen>>
            [] kind = "Extended" -> <<1>>
            [] OTHER -> <<>>
  BY FieldsAre, Zenon
<1>3. WordLen \in Nat /\ Peer!HalfLen \in Nat
  BY WireBase
<1>. HIDE DEF w, n, Peer!HalfLen
<1>4. CASE w = <<>>
  <2>1. n + 1 = 1
    BY <1>1, <1>4
  <2>2. HeaderLen(kind) = 0
    BY <1>1, <2>1
  <2>3. kind \notin {"Have", "Request", "Cancel", "Piece", "Port", "Extended"}
    <3>1. <<WordLen>> # <<>> /\ <<WordLen, WordLen>> # <<>> /\ <<WordLen, WordLen, WordLen>> # <<>>
          /\ <<Peer!HalfLen>> # <<>> /\ <<1>> # <<>>
      OBVIOUS
    <3>. QED BY <1>2, <1>4, <3>1
  <2>. QED BY <2>2, <2>3
<1>5. ASSUME NEW x \in Nat, w = <<x>> PROVE HeaderLen(kind) = x
  <2>1. n = 1 /\ w[1] = x /\ 1 \in 1..n
    BY <1>1, <1>5
  <2>2. Peer!Starts(kind, 1 + 1) = Peer!Starts(kind, 1) + w[1]
    BY <1>1, <2>1, Zenon
  <2>. QED BY <1>1, <2>1, <2>2
<1>6. CASE w = <<WordLen, WordLen>>
  <2>1. n = 2 /\ w[1] = WordLen /\ w[2] = WordLen /\ 1 \in 1..n /\ 2 \in 1..n
    BY <1>1, <1>6
  <2>2. /\ Peer!Starts(kind, 1 + 1) = Peer!Starts(kind, 1) + w[1]
        /\ Peer!Starts(kind, 2 + 1) = Peer!Starts(kind, 2) + w[2]
    BY <1>1, <2>1, Zenon
  <2>3. HeaderLen(kind) = 2 * WordLen
    BY <1>1, <1>3, <2>1, <2>2
  <2>4. kind = "Piece"
    <3>1. <<WordLen, WordLen>> # <<WordLen>> /\ <<WordLen, WordLen>> # <<WordLen, WordLen, WordLen>>
          /\ <<WordLen, WordLen>> # <<Peer!HalfLen>> /\ <<WordLen, WordLen>> # <<1>> /\ <<WordLen, WordLen>> # <<>>
      OBVIOUS
    <3>. QED BY <1>2, <1>6, <3>1
  <2>. QED BY <2>3, <2>4
<1>7. CASE w = <<WordLen, WordLen, WordLen>>
  <2>1. n = 3 /\ w[1] = WordLen /\ w[2] = WordLen /\ w[3] = WordLen /\ 1 \in 1..n /\ 2 \in 1..n /\ 3 \in 1..n
    BY <1>1, <1>7
  <2>2. /\ Peer!Starts(kind, 1 + 1) = Peer!Starts(kind, 1) + w[1]
        /\ Peer!Starts(kind, 2 + 1) = Peer!Starts(kind, 2) + w[2]
        /\ Peer!Starts(kind, 3 + 1) = Peer!Starts(kind, 3) + w[3]
    BY <1>1, <2>1, Zenon
  <2>3. HeaderLen(kind) = 3 * WordLen
    BY <1>1, <1>3, <2>1, <2>2
  <2>4. kind \in {"Request", "Cancel"}
    <3>1. <<WordLen, WordLen, WordLen>> # <<WordLen>> /\ <<WordLen, WordLen>> # <<WordLen, WordLen, WordLen>>
          /\ <<WordLen, WordLen, WordLen>> # <<Peer!HalfLen>> /\ <<WordLen, WordLen, WordLen>> # <<1>>
          /\ <<WordLen, WordLen, WordLen>> # <<>>
      OBVIOUS
    <3>. QED BY <1>2, <1>7, <3>1
  <2>. QED BY <2>3, <2>4
<1>8. kind = "Have" => HeaderLen(kind) = WordLen
  BY <1>2, <1>3, <1>5
<1>9. kind = "Port" => HeaderLen(kind) = Peer!HalfLen
  BY <1>2, <1>3, <1>5
<1>10. kind = "Extended" => HeaderLen(kind) = 1
  BY <1>2, <1>3, <1>5
<1>. QED BY <1>2, <1>4, <1>6, <1>7, <1>8, <1>9, <1>10, KindsAre

\* The middle of three sequences.
LEMMA Middle ==
  ASSUME NEW S, NEW a \in Seq(S), NEW b \in Seq(S), NEW c \in Seq(S)
  PROVE  SubSeq((a \o b) \o c, Len(a) + 1, Len(a) + Len(b)) = b
<1>. DEFINE u == (a \o b) \o c
            v == SubSeq(u, Len(a) + 1, Len(a) + Len(b))
<1>1. Len(a) \in Nat /\ Len(b) \in Nat /\ Len(c) \in Nat
  BY LenProperties
<1>2. a \o b \in Seq(S) /\ Len(a \o b) = Len(a) + Len(b)
      /\ \A k \in 1..Len(a) + Len(b) : (a \o b)[k] = IF k <= Len(a) THEN a[k] ELSE b[k - Len(a)]
  BY ConcatProperties
<1>3. u \in Seq(S) /\ Len(u) = Len(a) + Len(b) + Len(c)
      /\ \A k \in 1..Len(a) + Len(b) : u[k] = (a \o b)[k]
  <2>. DEFINE d == a \o b
  <2>1. d \in Seq(S) /\ Len(d) = Len(a) + Len(b)
    BY <1>2
  <2>. HIDE DEF d
  <2>2. d \o c \in Seq(S) /\ Len(d \o c) = Len(d) + Len(c)
        /\ \A k \in 1..Len(d) + Len(c) : (d \o c)[k] = IF k <= Len(d) THEN d[k] ELSE c[k - Len(d)]
    <3>1. \A x, y \in Seq(S) :
            /\ x \o y \in Seq(S) /\ Len(x \o y) = Len(x) + Len(y)
            /\ \A k \in 1..Len(x) + Len(y) : (x \o y)[k] = IF k <= Len(x) THEN x[k] ELSE y[k - Len(x)]
      BY ConcatProperties
    <3>. QED BY <2>1, <3>1, Zenon
  <2>3. u = d \o c
    BY DEF d
  <2>. QED BY <1>1, <2>1, <2>2, <2>3 DEF d
<1>. HIDE DEF u
<1>4. \A k \in 1..Len(b) : u[Len(a) + k] = b[k]
  <2>. SUFFICES ASSUME NEW k \in 1..Len(b) PROVE u[Len(a) + k] = b[k]
    OBVIOUS
  <2>1. PICK j : j = Len(a) + k
    OBVIOUS
  <2>2. j \in 1..Len(a) + Len(b) /\ ~(j <= Len(a)) /\ j - Len(a) = k
    BY <1>1, <2>1
  <2>. QED BY <1>2, <1>3, <2>1, <2>2
<1>5. v \in Seq(S) /\ Len(v) = Len(b) /\ \A k \in 1..Len(b) : v[k] = u[Len(a) + k]
  BY <1>1, <1>3
<1>. HIDE DEF v
<1>6. v = b
  BY <1>4, <1>5, SeqEqual
<1>. QED BY <1>6 DEF u, v

\* The beginning and the end of two.
LEMMA BothEnds ==
  ASSUME NEW S, NEW a \in Seq(S), NEW b \in Seq(S)
  PROVE  SubSeq(a \o b, 1, Len(a)) = a /\ SubSeq(a \o b, Len(a) + 1, Len(a \o b)) = b
         /\ Len(a \o b) = Len(a) + Len(b) /\ a \o b \in Seq(S)
<1>1. <<>> \in Seq(S) /\ Len(<<>>) = 0 /\ <<>> \o a = a /\ (a \o b) \o <<>> = a \o b
  BY EmptySeq, ConcatEmptySeq, ConcatProperties
<1>2. Len(a) \in Nat /\ Len(a \o b) = Len(a) + Len(b) /\ a \o b \in Seq(S)
  BY ConcatProperties, LenProperties
<1>3. SubSeq((a \o b) \o <<>>, Len(a) + 1, Len(a) + Len(b)) = b
  BY <1>1, Middle
<1>4. SubSeq((<<>> \o a) \o b, Len(<<>>) + 1, Len(<<>>) + Len(a)) = a
  BY <1>1, Middle
<1>5. Len(<<>>) + 1 = 1 /\ Len(<<>>) + Len(a) = Len(a)
  BY <1>1, <1>2
<1>. QED BY <1>1, <1>2, <1>3, <1>4, <1>5, Zenon

\* Wire's FlattenSeq is the one the lemmas on it are about.
LEMMA SamePeerFlatten == \A t : Peer!FlattenSeq(t) = FlattenSeq(t)
BY DEF Peer!FlattenSeq, FlattenSeq

\* A piece, between those before it and the rest.
LEMMA Located ==
  ASSUME NEW S, NEW t \in Seq(Seq(S)), NEW k \in 1..Len(t)
  PROVE  \E r \in Seq(S) : FlattenSeq(t) = (FlattenSeq(SubSeq(t, 1, k - 1)) \o t[k]) \o r
<1>. DEFINE P(u) == \A j \in 1..Len(u) :
                 \E r \in Seq(S) : FlattenSeq(u) = (FlattenSeq(SubSeq(u, 1, j - 1)) \o u[j]) \o r
            T == {u \in Seq(Seq(S)) : P(u)}
<1>1. <<>> \in T
  <2>1. <<>> \in Seq(Seq(S)) /\ 1..Len(<<>>) = {}
    OBVIOUS
  <2>. QED BY <2>1
<1>2. ASSUME NEW u \in Seq(Seq(S)), NEW e \in Seq(S), u \in T PROVE Append(u, e) \in T
  <2>. DEFINE w == Append(u, e)
  <2>1. w \in Seq(Seq(S)) /\ Len(w) = Len(u) + 1 /\ Len(u) \in Nat /\ w[Len(u) + 1] = e
        /\ SubSeq(w, 1, Len(u)) = u /\ \A j \in 1..Len(u) : w[j] = u[j] /\ SubSeq(w, 1, j - 1) = SubSeq(u, 1, j - 1)
    OBVIOUS
  <2>2. FlattenSeq(w) = FlattenSeq(u) \o e
    BY FlattenAppend
  <2>. HIDE DEF w
  <2>3. ASSUME NEW j \in 1..Len(u)
        PROVE  \E r \in Seq(S) : FlattenSeq(w) = (FlattenSeq(SubSeq(w, 1, j - 1)) \o w[j]) \o r
    <3>1. PICK r \in Seq(S) : FlattenSeq(u) = (FlattenSeq(SubSeq(u, 1, j - 1)) \o u[j]) \o r
      BY <1>2
    <3>2. PICK a \in Seq(S) : a = FlattenSeq(SubSeq(u, 1, j - 1)) \o u[j]
      <4>1. SubSeq(u, 1, j - 1) \in Seq(Seq(S)) /\ u[j] \in Seq(S)
        OBVIOUS
      <4>2. FlattenSeq(SubSeq(u, 1, j - 1)) \in Seq(S)
        BY <4>1, FlattenIsSeq
      <4>. QED BY <4>1, <4>2, ConcatProperties
    <3>3. FlattenSeq(w) = a \o (r \o e) /\ r \o e \in Seq(S)
      <4>1. FlattenSeq(u) = a \o r
        BY <3>1, <3>2
      <4>2. (a \o r) \o e = a \o (r \o e)
        BY SMTT(60)
      <4>3. r \o e \in Seq(S)
        BY ConcatProperties
      <4>. QED BY <2>2, <4>1, <4>2, <4>3, Zenon
    <3>4. a = FlattenSeq(SubSeq(w, 1, j - 1)) \o w[j]
      BY <2>1, <3>2
    <3>. QED BY <3>3, <3>4, Zenon
  <2>4. \E r \in Seq(S) : FlattenSeq(w) = (FlattenSeq(SubSeq(w, 1, (Len(u) + 1) - 1)) \o w[Len(u) + 1]) \o r
    <3>1. (Len(u) + 1) - 1 = Len(u)
      BY <2>1
    <3>2. FlattenSeq(u) \o e \in Seq(S)
      BY FlattenIsSeq, ConcatProperties
    <3>3. (FlattenSeq(u) \o e) \o <<>> = FlattenSeq(u) \o e /\ <<>> \in Seq(S)
      BY <3>2, ConcatEmptySeq, EmptySeq
    <3>. QED BY <2>1, <2>2, <3>1, <3>3, Zenon
  <2>5. \A j \in 1..Len(w) : j \in 1..Len(u) \/ j = Len(u) + 1
    BY <2>1
  <2>6. P(w)
    BY <2>3, <2>4, <2>5, Zenon
  <2>. QED BY <2>1, <2>6, Zenon DEF w
<1>. HIDE DEF T
<1>3. t \in T
  BY <1>1, <1>2, AppendInduction
<1>. QED BY <1>3 DEF T

\* The beginning of a sequence, by one more.
LEMMA OneFurther ==
  ASSUME NEW S, NEW s \in Seq(S), NEW k \in Nat, k + 1 <= Len(s)
  PROVE  /\ SubSeq(s, 1, k) \in Seq(S) /\ s[k + 1] \in S
         /\ SubSeq(s, 1, k + 1) = Append(SubSeq(s, 1, k), s[k + 1])
         /\ SubSeq(s, 1, 0) = <<>>
OBVIOUS

\* Pieces of the widths of a kind.
Fit(kind, t) ==
  t \in Seq(Bytes) /\ Len(t) = Count(kind) /\ \A k \in 1..Count(kind) : Len(t[k]) = Peer!Fields[kind][k]

\* Together they are as long as the start of the next one.
LEMMA LenOfPieces ==
  ASSUME NEW kind \in Kind, NEW t, Fit(kind, t)
  PROVE  /\ \A k \in 0..Count(kind) : Len(FlattenSeq(SubSeq(t, 1, k))) = Peer!Starts(kind, k + 1)
         /\ Len(FlattenSeq(t)) = HeaderLen(kind) /\ FlattenSeq(t) \in Bytes
<1>. DEFINE n == Count(kind)
            P(k) == Len(FlattenSeq(SubSeq(t, 1, k))) = Peer!Starts(kind, k + 1)
            T == {k \in Nat : k <= n => P(k)}
<1>1. n \in Nat /\ t \in Seq(Seq(WireByte)) /\ Len(t) = n
  BY FieldsAre DEF Fit, Bytes
<1>2. Peer!Starts(kind, 1) = 0
      /\ \A k \in 1..n : Peer!Starts(kind, k + 1) = Peer!Starts(kind, k) + Peer!Fields[kind][k]
  BY StartsAre
<1>3. \A k \in 1..n : Len(t[k]) = Peer!Fields[kind][k]
  BY DEF Fit
<1>. HIDE DEF n
<1>4. 0 \in T
  <2>1. SubSeq(t, 1, 0) = <<>>
    OBVIOUS
  <2>2. 0 + 1 = 1 /\ Len(<<>>) = 0 /\ FlattenSeq(<<>>) = <<>>
    BY FlattenEmpty
  <2>3. P(0)
    BY <1>2, <2>1, <2>2, Zenon
  <2>. QED BY <2>3
<1>5. ASSUME NEW k \in Nat, k \in T PROVE k + 1 \in T
  <2>. SUFFICES ASSUME k + 1 <= n PROVE P(k + 1)
    <3>1. k + 1 \in Nat
      OBVIOUS
    <3>. QED BY <3>1, Zenon
  <2>1. PICK a \in Seq(Seq(WireByte)), b \in Seq(WireByte) :
           a = SubSeq(t, 1, k) /\ b = t[k + 1] /\ SubSeq(t, 1, k + 1) = Append(a, b)
    <3>1. /\ SubSeq(t, 1, k) \in Seq(Seq(WireByte)) /\ t[k + 1] \in Seq(WireByte)
          /\ SubSeq(t, 1, k + 1) = Append(SubSeq(t, 1, k), t[k + 1])
      BY <1>1, OneFurther
    <3>. QED BY <3>1, Zenon
  <2>2. P(k) /\ k + 1 \in 1..n
    BY <1>1, <1>5
  <2>3. FlattenSeq(SubSeq(t, 1, k + 1)) = FlattenSeq(a) \o b
    BY <2>1, FlattenAppend
  <2>4. FlattenSeq(a) \in Seq(WireByte)
    BY FlattenIsSeq
  <2>5. Len(FlattenSeq(a) \o b) = Len(FlattenSeq(a)) + Len(b)
    BY <2>4, ConcatProperties
  <2>. QED BY <1>2, <1>3, <2>1, <2>2, <2>3, <2>5
<1>. HIDE DEF T
<1>6. \A k \in Nat : k \in T
  BY <1>4, <1>5, SetInduction
<1>7. \A k \in 0..n : P(k)
  BY <1>1, <1>6 DEF T
<1>8. SubSeq(t, 1, n) = t /\ n \in 0..n
  BY <1>1
<1>9. Len(FlattenSeq(t)) = HeaderLen(kind)
  BY <1>7, <1>8 DEF HeaderLen, n
<1>10. FlattenSeq(t) \in Bytes
  BY <1>1, FlattenIsSeq DEF Bytes
<1>. QED BY <1>7, <1>9, <1>10 DEF n

\* What is read at the place of a field is what was written there.
LEMMA FieldIsRead ==
  ASSUME NEW kind \in Kind, NEW t, Fit(kind, t), NEW tail \in Bytes, NEW k \in 1..Count(kind)
  PROVE  SubSeq(FlattenSeq(t) \o tail, Peer!Starts(kind, k) + 1, Peer!Starts(kind, k + 1)) = t[k]
<1>1. t \in Seq(Seq(WireByte)) /\ k \in 1..Len(t) /\ tail \in Seq(WireByte) /\ t[k] \in Seq(WireByte)
  BY DEF Fit, Bytes
<1>2. PICK b \in Seq(WireByte) : b = t[k]
  BY <1>1
<1>3. PICK a \in Seq(WireByte) : a = FlattenSeq(SubSeq(t, 1, k - 1))
  <2>1. SubSeq(t, 1, k - 1) \in Seq(Seq(WireByte))
    BY <1>1
  <2>. QED BY <2>1, FlattenIsSeq
<1>4. PICK r \in Seq(WireByte) : FlattenSeq(t) = (a \o b) \o r
  BY <1>1, <1>2, <1>3, Located
<1>5. PICK c \in Seq(WireByte) : c = tail
  BY <1>1
<1>6. FlattenSeq(t) \o tail = (a \o b) \o (r \o c) /\ r \o c \in Seq(WireByte)
  <2>1. ((a \o b) \o r) \o c = (a \o b) \o (r \o c)
    <3>1. PICK d \in Seq(WireByte) : d = a \o b
      BY ConcatProperties
    <3>2. (d \o r) \o c = d \o (r \o c)
      BY SMTT(60)
    <3>. QED BY <3>1, <3>2
  <2>2. r \o c \in Seq(WireByte)
    OBVIOUS
  <2>. QED BY <1>4, <1>5, <2>1, <2>2
<1>7. SubSeq((a \o b) \o (r \o c), Len(a) + 1, Len(a) + Len(b)) = b
  BY <1>6, Middle
<1>8. Len(a) = Peer!Starts(kind, k)
  <2>1. k - 1 \in 0..Count(kind) /\ (k - 1) + 1 = k
    BY FieldsAre
  <2>. QED BY <1>3, <2>1, LenOfPieces
<1>9. Len(a) + Len(b) = Peer!Starts(kind, k + 1)
  <2>1. Len(b) = Peer!Fields[kind][k]
    BY <1>2 DEF Fit
  <2>. QED BY <1>8, <2>1, StartsAre
<1>. QED BY <1>2, <1>6, <1>7, <1>8, <1>9

\* What the fields are read from.
PiecesOf(kind, p) == [k \in 1..Count(kind) |-> SubSeq(p, Peer!Starts(kind, k) + 1, Peer!Starts(kind, k + 1))]

\* A payload that is long enough is cut into its fields.
LEMMA PiecesAre ==
  ASSUME NEW kind \in Kind, NEW p \in Bytes, HeaderLen(kind) <= Len(p)
  PROVE  Fit(kind, PiecesOf(kind, p)) /\ FlattenSeq(PiecesOf(kind, p)) = SubSeq(p, 1, HeaderLen(kind))
<1>. DEFINE n == Count(kind)
            t == PiecesOf(kind, p)
            P(k) == FlattenSeq(SubSeq(t, 1, k)) = SubSeq(p, 1, Peer!Starts(kind, k + 1))
            T == {k \in Nat : k <= n => P(k)}
<1>1. n \in Nat /\ p \in Seq(WireByte) /\ \A k \in 1..n : Peer!Fields[kind][k] \in Nat
  BY FieldsAre DEF Bytes, Count
<1>2. Peer!Starts(kind, 1) = 0
      /\ \A k \in 1..n : Peer!Starts(kind, k + 1) = Peer!Starts(kind, k) + Peer!Fields[kind][k]
  BY StartsAre
<1>3. \A k \in 1..n + 1 : Peer!Starts(kind, k) \in 0..Len(p)
  <2>1. HeaderLen(kind) \in Nat /\ \A k \in 1..n + 1 : Peer!Starts(kind, k) \in 0..HeaderLen(kind)
    BY StartsGrow
  <2>2. Len(p) \in Nat
    BY <1>1
  <2>. HIDE DEF n
  <2>. QED BY <2>1, <2>2
<1>4. ASSUME NEW k \in 1..n
      PROVE  t[k] \in Seq(WireByte) /\ Len(t[k]) = Peer!Fields[kind][k]
             /\ t[k] = SubSeq(p, Peer!Starts(kind, k) + 1, Peer!Starts(kind, k + 1))
  <2>1. t[k] = SubSeq(p, Peer!Starts(kind, k) + 1, Peer!Starts(kind, k + 1))
    BY DEF PiecesOf
  <2>. HIDE DEF n, t
  <2>2. k \in 1..n + 1 /\ k + 1 \in 1..n + 1
    BY <1>1
  <2>3. PICK x, y : x = Peer!Starts(kind, k) /\ y = Peer!Starts(kind, k + 1)
    OBVIOUS
  <2>4. x \in 0..Len(p) /\ y \in 0..Len(p) /\ y = x + Peer!Fields[kind][k] /\ Peer!Fields[kind][k] \in Nat
    BY <1>1, <1>2, <1>3, <2>2, <2>3
  <2>5. SubSeq(p, x + 1, y) \in Seq(WireByte) /\ Len(SubSeq(p, x + 1, y)) = y - x
    <3>1. \A j \in x + 1..y : p[j] \in WireByte
      BY <1>1, <2>4
    <3>2. x \in Int /\ y \in Int /\ x + 1 \in Int /\ x <= y
      BY <2>4
    <3>3. SubSeq(p, x + 1, y) \in Seq(WireByte) /\ Len(SubSeq(p, x + 1, y)) = IF x + 1 <= y THEN y - (x + 1) + 1 ELSE 0
      BY <3>1, <3>2, SubSeqProperties
    <3>. QED BY <3>2, <3>3
  <2>6. t[k] = SubSeq(p, x + 1, y)
    BY <2>1, <2>3, Zenon
  <2>7. y - x = Peer!Fields[kind][k]
    BY <2>4
  <2>8. t[k] \in Seq(WireByte) /\ Len(t[k]) = Peer!Fields[kind][k]
    BY <2>5, <2>6, <2>7, Zenon
  <2>. QED BY <2>1, <2>8
<1>5. t \in Seq(Seq(WireByte)) /\ Len(t) = n
  <2>1. t = [k \in 1..n |-> t[k]]
    BY DEF PiecesOf
  <2>. HIDE DEF n, t
  <2>2. t \in [1..n -> Seq(WireByte)]
    BY <1>4, <2>1
  <2>. QED BY <1>1, <2>2
<1>6. Fit(kind, t)
  BY <1>4, <1>5 DEF Fit, Bytes
<1>. HIDE DEF n, t
<1>7. 0 \in T
  <2>1. SubSeq(t, 1, 0) = <<>> /\ SubSeq(p, 1, 0) = <<>>
    OBVIOUS
  <2>2. 0 + 1 = 1 /\ Len(<<>>) = 0 /\ FlattenSeq(<<>>) = <<>>
    BY FlattenEmpty
  <2>3. P(0)
    BY <1>2, <2>1, <2>2, Zenon
  <2>. QED BY <2>3
<1>8. ASSUME NEW k \in Nat, k \in T PROVE k + 1 \in T
  <2>. SUFFICES ASSUME k + 1 <= n PROVE P(k + 1)
    <3>1. k + 1 \in Nat
      OBVIOUS
    <3>. QED BY <3>1, Zenon
  <2>1. PICK a \in Seq(Seq(WireByte)), b \in Seq(WireByte) :
           a = SubSeq(t, 1, k) /\ b = t[k + 1] /\ SubSeq(t, 1, k + 1) = Append(a, b)
    <3>1. /\ SubSeq(t, 1, k) \in Seq(Seq(WireByte)) /\ t[k + 1] \in Seq(WireByte)
          /\ SubSeq(t, 1, k + 1) = Append(SubSeq(t, 1, k), t[k + 1])
      BY <1>1, <1>5, OneFurther
    <3>. QED BY <3>1, Zenon
  <2>2. P(k) /\ k + 1 \in 1..n /\ k + 1 \in 1..n + 1 /\ (k + 1) + 1 \in 1..n + 1
    BY <1>1, <1>8
  <2>3. FlattenSeq(SubSeq(t, 1, k + 1)) = FlattenSeq(a) \o b
    BY <2>1, FlattenAppend
  <2>4. PICK x, y : x = Peer!Starts(kind, k + 1) /\ y = Peer!Starts(kind, (k + 1) + 1)
    OBVIOUS
  <2>5. x \in 0..Len(p) /\ y \in x..Len(p)
    <3>1. x \in 0..Len(p) /\ y \in 0..Len(p)
      BY <1>3, <2>2, <2>4, Zenon
    <3>2. PICK w : w = Peer!Fields[kind][k + 1]
      OBVIOUS
    <3>3. y = x + w /\ w \in Nat
      BY <1>1, <1>2, <2>2, <2>4, <3>2, Zenon
    <3>. QED BY <3>1, <3>3
  <2>6. FlattenSeq(a) = SubSeq(p, 1, x) /\ b = SubSeq(p, x + 1, y)
    BY <1>4, <2>1, <2>2, <2>4
  <2>7. SubSeq(p, 1, x) \o SubSeq(p, x + 1, y) = SubSeq(p, 1, y)
    <3>1. 1 \in 1..Len(p) + 1 /\ x \in 1 - 1..Len(p)
      BY <1>1, <2>5
    <3>. QED BY <1>1, <2>5, <3>1, ConcatAdjacentSubSeq
  <2>. QED BY <2>3, <2>4, <2>6, <2>7
<1>. HIDE DEF T
<1>9. \A k \in Nat : k \in T
  BY <1>7, <1>8, SetInduction
<1>10. P(n) /\ SubSeq(t, 1, n) = t
  BY <1>1, <1>5, <1>9 DEF T
<1>11. FlattenSeq(t) = SubSeq(p, 1, HeaderLen(kind))
  BY <1>10 DEF HeaderLen, n
<1>. QED BY <1>6, <1>11 DEF t

\* Every kind has an id of its own.
LEMMA IdsDiffer ==
  /\ \A kind \in Kind : Peer!Id[kind] \in WireByte
  /\ \A k1, k2 \in Kind : Peer!Id[k1] = Peer!Id[k2] => k1 = k2
<1>1. \A kind \in Kind : Peer!Id[kind] \in 0..20
  BY KindsAre DEF Peer!Id
<1>2. \A k1, k2 \in Kind : Peer!Id[k1] = Peer!Id[k2] => k1 = k2
  BY KindsAre DEF Peer!Id
<1>. QED BY <1>1, <1>2, WireBase

\* The bytes of the fields of a message.
Written(m) == [k \in DOMAIN m.fields |-> Peer!BigEndian(m.fields[k], Peer!Fields[m.kind][k])]

\* A message that is no keep-alive.
Proper(m) ==
  /\ m = Peer!Message(m.kind, m.fields, m.tail) /\ m.kind \in Kind
  /\ Fit(m.kind, Written(m)) /\ m.fields = [k \in 1..Count(m.kind) |-> Peer!Value(Written(m)[k])]
  /\ m.tail \in Bytes /\ (m.kind \notin Peer!HasTail => m.tail = <<>>)
  /\ DOMAIN m.fields = 1..Count(m.kind)

\* What is assumed of the messages.
LEMMA MessagesAre ==
  ASSUME NEW m \in Messages
  PROVE  /\ m = Peer!KeepAlive \/ Proper(m)
         /\ Peer!Declared(m) \in Peer!Unsigned(WordLen)
<1>1. /\ \/ m = Peer!KeepAlive
         \/ /\ m = Peer!Message(m.kind, m.fields, m.tail) /\ m.kind \in DOMAIN Peer!Id
            /\ m.fields = [k \in DOMAIN Peer!Fields[m.kind] |-> m.fields[k]]
            /\ \A k \in DOMAIN m.fields : m.fields[k] \in Peer!Unsigned(Peer!Fields[m.kind][k])
            /\ m.tail \in Seq(0..ByteBase - 1) /\ (m.kind \notin Peer!HasTail => m.tail = <<>>)
      /\ Peer!Declared(m) \in Peer!Unsigned(WordLen)
  BY WireAssumption, Zenon
<1>. SUFFICES ASSUME m # Peer!KeepAlive PROVE Proper(m)
  BY <1>1, Zenon
<1>2. /\ m = Peer!Message(m.kind, m.fields, m.tail) /\ m.kind \in Kind
      /\ m.fields = [k \in DOMAIN Peer!Fields[m.kind] |-> m.fields[k]]
      /\ \A k \in DOMAIN m.fields : m.fields[k] \in Peer!Unsigned(Peer!Fields[m.kind][k])
      /\ m.tail \in Bytes /\ (m.kind \notin Peer!HasTail => m.tail = <<>>)
  BY <1>1, Zenon DEF Kind, Bytes, WireByte
<1>. DEFINE kind == m.kind
            g == m.fields
            t == Written(m)
            n == Count(kind)
<1>3. /\ kind \in Kind /\ g = [k \in DOMAIN Peer!Fields[kind] |-> g[k]]
      /\ \A k \in DOMAIN g : g[k] \in Peer!Unsigned(Peer!Fields[kind][k])
      /\ t = [k \in DOMAIN g |-> Peer!BigEndian(g[k], Peer!Fields[kind][k])]
  BY <1>2, Zenon DEF Written
<1>4. n \in Nat /\ DOMAIN Peer!Fields[kind] = 1..n /\ \A k \in 1..n : Peer!Fields[kind][k] \in Nat
  BY <1>2, FieldsAre DEF Count
<1>. HIDE DEF kind, g, t, n
<1>5. DOMAIN g = 1..n
  BY <1>3, <1>4, Zenon
<1>6. ASSUME NEW k \in 1..n
      PROVE  t[k] \in Bytes /\ Len(t[k]) = Peer!Fields[kind][k] /\ Peer!Value(t[k]) = g[k]
  <2>1. t[k] = Peer!BigEndian(g[k], Peer!Fields[kind][k])
    BY <1>3, <1>5, Zenon
  <2>2. PICK w, x : w = Peer!Fields[kind][k] /\ x = g[k]
    OBVIOUS
  <2>3. w \in Nat /\ x \in Peer!Unsigned(w)
    BY <1>3, <1>4, <1>5, <2>2, Zenon
  <2>4. /\ Peer!BigEndian(x, w) \in Bytes /\ Len(Peer!BigEndian(x, w)) = w
        /\ Peer!Value(Peer!BigEndian(x, w)) = x
    BY <2>3, UnsignedIs, Zenon
  <2>. QED BY <2>1, <2>2, <2>4, Zenon
<1>7. t \in Seq(Bytes) /\ Len(t) = n
  <2>1. t \in [1..n -> Bytes]
    BY <1>3, <1>5, <1>6
  <2>. QED BY <1>4, <2>1
<1>8. Fit(kind, t)
  BY <1>6, <1>7, Zenon DEF Fit, n
<1>9. g = [k \in 1..n |-> Peer!Value(t[k])]
  BY <1>3, <1>4, <1>5, <1>6
<1>. QED BY <1>2, <1>5, <1>8, <1>9 DEF Proper, kind, g, t, n

\* What is written of a kind, with the bytes of its fields and what is behind.
Encoded(kind, t, tail) == (<<Peer!Id[kind]>> \o FlattenSeq(t)) \o tail

\* Its first byte is the id, and the rest the numbers and what is behind them.
LEMMA EncodedIs ==
  ASSUME NEW kind \in Kind, NEW t, Fit(kind, t), NEW tail \in Bytes
  PROVE  /\ Encoded(kind, t, tail) \in Bytes /\ Encoded(kind, t, tail) # <<>>
         /\ Len(Encoded(kind, t, tail)) = 1 + HeaderLen(kind) + Len(tail)
         /\ Encoded(kind, t, tail)[1] = Peer!Id[kind]
         /\ Tail(Encoded(kind, t, tail)) = FlattenSeq(t) \o tail
         /\ FlattenSeq(t) \o tail \in Bytes /\ Len(FlattenSeq(t) \o tail) = HeaderLen(kind) + Len(tail)
<1>1. PICK b \in WireByte : b = Peer!Id[kind]
  BY IdsDiffer
<1>2. PICK u \in Seq(WireByte) : u = FlattenSeq(t) /\ Len(u) = HeaderLen(kind)
  BY LenOfPieces DEF Bytes
<1>3. PICK v \in Seq(WireByte) : v = tail
  BY DEF Bytes
<1>4. HeaderLen(kind) \in Nat
  BY StartsGrow
<1>5. PICK p \in Seq(WireByte) : p = u \o v /\ Len(p) = Len(u) + Len(v)
  BY ConcatProperties
<1>6. (<<b>> \o u) \o v = <<b>> \o p
  BY <1>5
<1>7. /\ <<b>> \o p \in Seq(WireByte) /\ Len(<<b>> \o p) = 1 + Len(p) /\ (<<b>> \o p)[1] = b
      /\ <<b>> \o p # <<>>
  OBVIOUS
<1>8. Tail(<<b>> \o p) = p
  OBVIOUS
<1>9. Encoded(kind, t, tail) = <<b>> \o p
  BY <1>1, <1>2, <1>3, <1>6 DEF Encoded
<1>10. Len(p) = HeaderLen(kind) + Len(tail) /\ p = FlattenSeq(t) \o tail /\ Len(tail) \in Nat
  BY <1>2, <1>3, <1>5
<1>. QED BY <1>1, <1>4, <1>7, <1>8, <1>9, <1>10, SMTT(60) DEF Bytes

\* Encode of a message.
LEMMA EncodeIs ==
  ASSUME NEW m, Proper(m)
  PROVE  Peer!Encode(m) = Encoded(m.kind, Written(m), m.tail) /\ m # Peer!KeepAlive
<1>1. m # Peer!KeepAlive
  <2>1. m.kind \in Kind
    BY DEF Proper
  <2>2. m.kind # "KeepAlive"
    BY <2>1, KindsAre
  <2>. QED BY <2>2 DEF Peer!KeepAlive, Peer!Message
<1>2. Peer!FlattenSeq(Written(m)) = FlattenSeq(Written(m))
  BY SamePeerFlatten
<1>3. Peer!Encode(m) = (<<Peer!Id[m.kind]>> \o Peer!FlattenSeq(Written(m))) \o m.tail
  BY <1>1 DEF Peer!Encode, Written
<1>. QED BY <1>1, <1>2, <1>3 DEF Encoded

\* A keep-alive is no bytes.
LEMMA KeepAliveIs == Peer!Encode(Peer!KeepAlive) = <<>> /\ Peer!Decode(<<>>) = Peer!KeepAlive
                     /\ Peer!Declared(Peer!KeepAlive) = 0
BY DEF Peer!Encode, Peer!Decode, Peer!Declared, Peer!KeepAlive, Peer!Message

\* The length that is written before a message is that of the message.
LEMMA DeclaredIsLength ==
  ASSUME NEW m \in Messages
  PROVE  Peer!Encode(m) \in Bytes /\ Len(Peer!Encode(m)) = Peer!Declared(m)
<1>1. CASE m = Peer!KeepAlive
  <2>1. <<>> \in Bytes /\ Len(<<>>) = 0
    BY EmptySeq DEF Bytes
  <2>. QED BY <1>1, <2>1, KeepAliveIs
<1>2. CASE Proper(m)
  <2>1. PICK kind \in Kind : kind = m.kind /\ m.tail \in Bytes /\ (kind \notin Peer!HasTail => m.tail = <<>>)
                             /\ Fit(kind, Written(m))
    BY <1>2 DEF Proper
  <2>2. Peer!Encode(m) \in Bytes /\ Len(Peer!Encode(m)) = 1 + HeaderLen(kind) + Len(m.tail)
    BY <1>2, <2>1, EncodeIs, EncodedIs
  <2>3. Len(m.tail) \in Nat /\ WordLen \in Nat /\ Peer!HalfLen \in Nat /\ (m.tail = <<>> => Len(m.tail) = 0)
    BY <2>1, WireBase, SMTT(60) DEF Bytes
  <2>4. Peer!Declared(m) = CASE kind = "KeepAlive" -> 0
    [] kind = "Have" -> 1 + WordLen
    [] kind \in {"Request", "Cancel"} -> 1 + 3 * WordLen
    [] kind = "Piece" -> 1 + 2 * WordLen + Len(m.tail)
    [] kind = "Port" -> 1 + Peer!HalfLen
    [] kind = "Extended" -> 2 + Len(m.tail)
    [] OTHER -> 1 + Len(m.tail)
    BY <2>1 DEF Peer!Declared
  <2>5. HeaderLen(kind) = CASE kind = "Have" -> WordLen
                          [] kind \in {"Request", "Cancel"} -> 3 * WordLen
                          [] kind = "Piece" -> 2 * WordLen
                          [] kind = "Port" -> Peer!HalfLen
                          [] kind = "Extended" -> 1
                          [] OTHER -> 0
    BY HeaderIs
  <2>6. PICK n \in Nat : n = Len(m.tail)
    BY <2>3
  <2>. HIDE DEF Peer!HalfLen
  <2>7. kind \in {"Have", "Request", "Cancel", "Port"} => n = 0
    BY <2>1, <2>3, <2>6 DEF Peer!HasTail
  <2>8. Peer!Declared(m) = 1 + HeaderLen(kind) + n
    BY <2>3, <2>4, <2>5, <2>6, <2>7, KindsAre
  <2>. QED BY <2>2, <2>6, <2>8
<1>. QED BY <1>1, <1>2, MessagesAre

\* What begins with the id of a kind is read as one of that kind.
LEMMA DecodeIs ==
  ASSUME NEW f \in Bytes, f # <<>>, NEW kind \in Kind, f[1] = Peer!Id[kind]
  PROVE  Peer!Decode(f) = Peer!DecodePayload(kind, Tail(f))
<1>1. ~(\A k \in DOMAIN Peer!Id : Peer!Id[k] # f[1])
  BY DEF Kind
<1>2. (CHOOSE k \in DOMAIN Peer!Id : Peer!Id[k] = f[1]) = kind
  <2>1. \E k \in Kind : Peer!Id[k] = f[1]
    OBVIOUS
  <2>2. \A k \in Kind : Peer!Id[k] = f[1] => k = kind
    BY IdsDiffer
  <2>. DEFINE c == CHOOSE k \in Kind : Peer!Id[k] = f[1]
  <2>3. c \in Kind /\ Peer!Id[c] = f[1]
    BY <2>1, Zenon
  <2>4. c = kind
    BY <2>2, <2>3, Zenon
  <2>. QED BY <2>4 DEF Kind
<1>. QED BY <1>1, <1>2, Zenon DEF Peer!Decode

\* What is read of a payload.
LEMMA PayloadIs ==
  ASSUME NEW kind \in Kind, NEW p \in Bytes
  PROVE  Peer!DecodePayload(kind, p) =
           IF Len(p) < HeaderLen(kind) THEN Peer!Refusal("BadPayload")
           ELSE Peer!Message(kind, [k \in 1..Count(kind) |-> Peer!Value(PiecesOf(kind, p)[k])],
                             IF kind \in Peer!HasTail THEN SubSeq(p, HeaderLen(kind) + 1, Len(p)) ELSE <<>>)
<1>1. DOMAIN Peer!Fields[kind] = 1..Count(kind)
  BY FieldsAre
<1>2. [k \in DOMAIN Peer!Fields[kind] |->
          Peer!Value(SubSeq(p, Peer!Starts(kind, k) + 1, Peer!Starts(kind, k + 1)))]
        = [k \in 1..Count(kind) |-> Peer!Value(PiecesOf(kind, p)[k])]
  BY <1>1 DEF PiecesOf
<1>. QED BY <1>2, Zenon DEF Peer!DecodePayload, HeaderLen, Count

\* A message that was written is read as it was.
LEMMA MessageIsRead ==
  ASSUME NEW m \in Messages
  PROVE  Peer!Decode(Peer!Encode(m)) = m /\ m # Peer!Refusal("BadMsgId") /\ m # Peer!Refusal("BadPayload")
<1>1. CASE m = Peer!KeepAlive
  BY <1>1, KeepAliveIs DEF Peer!KeepAlive, Peer!Refusal, Peer!Message
<1>2. CASE Proper(m)
  <2>1. PICK kind \in Kind, t \in Seq(Bytes), tail \in Bytes :
          /\ m = Peer!Message(kind, m.fields, tail) /\ Fit(kind, t) /\ t = Written(m)
          /\ m.fields = [k \in 1..Count(kind) |-> Peer!Value(t[k])]
          /\ kind \notin Peer!HasTail => tail = <<>>
          /\ kind = m.kind /\ tail = m.tail
    BY <1>2, Zenon DEF Proper, Fit
  <2>a. Fit(kind, t)
    BY <2>1
  <2>2. PICK f, p : f = Peer!Encode(m) /\ p = FlattenSeq(t) \o tail
    OBVIOUS
  <2>3. f = Encoded(kind, t, tail)
    BY <1>2, <2>1, <2>2, EncodeIs, Zenon
  <2>4. /\ f \in Bytes /\ f # <<>> /\ f[1] = Peer!Id[kind] /\ Tail(f) = p /\ p \in Bytes
        /\ Len(p) = HeaderLen(kind) + Len(tail)
    BY <2>a, <2>2, <2>3, EncodedIs
  <2>5. Peer!Decode(f) = Peer!DecodePayload(kind, p)
    BY <2>1, <2>4, DecodeIs, Zenon
  <2>6. HeaderLen(kind) \in Nat /\ Len(tail) \in Nat /\ ~(Len(p) < HeaderLen(kind))
    <3>1. HeaderLen(kind) \in Nat
      BY <2>1, StartsGrow
    <3>2. Len(tail) \in Nat
      BY <2>1, LenProperties DEF Bytes
    <3>. QED BY <2>4, <3>1, <3>2
  <2>7. ASSUME NEW k \in 1..Count(kind) PROVE PiecesOf(kind, p)[k] = t[k]
    <3>1. SubSeq(FlattenSeq(t) \o tail, Peer!Starts(kind, k) + 1, Peer!Starts(kind, k + 1)) = t[k]
      BY <2>a, FieldIsRead
    <3>. QED BY <2>2, <3>1 DEF PiecesOf
  <2>8. [k \in 1..Count(kind) |-> Peer!Value(PiecesOf(kind, p)[k])] = m.fields
    BY <2>1, <2>7
  <2>9. SubSeq(p, HeaderLen(kind) + 1, Len(p)) = tail
    <3>1. PICK u \in Seq(WireByte) : u = FlattenSeq(t) /\ Len(u) = HeaderLen(kind)
      BY <2>a, LenOfPieces DEF Bytes
    <3>2. PICK v \in Seq(WireByte) : v = tail
      BY <2>1 DEF Bytes
    <3>3. SubSeq(u \o v, Len(u) + 1, Len(u \o v)) = v
      BY BothEnds
    <3>. QED BY <2>2, <3>1, <3>2, <3>3
  <2>10. (IF kind \in Peer!HasTail THEN SubSeq(p, HeaderLen(kind) + 1, Len(p)) ELSE <<>>) = tail
    BY <2>1, <2>9, Zenon
  <2>11. Peer!DecodePayload(kind, p) = Peer!Message(kind, m.fields, tail)
    <3>1. Peer!DecodePayload(kind, p) =
           IF Len(p) < HeaderLen(kind) THEN Peer!Refusal("BadPayload")
           ELSE Peer!Message(kind, [k \in 1..Count(kind) |-> Peer!Value(PiecesOf(kind, p)[k])],
                             IF kind \in Peer!HasTail THEN SubSeq(p, HeaderLen(kind) + 1, Len(p)) ELSE <<>>)
      BY <2>4, PayloadIs
    <3>. QED BY <2>6, <2>8, <2>10, <3>1, Zenon
  <2>12. Peer!Decode(Peer!Encode(m)) = m
    BY <2>1, <2>2, <2>5, <2>11, Zenon
  <2>13. m.kind # "BadMsgId" /\ m.kind # "BadPayload"
    BY <2>1, KindsAre 
  <2>14. m # Peer!Refusal("BadMsgId") /\ m # Peer!Refusal("BadPayload")
    BY <2>13 DEF Peer!Refusal, Peer!Message
  <2>. QED BY <2>12, <2>14
<1>. QED BY <1>1, <1>2, MessagesAre

\* A frame that is too short is shorter than any message of its kind.
LEMMA ShortIsRefused ==
  ASSUME NEW f \in Bytes, f # <<>>, NEW kind \in Kind, f[1] = Peer!Id[kind],
         Len(Tail(f)) < HeaderLen(kind),
         NEW m \in Messages, m # Peer!KeepAlive, Peer!Id[m.kind] = f[1]
  PROVE  Len(Peer!Encode(m)) > Len(f)
<1>1. Proper(m)
  BY MessagesAre
<1>2. m.kind = kind /\ Fit(kind, Written(m)) /\ m.tail \in Bytes
  BY <1>1, IdsDiffer DEF Proper
<1>3. PICK t \in Seq(Bytes), tail \in Bytes : t = Written(m) /\ tail = m.tail /\ Fit(kind, t)
  BY <1>2 DEF Fit
<1>4. Peer!Encode(m) = Encoded(kind, t, tail)
  BY <1>1, <1>2, <1>3, EncodeIs, Zenon
<1>5. Len(Encoded(kind, t, tail)) = 1 + HeaderLen(kind) + Len(tail)
  BY <1>3, EncodedIs
<1>6. Len(tail) \in Nat /\ HeaderLen(kind) \in Nat /\ Len(f) \in Nat /\ Len(Tail(f)) = Len(f) - 1
  BY StartsGrow, HeadTailProperties, LenProperties DEF Bytes
<1>. QED BY <1>4, <1>5, <1>6

\* What is read of a frame that is long enough is a beginning of it, and all of
\* it where the kind has a use for the rest.
LEMMA LongIsRead ==
  ASSUME NEW f \in Bytes, f # <<>>, NEW kind \in Kind, f[1] = Peer!Id[kind],
         ~(Len(Tail(f)) < HeaderLen(kind))
  PROVE  /\ Peer!IsPrefix(Peer!Encode(Peer!Decode(f)), f) /\ Peer!Decode(f).kind = kind
         /\ kind \in Peer!HasTail => Peer!Encode(Peer!Decode(f)) = f
<1>1. PICK p \in Seq(WireByte), b \in WireByte : p = Tail(f) /\ b = f[1] /\ f = <<b>> \o p
  <2>1. f \in Seq(WireByte)
    BY DEF Bytes
  <2>2. Tail(f) \in Seq(WireByte) /\ f[1] \in WireByte /\ f = <<f[1]>> \o Tail(f)
    BY <2>1
  <2>. QED BY <2>2, Zenon
<1>2. HeaderLen(kind) \in Nat /\ Len(p) \in Nat /\ HeaderLen(kind) <= Len(p) /\ p \in Bytes
  <2>1. HeaderLen(kind) \in Nat
    BY StartsGrow
  <2>. QED BY <1>1, <2>1 DEF Bytes
<1>3. PICK t \in Seq(Bytes) : t = PiecesOf(kind, p) /\ Fit(kind, t) /\ FlattenSeq(t) = SubSeq(p, 1, HeaderLen(kind))
  <2>1. Fit(kind, PiecesOf(kind, p)) /\ FlattenSeq(PiecesOf(kind, p)) = SubSeq(p, 1, HeaderLen(kind))
    BY <1>2, PiecesAre
  <2>2. PiecesOf(kind, p) \in Seq(Bytes)
    BY <2>1, Zenon DEF Fit
  <2>. QED BY <2>1, <2>2, Zenon
<1>4. PICK head \in Seq(WireByte), behind \in Seq(WireByte) :
        /\ head = SubSeq(p, 1, HeaderLen(kind)) /\ behind = SubSeq(p, HeaderLen(kind) + 1, Len(p))
        /\ p = head \o behind /\ Len(head) = HeaderLen(kind)
  <2>. DEFINE n == HeaderLen(kind)
  <2>. HIDE DEF n
  <2>1. n \in Nat /\ n <= Len(p)
    BY <1>2 DEF n
  <2>2. /\ SubSeq(p, 1, n) \in Seq(WireByte) /\ SubSeq(p, n + 1, Len(p)) \in Seq(WireByte)
        /\ Len(SubSeq(p, 1, n)) = n
    BY <1>2, <2>1
  <2>3. SubSeq(p, 1, n) \o SubSeq(p, n + 1, Len(p)) = SubSeq(p, 1, Len(p))
    <3>1. 1 \in 1..Len(p) + 1 /\ n \in 1 - 1..Len(p) /\ Len(p) \in n..Len(p)
      BY <1>2, <2>1
    <3>. QED BY <3>1, ConcatAdjacentSubSeq
  <2>4. SubSeq(p, 1, Len(p)) = p
    BY SubSeqFull
  <2>. QED BY <2>2, <2>3, <2>4, Zenon DEF n
<1>5. PICK tail \in Seq(WireByte) : tail = IF kind \in Peer!HasTail THEN behind ELSE <<>>
  BY EmptySeq
<1>. DEFINE fields == [k \in 1..Count(kind) |-> Peer!Value(t[k])]
            m == Peer!Message(kind, fields, tail)
<1>6. Peer!Decode(f) = m
  <2>1. Peer!Decode(f) = Peer!DecodePayload(kind, p)
    BY <1>1, DecodeIs
  <2>2. Peer!DecodePayload(kind, p) =
           IF Len(p) < HeaderLen(kind) THEN Peer!Refusal("BadPayload")
           ELSE Peer!Message(kind, [k \in 1..Count(kind) |-> Peer!Value(PiecesOf(kind, p)[k])],
                             IF kind \in Peer!HasTail THEN SubSeq(p, HeaderLen(kind) + 1, Len(p)) ELSE <<>>)
    BY <1>2, PayloadIs
  <2>3. ~(Len(p) < HeaderLen(kind))
    BY <1>2
  <2>. QED BY <1>3, <1>4, <1>5, <2>1, <2>2, <2>3, Zenon
<1>7. m.kind = kind /\ m.fields = fields /\ m.tail = tail
  BY DEF Peer!Message
<1>8. Written(m) = t
  <2>1. \A k \in 1..Count(kind) : Peer!BigEndian(Peer!Value(t[k]), Peer!Fields[kind][k]) = t[k]
    <3>. SUFFICES ASSUME NEW k \in 1..Count(kind)
                  PROVE  Peer!BigEndian(Peer!Value(t[k]), Peer!Fields[kind][k]) = t[k]
      OBVIOUS
    <3>1. PICK c \in Bytes : c = t[k] /\ Len(c) = Peer!Fields[kind][k]
      BY <1>3 DEF Fit
    <3>2. Peer!BigEndian(Peer!Value(c), Len(c)) = c
      BY BytesOfValue
    <3>. QED BY <3>1, <3>2
  <2>2. DOMAIN fields = 1..Count(kind) /\ \A k \in 1..Count(kind) : fields[k] = Peer!Value(t[k])
    OBVIOUS
  <2>3. t = [k \in 1..Count(kind) |-> t[k]]
    BY <1>3 DEF Fit
  <2>. HIDE DEF fields, m
  <2>4. Written(m) = [k \in DOMAIN fields |-> Peer!BigEndian(fields[k], Peer!Fields[kind][k])]
    BY <1>7 DEF Written
  <2>5. Written(m) = [k \in 1..Count(kind) |-> t[k]]
    BY <2>1, <2>2, <2>4
  <2>. QED BY <2>3, <2>5
<1>. HIDE DEF m, fields
<1>9. Peer!Encode(m) = (<<b>> \o head) \o tail
  <2>1. m # Peer!KeepAlive
    <3>1. kind # "KeepAlive"
      BY KindsAre
    <3>. QED BY <1>7, <3>1 DEF Peer!KeepAlive, Peer!Message
  <2>2. Peer!Encode(m) = (<<Peer!Id[m.kind]>> \o Peer!FlattenSeq(Written(m))) \o m.tail
    BY <2>1 DEF Peer!Encode, Written
  <2>3. Peer!FlattenSeq(Written(m)) = head
    BY <1>3, <1>4, <1>8, SamePeerFlatten
  <2>. QED BY <1>1, <1>7, <2>2, <2>3
<1>10. f = (<<b>> \o head) \o behind
  <2>1. <<b>> \o (head \o behind) = (<<b>> \o head) \o behind
    BY SMTT(60)
  <2>. QED BY <1>1, <1>4, <2>1
<1>11. kind \in Peer!HasTail => Peer!Encode(m) = f
  BY <1>5, <1>9, <1>10, Zenon
<1>12. Peer!IsPrefix(Peer!Encode(m), f)
  <2>1. CASE kind \in Peer!HasTail
    <3>1. Len(f) \in Nat
      BY DEF Bytes
    <3>. QED BY <1>11, <2>1, <3>1 DEF Peer!IsPrefix
  <2>2. CASE kind \notin Peer!HasTail
    <3>1. PICK c \in Seq(WireByte) : c = <<b>> \o head
      <4>1. <<b>> \in Seq(WireByte)
        OBVIOUS
      <4>. QED BY <4>1, ConcatProperties
    <3>2. c \o <<>> = c
      OBVIOUS
    <3>3. Peer!Encode(m) = c /\ f = c \o behind
      BY <1>5, <1>9, <1>10, <2>2, <3>1, <3>2
    <3>4. Len(c) \in Nat /\ Len(c \o behind) = Len(c) + Len(behind) /\ Len(behind) \in Nat
          /\ SubSeq(c \o behind, 1, Len(c)) = c /\ SubSeq(c, 1, Len(c)) = c
      BY BothEnds, SubSeqFull, LenProperties
    <3>. QED BY <3>3, <3>4 DEF Peer!IsPrefix
  <2>. QED BY <2>1, <2>2
<1>. QED BY <1>6, <1>7, <1>11, <1>12

(***************************************************************************)
(* What is written, one frame behind another.                              *)
(***************************************************************************)
Framing(f) == Peer!BigEndian(Len(f), WordLen) \o f
Framed(m) == Framing(Peer!Encode(m))
Spoke(todo) == FlattenSeq([k \in DOMAIN todo |-> Framed(todo[k])])

\* A frame has its length before it.
LEMMA FramingIs ==
  ASSUME NEW f \in Bytes, Len(f) \in Peer!Unsigned(WordLen)
  PROVE  /\ Framing(f) \in Bytes
         /\ \E b \in Bytes : Framing(f) = b \o f /\ Len(b) = WordLen /\ Peer!Value(b) = Len(f)
<1>1. PICK b \in Bytes : b = Peer!BigEndian(Len(f), WordLen) /\ Len(b) = WordLen /\ Peer!Value(b) = Len(f)
  <2>1. WordLen \in Nat
    BY WireBase
  <2>. QED BY <2>1, UnsignedIs
<1>2. b \o f \in Bytes
  BY ConcatProperties DEF Bytes
<1>. QED BY <1>1, <1>2, Zenon DEF Framing

\* So has a message.
LEMMA FramedIs ==
  ASSUME NEW m \in Messages
  PROVE  /\ Framed(m) \in Bytes /\ Framed(m) = Peer!BigEndian(Peer!Declared(m), WordLen) \o Peer!Encode(m)
         /\ Peer!Encode(m) \in Bytes /\ Len(Peer!Encode(m)) \in Peer!Unsigned(WordLen)
<1>1. /\ Peer!Encode(m) \in Bytes /\ Len(Peer!Encode(m)) = Peer!Declared(m)
      /\ Peer!Declared(m) \in Peer!Unsigned(WordLen)
  BY DeclaredIsLength, MessagesAre
<1>2. PICK f \in Bytes : f = Peer!Encode(m) /\ Len(f) \in Peer!Unsigned(WordLen)
  BY <1>1, Zenon
<1>3. Framing(f) \in Bytes
  BY <1>2, FramingIs
<1>. QED BY <1>1, <1>2, <1>3, Zenon DEF Framed, Framing

\* A stranger's frames are bytes that a length can be written before.
LEMMA FramesAre ==
  ASSUME NEW f \in Frames
  PROVE  f \in Bytes /\ Len(f) \in Peer!Unsigned(WordLen)
BY WireAssumption, Zenon DEF Bytes, WireByte

\* What is said, by one message more at the end.
LEMMA SpokeAppend ==
  ASSUME NEW todo \in Seq(Messages), NEW m \in Messages
  PROVE  Spoke(<<>>) = <<>> /\ Spoke(todo) \in Bytes /\ Spoke(Append(todo, m)) = Spoke(todo) \o Framed(m)
<1>. DEFINE n == Len(todo)
            s == [k \in DOMAIN todo |-> Framed(todo[k])]
            u == Append(todo, m)
            v == [k \in DOMAIN u |-> Framed(u[k])]
<1>1. Spoke(<<>>) = <<>>
  <2>1. [k \in DOMAIN <<>> |-> Framed(<<>>[k])] = <<>>
    OBVIOUS
  <2>. QED BY <2>1, FlattenEmpty DEF Spoke
<1>2. n \in Nat /\ DOMAIN todo = 1..n /\ DOMAIN u = 1..n + 1 /\ u[n + 1] = m
      /\ \A k \in 1..n : u[k] = todo[k] /\ todo[k] \in Messages
  OBVIOUS
<1>. HIDE DEF n, u
<1>3. s \in Seq(Seq(WireByte)) /\ Len(s) = n
  <2>1. \A k \in 1..n : Framed(todo[k]) \in Seq(WireByte)
    BY <1>2, FramedIs DEF Bytes
  <2>2. s \in [1..n -> Seq(WireByte)]
    BY <1>2, <2>1
  <2>. HIDE DEF s
  <2>. QED BY <1>2, <2>2
<1>4. v \in Seq(Seq(WireByte)) /\ Len(v) = n + 1
  <2>1. \A k \in 1..n + 1 : Framed(u[k]) \in Seq(WireByte)
    <3>. SUFFICES ASSUME NEW k \in 1..n + 1 PROVE u[k] \in Messages
      BY FramedIs DEF Bytes
    <3>1. k \in 1..n \/ k = n + 1
      BY <1>2, SMTT(60)
    <3>. QED BY <1>2, <3>1
  <2>2. v \in [1..n + 1 -> Seq(WireByte)] /\ n + 1 \in Nat
    BY <1>2, <2>1
  <2>. HIDE DEF v
  <2>. QED BY <2>2
<1>5. Framed(m) \in Seq(WireByte)
  BY FramedIs DEF Bytes
<1>6. v = Append(s, Framed(m))
  <2>1. \A k \in 1..n : v[k] = Framed(todo[k]) /\ s[k] = Framed(todo[k])
    BY <1>2
  <2>2. v[n + 1] = Framed(m)
    BY <1>2
  <2>. HIDE DEF s, v
  <2>3. Append(s, Framed(m)) \in Seq(Seq(WireByte)) /\ Len(Append(s, Framed(m))) = n + 1
        /\ Append(s, Framed(m))[n + 1] = Framed(m) /\ \A k \in 1..n : Append(s, Framed(m))[k] = s[k]
    BY <1>3, <1>5
  <2>4. ASSUME NEW k \in 1..n + 1 PROVE v[k] = Append(s, Framed(m))[k]
    <3>1. k \in 1..n \/ k = n + 1
      BY <1>2
    <3>. QED BY <2>1, <2>2, <2>3, <3>1
  <2>. QED BY <1>4, <2>3, <2>4, SeqEqual
<1>7. Spoke(todo) = FlattenSeq(s) /\ Spoke(u) = FlattenSeq(v)
  BY DEF Spoke
<1>. HIDE DEF s, v
<1>8. FlattenSeq(s) \in Seq(WireByte)
  BY <1>3, FlattenIsSeq
<1>9. FlattenSeq(v) = FlattenSeq(s) \o Framed(m)
  <2>1. \A x \in Seq(Seq(WireByte)), y \in Seq(WireByte) : FlattenSeq(Append(x, y)) = FlattenSeq(x) \o y
    BY FlattenAppend
  <2>. QED BY <1>3, <1>5, <1>6, <2>1, Zenon
<1>. QED BY <1>1, <1>7, <1>8, <1>9 DEF Bytes, u

\* And at the beginning.
LEMMA SpokeFirst ==
  ASSUME NEW m \in Messages, NEW t \in Seq(Messages)
  PROVE  Spoke(<<m>> \o t) = Framed(m) \o Spoke(t)
<1>. DEFINE T == {x \in Seq(Messages) : Spoke(<<m>> \o x) = Framed(m) \o Spoke(x)}
<1>1. PICK a \in Bytes : a = Framed(m)
  BY FramedIs
<1>2. <<>> \in T
  <2>1. <<>> \in Seq(Messages) /\ <<m>> \o <<>> = Append(<<>>, m)
    OBVIOUS
  <2>2. Spoke(Append(<<>>, m)) = Spoke(<<>>) \o Framed(m) /\ Spoke(<<>>) = <<>>
    BY <2>1, SpokeAppend
  <2>3. <<>> \o a = a /\ a \o <<>> = a
    BY ConcatEmptySeq DEF Bytes
  <2>. QED BY <1>1, <2>1, <2>2, <2>3
<1>3. ASSUME NEW x \in Seq(Messages), NEW e \in Messages, x \in T PROVE Append(x, e) \in T
  <2>1. PICK y \in Seq(Messages) : y = <<m>> \o x /\ <<m>> \o Append(x, e) = Append(y, e)
    <3>1. <<m>> \o x \in Seq(Messages) /\ <<m>> \o Append(x, e) = Append(<<m>> \o x, e)
      OBVIOUS
    <3>. QED BY <3>1, Zenon
  <2>2. PICK b \in Bytes, c \in Bytes : b = Spoke(x) /\ c = Framed(e)
    BY FramedIs, SpokeAppend
  <2>3. Spoke(y) = a \o b
    BY <1>1, <1>3, <2>1, <2>2
  <2>4. Spoke(Append(y, e)) = (a \o b) \o c
    BY <2>2, <2>3, SpokeAppend
  <2>5. Spoke(Append(x, e)) = b \o c
    BY <2>2, SpokeAppend
  <2>6. (a \o b) \o c = a \o (b \o c)
    BY SMTT(60) DEF Bytes
  <2>7. Append(x, e) \in Seq(Messages)
    OBVIOUS
  <2>8. Spoke(<<m>> \o Append(x, e)) = Framed(m) \o Spoke(Append(x, e))
    BY <1>1, <2>1, <2>4, <2>5, <2>6, Zenon
  <2>. QED BY <2>7, <2>8, Zenon
<1>. HIDE DEF T
<1>4. t \in T
  BY <1>2, <1>3, AppendInduction
<1>. QED BY <1>4 DEF T

\* A frame at the beginning of the stream is cut off.
LEMMA FrameIsCut ==
  ASSUME NEW f \in Bytes, Len(f) \in Peer!Unsigned(WordLen), NEW behind \in Bytes,
         stream = Framing(f) \o behind
  PROVE  /\ Peer!Complete
         /\ SubSeq(stream, WordLen + 1, Peer!FrameEnd) = f
         /\ SubSeq(stream, Peer!FrameEnd + 1, Len(stream)) = behind
<1>1. PICK b \in Bytes : Framing(f) = b \o f /\ Len(b) = WordLen /\ Peer!Value(b) = Len(f)
  BY FramingIs
<1>2. PICK s \in Bytes : s = (b \o f) \o behind /\ stream = s
  <2>1. b \o f \in Seq(WireByte)
    BY ConcatProperties DEF Bytes
  <2>2. \A x \in Seq(WireByte) : x \o behind \in Seq(WireByte)
    BY ConcatProperties DEF Bytes
  <2>. QED BY <1>1, <2>1, <2>2, Zenon DEF Bytes
<1>3. s = b \o (f \o behind) /\ f \o behind \in Bytes
  BY <1>2, ConcatProperties, SMTT(60) DEF Bytes
<1>4. SubSeq(s, 1, Len(b)) = b
  BY <1>3, BothEnds DEF Bytes
<1>5. SubSeq(s, Len(b) + 1, Len(b) + Len(f)) = f
  BY <1>2, Middle DEF Bytes
<1>6. /\ SubSeq(s, Len(b) + Len(f) + 1, Len(s)) = behind
      /\ Len(s) = Len(b) + Len(f) + Len(behind)
  <2>1. PICK c \in Seq(WireByte) : c = b \o f /\ Len(c) = Len(b) + Len(f)
    BY ConcatProperties DEF Bytes
  <2>2. SubSeq(c \o behind, Len(c) + 1, Len(c \o behind)) = behind /\ Len(c \o behind) = Len(c) + Len(behind)
    BY BothEnds DEF Bytes
  <2>. QED BY <1>2, <2>1, <2>2
<1>7. Len(b) \in Nat /\ Len(f) \in Nat /\ Len(behind) \in Nat
  BY DEF Bytes
<1>8. Peer!FrameEnd = Len(b) + Len(f)
  BY <1>1, <1>2, <1>4 DEF Peer!FrameEnd
<1>9. Peer!Complete
  <2>1. PICK x \in Nat, y \in Nat, z \in Nat : x = Len(b) /\ y = Len(f) /\ z = Len(behind)
    BY <1>7
  <2>2. Len(stream) = x + y + z /\ WordLen = x /\ Peer!FrameEnd = x + y
    BY <1>1, <1>2, <1>6, <1>8, <2>1
  <2>3. x + y + z >= x /\ x + y + z >= x + y
    OBVIOUS
  <2>4. Len(stream) >= WordLen /\ Len(stream) >= Peer!FrameEnd
    BY <2>2, <2>3, Zenon
  <2>. QED BY <2>4, Zenon DEF Peer!Complete
<1>. QED BY <1>1, <1>2, <1>5, <1>6, <1>8, <1>9

Preamble == <<Len(Protocol)>> \o Protocol

\* The parts of a handshake, one behind the other.
LEMMA HandshakeIs ==
  ASSUME NEW h \in Handshakes
  PROVE  /\ Peer!EncodeHandshake(h) \in Bytes /\ Len(Peer!EncodeHandshake(h)) = Peer!HandshakeLen
         /\ Preamble \in Bytes /\ Len(Preamble) = 1 + Len(Protocol) /\ Len(Protocol) \in Nat
         /\ SubSeq(Peer!EncodeHandshake(h), 1, 1 + Len(Protocol)) = Preamble
<1>1. PICK r \in Bytes, x \in Bytes, p \in Bytes :
        /\ r = h.reserved /\ x = h.infoHash /\ p = h.peerId
        /\ Len(r) = Peer!ReservedLen /\ Len(x) = HashLen /\ Len(p) = HashLen
  <2>1. /\ h.reserved \in [1..Peer!ReservedLen -> WireByte] /\ h.infoHash \in [1..HashLen -> WireByte]
        /\ h.peerId \in [1..HashLen -> WireByte]
    BY WireAssumption DEF WireByte
  <2>2. Peer!ReservedLen \in Nat /\ HashLen \in Nat
    BY WireBase DEF Peer!ReservedLen
  <2>3. \A n \in Nat : \A s \in [1..n -> WireByte] : s \in Seq(WireByte) /\ Len(s) = n
    OBVIOUS
  <2>. QED BY <2>1, <2>2, <2>3, Zenon DEF Bytes
<1>2. Preamble \in Bytes /\ Len(Preamble) = 1 + Len(Protocol) /\ Len(Protocol) \in Nat
  <2>1. Protocol \in Seq(WireByte) /\ Len(Protocol) \in WireByte
    BY WireAssumption, Zenon DEF WireByte
  <2>. QED BY <2>1 DEF Preamble, Bytes
<1>3. PICK a \in Bytes : a = Preamble /\ Len(a) = 1 + Len(Protocol)
  BY <1>2
<1>0. \A u, v \in Bytes : u \o v \in Bytes /\ Len(u \o v) = Len(u) + Len(v)
  BY BothEnds DEF Bytes
<1>4. PICK b \in Bytes : b = a \o r /\ Len(b) = Len(a) + Len(r)
  BY <1>0, Zenon
<1>5. PICK c \in Bytes : c = b \o x /\ Len(c) = Len(b) + Len(x)
  BY <1>0, Zenon
<1>6. PICK d \in Bytes : d = c \o p /\ Len(d) = Len(c) + Len(p)
  BY <1>0, Zenon
<1>7. Peer!EncodeHandshake(h) = d
  BY <1>1, <1>3, <1>4, <1>5, <1>6, Zenon DEF Peer!EncodeHandshake, Preamble
<1>8. Len(d) = Peer!HandshakeLen
  BY <1>1, <1>2, <1>3, <1>4, <1>5, <1>6, WireBase DEF Peer!HandshakeLen, Peer!ReservedLen
<1>9. PICK y \in Bytes : d = a \o y
  <2>1. PICK q \in Bytes : q = r \o x
    BY <1>0, Zenon
  <2>2. PICK y \in Bytes : y = q \o p
    BY <1>0, Zenon
  <2>3. a \o (r \o x) = (a \o r) \o x
    BY SMTT(60) DEF Bytes
  <2>4. a \o (q \o p) = (a \o q) \o p
    BY SMTT(60) DEF Bytes
  <2>5. c = a \o q
    BY <1>4, <1>5, <2>1, <2>3
  <2>6. d = a \o y
    BY <1>6, <2>2, <2>4, <2>5
  <2>. QED BY <2>6
<1>10. SubSeq(d, 1, Len(a)) = a
  <2>1. SubSeq(a \o y, 1, Len(a)) = a
    BY BothEnds DEF Bytes
  <2>. QED BY <1>9, <2>1, Zenon
<1>. QED BY <1>2, <1>3, <1>7, <1>8, <1>10, Zenon

\* What a peer writes first: a handshake, or one with a byte changed.
LEMMA GreetingIs ==
  ASSUME NEW h \in Handshakes, NEW k \in 0..Peer!HandshakeLen
  PROVE  Peer!Greeting(h, k) \in Bytes /\ Len(Peer!Greeting(h, k)) = Peer!HandshakeLen
<1>1. PICK s \in Bytes : s = Peer!EncodeHandshake(h) /\ Len(s) = Peer!HandshakeLen
  BY HandshakeIs
<1>2. Peer!Greeting(h, k) = IF k = 0 THEN s ELSE [s EXCEPT ![k] = (s[k] + 1) % ByteBase]
  BY <1>1, Zenon DEF Peer!Greeting
<1>3. CASE k = 0
  BY <1>1, <1>2, <1>3, Zenon
<1>4. CASE k # 0
  <2>1. k \in 1..Len(s) /\ ByteBase \in Nat \ {0}
    BY <1>1, <1>4, HandshakeIs, WireBase DEF Bytes
  <2>2. s[k] \in WireByte
    BY <2>1 DEF Bytes
  <2>3. PICK n \in Nat : n = s[k]
    BY <2>2 DEF WireByte
  <2>4. (n + 1) % ByteBase \in WireByte
    BY <2>1 DEF WireByte
  <2>5. PICK v \in WireByte : v = (s[k] + 1) % ByteBase
    BY <2>3, <2>4, Zenon
  <2>6. [s EXCEPT ![k] = v] \in Bytes /\ Len([s EXCEPT ![k] = v]) = Len(s)
    BY <2>1 DEF Bytes
  <2>. QED BY <1>1, <1>2, <1>4, <2>5, <2>6, Zenon
<1>. QED BY <1>3, <1>4, Zenon

\* The parts of a buffer, put together again.
LEMMA PartsAreWhole ==
  ASSUME NEW w \in Bytes, NEW l \in Nat, NEW r \in Nat, NEW x \in Nat, Len(w) = ((l + r) + x) + x
  PROVE  ((SubSeq(w, 1, l) \o SubSeq(w, l + 1, l + r)) \o SubSeq(w, (l + r) + 1, (l + r) + x))
           \o SubSeq(w, ((l + r) + x) + 1, ((l + r) + x) + x) = w
<1>1. w \in Seq(WireByte) /\ 1 \in 1..(Len(w) + 1)
  BY DEF Bytes
<1>2. SubSeq(w, 1, l) \o SubSeq(w, l + 1, l + r) = SubSeq(w, 1, l + r)
  BY DEF Bytes
<1>3. SubSeq(w, 1, l + r) \o SubSeq(w, (l + r) + 1, (l + r) + x) = SubSeq(w, 1, (l + r) + x)
  BY DEF Bytes
<1>4. SubSeq(w, 1, (l + r) + x) \o SubSeq(w, ((l + r) + x) + 1, ((l + r) + x) + x) = SubSeq(w, 1, Len(w))
  BY DEF Bytes
<1>5. SubSeq(w, 1, Len(w)) = w
  BY DEF Bytes
<1>. QED BY <1>2, <1>3, <1>4, <1>5, Zenon

\* What is read of a handshake's bytes would be written with them, and what is
\* refused nobody writes.
LEMMA HandshakeIsRead ==
  ASSUME NEW w \in Bytes, Len(w) = Peer!HandshakeLen
  PROVE  /\ \A g \in Peer!DecodeHandshake(w) : Peer!EncodeHandshake(g) = w
         /\ Peer!DecodeHandshake(w) = {} => \A h \in Handshakes : Peer!EncodeHandshake(h) # w
<1>1. Len(Protocol) \in Nat /\ Peer!ReservedLen \in Nat /\ HashLen \in Nat
  <2>1. Len(Protocol) \in WireByte
    BY WireAssumption, Zenon DEF WireByte
  <2>. QED BY <2>1, WireBase DEF Peer!ReservedLen, WireByte
<1>2. PICK l \in Nat : l = 1 + Len(Protocol)
  BY <1>1
<1>3. PICK r \in Nat : r = Peer!ReservedLen
  BY <1>1
<1>4. PICK x \in Nat : x = HashLen
  BY <1>1
<1>5. Len(w) = ((l + r) + x) + x
  BY <1>1, <1>2, <1>3, <1>4 DEF Peer!HandshakeLen
<1>. DEFINE g0 == [reserved |-> SubSeq(w, l + 1, l + r),
                   infoHash |-> SubSeq(w, (l + r) + 1, (l + r) + x),
                   peerId |-> SubSeq(w, ((l + r) + x) + 1, ((l + r) + x) + x)]
<1>6. Peer!DecodeHandshake(w) =
        {g \in {g0} : Len(w) >= Peer!HandshakeLen /\ SubSeq(w, 1, l) = Preamble}
  <2>1. /\ l + 0 + 1 = l + 1 /\ l + 0 + r = l + r /\ l + r + x = (l + r) + x
        /\ l + (r + x) + 1 = ((l + r) + x) + 1 /\ l + (r + x) + x = ((l + r) + x) + x
        /\ l + r + 1 = (l + r) + 1
    OBVIOUS
  <2>. QED BY <1>2, <1>3, <1>4, <2>1 DEF Peer!DecodeHandshake, Preamble
<1>7. ASSUME SubSeq(w, 1, l) = Preamble PROVE Peer!EncodeHandshake(g0) = w
  <2>1. Peer!EncodeHandshake(g0) =
          ((SubSeq(w, 1, l) \o SubSeq(w, l + 1, l + r)) \o SubSeq(w, (l + r) + 1, (l + r) + x))
            \o SubSeq(w, ((l + r) + x) + 1, ((l + r) + x) + x)
    BY <1>7, Zenon DEF Peer!EncodeHandshake, Preamble
  <2>. QED BY <1>5, <2>1, PartsAreWhole, Zenon
<1>8. ASSUME NEW h \in Handshakes, Peer!EncodeHandshake(h) = w PROVE SubSeq(w, 1, l) = Preamble
  BY <1>2, <1>8, HandshakeIs, Zenon
<1>9. Len(w) >= Peer!HandshakeLen
  <2>1. Len(w) \in Nat
    BY DEF Bytes
  <2>. QED BY <2>1
<1>. HIDE DEF g0
<1>. QED BY <1>6, <1>7, <1>8, <1>9

\* Nothing of the stream is read yet: it is a handshake and what follows it, which
\* may be a stranger's frame.
Unread ==
  \/ stream = greeted.written \o Spoke(said)
  \/ said = <<>> /\ \E f \in Frames : stream = greeted.written \o Framing(f)

\* What was said is what was heard and what is in the stream.
Followed ==
  \E todo \in Seq(Messages) :
    /\ said = heard \o todo /\ stream = Spoke(todo) /\ heard \in Seq(Messages)
    /\ heard # <<>> => frame = Peer!Encode(Peer!Last(heard))

\* Nothing was said, and there is a stranger's frame, before or after it is read.
Stranger ==
  /\ said = <<>>
  /\ \E f \in Frames :
       \/ heard = <<>> /\ stream = Framing(f)
       \/ /\ stream = <<>> /\ frame = f
          /\ \/ heard = <<>>
             \/ heard = <<Peer!Decode(f)>> /\ Peer!Decode(f) # Peer!Refusal("BadMsgId")

Greeted ==
  /\ greeted = [written |-> greeted.written, read |-> greeted.read, refused |-> greeted.refused]
  /\ greeted.written \in Bytes /\ Len(greeted.written) = Peer!HandshakeLen
  /\ \A h \in greeted.read : Peer!EncodeHandshake(h) = greeted.written
  /\ greeted.refused => \A h \in Handshakes : Peer!EncodeHandshake(h) # greeted.written

PeerInv ==
  /\ Greeted /\ said \in Seq(Messages)
  /\ greeted.read = {} => heard = <<>> /\ (greeted.refused \/ Unread)
  /\ greeted.read # {} => Followed \/ Stranger

\* Bytes put together are bytes, and it does not matter in which order.
LEMMA Together ==
  /\ \A u, v \in Bytes : u \o v \in Bytes /\ Len(u \o v) = Len(u) + Len(v)
  /\ <<>> \in Bytes /\ \A u \in Bytes : u \o <<>> = u /\ <<>> \o u = u /\ Len(u) \in Nat
<1>1. \A u, v \in Bytes : u \o v \in Bytes /\ Len(u \o v) = Len(u) + Len(v)
  BY BothEnds DEF Bytes
<1>2. <<>> \in Bytes
  BY EmptySeq DEF Bytes
<1>3. \A u \in Bytes : u \o <<>> = u /\ <<>> \o u = u /\ Len(u) \in Nat
  BY ConcatEmptySeq, LenProperties DEF Bytes
<1>. QED BY <1>1, <1>2, <1>3, Zenon

\* As above, of three.
LEMMA Regroup ==
  ASSUME NEW u \in Bytes, NEW v \in Bytes, NEW z \in Bytes
  PROVE  (u \o v) \o z = u \o (v \o z)
BY DEF Bytes

\* A peer that has written its handshake, and maybe a stranger's frame.
LEMMA PeerBegins == Peer!Init => PeerInv
<1>. SUFFICES ASSUME Peer!Init PROVE PeerInv
  OBVIOUS
<1>1. said = <<>> /\ heard = <<>>
  BY Zenon DEF Peer!Init
<1>2. PICK h \in Handshakes, k \in 0..Peer!HandshakeLen :
        /\ greeted = [written |-> Peer!Greeting(h, k), read |-> {}, refused |-> FALSE]
        /\ \/ stream = Peer!Greeting(h, k)
           \/ \E f \in Frames : stream = Peer!Greeting(h, k) \o Peer!BigEndian(Len(f), WordLen) \o f
  BY Zenon DEF Peer!Init
<1>3. PICK g \in Bytes : g = Peer!Greeting(h, k) /\ Len(g) = Peer!HandshakeLen
  BY GreetingIs
<1>4. greeted.written = g /\ greeted.read = {} /\ greeted.refused = FALSE
      /\ greeted = [written |-> greeted.written, read |-> greeted.read, refused |-> greeted.refused]
  BY <1>2, <1>3
<1>5. Greeted
  BY <1>3, <1>4, Zenon DEF Greeted
<1>6. said \in Seq(Messages) /\ Spoke(said) = <<>>
  <2>1. Spoke(<<>>) = <<>>
    BY DEF Spoke, FlattenSeq, Flat!Folded
  <2>. QED BY <1>1, <2>1, EmptySeq
<1>7. Unread
  <2>1. CASE stream = g
    BY <1>3, <1>4, <1>6, <2>1, Together, Zenon DEF Unread
  <2>2. ASSUME NEW f \in Frames, stream = g \o Peer!BigEndian(Len(f), WordLen) \o f PROVE Unread
    <3>1. PICK b \in Bytes : b = Peer!BigEndian(Len(f), WordLen)
      <4>1. Len(f) \in Peer!Unsigned(WordLen) /\ WordLen \in Nat
        BY FramesAre, WireBase
      <4>. QED BY <4>1, UnsignedIs
    <3>2. PICK y \in Bytes : y = f
      BY FramesAre
    <3>3. stream = g \o Framing(f)
      BY <2>2, <3>1, <3>2, Regroup, SMTT(60) DEF Framing
    <3>. QED BY <1>1, <1>4, <3>3, Zenon DEF Unread
  <2>. QED BY <1>2, <1>3, <2>1, <2>2, Zenon
<1>. QED BY <1>1, <1>4, <1>5, <1>6, <1>7, Zenon DEF PeerInv

\* A message more is behind the others.
LEMMA SayKeeps ==
  ASSUME PeerInv, NEW m \in Messages, Peer!Say(m)
  PROVE  PeerInv'
<1>1. /\ said' = Append(said, m) /\ stream' = stream \o Peer!BigEndian(Peer!Declared(m), WordLen) \o Peer!Encode(m)
      /\ greeted' = greeted /\ heard' = heard /\ greeted.read = {} /\ ~greeted.refused
      /\ (Len(stream) = Peer!HandshakeLen \/ said # <<>>)
  BY Zenon DEF Peer!Say, Peer!FollowsProtocol
<1>2. said \in Seq(Messages) /\ heard = <<>> /\ Unread /\ Greeted
  BY <1>1, Zenon DEF PeerInv
<1>3. PICK g \in Bytes : g = greeted.written /\ Len(g) = Peer!HandshakeLen
  BY <1>2 DEF Greeted
<1>4. PICK y \in Bytes : y = Spoke(said)
  BY <1>2, SpokeAppend
<1>5. stream = g \o y
  <2>1. ASSUME NEW f \in Frames, stream = g \o Framing(f) PROVE Len(stream) # Peer!HandshakeLen
    <3>1. PICK b \in Bytes, c \in Bytes : Framing(f) = b \o c /\ Len(b) = WordLen
      BY FramesAre, FramingIs
    <3>2. PICK d \in Bytes : d = b \o c /\ Len(d) = Len(b) + Len(c)
      BY Together, Zenon
    <3>3. Len(g \o d) = Len(g) + Len(d) /\ stream = g \o d /\ Len(g) \in Nat /\ Len(c) \in Nat
      BY <2>1, <3>1, <3>2, Together, Zenon
    <3>4. WordLen \in Nat \ {0}
      BY WireBase
    <3>5. PICK n \in Nat, x \in Nat : n = Len(g) /\ x = Len(c)
      BY <3>3
    <3>6. Len(stream) = n + (WordLen + x) /\ n = Peer!HandshakeLen
      BY <1>3, <3>1, <3>2, <3>3, <3>5, Zenon
    <3>7. n + (WordLen + x) # n
      BY <3>4
    <3>. QED BY <3>6, <3>7, Zenon
  <2>. QED BY <1>1, <1>2, <1>3, <1>4, <2>1, Zenon DEF Unread
<1>6. PICK b \in Bytes, c \in Bytes, e \in Bytes :
        b = Peer!BigEndian(Peer!Declared(m), WordLen) /\ c = Peer!Encode(m) /\ e = b \o c /\ e = Framed(m)
  <2>1. Framed(m) \in Bytes /\ Framed(m) = Peer!BigEndian(Peer!Declared(m), WordLen) \o Peer!Encode(m)
        /\ Peer!Encode(m) \in Bytes
    BY FramedIs
  <2>2. Peer!BigEndian(Peer!Declared(m), WordLen) \in Bytes
    <3>1. Peer!Declared(m) \in Peer!Unsigned(WordLen) /\ WordLen \in Nat
      BY MessagesAre, WireBase
    <3>. QED BY <3>1, UnsignedIs
  <2>. QED BY <2>1, <2>2, Zenon
<1>7. stream' = g \o Spoke(Append(said, m))
  <2>1. stream' = ((g \o y) \o b) \o c
    BY <1>1, <1>5, <1>6, Zenon
  <2>2. PICK s \in Bytes : s = g \o y
    BY Together, Zenon
  <2>3. (s \o b) \o c = s \o (b \o c)
    BY Regroup
  <2>4. (g \o y) \o e = g \o (y \o e)
    BY Regroup, SMTT(60)
  <2>5. Spoke(Append(said, m)) = y \o e
    BY <1>2, <1>4, <1>6, SpokeAppend, Zenon
  <2>. QED BY <1>6, <2>1, <2>2, <2>3, <2>4, <2>5, Zenon
<1>8. Unread'
  BY <1>1, <1>3, <1>7, Zenon DEF Unread, Spoke
<1>9. Greeted'
  BY <1>1, <1>2, Zenon DEF Greeted
<1>10. said' \in Seq(Messages)
  BY <1>1, <1>2
<1>. QED BY <1>1, <1>2, <1>8, <1>9, <1>10, Zenon DEF PeerInv

\* What is said is bytes, and nothing is none.
LEMMA SpokeBytes ==
  ASSUME NEW todo \in Seq(Messages)
  PROVE  Spoke(todo) \in Bytes
<1>1. CASE todo = <<>>
  <2>1. Spoke(<<>>) = <<>>
    BY DEF Spoke, FlattenSeq, Flat!Folded
  <2>. QED BY <1>1, <2>1, EmptySeq DEF Bytes
<1>2. CASE todo # <<>>
  <2>1. todo[1] \in Messages
    BY <1>2
  <2>. QED BY <2>1, SpokeAppend
<1>. QED BY <1>1, <1>2

\* A handshake is read, or refused, and the stream begins behind it.
LEMMA GreetKeeps ==
  ASSUME PeerInv, Peer!Greet
  PROVE  PeerInv'
<1>. DEFINE w == SubSeq(stream, 1, Peer!HandshakeLen)
<1>1. /\ greeted.read = {} /\ ~greeted.refused
      /\ greeted' = [greeted EXCEPT !.read = Peer!DecodeHandshake(w), !.refused = (Peer!DecodeHandshake(w) = {})]
      /\ stream' = SubSeq(stream, Peer!HandshakeLen + 1, Len(stream))
      /\ said' = said /\ frame' = frame /\ heard' = heard
  BY Zenon DEF Peer!Greet
<1>2. said \in Seq(Messages) /\ heard = <<>> /\ Unread /\ Greeted
  BY <1>1, Zenon DEF PeerInv
<1>3. PICK g \in Bytes : g = greeted.written /\ Len(g) = Peer!HandshakeLen
  BY <1>2 DEF Greeted
<1>4. PICK y \in Bytes :
        stream = g \o y /\ (y = Spoke(said) \/ (said = <<>> /\ \E f \in Frames : y = Framing(f)))
  <2>1. Spoke(said) \in Bytes /\ \A f \in Frames : Framing(f) \in Bytes
    <3>1. Spoke(said) \in Bytes
      BY <1>2, SpokeBytes
    <3>2. ASSUME NEW f \in Frames PROVE Framing(f) \in Bytes
      BY FramesAre, FramingIs
    <3>. QED BY <3>1, <3>2
  <2>. QED BY <1>2, <1>3, <2>1, Zenon DEF Unread
<1>5. SubSeq(stream, 1, Peer!HandshakeLen) = g /\ SubSeq(stream, Peer!HandshakeLen + 1, Len(stream)) = y
  <2>1. SubSeq(g \o y, 1, Len(g)) = g /\ SubSeq(g \o y, Len(g) + 1, Len(g \o y)) = y
    BY BothEnds DEF Bytes
  <2>. QED BY <1>3, <1>4, <2>1, Zenon
<1>6. PICK r : r = Peer!DecodeHandshake(g)
  OBVIOUS
<1>7. greeted' = [greeted EXCEPT !.read = r, !.refused = (r = {})]
  BY <1>1, <1>5, <1>6, Zenon
<1>8. greeted = [written |-> greeted.written, read |-> greeted.read, refused |-> greeted.refused]
  BY <1>2 DEF Greeted
<1>. HIDE DEF w
<1>9. greeted' = [written |-> g, read |-> r, refused |-> (r = {})]
  BY <1>3, <1>7, <1>8
<1>10. /\ greeted'.written = g /\ greeted'.read = r /\ greeted'.refused = (r = {})
       /\ greeted' = [written |-> greeted'.written, read |-> greeted'.read, refused |-> greeted'.refused]
  BY <1>9
<1>11. /\ \A h \in r : Peer!EncodeHandshake(h) = g
       /\ r = {} => \A h \in Handshakes : Peer!EncodeHandshake(h) # g
  BY <1>3, <1>6, HandshakeIsRead
<1>12. Greeted'
  BY <1>3, <1>10, <1>11, Zenon DEF Greeted
<1>13. Followed' \/ Stranger'
  <2>1. CASE y = Spoke(said)
    <3>1. said' = heard' \o said /\ stream' = Spoke(said) /\ heard' = <<>>
      <4>1. said = <<>> \o said
        BY <1>2, ConcatEmptySeq
      <4>. QED BY <1>1, <1>2, <1>5, <2>1, <4>1, Zenon
    <3>2. heard' \in Seq(Messages)
      BY <3>1, EmptySeq
    <3>. QED BY <1>2, <3>1, <3>2, Zenon DEF Followed
  <2>2. CASE said = <<>> /\ \E f \in Frames : y = Framing(f)
    BY <1>1, <1>2, <1>5, <2>2, Zenon DEF Stranger, Framing
  <2>. QED BY <1>4, <2>1, <2>2
<1>. QED BY <1>1, <1>2, <1>10, <1>12, <1>13, Zenon DEF PeerInv

\* Fewer bytes than a length has are no frame.
LEMMA NothingIsComplete == stream = <<>> => ~Peer!Complete
<1>1. stream = <<>> => Len(stream) = 0
  OBVIOUS
<1>2. WordLen \in Nat \ {0}
  BY WireBase
<1>3. ~(0 >= WordLen)
  BY <1>2
<1>. QED BY <1>1, <1>3, Zenon DEF Peer!Complete

\* While something said is not heard, a frame is there to be cut.
LEMMA NextIsCut ==
  ASSUME NEW todo \in Seq(Messages), todo # <<>>, stream = Spoke(todo)
  PROVE  \E m \in Messages, t \in Seq(Messages) :
           /\ todo = <<m>> \o t /\ Peer!Complete
           /\ SubSeq(stream, WordLen + 1, Peer!FrameEnd) = Peer!Encode(m)
           /\ SubSeq(stream, Peer!FrameEnd + 1, Len(stream)) = Spoke(t)
<1>1. PICK m \in Messages, t \in Seq(Messages) : todo = <<m>> \o t
  <2>1. Head(todo) \in Messages /\ Tail(todo) \in Seq(Messages) /\ todo = <<Head(todo)>> \o Tail(todo)
    OBVIOUS
  <2>. QED BY <2>1, Zenon
<1>2. PICK f \in Bytes : f = Peer!Encode(m) /\ Len(f) \in Peer!Unsigned(WordLen)
  BY FramedIs
<1>3. PICK y \in Bytes : y = Spoke(t)
  BY SpokeAppend
<1>4. stream = Framing(f) \o y
  BY <1>1, <1>2, <1>3, SpokeFirst, Zenon DEF Framed
<1>5. /\ Peer!Complete
      /\ SubSeq(stream, WordLen + 1, Peer!FrameEnd) = f
      /\ SubSeq(stream, Peer!FrameEnd + 1, Len(stream)) = y
  BY <1>2, <1>4, FrameIsCut
<1>. QED BY <1>1, <1>2, <1>3, <1>5, ZenonT(60)

\* The next message is heard, or the stranger's frame.
LEMMA PopKeeps ==
  ASSUME PeerInv, Peer!Pop
  PROVE  PeerInv'
<1>1. /\ greeted.read # {} /\ Peer!Complete
      /\ frame' = SubSeq(stream, WordLen + 1, Peer!FrameEnd)
      /\ stream' = SubSeq(stream, Peer!FrameEnd + 1, Len(stream))
      /\ heard' = IF Peer!Decode(frame') = Peer!Refusal("BadMsgId") THEN heard
                  ELSE Append(heard, Peer!Decode(frame'))
      /\ greeted' = greeted /\ said' = said
  BY Zenon DEF Peer!Pop
<1>2. said \in Seq(Messages) /\ Greeted /\ (Followed \/ Stranger)
  BY <1>1, Zenon DEF PeerInv
<1>3. stream # <<>>
  BY <1>1, NothingIsComplete
<1>4. CASE Followed
  <2>1. PICK todo \in Seq(Messages) : said = heard \o todo /\ stream = Spoke(todo) /\ heard \in Seq(Messages)
    BY <1>4, Zenon DEF Followed
  <2>2. todo # <<>>
    <3>1. Spoke(<<>>) = <<>>
      BY DEF Spoke, FlattenSeq, Flat!Folded
    <3>. QED BY <1>3, <2>1, <3>1
  <2>3. PICK m \in Messages, t \in Seq(Messages) :
          /\ todo = <<m>> \o t
          /\ SubSeq(stream, WordLen + 1, Peer!FrameEnd) = Peer!Encode(m)
          /\ SubSeq(stream, Peer!FrameEnd + 1, Len(stream)) = Spoke(t)
    BY <2>1, <2>2, NextIsCut, Zenon
  <2>4. heard' = Append(heard, m) /\ frame' = Peer!Encode(m) /\ stream' = Spoke(t)
    BY <1>1, <2>3, MessageIsRead, Zenon
  <2>5. said = Append(heard, m) \o t /\ Append(heard, m) \in Seq(Messages)
        /\ Peer!Last(Append(heard, m)) = m
    <3>1. heard \o (<<m>> \o t) = Append(heard, m) \o t
      BY <2>1, SMTT(60)
    <3>2. Append(heard, m) \in Seq(Messages) /\ Peer!Last(Append(heard, m)) = m
      BY <2>1 DEF Peer!Last
    <3>. QED BY <2>1, <2>3, <3>1, <3>2, Zenon
  <2>6. Followed'
    BY <1>1, <2>4, <2>5, Zenon DEF Followed, Spoke
  <2>. QED BY <1>1, <1>2, <2>6, Zenon DEF PeerInv, Greeted
<1>5. CASE Stranger
  <2>1. PICK f \in Frames : heard = <<>> /\ stream = Framing(f)
    BY <1>3, <1>5, Zenon DEF Stranger
  <2>2. PICK y \in Bytes : y = f /\ Len(y) \in Peer!Unsigned(WordLen)
    BY FramesAre
  <2>3. stream = Framing(y) \o <<>> /\ <<>> \in Bytes
    BY <2>1, <2>2, FramingIs, Together, Zenon
  <2>4. frame' = f /\ stream' = <<>>
    BY <1>1, <2>2, <2>3, FrameIsCut
  <2>5. heard' = <<>> \/ (heard' = <<Peer!Decode(f)>> /\ Peer!Decode(f) # Peer!Refusal("BadMsgId"))
    <3>1. Append(<<>>, Peer!Decode(f)) = <<Peer!Decode(f)>>
      OBVIOUS
    <3>. QED BY <1>1, <2>1, <2>4, <3>1, Zenon
  <2>6. Stranger'
    BY <1>1, <1>5, <2>4, <2>5, Zenon DEF Stranger
  <2>. QED BY <1>1, <1>2, <2>6, Zenon DEF PeerInv, Greeted
<1>. QED BY <1>2, <1>4, <1>5

\* A peer that does nothing.
LEMMA PeerStutters ==
  ASSUME PeerInv, UNCHANGED Peer!vars
  PROVE  PeerInv'
<1>1. greeted' = greeted /\ said' = said /\ stream' = stream /\ frame' = frame /\ heard' = heard
  BY Zenon DEF Peer!vars
<1>2. Greeted'  = Greeted
  BY <1>1, Zenon DEF Greeted
<1>3. Unread' = Unread /\ Followed' = Followed /\ Stranger' = Stranger
  BY <1>1, Zenon DEF Unread, Followed, Stranger, Spoke, Framing
<1>. QED BY <1>1, <1>2, <1>3, Zenon DEF PeerInv

\* What is a prefix.
LEMMA PrefixIs ==
  ASSUME NEW S, NEW s \in Seq(S), NEW t \in Seq(S)
  PROVE  Peer!IsPrefix(s, s \o t) /\ Peer!IsPrefix(s, s) /\ Peer!IsPrefix(<<>>, s)
<1>1. SubSeq(s \o t, 1, Len(s)) = s /\ Len(s \o t) = Len(s) + Len(t) /\ Len(s) \in Nat /\ Len(t) \in Nat
  BY BothEnds, LenProperties
<1>2. SubSeq(s, 1, Len(s)) = s
  OBVIOUS
<1>3. Len(s) <= Len(s) + Len(t) /\ Len(s) <= Len(s)
  BY <1>1
<1>4. Peer!IsPrefix(s, s \o t) /\ Peer!IsPrefix(s, s)
  BY <1>1, <1>2, <1>3, Zenon DEF Peer!IsPrefix
<1>5. Peer!IsPrefix(<<>>, s)
  BY <1>1 DEF Peer!IsPrefix
<1>. QED BY <1>4, <1>5

\* What is heard of a stranger's frame.
LEMMA StrangerIsHeard ==
  ASSUME NEW f \in Frames, Peer!Decode(f) # Peer!Refusal("BadMsgId")
  PROVE  IF Peer!Decode(f) = Peer!Refusal("BadPayload")
         THEN \A m \in Messages : m # Peer!KeepAlive /\ Peer!Id[m.kind] = f[1] => Len(Peer!Encode(m)) > Len(f)
         ELSE /\ Peer!IsPrefix(Peer!Encode(Peer!Decode(f)), f)
              /\ Peer!Decode(f).kind \in Peer!HasTail => Peer!Encode(Peer!Decode(f)) = f
<1>1. f \in Bytes
  BY FramesAre
<1>2. CASE f = <<>>
  <2>1. Peer!Decode(f) = Peer!KeepAlive /\ Peer!Encode(Peer!Decode(f)) = f
    BY <1>2, KeepAliveIs, Zenon
  <2>2. Peer!KeepAlive # Peer!Refusal("BadPayload")
    BY DEF Peer!KeepAlive, Peer!Refusal, Peer!Message
  <2>3. Peer!IsPrefix(f, f)
    BY <1>1, PrefixIs DEF Bytes
  <2>. QED BY <2>1, <2>2, <2>3, Zenon
<1>3. CASE f # <<>>
  <2>1. PICK kind \in Kind : f[1] = Peer!Id[kind]
    <3>1. (\A kind \in DOMAIN Peer!Id : Peer!Id[kind] # f[1]) => Peer!Decode(f) = Peer!Refusal("BadMsgId")
      BY <1>3, Zenon DEF Peer!Decode
    <3>. QED BY <3>1, Zenon DEF Kind
  <2>2. CASE Len(Tail(f)) < HeaderLen(kind)
    <3>1. Tail(f) \in Bytes
      BY <1>1, <1>3 DEF Bytes
    <3>2. Peer!Decode(f) = Peer!Refusal("BadPayload")
      BY <1>1, <1>3, <2>1, <2>2, <3>1, DecodeIs, PayloadIs, Zenon
    <3>3. \A m \in Messages : m # Peer!KeepAlive /\ Peer!Id[m.kind] = f[1] => Len(Peer!Encode(m)) > Len(f)
      BY <1>1, <1>3, <2>1, <2>2, ShortIsRefused, Zenon
    <3>. QED BY <3>2, <3>3, Zenon
  <2>3. CASE ~(Len(Tail(f)) < HeaderLen(kind))
    <3>1. /\ Peer!IsPrefix(Peer!Encode(Peer!Decode(f)), f) /\ Peer!Decode(f).kind = kind
          /\ kind \in Peer!HasTail => Peer!Encode(Peer!Decode(f)) = f
      BY <1>1, <1>3, <2>1, <2>3, LongIsRead, Zenon
    <3>2. Peer!Refusal("BadPayload").kind = "BadPayload" /\ "BadPayload" \notin Kind
      BY KindsAre DEF Peer!Refusal, Peer!Message
    <3>3. Peer!Decode(f) # Peer!Refusal("BadPayload")
      BY <3>1, <3>2, Zenon
    <3>. QED BY <3>1, <3>3, Zenon
  <2>. QED BY <2>2, <2>3
<1>. QED BY <1>2, <1>3

\* What is heard of what was said.
LEMMA FollowedIsHeard ==
  ASSUME NEW todo \in Seq(Messages), said = heard \o todo, stream = Spoke(todo), heard \in Seq(Messages)
  PROVE  /\ Peer!IsPrefix(heard, said) /\ (~Peer!Complete => heard = said)
         /\ heard # <<>> =>
              /\ Peer!Last(heard) \in Messages /\ Peer!Encode(Peer!Last(heard)) \in Bytes
              /\ Peer!Last(heard) # Peer!Refusal("BadPayload")
<1>1. Peer!IsPrefix(heard, said)
  BY PrefixIs
<1>2. ASSUME ~Peer!Complete PROVE heard = said
  <2>1. todo = <<>>
    BY <1>2, NextIsCut, Zenon
  <2>2. heard \o <<>> = heard
    BY ConcatEmptySeq
  <2>. QED BY <2>1, <2>2, Zenon
<1>3. ASSUME heard # <<>> PROVE Peer!Last(heard) \in Messages
  <2>1. heard[Len(heard)] \in Messages
    BY <1>3
  <2>. QED BY <2>1, Zenon DEF Peer!Last
<1>4. ASSUME NEW m \in Messages PROVE Peer!Encode(m) \in Bytes /\ m # Peer!Refusal("BadPayload")
  BY FramedIs, MessageIsRead
<1>. QED BY <1>1, <1>2, <1>3, <1>4, Zenon

\* What the invariant says of what is heard.
LEMMA PeerInvSays == PeerInv => Peer!SaidIsHeard
<1>. SUFFICES ASSUME PeerInv PROVE Peer!SaidIsHeard
  OBVIOUS
<1>1. /\ \A h \in greeted.read : Peer!EncodeHandshake(h) = greeted.written
      /\ greeted.refused => \A h \in Handshakes : Peer!EncodeHandshake(h) # greeted.written
  BY Zenon DEF PeerInv, Greeted
<1>2. CASE greeted.read = {}
  <2>1. heard = <<>> /\ said \in Seq(Messages)
    BY <1>2, Zenon DEF PeerInv
  <2>2. Peer!IsPrefix(heard, said)
    BY <2>1, PrefixIs
  <2>. QED BY <1>1, <1>2, <2>1, <2>2, Zenon DEF Peer!SaidIsHeard
<1>3. CASE greeted.read # {} /\ Followed
  <2>1. PICK todo \in Seq(Messages) :
          /\ said = heard \o todo /\ stream = Spoke(todo) /\ heard \in Seq(Messages)
          /\ heard # <<>> => frame = Peer!Encode(Peer!Last(heard))
    BY <1>3, Zenon DEF Followed
  <2>2. /\ Peer!IsPrefix(heard, said) /\ (~Peer!Complete => heard = said)
        /\ heard # <<>> =>
             /\ Peer!Encode(Peer!Last(heard)) \in Bytes
             /\ Peer!Last(heard) # Peer!Refusal("BadPayload")
    BY <2>1, FollowedIsHeard, Zenon
  <2>3. heard # <<>> => Peer!Echo = frame
    BY <2>1, Zenon DEF Peer!Echo
  <2>4. \A f \in Bytes : Peer!IsPrefix(f, f)
    BY PrefixIs DEF Bytes
  <2>5. heard # <<>> => Peer!IsPrefix(Peer!Echo, frame)
    BY <2>1, <2>2, <2>3, <2>4, Zenon
  <2>. QED BY <1>1, <2>2, <2>3, <2>5, Zenon DEF Peer!SaidIsHeard
<1>4. CASE greeted.read # {} /\ Stranger
  <2>1. said = <<>>
    BY <1>4, Zenon DEF Stranger
  <2>2. CASE heard = <<>>
    BY <1>1, <2>1, <2>2, Zenon DEF Peer!SaidIsHeard
  <2>3. ASSUME NEW f \in Frames, frame = f, heard = <<Peer!Decode(f)>>, Peer!Decode(f) # Peer!Refusal("BadMsgId")
        PROVE  Peer!SaidIsHeard
    <3>1. Peer!Last(heard) = Peer!Decode(f) /\ heard # <<>>
      BY <2>3 DEF Peer!Last
    <3>2. Peer!Echo = Peer!Encode(Peer!Decode(f))
      BY <3>1, Zenon DEF Peer!Echo
    <3>3. IF Peer!Last(heard) = Peer!Refusal("BadPayload")
          THEN \A m \in Messages :
                 m # Peer!KeepAlive /\ Peer!Id[m.kind] = frame[1] => Len(Peer!Encode(m)) > Len(frame)
          ELSE Peer!IsPrefix(Peer!Echo, frame) /\ (Peer!Last(heard).kind \in Peer!HasTail => Peer!Echo = frame)
      BY <2>3, <3>1, <3>2, StrangerIsHeard, Zenon
    <3>. QED BY <1>1, <2>1, <3>3, Zenon DEF Peer!SaidIsHeard
  <2>. QED BY <1>4, <2>2, <2>3, Zenon DEF Stranger
<1>. QED BY <1>2, <1>3, <1>4, Zenon DEF PeerInv

\* What a peer says is what the other one hears, for every width of a byte and of
\* a length, every handshake and every message that fits its length: the same
\* handshake or, if a byte of it is another, none that anybody writes; the same
\* messages in the same order, and all of them once no frame is left; and of a
\* stranger's frame as much as a message of its kind says (wire.rs, Handshake and
\* Message, encode and decode; MessageDecoder::pop).
THEOREM SpeechIsHeard == InputSpec => []SaidIsHeard
<1>. DEFINE I == reader = "peer" => PeerInv
<1>1. InputInit => I
  BY PeerBegins, Zenon DEF InputInit
<1>2. I /\ [InputNext]_inputVars => I'
  <2>. SUFFICES ASSUME I, [InputNext]_inputVars, reader' = "peer" PROVE PeerInv'
    BY DEF I
  <2>1. reader = "peer" /\ [Peer!Next]_peerVars
    BY DEF InputNext, inputVars, ReadBuffer, ReadLink, ReadPeer, ReadTracker, ReadPaths, ReadPrefs
  <2>2. PeerInv
    BY <2>1
  <2>3. CASE UNCHANGED peerVars
    <3>1. UNCHANGED Peer!vars
      BY <2>3 DEF peerVars, Peer!vars
    <3>. QED BY <2>2, <3>1, PeerStutters
  <2>4. ASSUME NEW m \in Messages, Peer!Say(m) PROVE PeerInv'
    BY <2>2, <2>4, SayKeeps
  <2>5. CASE Peer!Greet
    BY <2>2, <2>5, GreetKeeps
  <2>6. CASE Peer!Pop
    BY <2>2, <2>6, PopKeeps
  <2>7. CASE Peer!Waits
    BY <2>2, <2>7, PeerStutters DEF Peer!Waits
  <2>. QED BY <2>1, <2>3, <2>4, <2>5, <2>6, <2>7, Zenon DEF Peer!Next
<1>3. I => SaidIsHeard
  BY PeerInvSays, Zenon DEF SaidIsHeard
<1>. QED BY <1>1, <1>2, <1>3, PTL DEF InputSpec

==============================================================================
