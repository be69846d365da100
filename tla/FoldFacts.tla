------------------------------ MODULE FoldFacts ------------------------------
(***************************************************************************)
(* What FoldLeft of the community modules computes, for any operator: of   *)
(* the empty sequence the base, and of a sequence with one more element    *)
(* the operator of what it computes of the sequence and that element.      *)
(* FoldLeft is a recursive function on the sets of indices, so that it has *)
(* to be shown first, by induction, that there is such a function.  The    *)
(* induction is on WellOrdered, which is a hypothesis here and a lemma     *)
(* where the operator is known: the module is instantiated often, and      *)
(* would bring the library's module on induction along each time.          *)
(***************************************************************************)
EXTENDS Integers, Sequences, Folds, TLAPS

CONSTANT Op(_, _)

Largest(t) == CHOOSE x \in t : \A y \in t : x >= y

\* What FoldLeft(Op, base, s) is defined as.
Folded(base, s) ==
  MapThenFoldSet(LAMBDA x, y : Op(y, x), base, LAMBDA k : s[k], LAMBDA t : Largest(t), DOMAIN s)

(***************************************************************************)
(* Induction, over the elements of a set.                                  *)
(***************************************************************************)

\* A set of natural numbers that is not empty has a least element.
WellOrdered == \A T \in SUBSET Nat : T # {} => \E x \in T : \A y \in T : x <= y

\* A set that has 0, and the successor of each number it has, has them all.
LEMMA SetInduction ==
  ASSUME WellOrdered, NEW T, 0 \in T, \A n \in Nat : n \in T => n + 1 \in T
  PROVE  \A n \in Nat : n \in T
<1>. SUFFICES ASSUME NEW k \in Nat, k \notin T PROVE FALSE
  OBVIOUS
<1>. DEFINE U == {n \in Nat : n \notin T}
<1>1. U # {} /\ U \subseteq Nat
  OBVIOUS
<1>2. PICK x \in U : \A y \in U : x <= y
  BY <1>1, Zenon DEF WellOrdered
<1>3. x # 0
  OBVIOUS
<1>4. x - 1 \in Nat /\ x - 1 \notin U
  BY <1>2, <1>3
<1>. QED BY <1>4

(***************************************************************************)
(* The function that FoldLeft is defined by.                               *)
(***************************************************************************)

Iterates(g, n, base, s) ==
  g = [t \in SUBSET (1..n) |->
         IF t = {} THEN base ELSE Op(g[t \ {Largest(t)}], s[Largest(t)])]

LEMMA LargestIs ==
  ASSUME WellOrdered, NEW n \in Nat, NEW t \in SUBSET (1..n), t # {}
  PROVE  Largest(t) \in t /\ \A y \in t : y <= Largest(t)
<1>. DEFINE T == {n - x : x \in t}
<1>1. T # {} /\ T \subseteq Nat
  <2>1. ASSUME NEW x \in t PROVE n - x \in Nat
    OBVIOUS
  <2>. QED BY <2>1
<1>2. PICK m \in T : \A y \in T : m <= y
  BY <1>1, Zenon DEF WellOrdered
<1>3. PICK x \in t : m = n - x
  OBVIOUS
<1>4. \A y \in t : x >= y
  <2>. SUFFICES ASSUME NEW y \in t PROVE x >= y
    OBVIOUS
  <2>1. n - x <= n - y
    BY <1>2, <1>3
  <2>. QED BY <2>1
<1>5. Largest(t) \in t /\ \A y \in t : Largest(t) >= y
  BY <1>4, Zenon DEF Largest
<1>. QED BY <1>5

LEMMA LargestOfRange ==
  ASSUME NEW k \in Nat \ {0}
  PROVE  Largest(1..k) = k /\ 1..k \ {k} = 1..(k - 1)
<1>1. k \in 1..k /\ \A y \in 1..k : k >= y
  OBVIOUS
<1>2. Largest(1..k) \in 1..k /\ \A y \in 1..k : Largest(1..k) >= y
  BY <1>1, Zenon DEF Largest
<1>. QED BY <1>1, <1>2

\* A set with the new index, or without it.
LEMMA OneMore ==
  ASSUME WellOrdered, NEW k \in Nat, NEW base, NEW s, NEW g, Iterates(g, k, base, s),
         NEW h,
         h = [t \in SUBSET (1..(k + 1)) |->
                IF k + 1 \in t THEN Op(g[t \ {k + 1}], s[k + 1]) ELSE g[t]]
  PROVE  Iterates(h, k + 1, base, s)
<1>1. ASSUME NEW t \in SUBSET (1..(k + 1))
      PROVE  h[t] = IF t = {} THEN base ELSE Op(h[t \ {Largest(t)}], s[Largest(t)])
  <2>1. CASE t = {}
    <3>1. k + 1 \notin t /\ t \in SUBSET (1..k)
      BY <2>1
    <3>2. g[t] = base
      BY <2>1, <3>1, Zenon DEF Iterates
    <3>. QED BY <2>1, <3>1, <3>2
  <2>2. CASE k + 1 \in t
    <3>1. Largest(t) = k + 1
      <4>1. k + 1 \in Nat /\ t # {}
        BY <2>2
      <4>2. Largest(t) \in t /\ \A y \in t : y <= Largest(t)
        BY <4>1, LargestIs
      <4>3. Largest(t) \in 1..(k + 1) /\ k + 1 <= Largest(t)
        BY <2>2, <4>2
      <4>. QED BY <4>3
    <3>2. h[t] = Op(g[t \ {k + 1}], s[k + 1])
      BY <2>2
    <3>3. h[t \ {k + 1}] = g[t \ {k + 1}]
      <4>1. t \ {k + 1} \in SUBSET (1..(k + 1)) /\ k + 1 \notin t \ {k + 1}
        OBVIOUS
      <4>. QED BY <4>1
    <3>. QED BY <2>2, <3>1, <3>2, <3>3
  <2>3. CASE k + 1 \notin t /\ t # {}
    <3>1. t \in SUBSET (1..k)
      <4>1. ASSUME NEW x \in t PROVE x \in 1..k
        <5>1. x \in 1..(k + 1) /\ x # k + 1
          BY <2>3
        <5>. QED BY <5>1
      <4>. QED BY <4>1
    <3>2. g[t] = Op(g[t \ {Largest(t)}], s[Largest(t)])
      BY <2>3, <3>1, Zenon DEF Iterates
    <3>3. h[t] = g[t]
      BY <2>3
    <3>4. h[t \ {Largest(t)}] = g[t \ {Largest(t)}]
      <4>1. t \ {Largest(t)} \in SUBSET (1..(k + 1)) /\ k + 1 \notin t \ {Largest(t)}
        BY <2>3
      <4>. QED BY <4>1
    <3>. QED BY <2>3, <3>2, <3>3, <3>4
  <2>. QED BY <2>1, <2>2, <2>3
<1>2. h = [t \in SUBSET (1..(k + 1)) |-> h[t]]
  OBVIOUS
<1>. QED BY <1>1, <1>2, Zenon DEF Iterates

LEMMA IterationBegins ==
  ASSUME NEW base, NEW s
  PROVE  \E g : Iterates(g, 0, base, s)
<1>. DEFINE g == [t \in SUBSET (1..0) |-> base]
<1>1. \A t \in SUBSET (1..0) : t = {}
  <2>1. 1..0 = {}
    OBVIOUS
  <2>. QED BY <2>1, Zenon
<1>2. Iterates(g, 0, base, s)
  BY <1>1, Zenon DEF Iterates
<1>. QED BY <1>2, Zenon

LEMMA IterationExists ==
  ASSUME WellOrdered, NEW n \in Nat, NEW base, NEW s
  PROVE  \E g : Iterates(g, n, base, s)
<1>. DEFINE T == {k \in Nat : \E g : Iterates(g, k, base, s)}
<1>1. 0 \in T
  BY IterationBegins, Zenon
<1>2. ASSUME NEW k \in Nat, k \in T PROVE k + 1 \in T
  <2>1. k + 1 \in Nat
    OBVIOUS
  <2>2. PICK g : Iterates(g, k, base, s)
    BY <1>2, Zenon
  <2>3. \E h : Iterates(h, k + 1, base, s)
    BY <2>2, OneMore
  <2>. QED BY <2>1, <2>3, Zenon
<1>. HIDE DEF T
<1>3. n \in T
  BY <1>1, <1>2, SetInduction
<1>. QED BY <1>3, Zenon DEF T

\* One step of it.
LEMMA IterationStep ==
  ASSUME NEW n \in Nat, NEW base, NEW s, NEW g, Iterates(g, n, base, s)
  PROVE  g[1..0] = base /\ \A k \in 1..n : g[1..k] = Op(g[1..(k - 1)], s[k])
<1>1. 1..0 = {} /\ 1..0 \in SUBSET (1..n)
  OBVIOUS
<1>2. g[1..0] = base
  BY <1>1, Zenon DEF Iterates
<1>3. ASSUME NEW k \in 1..n PROVE g[1..k] = Op(g[1..(k - 1)], s[k])
  <2>1. 1..k \in SUBSET (1..n) /\ 1..k # {} /\ k \in Nat \ {0}
    OBVIOUS
  <2>2. g[1..k] = Op(g[1..k \ {Largest(1..k)}], s[Largest(1..k)])
    BY <2>1, Zenon DEF Iterates
  <2>. QED BY <2>1, <2>2, LargestOfRange
<1>. QED BY <1>2, <1>3

\* FoldLeft is that function.
LEMMA FoldedIs ==
  ASSUME NEW n \in Nat, NEW base, NEW s, DOMAIN s = 1..n, \E g : Iterates(g, n, base, s)
  PROVE  \E g : Iterates(g, n, base, s) /\ Folded(base, s) = g[1..n]
<1>1. \E g : Iterates(g, n, base, s)
  OBVIOUS
<1>2. \E g : g = [t \in SUBSET DOMAIN s |->
                   IF t = {} THEN base ELSE Op(g[t \ {Largest(t)}], s[Largest(t)])]
  BY <1>1, Zenon DEF Iterates
<1>3. \E g : /\ Folded(base, s) = g[DOMAIN s]
             /\ g = [t \in SUBSET DOMAIN s |->
                       IF t = {} THEN base ELSE Op(g[t \ {Largest(t)}], s[Largest(t)])]
  BY <1>2, Zenon DEF Folded, MapThenFoldSet
<1>. QED BY <1>3, Zenon DEF Iterates

(***************************************************************************)
(* What is cited.                                                          *)
(***************************************************************************)

LEMMA FoldedEmpty ==
  ASSUME NEW base
  PROVE  Folded(base, <<>>) = base
<1>1. DOMAIN <<>> = 1..0
  OBVIOUS
<1>2. PICK g : Iterates(g, 0, base, <<>>) /\ Folded(base, <<>>) = g[1..0]
  BY <1>1, IterationBegins, FoldedIs
<1>. QED BY <1>2, IterationStep

LEMMA FoldedAppend ==
  ASSUME WellOrdered, NEW base, NEW S, NEW s \in Seq(S), NEW e \in S
  PROVE  Folded(base, Append(s, e)) = Op(Folded(base, s), e)
<1>. DEFINE n == Len(s)
            u == Append(s, e)
<1>1. n \in Nat /\ DOMAIN s = 1..n /\ DOMAIN u = 1..(n + 1)
  OBVIOUS
<1>2. u[n + 1] = e /\ \A k \in 1..n : u[k] = s[k]
  OBVIOUS
<1>. HIDE DEF n, u
<1>3. PICK g : Iterates(g, n, base, s) /\ Folded(base, s) = g[1..n]
  BY <1>1, IterationExists, FoldedIs
<1>4. PICK h : Iterates(h, n + 1, base, u) /\ Folded(base, u) = h[1..(n + 1)]
  <2>1. n + 1 \in Nat
    BY <1>1
  <2>. QED BY <1>1, <2>1, IterationExists, FoldedIs
<1>5. /\ g[1..0] = base /\ \A k \in 1..n : g[1..k] = Op(g[1..(k - 1)], s[k])
      /\ h[1..0] = base /\ \A k \in 1..(n + 1) : h[1..k] = Op(h[1..(k - 1)], u[k])
  <2>1. n + 1 \in Nat
    BY <1>1
  <2>. QED BY <1>1, <1>3, <1>4, <2>1, IterationStep
<1>. DEFINE T == {k \in Nat : k <= n => g[1..k] = h[1..k]}
<1>6. 0 \in T
  BY <1>5
<1>7. ASSUME NEW k \in Nat, k \in T PROVE k + 1 \in T
  <2>. SUFFICES ASSUME k + 1 <= n PROVE g[1..(k + 1)] = h[1..(k + 1)]
    <3>1. k + 1 \in Nat
      OBVIOUS
    <3>. QED BY <3>1, Zenon
  <2>1. k + 1 \in 1..n /\ k + 1 \in 1..(n + 1) /\ (k + 1) - 1 = k /\ g[1..k] = h[1..k]
    BY <1>1, <1>7
  <2>2. g[1..(k + 1)] = Op(g[1..k], s[k + 1]) /\ h[1..(k + 1)] = Op(h[1..k], u[k + 1])
    BY <1>5, <2>1
  <2>. QED BY <1>2, <2>1, <2>2
<1>. HIDE DEF T
<1>8. n \in T
  BY <1>1, <1>6, <1>7, SetInduction
<1>9. g[1..n] = h[1..n]
  BY <1>1, <1>8 DEF T
<1>10. h[1..(n + 1)] = Op(h[1..n], u[n + 1])
  <2>1. n + 1 \in 1..(n + 1) /\ (n + 1) - 1 = n
    BY <1>1
  <2>2. h[1..(n + 1)] = Op(h[1..((n + 1) - 1)], u[n + 1])
    BY <1>5, <2>1
  <2>. QED BY <2>1, <2>2
<1>. QED BY <1>2, <1>3, <1>4, <1>9, <1>10 DEF u

=============================================================================
