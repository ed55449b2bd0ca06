----------------------------- MODULE Sums_proofs -----------------------------
(***************************************************************************)
(* Sums over finite sets, for the modules that add up days, repayments and   *)
(* allowances.  The library's induction theorems take the property as an     *)
(* operator, which the provers cannot instantiate; here it is a set, that of *)
(* the subsets which have the property.                                      *)
(***************************************************************************)
EXTENDS Integers, FiniteSetsExt, FiniteSetTheorems, WellFoundedInduction, TLAPS

LEMMA LeastNumber ==
  ASSUME NEW T, T \subseteq Nat, T # {}
  PROVE  \E n \in T : \A m \in T : n <= m
<1> DEFINE R == {ss \in Nat \X Nat : ss[1] < ss[2]}
<1>1. IsWellFoundedOn(R, Nat)
  BY NatLessThanWellFounded, Zenon DEF OpToRel
<1>2. \A m, n \in Nat : m < n => <<m, n>> \in R
  OBVIOUS
<1> HIDE DEF R
<1>3. PICK n \in T : \A m \in T : ~(<<m, n>> \in R)
  BY <1>1, WFMin
<1>4. \A m \in T : m \in Nat /\ n \in Nat /\ ~(m < n)
  BY <1>2, <1>3, Zenon
<1> QED
  BY <1>4

(* A family of subsets that contains the empty set, and every set whose subsets *)
(* with one element less it contains, contains every subset of a finite set.    *)
LEMMA SetInduction ==
  ASSUME NEW S, IsFiniteSet(S), NEW F, {} \in F,
         \A s \in SUBSET S : s # {} /\ (\A x \in s : s \ {x} \in F) => s \in F
  PROVE  \A s \in SUBSET S : s \in F
<1> DEFINE bad == {s \in SUBSET S : s \notin F}
           T == {Cardinality(s) : s \in bad}
<1> SUFFICES ASSUME bad # {} PROVE FALSE
  OBVIOUS
<1>1. \A s \in SUBSET S : IsFiniteSet(s) /\ Cardinality(s) \in Nat
  BY FS_Subset, FS_CardinalityType
<1>2. T \subseteq Nat /\ T # {}
  BY <1>1
<1>3. PICK n \in T : \A m \in T : n <= m
  <2> HIDE DEF T
  <2> QED
    BY <1>2, LeastNumber
<1>4. PICK s \in bad : Cardinality(s) = n
  OBVIOUS
<1>5. PICK x \in s : s \ {x} \in bad
  BY <1>4
<1>6. Cardinality(s \ {x}) = Cardinality(s) - 1
  BY <1>1, <1>5, FS_RemoveElement
<1>7. Cardinality(s \ {x}) \in T
  BY <1>5
<1>8. n <= Cardinality(s) - 1 /\ Cardinality(s) = n /\ n \in Nat
  <2> HIDE DEF T
  <2> QED
    BY <1>2, <1>3, <1>4, <1>6, <1>7
<1> QED
  BY <1>8

-----------------------------------------------------------------------------
(* The function by which MapThenFoldSet walks through a set.                   *)
SumsUp(g, S, h) ==
    g = [s \in SUBSET S |-> IF s = {} THEN 0 ELSE LET x == CHOOSE x \in s : TRUE IN h[x] + g[s \ {x}]]

(* The sum of h over S. *)
SumOf(h, S) == MapThenSumSet(LAMBDA x : h[x], S)

Chosen(s) == CHOOSE x \in s : TRUE

LEMMA ChosenIn == \A s : s # {} => Chosen(s) \in s
BY DEF Chosen

LEMMA SumsUpAt ==
  ASSUME NEW S, NEW h, NEW g, SumsUp(g, S, h), NEW s \in SUBSET S
  PROVE  /\ s = {} => g[s] = 0
         /\ s # {} => g[s] = h[Chosen(s)] + g[s \ {Chosen(s)}] /\ Chosen(s) \in s
BY ChosenIn DEF SumsUp, Chosen

(* Two walks agree on the sets both pass through. *)
LEMMA WalksMeet ==
  ASSUME NEW h, NEW S1, NEW S2, NEW g1, NEW g2, SumsUp(g1, S1, h), SumsUp(g2, S2, h),
         NEW S, IsFiniteSet(S), S \subseteq S1, S \subseteq S2
  PROVE  g1[S] = g2[S]
<1> DEFINE F == {s \in SUBSET S : g1[s] = g2[s]}
<1>1. {} \in F
  BY SumsUpAt
<1>2. ASSUME NEW s \in SUBSET S, s # {}, \A x \in s : s \ {x} \in F PROVE s \in F
  <2>1. Chosen(s) \in s
    BY <1>2, ChosenIn
  <2>2. g1[s] = h[Chosen(s)] + g1[s \ {Chosen(s)}] /\ g2[s] = h[Chosen(s)] + g2[s \ {Chosen(s)}]
    <3>1. s \in SUBSET S1 /\ s \in SUBSET S2
      OBVIOUS
    <3> QED
      BY <1>2, <3>1, SumsUpAt
  <2>3. g1[s \ {Chosen(s)}] = g2[s \ {Chosen(s)}]
    BY <1>2, <2>1
  <2> QED
    BY <2>2, <2>3
<1> HIDE DEF F
<1>3. \A s \in SUBSET S : s # {} /\ (\A x \in s : s \ {x} \in F) => s \in F
  BY <1>2
<1>4. S \in F
  <2>1. \A s \in SUBSET S : s \in F
    BY <1>1, <1>3, SetInduction
  <2> QED
    BY <2>1
<1> QED
  BY <1>4 DEF F

(* Such a walk exists. *)
LEMMA WalkExists ==
  ASSUME NEW h, NEW S, IsFiniteSet(S)
  PROVE  \E g : SumsUp(g, S, h)
<1> DEFINE F == {s \in SUBSET S : \A t \in SUBSET s : \E g : SumsUp(g, t, h)}
           H(u) == (CHOOSE g : SumsUp(g, u, h))[u]
<1>0. ASSUME NEW s \in SUBSET S, s # {}, \A x \in s : s \ {x} \in F
      PROVE  \E g : SumsUp(g, s, h)
  <2> DEFINE g == [t \in SUBSET s |-> IF t = {} THEN 0 ELSE h[Chosen(t)] + H(t \ {Chosen(t)})]
  <2>1. ASSUME NEW u \in SUBSET s, u # s PROVE SumsUp(CHOOSE k : SumsUp(k, u, h), u, h)
    <3>1. PICK x \in s : x \notin u
      BY <2>1
    <3>2. \E k : SumsUp(k, u, h)
      BY <1>0, <3>1
    <3> QED
      BY <3>2
  <2>2. \A u \in SUBSET s : IsFiniteSet(u)
    BY FS_Subset
  <2>3. ASSUME NEW u \in SUBSET s, u # s PROVE H(u) = g[u]
    <3> DEFINE k == CHOOSE k : SumsUp(k, u, h)
    <3>1. SumsUp(k, u, h)
      BY <2>1, <2>3
    <3> HIDE DEF k
    <3>2. CASE u = {}
      BY <3>1, <3>2, SumsUpAt DEF k
    <3>3. CASE u # {}
      <4> DEFINE v == u \ {Chosen(u)}
                 l == CHOOSE l : SumsUp(l, v, h)
      <4>1. Chosen(u) \in u /\ v \in SUBSET s /\ v # s /\ v \subseteq u
        BY <3>3, ChosenIn
      <4>2. SumsUp(l, v, h)
        BY <2>1, <4>1
      <4>3. k[u] = h[Chosen(u)] + k[v]
        BY <3>1, <3>3, SumsUpAt
      <4>4. k[v] = l[v]
        <5> HIDE DEF l, v
        <5> QED
          BY <2>2, <3>1, <4>1, <4>2, WalksMeet
      <4> QED
        BY <3>3, <4>3, <4>4 DEF k
    <3> QED
      BY <3>2, <3>3
  <2>4. ASSUME NEW t \in SUBSET s
        PROVE  g[t] = IF t = {} THEN 0 ELSE h[Chosen(t)] + g[t \ {Chosen(t)}]
    <3>1. t # {} => t \ {Chosen(t)} \in SUBSET s /\ t \ {Chosen(t)} # s
      BY ChosenIn
    <3>2. t # {} => H(t \ {Chosen(t)}) = g[t \ {Chosen(t)}]
      BY <2>3, <3>1
    <3> HIDE DEF H
    <3> QED
      BY <3>2
  <2>5. g = [t \in SUBSET s |-> g[t]]
    OBVIOUS
  <2> HIDE DEF g
  <2>6. g = [t \in SUBSET s |-> IF t = {} THEN 0 ELSE h[Chosen(t)] + g[t \ {Chosen(t)}]]
    BY <2>4, <2>5
  <2>7. SumsUp(g, s, h)
    BY <2>6 DEF SumsUp, Chosen
  <2> QED
    BY <2>7
<1>1. {} \in F
  <2> DEFINE g == [s \in SUBSET {} |-> 0]
  <2>1. SumsUp(g, {}, h)
    BY DEF SumsUp
  <2> QED
    BY <2>1
<1>2. ASSUME NEW s \in SUBSET S, s # {}, \A x \in s : s \ {x} \in F PROVE s \in F
  <2> SUFFICES ASSUME NEW t \in SUBSET s PROVE \E g : SumsUp(g, t, h)
    OBVIOUS
  <2>1. CASE t = s
    BY <1>0, <1>2, <2>1
  <2>2. CASE t # s
    <3>1. PICK x \in s : x \notin t
      BY <2>2
    <3> QED
      BY <1>2, <3>1
  <2> QED
    BY <2>1, <2>2
<1> HIDE DEF F
<1>3. \A s \in SUBSET S : s # {} /\ (\A x \in s : s \ {x} \in F) => s \in F
  BY <1>2
<1>4. S \in F
  <2>1. \A s \in SUBSET S : s \in F
    BY <1>1, <1>3, SetInduction
  <2> QED
    BY <2>1
<1> QED
  BY <1>4 DEF F

(* So the sum is what any such walk says of the whole set. *)
LEMMA SumWalked ==
  ASSUME NEW h, NEW S, IsFiniteSet(S)
  PROVE  \E g : SumsUp(g, S, h) /\ SumOf(h, S) = g[S]
<1>1. \E g : SumsUp(g, S, h)
  BY WalkExists
<1> DEFINE g == CHOOSE g : SumsUp(g, S, h)
<1>2. SumsUp(g, S, h)
  BY <1>1
<1>3. SumOf(h, S) = g[S]
  BY DEF SumOf, MapThenSumSet, MapThenFoldSet, SumsUp
<1> QED
  BY <1>2, <1>3

-----------------------------------------------------------------------------
(* Sums, element by element *)

LEMMA SumStep ==
  ASSUME NEW h, NEW S, IsFiniteSet(S)
  PROVE  /\ S = {} => SumOf(h, S) = 0
         /\ S # {} => /\ Chosen(S) \in S
                      /\ SumOf(h, S) = h[Chosen(S)] + SumOf(h, S \ {Chosen(S)})
<1>1. PICK g : SumsUp(g, S, h) /\ SumOf(h, S) = g[S]
  BY SumWalked
<1>2. S = {} => SumOf(h, S) = 0
  BY <1>1, SumsUpAt
<1>3. ASSUME S # {} PROVE Chosen(S) \in S /\ SumOf(h, S) = h[Chosen(S)] + SumOf(h, S \ {Chosen(S)})
  <2> DEFINE s == S \ {Chosen(S)}
  <2>1. s \subseteq S /\ IsFiniteSet(s)
    BY FS_Subset
  <2> HIDE DEF s
  <2>2. PICK k : SumsUp(k, s, h) /\ SumOf(h, s) = k[s]
    BY <2>1, SumWalked
  <2>3. k[s] = g[s]
    BY <1>1, <2>1, <2>2, WalksMeet
  <2>4. Chosen(S) \in S /\ g[S] = h[Chosen(S)] + g[s]
    BY <1>1, <1>3, SumsUpAt DEF s
  <2> QED
    BY <1>1, <2>2, <2>3, <2>4 DEF s
<1> QED
  BY <1>2, <1>3

LEMMA SumEmpty == \A h : SumOf(h, {}) = 0
BY SumStep, FS_EmptySet

(* Sums of natural numbers are natural numbers, and grow with their summands.   *)
LEMMA SumNat ==
  ASSUME NEW h, NEW S, IsFiniteSet(S), \A x \in S : h[x] \in Nat
  PROVE  SumOf(h, S) \in Nat
<1> DEFINE F == {s \in SUBSET S : SumOf(h, s) \in Nat}
<1>1. {} \in F
  BY SumEmpty
<1>2. ASSUME NEW s \in SUBSET S, s # {}, \A x \in s : s \ {x} \in F PROVE s \in F
  <2>1. Chosen(s) \in s /\ SumOf(h, s) = h[Chosen(s)] + SumOf(h, s \ {Chosen(s)})
    BY <1>2, SumStep, FS_Subset
  <2>2. SumOf(h, s \ {Chosen(s)}) \in Nat /\ h[Chosen(s)] \in Nat
    BY <1>2, <2>1
  <2> QED
    BY <2>1, <2>2
<1> HIDE DEF F
<1>3. \A s \in SUBSET S : s # {} /\ (\A x \in s : s \ {x} \in F) => s \in F
  BY <1>2
<1>4. S \in F
  <2>1. \A s \in SUBSET S : s \in F
    BY <1>1, <1>3, SetInduction
  <2> QED
    BY <2>1
<1> QED
  BY <1>4 DEF F

LEMMA SumGrows ==
  ASSUME NEW h, NEW k, NEW S, IsFiniteSet(S),
         \A x \in S : h[x] \in Nat /\ k[x] \in Nat /\ h[x] <= k[x]
  PROVE  SumOf(h, S) <= SumOf(k, S)
<1> DEFINE F == {s \in SUBSET S : SumOf(h, s) <= SumOf(k, s)}
<1>1. {} \in F
  BY SumEmpty
<1>2. ASSUME NEW s \in SUBSET S, s # {}, \A x \in s : s \ {x} \in F PROVE s \in F
  <2> DEFINE c == Chosen(s)
             r == s \ {c}
  <2>1. IsFiniteSet(s) /\ IsFiniteSet(r)
    BY FS_Subset
  <2>2. c \in s /\ SumOf(h, s) = h[c] + SumOf(h, r) /\ SumOf(k, s) = k[c] + SumOf(k, r)
    BY <1>2, <2>1, SumStep
  <2>3. SumOf(h, r) \in Nat /\ SumOf(k, r) \in Nat
    BY <2>1, SumNat
  <2>4. SumOf(h, r) <= SumOf(k, r) /\ h[c] \in Nat /\ k[c] \in Nat /\ h[c] <= k[c]
    BY <1>2, <2>2
  <2> HIDE DEF c, r
  <2> QED
    BY <2>2, <2>3, <2>4
<1> HIDE DEF F
<1>3. \A s \in SUBSET S : s # {} /\ (\A x \in s : s \ {x} \in F) => s \in F
  BY <1>2
<1>4. S \in F
  <2>1. \A s \in SUBSET S : s \in F
    BY <1>1, <1>3, SetInduction
  <2> QED
    BY <2>1
<1> QED
  BY <1>4 DEF F

(* Equal summands, equal sums. *)
LEMMA SumSame ==
  ASSUME NEW h, NEW k, NEW S, IsFiniteSet(S), \A x \in S : h[x] \in Nat /\ h[x] = k[x]
  PROVE  SumOf(h, S) = SumOf(k, S)
<1>1. SumOf(h, S) \in Nat /\ SumOf(k, S) \in Nat
  BY SumNat
<1>2. SumOf(h, S) <= SumOf(k, S) /\ SumOf(k, S) <= SumOf(h, S)
  BY SumGrows
<1> QED
  BY <1>1, <1>2

LEMMA SumZero ==
  ASSUME NEW h, NEW S, IsFiniteSet(S), \A x \in S : h[x] = 0
  PROVE  SumOf(h, S) = 0
<1> DEFINE F == {s \in SUBSET S : SumOf(h, s) = 0}
<1>1. {} \in F
  BY SumEmpty
<1>2. ASSUME NEW s \in SUBSET S, s # {}, \A x \in s : s \ {x} \in F PROVE s \in F
  <2>1. Chosen(s) \in s /\ SumOf(h, s) = h[Chosen(s)] + SumOf(h, s \ {Chosen(s)})
    BY <1>2, SumStep, FS_Subset
  <2>2. SumOf(h, s \ {Chosen(s)}) = 0 /\ h[Chosen(s)] = 0
    BY <1>2, <2>1
  <2> QED
    BY <2>1, <2>2
<1> HIDE DEF F
<1>3. \A s \in SUBSET S : s # {} /\ (\A x \in s : s \ {x} \in F) => s \in F
  BY <1>2
<1>4. S \in F
  <2>1. \A s \in SUBSET S : s \in F
    BY <1>1, <1>3, SetInduction
  <2> QED
    BY <2>1
<1> QED
  BY <1>4 DEF F

(* Any element may be counted first, whatever the order of the walk.            *)
LEMMA SumSplit ==
  ASSUME NEW h, NEW S, IsFiniteSet(S), \A x \in S : h[x] \in Nat, NEW y \in S
  PROVE  SumOf(h, S) = h[y] + SumOf(h, S \ {y})
<1> DEFINE F == {s \in SUBSET S : \A x \in s : SumOf(h, s) = h[x] + SumOf(h, s \ {x})}
<1>1. {} \in F
  OBVIOUS
<1>2. ASSUME NEW s \in SUBSET S, s # {}, \A x \in s : s \ {x} \in F PROVE s \in F
  <2> SUFFICES ASSUME NEW x \in s PROVE SumOf(h, s) = h[x] + SumOf(h, s \ {x})
    OBVIOUS
  <2> DEFINE c == Chosen(s)
  <2>1. IsFiniteSet(s) /\ IsFiniteSet(s \ {x}) /\ IsFiniteSet((s \ {x}) \ {c})
    BY FS_Subset
  <2>2. c \in s /\ SumOf(h, s) = h[c] + SumOf(h, s \ {c})
    BY <1>2, <2>1, SumStep
  <2>3. CASE x = c
    BY <2>2, <2>3
  <2>4. CASE x # c
    <3>1. SumOf(h, s \ {c}) = h[x] + SumOf(h, (s \ {c}) \ {x})
      BY <1>2, <2>2, <2>4
    <3>2. SumOf(h, s \ {x}) = h[c] + SumOf(h, (s \ {x}) \ {c})
      BY <1>2, <2>2, <2>4
    <3>3. (s \ {c}) \ {x} = (s \ {x}) \ {c}
      OBVIOUS
    <3>4. SumOf(h, (s \ {x}) \ {c}) \in Nat /\ h[x] \in Nat /\ h[c] \in Nat
      BY <2>1, <2>2, SumNat
    <3> HIDE DEF c
    <3> QED
      BY <2>2, <3>1, <3>2, <3>3, <3>4
  <2> QED
    BY <2>3, <2>4
<1> HIDE DEF F
<1>3. \A s \in SUBSET S : s # {} /\ (\A x \in s : s \ {x} \in F) => s \in F
  BY <1>2
<1>4. S \in F
  <2>1. \A s \in SUBSET S : s \in F
    BY <1>1, <1>3, SetInduction
  <2> QED
    BY <2>1
<1> QED
  BY <1>4 DEF F

(* One summand changes. *)
LEMMA SumChange ==
  ASSUME NEW h, NEW k, NEW S, IsFiniteSet(S), NEW y \in S,
         \A x \in S : h[x] \in Nat /\ k[x] \in Nat /\ (x # y => h[x] = k[x])
  PROVE  SumOf(k, S) + h[y] = SumOf(h, S) + k[y]
<1>1. SumOf(h, S) = h[y] + SumOf(h, S \ {y}) /\ SumOf(k, S) = k[y] + SumOf(k, S \ {y})
  BY SumSplit
<1>2. IsFiniteSet(S \ {y})
  BY FS_Subset
<1>3. SumOf(h, S \ {y}) = SumOf(k, S \ {y}) /\ SumOf(h, S \ {y}) \in Nat
  BY <1>2, SumSame, SumNat
<1> QED
  BY <1>1, <1>3

(* A part sums up to no more than the whole. *)
LEMMA SumPart ==
  ASSUME NEW h, NEW S, IsFiniteSet(S), \A x \in S : h[x] \in Nat, NEW s \in SUBSET S
  PROVE  SumOf(h, s) <= SumOf(h, S)
<1> DEFINE F == {t \in SUBSET S : SumOf(h, s \cap t) <= SumOf(h, t)}
<1>1. {} \in F
  <2>1. s \cap {} = {}
    OBVIOUS
  <2> QED
    BY <2>1, SumEmpty
<1>2. ASSUME NEW t \in SUBSET S, t # {}, \A x \in t : t \ {x} \in F PROVE t \in F
  <2>1. PICK x \in t : TRUE
    BY <1>2
  <2>2. IsFiniteSet(t) /\ IsFiniteSet(t \ {x}) /\ IsFiniteSet(s \cap t) /\ IsFiniteSet(s \cap (t \ {x}))
    BY FS_Subset
  <2>3. SumOf(h, t) = h[x] + SumOf(h, t \ {x})
    BY <2>1, <2>2, SumSplit
  <2>4. SumOf(h, s \cap (t \ {x})) <= SumOf(h, t \ {x})
    BY <1>2
  <2>5. SumOf(h, t \ {x}) \in Nat /\ SumOf(h, s \cap (t \ {x})) \in Nat /\ h[x] \in Nat
    BY <2>2, SumNat
  <2> DEFINE whole == SumOf(h, t \ {x})
             part == SumOf(h, s \cap (t \ {x}))
  <2>6. SumOf(h, s \cap t) <= SumOf(h, t)
    <3>1. CASE x \in s
      <4>1. SumOf(h, s \cap t) = h[x] + SumOf(h, (s \cap t) \ {x})
        BY <2>2, <3>1, SumSplit
      <4>2. (s \cap t) \ {x} = s \cap (t \ {x})
        OBVIOUS
      <4>3. SumOf(h, s \cap t) = h[x] + part
        BY <4>1, <4>2
      <4>4. SumOf(h, t) = h[x] + whole /\ part <= whole /\ whole \in Nat /\ part \in Nat /\ h[x] \in Nat
        BY <2>3, <2>4, <2>5
      <4> HIDE DEF whole, part
      <4> QED
        BY <4>3, <4>4
    <3>2. CASE x \notin s
      <4>1. s \cap t = s \cap (t \ {x})
        BY <3>2
      <4>2. SumOf(h, s \cap t) = part /\ SumOf(h, t) = h[x] + whole /\ part <= whole
            /\ whole \in Nat /\ part \in Nat /\ h[x] \in Nat
        BY <2>3, <2>4, <2>5, <4>1
      <4> HIDE DEF whole, part
      <4> QED
        BY <4>2
    <3> QED
      BY <3>1, <3>2
  <2> QED
    BY <2>6
<1> HIDE DEF F
<1>3. \A t \in SUBSET S : t # {} /\ (\A x \in t : t \ {x} \in F) => t \in F
  BY <1>2
<1>4. S \in F
  <2>1. \A t \in SUBSET S : t \in F
    BY <1>1, <1>3, SetInduction
  <2> QED
    BY <2>1
<1>5. s \cap S = s
  OBVIOUS
<1> QED
  BY <1>4, <1>5 DEF F
=============================================================================
