---------------------------- MODULE SumTheorems ----------------------------
(***************************************************************************)
(* Sums of integer weights over finite sets: what SumFunctionOnSet of the   *)
(* community module Functions returns.  It is a CHOOSE of the function that *)
(* takes one element of a set after the other, and so says by itself        *)
(* neither that the sum exists nor that the order does not matter.  Both    *)
(* are shown by a minimal counterexample: of the subsets for which a claim  *)
(* fails one has no smaller one (WFMin), and it has an element to take out. *)
(***************************************************************************)
EXTENDS Functions, FiniteSetTheorems, TLAPS

(* g adds up the weights w over every subset of S, one chosen element after *)
(* the other.                                                               *)
AddsUp(g, w, S) ==
    g = [s \in SUBSET S |->
            IF s = {} THEN 0
            ELSE w[CHOOSE x \in s : TRUE] + g[s \ {CHOOSE x \in s : TRUE}]]

(* The definition of the sum, in these terms. *)
LEMMA SumIsChosen ==
  ASSUME NEW w, NEW S
  PROVE  SumFunctionOnSet(w, S) = (CHOOSE g : AddsUp(g, w, S))[S]
  BY DEF SumFunctionOnSet, FoldFunctionOnSet, MapThenFoldSet, AddsUp

(* The smallest counterexample. *)
LEMMA MinimalSubset ==
  ASSUME NEW S, IsFiniteSet(S), NEW B, B \subseteq SUBSET S, B # {}
  PROVE  \E s \in B : \A t \in SUBSET s : t # s => t \notin B
  <1>1. IsWellFoundedOn(StrictSubsetOrdering(S), SUBSET S)
    BY FS_StrictSubsetOrderingWellFounded, FS_FiniteSubsetsOfFinite
  <1>2. PICK s \in B : \A t \in B : <<t, s>> \notin StrictSubsetOrdering(S)
    BY <1>1, WFMin
  <1>3. ASSUME NEW t \in SUBSET s, t # s PROVE t \notin B
    BY <1>2, <1>3 DEF StrictSubsetOrdering
  <1> QED
    BY <1>2, <1>3

(* There is at most one such function ... *)
LEMMA AddsUpOnce ==
  ASSUME NEW w, NEW S, IsFiniteSet(S), NEW g, NEW h, AddsUp(g, w, S), AddsUp(h, w, S)
  PROVE  g = h
  <1> DEFINE B == {s \in SUBSET S : g[s] # h[s]}
  <1>1. CASE B # {}
    <2>1. PICK s \in B : \A t \in SUBSET s : t # s => t \notin B
      <3>1. B \subseteq SUBSET S
        OBVIOUS
      <3> HIDE DEF B
      <3> QED
        BY <1>1, <3>1, MinimalSubset
    <2> DEFINE x == CHOOSE x \in s : TRUE
    <2>2. CASE s = {}
      <3>1. g[s] = 0 /\ h[s] = 0
        BY <2>2 DEF AddsUp
      <3> QED
        BY <2>1, <3>1
    <2>3. CASE s # {}
      <3>1. x \in s /\ s \ {x} \in SUBSET s /\ s \ {x} # s
        BY <2>3
      <3>2. g[s \ {x}] = h[s \ {x}]
        BY <2>1, <3>1
      <3>3. g[s] = w[x] + g[s \ {x}] /\ h[s] = w[x] + h[s \ {x}]
        BY <2>3 DEF AddsUp
      <3> QED
        BY <2>1, <3>2, <3>3
    <2> QED
      BY <2>2, <2>3
  <1>2. CASE B = {}
    <2>1. \A s \in SUBSET S : g[s] = h[s]
      BY <1>2
    <2>2. g = [s \in SUBSET S |-> g[s]] /\ h = [s \in SUBSET S |-> h[s]]
      BY DEF AddsUp
    <2> QED
      BY <2>1, <2>2
  <1> QED
    BY <1>1, <1>2

(* ... it is one for every subset ... *)
LEMMA AddsUpBelow ==
  ASSUME NEW w, NEW S, NEW g, AddsUp(g, w, S), NEW T \in SUBSET S
  PROVE  AddsUp([s \in SUBSET T |-> g[s]], w, T)
  <1> DEFINE h == [s \in SUBSET T |-> g[s]]
  <1>1. ASSUME NEW s \in SUBSET T
        PROVE  h[s] = IF s = {} THEN 0
                      ELSE w[CHOOSE x \in s : TRUE] + h[s \ {CHOOSE x \in s : TRUE}]
    <2>1. s \in SUBSET S /\ s \ {CHOOSE x \in s : TRUE} \in SUBSET T
      OBVIOUS
    <2>2. g[s] = IF s = {} THEN 0
                 ELSE w[CHOOSE x \in s : TRUE] + g[s \ {CHOOSE x \in s : TRUE}]
      BY <2>1 DEF AddsUp
    <2> QED
      BY <2>1, <2>2
  <1>2. h = [s \in SUBSET T |-> IF s = {} THEN 0
                 ELSE w[CHOOSE x \in s : TRUE] + h[s \ {CHOOSE x \in s : TRUE}]]
    BY <1>1
  <1> QED
    BY <1>2 DEF AddsUp

(* ... and returns the sums ... *)
LEMMA SumIfAny ==
  ASSUME NEW w, NEW S, IsFiniteSet(S), NEW g, AddsUp(g, w, S), NEW T \in SUBSET S
  PROVE  SumFunctionOnSet(w, T) = g[T]
  <1> DEFINE h == [s \in SUBSET T |-> g[s]]
  <1>1. AddsUp(h, w, T)
    BY AddsUpBelow
  <1>2. AddsUp(CHOOSE f : AddsUp(f, w, T), w, T)
    BY <1>1
  <1>3. IsFiniteSet(T)
    BY FS_Subset
  <1>4. (CHOOSE f : AddsUp(f, w, T)) = h
    BY <1>1, <1>2, <1>3, AddsUpOnce
  <1> QED
    BY <1>4, SumIsChosen

(* ... and there is one, which the sums themselves make up. *)
LEMMA SumIsOne ==
  ASSUME NEW w, NEW S, IsFiniteSet(S)
  PROVE  \E g : AddsUp(g, w, S)
  <1> DEFINE B == {s \in SUBSET S : ~ \E g : AddsUp(g, w, s)}
             Sum(s) == SumFunctionOnSet(w, s)
  <1>1. CASE B # {}
    <2>1. PICK t \in B : \A u \in SUBSET t : u # t => u \notin B
      <3>1. B \subseteq SUBSET S
        OBVIOUS
      <3> HIDE DEF B
      <3> QED
        BY <1>1, <3>1, MinimalSubset
    <2>2. ASSUME NEW u \in SUBSET t, u # t
          PROVE  Sum(u) = IF u = {} THEN 0
                          ELSE w[CHOOSE x \in u : TRUE] + Sum(u \ {CHOOSE x \in u : TRUE})
      <3>1. PICK g : AddsUp(g, w, u)
        BY <2>1, <2>2
      <3>2. IsFiniteSet(u)
        BY FS_Subset
      <3>3. u \ {CHOOSE x \in u : TRUE} \in SUBSET u /\ u \in SUBSET u
        OBVIOUS
      <3>4. Sum(u) = g[u] /\ Sum(u \ {CHOOSE x \in u : TRUE}) = g[u \ {CHOOSE x \in u : TRUE}]
        BY <3>1, <3>2, <3>3, SumIfAny
      <3>5. g[u] = IF u = {} THEN 0
                   ELSE w[CHOOSE x \in u : TRUE] + g[u \ {CHOOSE x \in u : TRUE}]
        BY <3>1 DEF AddsUp
      <3> QED
        BY <3>4, <3>5
    <2> DEFINE f == [s \in SUBSET t |->
                       IF s = {} THEN 0
                       ELSE w[CHOOSE x \in s : TRUE] + Sum(s \ {CHOOSE x \in s : TRUE})]
    <2>3. ASSUME NEW u \in SUBSET t, u # t PROVE f[u] = Sum(u)
      BY <2>2, <2>3
    <2>4. ASSUME NEW s \in SUBSET t, s # {}
          PROVE  f[s] = w[CHOOSE x \in s : TRUE] + f[s \ {CHOOSE x \in s : TRUE}]
      <3> DEFINE x == CHOOSE x \in s : TRUE
      <3>1. x \in s
        BY <2>4
      <3>2. s \ {x} \in SUBSET t /\ s \ {x} # t
        BY <3>1
      <3>3. f[s \ {x}] = Sum(s \ {x})
        BY <2>3, <3>2
      <3>4. f[s] = w[x] + Sum(s \ {x})
        BY <2>4
      <3> QED
        BY <3>3, <3>4
    <2>5. f[{}] = 0
      OBVIOUS
    <2>6. f = [s \in SUBSET t |-> f[s]]
      OBVIOUS
    <2> HIDE DEF f
    <2>7. f = [s \in SUBSET t |-> IF s = {} THEN 0
                 ELSE w[CHOOSE x \in s : TRUE] + f[s \ {CHOOSE x \in s : TRUE}]]
      BY <2>4, <2>5, <2>6
    <2>8. AddsUp(f, w, t)
      BY <2>7 DEF AddsUp
    <2> QED
      BY <2>1, <2>8
  <1>2. CASE B = {}
    BY <1>2
  <1> QED
    BY <1>1, <1>2

-----------------------------------------------------------------------------
(* What is used of sums from here on. *)

(* Nothing adds up to nothing. *)
LEMMA SumEmpty == ASSUME NEW w PROVE SumFunctionOnSet(w, {}) = 0
  <1>1. IsFiniteSet({})
    BY FS_EmptySet
  <1>2. PICK g : AddsUp(g, w, {})
    BY <1>1, SumIsOne
  <1>3. SumFunctionOnSet(w, {}) = g[{}]
    BY <1>1, <1>2, SumIfAny
  <1> QED
    BY <1>2, <1>3 DEF AddsUp

(* Some element may be taken out first. *)
LEMMA SumChosen ==
  ASSUME NEW w, NEW S, IsFiniteSet(S), S # {}
  PROVE  \E x \in S : SumFunctionOnSet(w, S) = w[x] + SumFunctionOnSet(w, S \ {x})
  <1> DEFINE x == CHOOSE y \in S : TRUE
  <1>1. PICK g : AddsUp(g, w, S)
    BY SumIsOne
  <1>2. x \in S /\ S \ {x} \in SUBSET S /\ S \in SUBSET S
    OBVIOUS
  <1>3. SumFunctionOnSet(w, S) = g[S] /\ SumFunctionOnSet(w, S \ {x}) = g[S \ {x}]
    BY <1>1, <1>2, SumIfAny
  <1>4. g[S] = w[x] + g[S \ {x}]
    BY <1>1 DEF AddsUp
  <1> QED
    BY <1>2, <1>3, <1>4

(* Integers add up to an integer. *)
LEMMA SumType ==
  ASSUME NEW w, NEW S, IsFiniteSet(S), \A x \in S : w[x] \in Int
  PROVE  SumFunctionOnSet(w, S) \in Int
  <1> DEFINE B == {s \in SUBSET S : SumFunctionOnSet(w, s) \notin Int}
  <1>1. CASE B # {}
    <2>1. PICK s \in B : \A t \in SUBSET s : t # s => t \notin B
      <3>1. B \subseteq SUBSET S
        OBVIOUS
      <3> HIDE DEF B
      <3> QED
        BY <1>1, <3>1, MinimalSubset
    <2>2. s # {}
      <3>1. SumFunctionOnSet(w, s) \notin Int
        BY <2>1
      <3>2. SumFunctionOnSet(w, {}) \in Int
        BY SumEmpty
      <3> HIDE DEF B
      <3> QED
        BY <3>1, <3>2
    <2>3. IsFiniteSet(s)
      BY FS_Subset
    <2>4. PICK x \in s : SumFunctionOnSet(w, s) = w[x] + SumFunctionOnSet(w, s \ {x})
      BY <2>2, <2>3, SumChosen
    <2>5. s \ {x} \in SUBSET s /\ s \ {x} # s /\ w[x] \in Int
      OBVIOUS
    <2>6. SumFunctionOnSet(w, s \ {x}) \in Int
      BY <2>1, <2>5
    <2> QED
      BY <2>1, <2>4, <2>5, <2>6
  <1>2. CASE B = {}
    BY <1>2
  <1> QED
    BY <1>1, <1>2

(* Any element may be taken out first. *)
THEOREM SumTakes ==
  ASSUME NEW w, NEW S, IsFiniteSet(S), \A x \in S : w[x] \in Int, NEW y \in S
  PROVE  SumFunctionOnSet(w, S) = w[y] + SumFunctionOnSet(w, S \ {y})
  <1> DEFINE T(s) == SumFunctionOnSet(w, s)
             B == {s \in SUBSET S : \E z \in s : T(s) # w[z] + T(s \ {z})}
  <1>1. CASE B # {}
    <2>1. PICK s \in B : \A t \in SUBSET s : t # s => t \notin B
      <3>1. B \subseteq SUBSET S
        OBVIOUS
      <3> HIDE DEF B
      <3> QED
        BY <1>1, <3>1, MinimalSubset
    <2>2. PICK z \in s : T(s) # w[z] + T(s \ {z})
      BY <2>1
    <2>3. IsFiniteSet(s) /\ s # {}
      BY FS_Subset
    <2>4. PICK x \in s : T(s) = w[x] + T(s \ {x})
      BY <2>3, SumChosen
    <2>5. x # z
      BY <2>2, <2>4
    <2>6. T(s \ {x}) = w[z] + T((s \ {x}) \ {z})
      <3>1. s \ {x} \in SUBSET s /\ s \ {x} # s /\ z \in s \ {x}
        BY <2>5
      <3> QED
        BY <2>1, <3>1
    <2>7. T(s \ {z}) = w[x] + T((s \ {z}) \ {x})
      <3>1. s \ {z} \in SUBSET s /\ s \ {z} # s /\ x \in s \ {z}
        BY <2>5
      <3> QED
        BY <2>1, <3>1
    <2>8. (s \ {x}) \ {z} = (s \ {z}) \ {x}
      OBVIOUS
    <2>9. T((s \ {x}) \ {z}) \in Int /\ w[x] \in Int /\ w[z] \in Int
      <3>1. IsFiniteSet((s \ {x}) \ {z}) /\ \A q \in (s \ {x}) \ {z} : w[q] \in Int
        BY <2>3, FS_RemoveElement
      <3> QED
        BY <3>1, SumType
    <2> HIDE DEF T
    <2> QED
      BY <2>2, <2>4, <2>6, <2>7, <2>8, <2>9
  <1>2. CASE B = {}
    BY <1>2
  <1> QED
    BY <1>1, <1>2

(* A new element adds its weight. *)
THEOREM SumAdds ==
  ASSUME NEW w, NEW S, IsFiniteSet(S), NEW y, y \notin S, \A x \in S \cup {y} : w[x] \in Int
  PROVE  SumFunctionOnSet(w, S \cup {y}) = w[y] + SumFunctionOnSet(w, S)
  <1>1. IsFiniteSet(S \cup {y})
    BY FS_AddElement
  <1>2. (S \cup {y}) \ {y} = S
    OBVIOUS
  <1> QED
    BY <1>1, <1>2, SumTakes

(* Only the weights of the elements count. *)
THEOREM SumDepends ==
  ASSUME NEW w, NEW v, NEW S, IsFiniteSet(S), \A x \in S : w[x] \in Int /\ v[x] = w[x]
  PROVE  SumFunctionOnSet(v, S) = SumFunctionOnSet(w, S)
  <1> DEFINE B == {s \in SUBSET S : SumFunctionOnSet(v, s) # SumFunctionOnSet(w, s)}
  <1>1. CASE B # {}
    <2>1. PICK s \in B : \A t \in SUBSET s : t # s => t \notin B
      <3>1. B \subseteq SUBSET S
        OBVIOUS
      <3> HIDE DEF B
      <3> QED
        BY <1>1, <3>1, MinimalSubset
    <2>2. s # {}
      <3>1. SumFunctionOnSet(v, {}) = 0 /\ SumFunctionOnSet(w, {}) = 0
        BY SumEmpty
      <3> QED
        BY <2>1, <3>1
    <2>3. IsFiniteSet(s)
      BY FS_Subset
    <2>4. PICK x \in s : TRUE
      BY <2>2
    <2>5. /\ SumFunctionOnSet(v, s) = v[x] + SumFunctionOnSet(v, s \ {x})
          /\ SumFunctionOnSet(w, s) = w[x] + SumFunctionOnSet(w, s \ {x})
      <3>1. \A y \in s : w[y] \in Int /\ v[y] \in Int
        OBVIOUS
      <3> QED
        BY <2>3, <3>1, SumTakes
    <2>6. s \ {x} \in SUBSET s /\ s \ {x} # s /\ v[x] = w[x]
      OBVIOUS
    <2>7. SumFunctionOnSet(v, s \ {x}) = SumFunctionOnSet(w, s \ {x})
      BY <2>1, <2>6
    <2> QED
      BY <2>1, <2>5, <2>6, <2>7
  <1>2. CASE B = {}
    BY <1>2
  <1> QED
    BY <1>1, <1>2
=============================================================================
