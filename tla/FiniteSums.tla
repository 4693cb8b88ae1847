----------------------------- MODULE FiniteSums -----------------------------
(***************************************************************************)
(* Facts that the proofs of several components rest on: sums over finite   *)
(* sets, and functions that are defined along an index.                    *)
(***************************************************************************)
EXTENDS Integers, FiniteSets, FiniteSetsExt, Functions, FiniteSetTheorems,
        WellFoundedInduction, NaturalsInduction, TLAPS

-----------------------------------------------------------------------------
(***************************************************************************)
(* Sums over finite sets.  The fold of FiniteSetsExt takes its elements in *)
(* an order of its own.  A function that adds up the weights of all subsets *)
(* exists, by adding one element after the other; it solves the equation   *)
(* the fold is defined by, and that equation has one solution.  So the fold *)
(* is additive.                                                            *)
(***************************************************************************)

LEMMA Minimum ==
    ASSUME NEW S, S \subseteq Nat, S # {}
    PROVE  \E x \in S : \A y \in S : x <= y
<1> DEFINE R == {ss \in Nat \X Nat : ss[1] < ss[2]}
<1>1. R = OpToRel(<, Nat) BY DEF OpToRel
<1>2. IsWellFoundedOn(R, Nat) BY <1>1, NatLessThanWellFounded, Zenon
<1>3. \A x, y \in Nat : <<y, x>> \in R <=> y < x OBVIOUS
<1> HIDE DEF R
<1>4. PICK x \in S : \A y \in S : ~(<<y, x>> \in R) BY <1>2, WFMin, Zenon
<1>5. ASSUME NEW y \in S PROVE x <= y
  <2>1. x \in Nat /\ y \in Nat OBVIOUS
  <2>2. ~(y < x) BY <2>1, <1>3, <1>4, Zenon
  <2> QED BY <2>1, <2>2
<1> QED BY <1>5

\* What holds at the bottom and is handed up holds all the way.
LEMMA Climbs ==
    ASSUME NEW n \in Nat, NEW S, 0 \in S, \A i \in 0..n : i < n /\ i \in S => i + 1 \in S
    PROVE  \A i \in 0..n : i \in S
<1> DEFINE B == {i \in 0..n : i \notin S}
<1> SUFFICES ASSUME B # {} PROVE FALSE OBVIOUS
<1>1. B \subseteq Nat OBVIOUS
<1>2. PICK x \in B : \A y \in B : x <= y BY <1>1, Minimum
<1>3. x \in 1..n BY <1>2
<1>4. x - 1 \in 0..n /\ x - 1 < n /\ x - 1 \notin B BY <1>2, <1>3
<1>5. (x - 1) + 1 \in S BY <1>4
<1>6. (x - 1) + 1 = x BY <1>3
<1> QED BY <1>2, <1>5, <1>6

\* A step that stays in a set can be taken any number of times.
Iterated(f, base, step, m) == f[0] = base /\ \A i \in 1..m : f[i] = step[<<f[i - 1], i>>]
LEMMA Iterates ==
    ASSUME NEW T, NEW base \in T, NEW n \in Nat, NEW step \in [T \X (1..n) -> T]
    PROVE  \E f \in [0..n -> T] : Iterated(f, base, step, n)
<1> DEFINE S == {m \in 0..n : \E f \in [0..m -> T] : Iterated(f, base, step, m)}
<1>1. 0 \in S
  <2>1. [i \in 0..0 |-> base] \in [0..0 -> T] OBVIOUS
  <2>2. Iterated([i \in 0..0 |-> base], base, step, 0) BY DEF Iterated
  <2> QED BY <2>1, <2>2
<1>2. ASSUME NEW m \in 0..n, m < n, m \in S PROVE m + 1 \in S
  <2>1. PICK f \in [0..m -> T] : Iterated(f, base, step, m) BY <1>2
  <2>2. PICK t \in T : t = step[<<f[m], m + 1>>]
    <3>1. <<f[m], m + 1>> \in T \X (1..n) BY <1>2
    <3> QED BY <3>1
  <2>3. PICK g : g = [i \in 0..(m + 1) |-> IF i = m + 1 THEN t ELSE f[i]] OBVIOUS
  <2>4. g \in [0..(m + 1) -> T] BY <2>3
  <2>5. g[0] = base BY <2>1, <2>3 DEF Iterated
  <2>6. \A i \in 1..m : g[i] = step[<<g[i - 1], i>>] BY <2>1, <2>3 DEF Iterated
  <2>7. g[m + 1] = step[<<g[(m + 1) - 1], m + 1>>]
    <3>1. (m + 1) - 1 = m /\ g[m] = f[m] /\ g[m + 1] = t BY <2>3
    <3> QED BY <2>2, <3>1
  <2>8. Iterated(g, base, step, m + 1) BY <2>5, <2>6, <2>7 DEF Iterated
  <2>9. m + 1 \in 0..n BY <1>2
  <2> QED BY <2>4, <2>8, <2>9
<1> HIDE DEF S
<1>3. \A i \in 0..n : i \in S BY <1>1, <1>2, Climbs
<1>4. n \in S BY <1>3
<1> QED BY <1>4 DEF S

\* Of some finite sets one is smallest.
LEMMA Smallest ==
    ASSUME NEW U, IsFiniteSet(U), NEW B, B \subseteq SUBSET U, B # {}
    PROVE  \E s \in B : \A t \in B : Cardinality(s) <= Cardinality(t)
<1>1. \A s \in B : IsFiniteSet(s) /\ Cardinality(s) \in Nat BY FS_Subset, FS_CardinalityType
<1> DEFINE C == {Cardinality(s) : s \in B}
<1>2. C \subseteq Nat /\ C # {} BY <1>1
<1> HIDE DEF C
<1>3. PICK x \in C : \A y \in C : x <= y BY <1>2, Minimum
<1> QED BY <1>3 DEF C

LEMMA CardinalityParts ==
    ASSUME NEW S, NEW T, IsFiniteSet(S), IsFiniteSet(T), S \cap T = {}
    PROVE  IsFiniteSet(S \cup T) /\ Cardinality(S \cup T) = Cardinality(S) + Cardinality(T)
<1>1. PICK a, b \in Nat : a = Cardinality(S) /\ b = Cardinality(T) BY FS_CardinalityType
<1>2. PICK c : c = Cardinality(S \cap T) OBVIOUS
<1>3. c = 0 BY <1>2, FS_EmptySet, Zenon
<1>4. IsFiniteSet(S \cup T) /\ Cardinality(S \cup T) = a + b - c BY <1>1, <1>2, FS_Union, Zenon
<1>5. a + b - c = a + b BY <1>1, <1>3
<1> QED BY <1>1, <1>4, <1>5, Zenon

\* h adds up the weights w of the elements of every subset of U.
Adds(h, w, U) == /\ h \in [SUBSET U -> Nat] /\ h[{}] = 0
                 /\ \A s \in SUBSET U : \A x \in U \ s : h[s \cup {x}] = h[s] + w[x]

LEMMA AddsOneMore ==
    ASSUME NEW U, NEW y \in U, NEW w \in [U -> Nat], NEW g, Adds(g, w, U \ {y})
    PROVE  \E h : Adds(h, w, U)
<1> DEFINE h == [s \in SUBSET U |-> IF y \in s THEN g[s \ {y}] + w[y] ELSE g[s]]
<1>0. \A s \in SUBSET U : s \ {y} \in SUBSET (U \ {y}) /\ (y \notin s => s \in SUBSET (U \ {y})) OBVIOUS
<1>1. \A s \in SUBSET U : h[s] \in Nat BY <1>0 DEF Adds
<1>2. h \in [SUBSET U -> Nat] BY <1>1
<1>3. h[{}] = 0 BY DEF Adds
<1>4. ASSUME NEW s \in SUBSET U, NEW x \in U \ s PROVE h[s \cup {x}] = h[s] + w[x]
  <2>0. s \cup {x} \in SUBSET U OBVIOUS
  <2>1. CASE x = y
    <3>1. (s \cup {x}) \ {y} = s /\ y \notin s BY <2>1
    <3> QED BY <2>0, <2>1, <3>1
  <2>2. CASE x # y /\ y \in s
    <3>1. (s \cup {x}) \ {y} = (s \ {y}) \cup {x} /\ x \in (U \ {y}) \ (s \ {y}) BY <2>2
    <3>2. g[(s \ {y}) \cup {x}] = g[s \ {y}] + w[x] BY <1>0, <3>1 DEF Adds
    <3>3. g[s \ {y}] \in Nat /\ w[x] \in Nat /\ w[y] \in Nat BY <1>0 DEF Adds
    <3>4. h[s \cup {x}] = g[(s \ {y}) \cup {x}] + w[y] BY <2>0, <2>2, <3>1
    <3>5. h[s] = g[s \ {y}] + w[y] BY <2>2
    <3> HIDE DEF h
    <3> QED BY <3>2, <3>3, <3>4, <3>5
  <2>3. CASE x # y /\ y \notin s
    <3>1. s \in SUBSET (U \ {y}) /\ x \in (U \ {y}) \ s /\ y \notin s \cup {x} BY <2>3
    <3>2. g[s \cup {x}] = g[s] + w[x] BY <3>1 DEF Adds
    <3> QED BY <2>0, <2>3, <3>1, <3>2
  <2> QED BY <2>1, <2>2, <2>3
<1> HIDE DEF h
<1>5. Adds(h, w, U) BY <1>2, <1>3, <1>4 DEF Adds
<1> QED BY <1>5

\* There is such a function for every finite set of weighted elements.
LEMMA AddsExists ==
    ASSUME NEW U, IsFiniteSet(U), NEW w \in [U -> Nat]
    PROVE  \E h : Adds(h, w, U)
<1> DEFINE B == {s \in SUBSET U : ~ \E h : Adds(h, w, s)}
<1> SUFFICES ASSUME B # {} PROVE FALSE OBVIOUS
<1>1. PICK s \in B : \A t \in B : Cardinality(s) <= Cardinality(t)
  <2>1. B \subseteq SUBSET U OBVIOUS
  <2> HIDE DEF B
  <2> QED BY <2>1, Smallest
<1>2. s \in SUBSET U /\ ~ \E h : Adds(h, w, s) OBVIOUS
<1>3. s # {}
  <2> SUFFICES ASSUME s = {} PROVE FALSE OBVIOUS
  <2>1. Adds([x \in SUBSET {} |-> 0], w, {}) BY DEF Adds
  <2> QED BY <1>2, <2>1
<1>4. PICK y \in s : TRUE BY <1>3
<1>5. IsFiniteSet(s) /\ Cardinality(s) \in Nat BY <1>2, FS_Subset, FS_CardinalityType
<1>6. Cardinality(s \ {y}) = Cardinality(s) - 1 BY <1>4, <1>5, FS_RemoveElement
<1>7. s \ {y} \notin B BY <1>1, <1>5, <1>6
<1>8. PICK g : Adds(g, w, s \ {y}) BY <1>2, <1>7
<1>9. [x \in s |-> w[x]] \in [s -> Nat] BY <1>2
<1>10. Adds(g, [x \in s |-> w[x]], s \ {y}) BY <1>8 DEF Adds
<1>11. PICK h : Adds(h, [x \in s |-> w[x]], s) BY <1>9, <1>10, AddsOneMore
<1>12. Adds(h, w, s) BY <1>11 DEF Adds
<1> QED BY <1>2, <1>12

\* What the folds of FiniteSetsExt unfold to.
Unfolds(g, w, U) == g = [s \in SUBSET U |-> IF s = {} THEN 0
                            ELSE w[CHOOSE x \in s : TRUE] + g[s \ {CHOOSE x \in s : TRUE}]]

LEMMA AddsUnfolds ==
    ASSUME NEW U, NEW w \in [U -> Nat], NEW h, Adds(h, w, U)
    PROVE  Unfolds(h, w, U)
<1>1. ASSUME NEW s \in SUBSET U, s # {}
      PROVE  h[s] = w[CHOOSE x \in s : TRUE] + h[s \ {CHOOSE x \in s : TRUE}]
  <2>1. PICK x : x = CHOOSE y \in s : TRUE OBVIOUS
  <2>2. x \in s BY <1>1, <2>1
  <2>3. s \ {x} \in SUBSET U /\ x \in U \ (s \ {x}) /\ (s \ {x}) \cup {x} = s BY <2>2
  <2>4. h[s] = h[s \ {x}] + w[x] BY <2>3 DEF Adds
  <2>5. h[s \ {x}] \in Nat /\ w[x] \in Nat BY <2>2, <2>3 DEF Adds
  <2> QED BY <2>1, <2>4, <2>5
<1>2. h = [s \in SUBSET U |-> h[s]] /\ h[{}] = 0 BY DEF Adds
<1> QED BY <1>1, <1>2 DEF Unfolds

LEMMA UnfoldsOnce ==
    ASSUME NEW U, IsFiniteSet(U), NEW w, NEW g, NEW h, Unfolds(g, w, U), Unfolds(h, w, U)
    PROVE  g = h
<1> DEFINE B == {s \in SUBSET U : g[s] # h[s]}
<1>1. SUFFICES ASSUME B # {} PROVE FALSE
  <2>1. g = [s \in SUBSET U |-> g[s]] /\ h = [s \in SUBSET U |-> h[s]] BY DEF Unfolds
  <2> QED BY <2>1
<1>2. PICK s \in B : \A t \in B : Cardinality(s) <= Cardinality(t)
  <2>1. B \subseteq SUBSET U OBVIOUS
  <2> HIDE DEF B
  <2> QED BY <1>1, <2>1, Smallest
<1>3. s \in SUBSET U /\ g[s] # h[s] OBVIOUS
<1>4. s # {} BY <1>3 DEF Unfolds
<1>5. PICK y : y = CHOOSE x \in s : TRUE OBVIOUS
<1>6. y \in s BY <1>4, <1>5
<1>7. IsFiniteSet(s) /\ Cardinality(s) \in Nat BY <1>3, FS_Subset, FS_CardinalityType
<1>8. Cardinality(s \ {y}) = Cardinality(s) - 1 BY <1>6, <1>7, FS_RemoveElement
<1>9. s \ {y} \notin B BY <1>2, <1>7, <1>8
<1>10. g[s \ {y}] = h[s \ {y}] BY <1>3, <1>9
<1>11. g[s] = w[y] + g[s \ {y}] /\ h[s] = w[y] + h[s \ {y}] BY <1>3, <1>4, <1>5 DEF Unfolds
<1> QED BY <1>3, <1>10, <1>11

SumOver(w, S) == MapThenSumSet(LAMBDA x : w[x], S)

\* The fold adds up the weights, in whatever order it goes.
LEMMA FoldAdds ==
    ASSUME NEW U, IsFiniteSet(U), NEW w, \A x \in U : w[x] \in Nat, NEW h, Adds(h, w, U),
           NEW S \in SUBSET U
    PROVE  SumOver(w, S) = h[S]
<1> DEFINE it(g) == g = [s \in SUBSET S |-> IF s = {} THEN 0
                            ELSE w[CHOOSE x \in s : TRUE] + g[s \ {CHOOSE x \in s : TRUE}]]
<1>1. SumOver(w, S) = (CHOOSE g : it(g))[S]
  BY Zenon DEF SumOver, MapThenSumSet, MapThenFoldSet
<1>2. IsFiniteSet(S) BY FS_Subset
<1> DEFINE k == [s \in SUBSET S |-> h[s]]
<1>3. Adds(k, [x \in S |-> w[x]], S) BY DEF Adds
<1>4. [x \in S |-> w[x]] \in [S -> Nat] OBVIOUS
<1> HIDE DEF k
<1>5. Unfolds(k, [x \in S |-> w[x]], S) BY <1>3, <1>4, AddsUnfolds
<1>6. ASSUME NEW g PROVE Unfolds(g, [x \in S |-> w[x]], S) <=> it(g)
  <2>1. \A s \in SUBSET S : s # {} => (CHOOSE x \in s : TRUE) \in S OBVIOUS
  <2>2. [s \in SUBSET S |-> IF s = {} THEN 0
           ELSE [x \in S |-> w[x]][CHOOSE x \in s : TRUE] + g[s \ {CHOOSE x \in s : TRUE}]]
        = [s \in SUBSET S |-> IF s = {} THEN 0
           ELSE w[CHOOSE x \in s : TRUE] + g[s \ {CHOOSE x \in s : TRUE}]]
    BY <2>1
  <2> QED BY <2>2 DEF Unfolds
<1>7. it(k) BY <1>5, <1>6
<1> HIDE DEF it
<1>8. it(CHOOSE g : it(g)) BY <1>7
<1>9. (CHOOSE g : it(g)) = k BY <1>2, <1>5, <1>6, <1>8, UnfoldsOnce
<1> QED BY <1>1, <1>9 DEF k

\* The sum over a set is the sums over a part of it and over the rest.
LEMMA AddsParts ==
    ASSUME NEW U, IsFiniteSet(U), NEW w \in [U -> Nat], NEW h, Adds(h, w, U),
           NEW S \in SUBSET U, NEW T \in SUBSET S
    PROVE  h[S] = h[S \ T] + h[T] /\ h[S \ T] \in Nat /\ h[T] \in Nat /\ h[S] \in Nat
<1>0. S \ T \in SUBSET U /\ T \in SUBSET U OBVIOUS
<1>1. h[S \ T] \in Nat /\ h[T] \in Nat /\ h[S] \in Nat BY <1>0 DEF Adds
<1> DEFINE B == {t \in SUBSET T : h[S] # h[S \ t] + h[t]}
<1>2. SUFFICES ASSUME B # {} PROVE FALSE
  <2>1. T \in SUBSET T /\ T \notin B BY <1>2
  <2> QED BY <1>1, <2>1
<1>3. PICK s \in B : \A t \in B : Cardinality(s) <= Cardinality(t)
  <2>1. B \subseteq SUBSET T /\ IsFiniteSet(T) BY <1>0, FS_Subset
  <2> HIDE DEF B
  <2> QED BY <1>2, <2>1, Smallest
<1>4. s \in SUBSET T /\ s \in SUBSET U /\ h[S] # h[S \ s] + h[s] OBVIOUS
<1>5. s # {}
  <2> SUFFICES ASSUME s = {} PROVE FALSE OBVIOUS
  <2>1. S \ s = S /\ h[s] = 0 BY DEF Adds
  <2> QED BY <1>1, <1>4, <2>1
<1>6. PICK y \in s : TRUE BY <1>5
<1>7. IsFiniteSet(s) /\ Cardinality(s) \in Nat BY <1>4, FS_Subset, FS_CardinalityType
<1>8. Cardinality(s \ {y}) = Cardinality(s) - 1 BY <1>6, <1>7, FS_RemoveElement
<1>9. s \ {y} \notin B BY <1>3, <1>7, <1>8
<1>10. h[S] = h[S \ (s \ {y})] + h[s \ {y}] BY <1>4, <1>9
<1>11. y \in U /\ y \notin S \ s /\ y \notin s \ {y} /\ (S \ s) \cup {y} = S \ (s \ {y}) /\ (s \ {y}) \cup {y} = s
  BY <1>4, <1>6
<1>12. S \ s \in SUBSET U /\ s \ {y} \in SUBSET U BY <1>4
<1>13. h[S \ (s \ {y})] = h[S \ s] + w[y] /\ h[s] = h[s \ {y}] + w[y] BY <1>11, <1>12 DEF Adds
<1>14. h[S \ s] \in Nat /\ h[s \ {y}] \in Nat /\ w[y] \in Nat BY <1>11, <1>12 DEF Adds
<1> QED BY <1>4, <1>10, <1>13, <1>14

-----------------------------------------------------------------------------
(* The sums as they are written and used: over a set of indices of a       *)
(* function with natural numbers for values.                               *)

\* All sums over parts of S come from one additive function.
LEMMA SumIs ==
    ASSUME NEW S, IsFiniteSet(S), NEW w, \A x \in S : w[x] \in Nat
    PROVE  \E h : /\ Adds(h, [x \in S |-> w[x]], S)
                  /\ \A T \in SUBSET S : SumOver(w, T) = h[T]
<1> DEFINE v == [x \in S |-> w[x]]
<1>1. v \in [S -> Nat] OBVIOUS
<1>2. PICK h : Adds(h, v, S)
  <2> HIDE DEF v
  <2> QED BY <1>1, AddsExists
<1>3. Adds(h, w, S) BY <1>2 DEF Adds
<1>4. \A T \in SUBSET S : SumOver(w, T) = h[T] BY <1>3, FoldAdds
<1> QED BY <1>2, <1>4

LEMMA SumType ==
    ASSUME NEW S, IsFiniteSet(S), NEW w, \A x \in S : w[x] \in Nat
    PROVE  SumOver(w, S) \in Nat
<1>1. PICK h : Adds(h, [x \in S |-> w[x]], S) /\ \A T \in SUBSET S : SumOver(w, T) = h[T] BY SumIs
<1> QED BY <1>1 DEF Adds

LEMMA SumEmpty == ASSUME NEW w PROVE SumOver(w, {}) = 0
<1> DEFINE k == [s \in SUBSET {} |-> 0]
<1>1. Adds(k, w, {}) BY DEF Adds
<1> HIDE DEF k
<1>2. IsFiniteSet({}) BY FS_EmptySet
<1>3. {} \in SUBSET {} /\ \A x \in {} : w[x] \in Nat OBVIOUS
<1>4. SumOver(w, {}) = k[{}] BY <1>1, <1>2, <1>3, FoldAdds
<1> QED BY <1>4 DEF k

\* One element more.
LEMMA SumAdd ==
    ASSUME NEW S, IsFiniteSet(S), NEW y, y \notin S, NEW w, \A x \in S \cup {y} : w[x] \in Nat
    PROVE  SumOver(w, S \cup {y}) = SumOver(w, S) + w[y]
<1> DEFINE U == S \cup {y}
<1>1. IsFiniteSet(U) BY FS_AddElement
<1>2. PICK h : Adds(h, [x \in U |-> w[x]], U) /\ \A T \in SUBSET U : SumOver(w, T) = h[T]
  <2> HIDE DEF U
  <2>1. \A x \in U : w[x] \in Nat BY DEF U
  <2> QED BY <1>1, <2>1, SumIs
<1>3. h[S \cup {y}] = h[S] + w[y] BY <1>2 DEF Adds
<1> QED BY <1>2, <1>3

\* One element taken out.
LEMMA SumSplit ==
    ASSUME NEW S, IsFiniteSet(S), NEW y \in S, NEW w, \A x \in S : w[x] \in Nat
    PROVE  /\ SumOver(w, S) = SumOver(w, S \ {y}) + w[y]
           /\ SumOver(w, S \ {y}) \in Nat
<1>1. IsFiniteSet(S \ {y}) BY FS_RemoveElement
<1>2. (S \ {y}) \cup {y} = S OBVIOUS
<1>3. SumOver(w, (S \ {y}) \cup {y}) = SumOver(w, S \ {y}) + w[y] BY <1>1, <1>2, SumAdd
<1>4. SumOver(w, S \ {y}) \in Nat BY <1>1, SumType
<1> QED BY <1>2, <1>3, <1>4

\* Only the weights of the elements count.
LEMMA SumSame ==
    ASSUME NEW S, IsFiniteSet(S), NEW v, NEW w, \A x \in S : w[x] \in Nat,
           \A x \in S : v[x] = w[x]
    PROVE  SumOver(v, S) = SumOver(w, S)
<1>1. PICK h : Adds(h, [x \in S |-> w[x]], S) /\ \A T \in SUBSET S : SumOver(w, T) = h[T] BY SumIs
<1>2. Adds(h, v, S) /\ \A x \in S : v[x] \in Nat BY <1>1 DEF Adds
<1>3. SumOver(v, S) = h[S] BY <1>2, FoldAdds
<1> QED BY <1>1, <1>3

\* One weight changed.
LEMMA SumChange ==
    ASSUME NEW S, IsFiniteSet(S), NEW y \in S, NEW v, NEW w,
           \A x \in S : w[x] \in Nat /\ v[x] \in Nat,
           \A x \in S \ {y} : v[x] = w[x]
    PROVE  /\ SumOver(v, S) + w[y] = SumOver(w, S) + v[y]
           /\ SumOver(v, S) \in Nat /\ SumOver(w, S) \in Nat
<1>1. IsFiniteSet(S \ {y}) BY FS_RemoveElement
<1>2. SumOver(v, S \ {y}) = SumOver(w, S \ {y}) BY <1>1, SumSame
<1>3. SumOver(v, S) = SumOver(v, S \ {y}) + v[y] /\ SumOver(v, S \ {y}) \in Nat BY SumSplit
<1>4. SumOver(w, S) = SumOver(w, S \ {y}) + w[y] BY SumSplit
<1> QED BY <1>2, <1>3, <1>4

\* Weights of nothing add up to nothing.
LEMMA SumZero ==
    ASSUME NEW S, IsFiniteSet(S), NEW w, \A x \in S : w[x] = 0
    PROVE  SumOver(w, S) = 0
<1> DEFINE k == [s \in SUBSET S |-> 0]
<1>1. Adds(k, w, S) BY DEF Adds
<1> HIDE DEF k
<1>2. SumOver(w, S) = k[S] BY <1>1, FoldAdds
<1> QED BY <1>2 DEF k

\* The library writes such sums in two ways.
LEMMA SumOnSet == ASSUME NEW w, NEW S PROVE SumFunctionOnSet(w, S) = SumOver(w, S)
BY Zenon DEF SumFunctionOnSet, FoldFunctionOnSet, SumOver, MapThenSumSet

LEMMA SumAll == ASSUME NEW S, NEW w, DOMAIN w = S PROVE SumFunction(w) = SumOver(w, S)
BY SumOnSet, Zenon DEF SumFunction

\* A function that differs from another in one place, the form the actions use.
LEMMA SumFunctionChange ==
    ASSUME NEW S, IsFiniteSet(S), NEW f \in [S -> Nat], NEW g \in [S -> Nat], NEW y \in S,
           \A x \in S \ {y} : g[x] = f[x]
    PROVE  /\ SumFunction(g) + f[y] = SumFunction(f) + g[y]
           /\ SumFunction(g) \in Nat /\ SumFunction(f) \in Nat
<1>1. DOMAIN f = S /\ DOMAIN g = S /\ \A x \in S : f[x] \in Nat /\ g[x] \in Nat OBVIOUS
<1>2. SumFunction(g) = SumOver(g, S) /\ SumFunction(f) = SumOver(f, S) BY <1>1, SumAll
<1>3. /\ SumOver(g, S) + f[y] = SumOver(f, S) + g[y]
      /\ SumOver(g, S) \in Nat /\ SumOver(f, S) \in Nat
  BY <1>1, SumChange
<1> QED BY <1>2, <1>3

LEMMA SumFunctionZero ==
    ASSUME NEW S, IsFiniteSet(S), NEW f, DOMAIN f = S, \A x \in S : f[x] = 0
    PROVE  SumFunction(f) = 0
BY SumAll, SumZero

LEMMA SumFunctionType ==
    ASSUME NEW S, IsFiniteSet(S), NEW f \in [S -> Nat]
    PROVE  SumFunction(f) \in Nat
<1>1. DOMAIN f = S /\ \A x \in S : f[x] \in Nat OBVIOUS
<1> QED BY <1>1, SumAll, SumType

\* A function whose weight is in one place.
LEMMA SumOne ==
    ASSUME NEW S, IsFiniteSet(S), NEW w, NEW y \in S, w[y] \in Nat, \A x \in S \ {y} : w[x] = 0
    PROVE  SumOver(w, S) = w[y]
<1>1. \A x \in S : w[x] \in Nat OBVIOUS
<1>2. IsFiniteSet(S \ {y}) BY FS_Subset
<1>3. SumOver(w, S \ {y}) = 0 BY <1>2, SumZero
<1> QED BY <1>1, <1>3, SumSplit

LEMMA SumParts ==
    ASSUME NEW S, NEW T, IsFiniteSet(S), IsFiniteSet(T), S \cap T = {}, NEW w, \A x \in S \cup T : w[x] \in Nat
    PROVE  /\ SumOver(w, S \cup T) = SumOver(w, S) + SumOver(w, T)
           /\ SumOver(w, S) \in Nat /\ SumOver(w, T) \in Nat
<1> DEFINE U == S \cup T
           v == [x \in U |-> w[x]]
<1>1. IsFiniteSet(U) BY FS_Union
<1>2. v \in [U -> Nat] OBVIOUS
<1>3. S \in SUBSET U /\ T \in SUBSET U /\ U \in SUBSET U /\ T \subseteq U /\ U \ T = S
  <2>1. U \ T = S OBVIOUS
  <2> QED BY <2>1
<1>4. \A x \in U : w[x] \in Nat OBVIOUS
<1> HIDE DEF U
<1>5. PICK h : Adds(h, v, U) /\ \A R \in SUBSET U : SumOver(w, R) = h[R] BY <1>1, <1>4, SumIs
<1> HIDE DEF v
<1>6. h[U] = h[U \ T] + h[T] /\ h[U \ T] \in Nat /\ h[T] \in Nat BY <1>1, <1>2, <1>3, <1>5, AddsParts
<1>7. SumOver(w, U) = h[U] /\ SumOver(w, S) = h[S] /\ SumOver(w, T) = h[T] BY <1>3, <1>5
<1> QED BY <1>3, <1>6, <1>7 DEF U

\* A list that grew, and what was added to it.
LEMMA SumGrows ==
    ASSUME NEW m \in Nat, NEW n \in Nat, NEW f \in [1..m -> Nat], NEW g \in [1..(m + n) -> Nat],
           \A i \in 1..m : g[i] = f[i]
    PROVE  /\ SumFunction(g) = SumFunction(f) + SumOver(g, (m + 1)..(m + n))
           /\ SumFunction(f) \in Nat /\ SumOver(g, (m + 1)..(m + n)) \in Nat
<1> DEFINE S == 1..m
           T == (m + 1)..(m + n)
<1>1. IsFiniteSet(S) /\ IsFiniteSet(T) BY FS_Interval
<1>2. S \cap T = {} OBVIOUS
<1>3. S \cup T = 1..(m + n) OBVIOUS
<1>4. \A i \in S \cup T : g[i] \in Nat BY <1>3
<1>5. SumFunction(g) = SumOver(g, S \cup T) BY <1>3, SumAll
<1>6. SumFunction(f) = SumOver(f, S) BY SumAll
<1>7. \A i \in S : g[i] = f[i] /\ f[i] \in Nat OBVIOUS
<1> HIDE DEF S, T
<1>8. SumOver(g, S \cup T) = SumOver(g, S) + SumOver(g, T) /\ SumOver(g, S) \in Nat /\ SumOver(g, T) \in Nat
  BY <1>1, <1>2, <1>4, SumParts
<1>9. SumOver(g, S) = SumOver(f, S) BY <1>1, <1>7, SumSame
<1> QED BY <1>5, <1>6, <1>8, <1>9 DEF T

LEMMA SumAppend ==
    ASSUME NEW m \in Nat, NEW f \in [1..m -> Nat], NEW g \in [1..(m + 1) -> Nat],
           \A i \in 1..m : g[i] = f[i]
    PROVE  SumFunction(g) = SumFunction(f) + g[m + 1] /\ SumFunction(f) \in Nat /\ g[m + 1] \in Nat
<1>1. SumFunction(g) = SumFunction(f) + SumOver(g, (m + 1)..(m + 1)) /\ SumFunction(f) \in Nat
  <2>1. PICK n \in Nat : n = 1 OBVIOUS
  <2>2. g \in [1..(m + n) -> Nat] BY <2>1
  <2>3. SumFunction(g) = SumFunction(f) + SumOver(g, (m + 1)..(m + n)) /\ SumFunction(f) \in Nat
    BY <2>2, SumGrows
  <2> QED BY <2>1, <2>3
<1>2. PICK y : y = m + 1 OBVIOUS
<1>3. (m + 1)..(m + 1) = {y} /\ g[y] \in Nat BY <1>2
<1>4. SumOver(g, {y}) = g[y]
  <2>1. y \in {y} /\ IsFiniteSet({y}) /\ \A x \in {y} \ {y} : g[x] = 0 BY FS_Singleton
  <2> QED BY <1>3, <2>1, SumOne
<1> QED BY <1>1, <1>2, <1>3, <1>4
=============================================================================
