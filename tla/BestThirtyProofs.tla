-------------------------- MODULE BestThirtyProofs --------------------------
(***************************************************************************)
(* The total and the AP cards of BestThirty are the best ones, for any      *)
(* record, song list and numbers of cards, proved with TLAPS.               *)
(***************************************************************************)
EXTENDS BestThirty, FiniteSetTheorems, TLAPS

LEMMA CountTypes == ApCount \in Nat /\ Total \in Nat
  BY BestThirtyAssumption

-----------------------------------------------------------------------------
(* Induction over the naturals, from the least element of a set of them.    *)

LEMMA LeastNat ==
  ASSUME NEW T, T \subseteq Nat, T # {}
  PROVE  \E x \in T : \A y \in T : x <= y
<1> DEFINE R == OpToRel(<, Nat)
<1>1. IsWellFoundedOn(R, Nat)
  BY NatLessThanWellFounded
<1>2. \A y, x \in Nat : <<y, x>> \in R <=> y < x
  BY DEF OpToRel
<1> HIDE DEF R
<1>3. \E x \in T : \A y \in T : ~(<<y, x>> \in R)
  BY <1>1, WFMin
<1>4. PICK x \in T : \A y \in T : ~(<<y, x>> \in R)
  BY <1>3, Zenon
<1>5. \A y \in T : x \in Nat /\ y \in Nat /\ ~(y < x)
  BY <1>2, <1>4, Zenon
<1>6. QED
  BY <1>5

LEMMA NatSetInduction ==
  ASSUME NEW T, 0 \in T, \A n \in Nat : n \in T => n + 1 \in T
  PROVE  Nat \subseteq T
<1> SUFFICES ASSUME Nat \ T # {} PROVE FALSE
  OBVIOUS
<1>1. PICK x \in Nat \ T : \A y \in Nat \ T : x <= y
  BY LeastNat
<1>2. x # 0 /\ x - 1 \in Nat /\ x - 1 \notin Nat \ T
  BY <1>1
<1>3. QED
  BY <1>1, <1>2

LEMMA TakeOut ==
  ASSUME NEW R, IsFiniteSet(R), NEW x \in R
  PROVE  /\ IsFiniteSet(R \ {x})
         /\ Cardinality(R \ {x}) \in Nat
         /\ Cardinality(R) = Cardinality(R \ {x}) + 1
<1>1. Cardinality(R) \in Nat
  BY FS_CardinalityType
<1>2. IsFiniteSet(R \ {x}) /\ Cardinality(R \ {x}) = Cardinality(R) - 1
  BY FS_RemoveElement
<1>3. Cardinality(R \ {x}) \in Nat
  BY <1>2, FS_CardinalityType
<1>4. QED
  BY <1>1, <1>2, <1>3

LEMMA PutIn ==
  ASSUME NEW R, IsFiniteSet(R), NEW x, x \notin R
  PROVE  /\ IsFiniteSet(R \cup {x})
         /\ Cardinality(R) \in Nat
         /\ Cardinality(R \cup {x}) = Cardinality(R) + 1
<1>1. Cardinality(R) \in Nat
  BY FS_CardinalityType
<1>2. IsFiniteSet(R \cup {x}) /\ Cardinality(R \cup {x}) = Cardinality(R) + 1
  BY FS_AddElement
<1>3. QED
  BY <1>1, <1>2

(* A set of sets that {} is in, and that adding an element never leaves.    *)
LEMMA SetInduction ==
  ASSUME NEW S, IsFiniteSet(S), NEW Good, {} \in Good,
         \A R \in SUBSET S : \A x \in S \ R : R \in Good => R \cup {x} \in Good
  PROVE  S \in Good
<1> DEFINE T == {n \in Nat : \A R \in SUBSET S : Cardinality(R) = n => R \in Good}
<1>0. \A R \in SUBSET S : IsFiniteSet(R) /\ Cardinality(R) \in Nat
  BY FS_Subset, FS_CardinalityType
<1>1. 0 \in T
  BY <1>0, FS_EmptySet
<1>2. ASSUME NEW n \in Nat, n \in T PROVE n + 1 \in T
  <2> SUFFICES ASSUME NEW R \in SUBSET S, Cardinality(R) = n + 1 PROVE R \in Good
    OBVIOUS
  <2>1. R # {}
    BY FS_EmptySet
  <2>2. PICK x : x \in R
    BY <2>1
  <2>3. R \ {x} \in SUBSET S /\ Cardinality(R \ {x}) = n
    <3>1. Cardinality(R \ {x}) \in Nat /\ Cardinality(R) = Cardinality(R \ {x}) + 1
      BY <1>0, <2>2, TakeOut
    <3>2. QED
      BY <3>1
  <2>4. R \ {x} \in Good
    BY <1>2, <2>3
  <2>5. (R \ {x}) \cup {x} = R /\ x \in S \ (R \ {x})
    BY <2>2
  <2>6. QED
    BY <2>3, <2>4, <2>5
<1> HIDE DEF T
<1>3. Cardinality(S) \in T
  BY <1>0, <1>1, <1>2, NatSetInduction
<1>4. QED
  BY <1>3 DEF T

-----------------------------------------------------------------------------
(* Sums over finite sets.  iter is what the fold of MapThenSumSet computes  *)
(* for each subset of S, the weights being those of w.                      *)

Pick(s) == CHOOSE x \in s : TRUE

LEMMA PickIs == \A s : s # {} => Pick(s) \in s
  BY DEF Pick

Sums(iter, w, S) ==
  iter = [s \in SUBSET S |-> IF s = {} THEN 0 ELSE w[Pick(s)] + iter[s \ {Pick(s)}]]

LEMMA SumsExist ==
  ASSUME NEW S, IsFiniteSet(S), NEW w
  PROVE  \E iter : Sums(iter, w, S)
<1> DEFINE Small(n) == {s \in SUBSET S : Cardinality(s) <= n}
           Term(iter, s) == IF s = {} THEN 0 ELSE w[Pick(s)] + iter[s \ {Pick(s)}]
           T == {n \in Nat : \E iter : iter = [s \in Small(n) |-> Term(iter, s)]}
<1>0. \A s \in SUBSET S : IsFiniteSet(s) /\ Cardinality(s) \in Nat
  BY FS_Subset, FS_CardinalityType
<1>1. 0 \in T
  <2>1. \A s \in Small(0) : s = {}
    BY <1>0, FS_EmptySet
  <2>2. [s \in Small(0) |-> 0] = [s \in Small(0) |-> Term([t \in Small(0) |-> 0], s)]
    BY <2>1
  <2> HIDE DEF Term, Small
  <2>3. QED
    BY <2>2
<1>2. ASSUME NEW n \in Nat, n \in T PROVE n + 1 \in T
  <2>1. PICK g : g = [s \in Small(n) |-> Term(g, s)]
    BY <1>2
  <2> DEFINE h == [s \in Small(n + 1) |-> Term(g, s)]
  <2>2. ASSUME NEW s \in Small(n + 1) PROVE Term(g, s) = Term(h, s)
    <3>1. CASE s = {}
      BY <3>1
    <3>2. CASE s # {}
      <4>1. Pick(s) \in s /\ s \in SUBSET S /\ Cardinality(s) <= n + 1
        BY <3>2, PickIs
      <4>2. s \ {Pick(s)} \in SUBSET S /\ Cardinality(s \ {Pick(s)}) = Cardinality(s) - 1
        BY <1>0, <4>1, FS_RemoveElement
      <4>3. s \ {Pick(s)} \in Small(n) /\ s \ {Pick(s)} \in Small(n + 1)
        BY <1>0, <4>1, <4>2
      <4>4. g[s \ {Pick(s)}] = Term(g, s \ {Pick(s)})
        <5> HIDE DEF Term, Small
        <5>1. QED
          BY <2>1, <4>3
      <4>5. h[s \ {Pick(s)}] = Term(g, s \ {Pick(s)})
        <5> HIDE DEF Term, Small
        <5>1. QED
          BY <4>3
      <4>6. QED
        BY <3>2, <4>4, <4>5
    <3>3. QED
      BY <3>1, <3>2
  <2> HIDE DEF Term, Small
  <2>3. h = [s \in Small(n + 1) |-> Term(h, s)]
    BY <2>2
  <2> HIDE DEF h
  <2>4. \E iter : iter = [s \in Small(n + 1) |-> Term(iter, s)]
    BY <2>3
  <2>5. QED
    BY <2>4
<1> HIDE DEF T
<1>3. Cardinality(S) \in T
  BY <1>1, <1>2, NatSetInduction, FS_CardinalityType
<1>4. Small(Cardinality(S)) = SUBSET S
  BY FS_Subset
<1>5. PICK iter : iter = [s \in Small(Cardinality(S)) |-> Term(iter, s)]
  BY <1>3 DEF T
<1>6. Sums(iter, w, S)
  BY <1>4, <1>5 DEF Sums
<1>7. QED
  BY <1>6

(* Two such sums agree on a set where their weights do.                     *)
LEMMA SumsAgree ==
  ASSUME NEW S, NEW w, NEW g, Sums(g, w, S), NEW R, NEW v, NEW h, Sums(h, v, R),
         NEW U, IsFiniteSet(U), U \subseteq S, U \subseteq R, \A x \in U : w[x] = v[x]
  PROVE  g[U] = h[U]
<1> DEFINE T == {n \in Nat : \A s \in SUBSET U : Cardinality(s) = n => g[s] = h[s]}
<1>0. \A s \in SUBSET U : IsFiniteSet(s) /\ Cardinality(s) \in Nat
  BY FS_Subset, FS_CardinalityType
<1>a. \A s \in SUBSET U :
        /\ g[s] = IF s = {} THEN 0 ELSE w[Pick(s)] + g[s \ {Pick(s)}]
        /\ h[s] = IF s = {} THEN 0 ELSE v[Pick(s)] + h[s \ {Pick(s)}]
  BY DEF Sums
<1>1. 0 \in T
  BY <1>0, <1>a, FS_EmptySet
<1>2. ASSUME NEW n \in Nat, n \in T PROVE n + 1 \in T
  <2> SUFFICES ASSUME NEW s \in SUBSET U, Cardinality(s) = n + 1 PROVE g[s] = h[s]
    OBVIOUS
  <2>1. s # {}
    BY FS_EmptySet
  <2>2. Pick(s) \in s /\ Pick(s) \in U
    BY <2>1, PickIs
  <2>3. s \ {Pick(s)} \in SUBSET U /\ Cardinality(s \ {Pick(s)}) = n
    BY <1>0, <2>2, FS_RemoveElement
  <2>4. g[s \ {Pick(s)}] = h[s \ {Pick(s)}] /\ w[Pick(s)] = v[Pick(s)]
    BY <1>2, <2>2, <2>3
  <2>5. QED
    BY <1>a, <2>1, <2>4
<1> HIDE DEF T
<1>3. Cardinality(U) \in T
  BY <1>0, <1>1, <1>2, NatSetInduction
<1>4. QED
  BY <1>3 DEF T

WeightOf(w, S) == LET iter == CHOOSE g : Sums(g, w, S) IN iter[S]

LEMMA WeightIs ==
  ASSUME NEW S, IsFiniteSet(S), NEW w, NEW iter, Sums(iter, w, S)
  PROVE  WeightOf(w, S) = iter[S]
<1> DEFINE g == CHOOSE f : Sums(f, w, S)
<1>1. Sums(g, w, S)
  OBVIOUS
<1>2. WeightOf(w, S) = g[S]
  BY DEF WeightOf
<1> HIDE DEF g
<1>3. QED
  BY <1>1, <1>2, SumsAgree

LEMMA WeightSame ==
  ASSUME NEW S, IsFiniteSet(S), NEW w, NEW v, \A x \in S : w[x] = v[x]
  PROVE  WeightOf(w, S) = WeightOf(v, S)
<1>1. PICK g : Sums(g, w, S)
  BY SumsExist
<1>2. PICK h : Sums(h, v, S)
  BY SumsExist
<1>3. g[S] = h[S]
  BY <1>1, <1>2, SumsAgree
<1>4. QED
  BY <1>1, <1>2, <1>3, WeightIs

LEMMA WeightPick ==
  ASSUME NEW S, IsFiniteSet(S), NEW w
  PROVE  WeightOf(w, S) = IF S = {} THEN 0 ELSE w[Pick(S)] + WeightOf(w, S \ {Pick(S)})
<1>1. PICK g : Sums(g, w, S)
  BY SumsExist
<1>2. g[S] = IF S = {} THEN 0 ELSE w[Pick(S)] + g[S \ {Pick(S)}]
  BY <1>1 DEF Sums
<1> DEFINE R == S \ {Pick(S)}
<1>3. IsFiniteSet(R) /\ R \subseteq S
  BY FS_Subset
<1>4. PICK h : Sums(h, w, R)
  BY <1>3, SumsExist
<1>5. g[R] = h[R] /\ WeightOf(w, R) = h[R]
  BY <1>1, <1>3, <1>4, SumsAgree, WeightIs
<1>6. QED
  BY <1>1, <1>2, <1>5, WeightIs

LEMMA WeightNat ==
  ASSUME NEW S, IsFiniteSet(S), NEW w, \A x \in S : w[x] \in Nat
  PROVE  WeightOf(w, S) \in Nat
<1> DEFINE T == {n \in Nat : \A R \in SUBSET S : Cardinality(R) = n => WeightOf(w, R) \in Nat}
<1>0. \A R \in SUBSET S : IsFiniteSet(R) /\ Cardinality(R) \in Nat
  BY FS_Subset, FS_CardinalityType
<1>1. 0 \in T
  <2> SUFFICES ASSUME NEW R \in SUBSET S, Cardinality(R) = 0 PROVE WeightOf(w, R) \in Nat
    OBVIOUS
  <2>1. R = {} /\ IsFiniteSet(R)
    BY <1>0, FS_EmptySet
  <2>2. WeightOf(w, R) = 0
    BY <2>1, WeightPick
  <2>3. QED
    BY <2>2
<1>2. ASSUME NEW n \in Nat, n \in T PROVE n + 1 \in T
  <2> SUFFICES ASSUME NEW R \in SUBSET S, Cardinality(R) = n + 1 PROVE WeightOf(w, R) \in Nat
    OBVIOUS
  <2> DEFINE p == Pick(R)
  <2>1. IsFiniteSet(R) /\ R # {}
    BY <1>0, FS_EmptySet
  <2>2. p \in R
    BY <2>1, PickIs
  <2>3. WeightOf(w, R) = w[p] + WeightOf(w, R \ {p})
    BY <2>1, WeightPick
  <2> HIDE DEF p
  <2>4. R \ {p} \in SUBSET S /\ Cardinality(R \ {p}) = n
    <3>1. Cardinality(R \ {p}) \in Nat /\ Cardinality(R) = Cardinality(R \ {p}) + 1
      BY <2>1, <2>2, TakeOut
    <3>2. QED
      BY <3>1
  <2>5. WeightOf(w, R \ {p}) \in Nat /\ w[p] \in Nat
    BY <1>2, <2>2, <2>4
  <2>6. QED
    BY <2>3, <2>5
<1> HIDE DEF T
<1>3. Cardinality(S) \in T
  BY <1>0, <1>1, <1>2, NatSetInduction
<1>4. QED
  BY <1>3 DEF T

(* Any element may be taken out first.                                      *)
LEMMA WeightRemove ==
  ASSUME NEW S, IsFiniteSet(S), NEW w, \A x \in S : w[x] \in Nat, NEW a \in S
  PROVE  WeightOf(w, S) = w[a] + WeightOf(w, S \ {a})
<1> DEFINE Without(R) == \A x \in R : WeightOf(w, R) = w[x] + WeightOf(w, R \ {x})
           T == {n \in Nat : \A R \in SUBSET S : Cardinality(R) = n => Without(R)}
<1>0. \A R \in SUBSET S : IsFiniteSet(R) /\ Cardinality(R) \in Nat
  BY FS_Subset, FS_CardinalityType
<1>n. \A R \in SUBSET S : WeightOf(w, R) \in Nat
  BY <1>0, WeightNat
<1>1. 0 \in T
  BY <1>0, FS_EmptySet
<1>2. ASSUME NEW n \in Nat, n \in T PROVE n + 1 \in T
  <2> SUFFICES ASSUME NEW R \in SUBSET S, Cardinality(R) = n + 1, NEW x \in R
               PROVE  WeightOf(w, R) = w[x] + WeightOf(w, R \ {x})
    OBVIOUS
  <2> DEFINE p == Pick(R)
  <2>1. IsFiniteSet(R) /\ R # {}
    BY <1>0, FS_EmptySet
  <2>2. p \in R
    BY <2>1, PickIs
  <2>3. WeightOf(w, R) = w[p] + WeightOf(w, R \ {p})
    BY <2>1, WeightPick
  <2> HIDE DEF p
  <2>4. ASSUME NEW y \in R PROVE R \ {y} \in SUBSET S /\ Cardinality(R \ {y}) = n
    <3>1. Cardinality(R \ {y}) \in Nat /\ Cardinality(R) = Cardinality(R \ {y}) + 1
      BY <2>1, TakeOut
    <3>2. QED
      BY <3>1
  <2>5. Without(R \ {p}) /\ Without(R \ {x})
    BY <1>2, <2>2, <2>4
  <2>6. CASE x = p
    BY <2>3, <2>6
  <2>7. CASE x # p
    <3> DEFINE Q == (R \ {p}) \ {x}
    <3>1. Q = (R \ {x}) \ {p} /\ x \in R \ {p} /\ p \in R \ {x} /\ Q \in SUBSET S
      BY <2>2, <2>7
    <3>2. WeightOf(w, R \ {p}) = w[x] + WeightOf(w, Q)
      BY <2>5, <3>1
    <3>3. WeightOf(w, R \ {x}) = w[p] + WeightOf(w, (R \ {x}) \ {p})
      BY <2>5, <3>1
    <3> HIDE DEF Q
    <3>4. WeightOf(w, R \ {x}) = w[p] + WeightOf(w, Q)
      BY <3>1, <3>3
    <3>5. w[x] \in Nat /\ w[p] \in Nat /\ WeightOf(w, Q) \in Nat
      BY <1>n, <2>2, <3>1
    <3>6. QED
      BY <2>3, <3>2, <3>4, <3>5
  <2>8. QED
    BY <2>6, <2>7
<1> HIDE DEF T
<1>3. Cardinality(S) \in T
  BY <1>0, <1>1, <1>2, NatSetInduction
<1>4. QED
  BY <1>3 DEF T

LEMMA WeightMonotone ==
  ASSUME NEW S, IsFiniteSet(S), NEW w, NEW v,
         \A x \in S : w[x] \in Nat /\ v[x] \in Nat /\ w[x] <= v[x]
  PROVE  WeightOf(w, S) <= WeightOf(v, S)
<1> DEFINE Good == {R \in SUBSET S : WeightOf(w, R) <= WeightOf(v, R)}
<1>0. \A R \in SUBSET S : IsFiniteSet(R) /\ WeightOf(w, R) \in Nat /\ WeightOf(v, R) \in Nat
  BY FS_Subset, WeightNat
<1>1. {} \in Good
  BY <1>0, WeightPick
<1>2. ASSUME NEW R \in SUBSET S, NEW x \in S \ R, R \in Good PROVE R \cup {x} \in Good
  <2> DEFINE Q == R \cup {x}
  <2>1. Q \in SUBSET S /\ x \in Q /\ Q \ {x} = R
    OBVIOUS
  <2> HIDE DEF Q
  <2>2. WeightOf(w, Q) = w[x] + WeightOf(w, R)
    BY <1>0, <2>1, WeightRemove
  <2>3. WeightOf(v, Q) = v[x] + WeightOf(v, R)
    BY <1>0, <2>1, WeightRemove
  <2>4. WeightOf(w, R) <= WeightOf(v, R) /\ w[x] <= v[x] /\ w[x] \in Nat /\ v[x] \in Nat
    BY <1>2
  <2>5. WeightOf(w, Q) <= WeightOf(v, Q)
    BY <1>0, <2>2, <2>3, <2>4
  <2>6. QED
    BY <2>1, <2>5 DEF Q
<1> HIDE DEF Good
<1>3. S \in Good
  BY <1>1, <1>2, SetInduction
<1>4. QED
  BY <1>3 DEF Good

-----------------------------------------------------------------------------
(* The sums of the model.                                                   *)

RksSum(S) == MapThenSumSet(LAMBDA play : play.rks, S)

LEMMA RksSumIs ==
  ASSUME NEW S, IsFiniteSet(S)
  PROVE  RksSum(S) = WeightOf([play \in S |-> play.rks], S)
<1> DEFINE w == [play \in S |-> play.rks]
           Term(iter, s) == IF s = {} THEN 0
                            ELSE (CHOOSE x \in s : TRUE).rks + iter[s \ {CHOOSE x \in s : TRUE}]
           fold == CHOOSE iter : iter = [s \in SUBSET S |-> Term(iter, s)]
<1>1. RksSum(S) = fold[S]
  BY DEF RksSum, MapThenSumSet, MapThenFoldSet
<1>2. \A iter : Sums(iter, w, S) <=> iter = [s \in SUBSET S |-> Term(iter, s)]
  <2>1. \A s \in SUBSET S : s # {} => w[Pick(s)] = Pick(s).rks
    BY PickIs
  <2>2. \A iter : [s \in SUBSET S |-> IF s = {} THEN 0 ELSE w[Pick(s)] + iter[s \ {Pick(s)}]]
                  = [s \in SUBSET S |-> Term(iter, s)]
    BY <2>1 DEF Pick
  <2> HIDE DEF Term, w
  <2>3. QED
    BY <2>2 DEF Sums
<1>3. \E iter : Sums(iter, w, S)
  BY SumsExist
<1> HIDE DEF Term, w
<1>4. fold = [s \in SUBSET S |-> Term(fold, s)]
  BY <1>2, <1>3
<1> HIDE DEF fold
<1>5. Sums(fold, w, S)
  BY <1>2, <1>4
<1>6. WeightOf(w, S) = fold[S]
  BY <1>5, WeightIs
<1>7. QED
  BY <1>1, <1>6 DEF w

LEMMA SumOfIs ==
  ASSUME NEW plays, IsFiniteSet(DOMAIN plays)
  PROVE  SumOf(plays) = WeightOf([i \in DOMAIN plays |-> plays[i].rks], DOMAIN plays)
<1> DEFINE S == DOMAIN plays
           w == [i \in S |-> plays[i].rks]
           Term(iter, s) == IF s = {} THEN 0
                            ELSE plays[CHOOSE x \in s : TRUE].rks + iter[s \ {CHOOSE x \in s : TRUE}]
           fold == CHOOSE iter : iter = [s \in SUBSET S |-> Term(iter, s)]
<1>1. SumOf(plays) = fold[S]
  BY DEF SumOf, MapThenSumSet, MapThenFoldSet
<1>2. \A iter : Sums(iter, w, S) <=> iter = [s \in SUBSET S |-> Term(iter, s)]
  <2>1. \A s \in SUBSET S : s # {} => w[Pick(s)] = plays[Pick(s)].rks
    BY PickIs
  <2>2. \A iter : [s \in SUBSET S |-> IF s = {} THEN 0 ELSE w[Pick(s)] + iter[s \ {Pick(s)}]]
                  = [s \in SUBSET S |-> Term(iter, s)]
    BY <2>1 DEF Pick
  <2> HIDE DEF Term, w
  <2>3. QED
    BY <2>2 DEF Sums
<1>3. \E iter : Sums(iter, w, S)
  BY SumsExist
<1> HIDE DEF Term, w
<1>4. fold = [s \in SUBSET S |-> Term(fold, s)]
  BY <1>2, <1>3
<1> HIDE DEF fold
<1>5. Sums(fold, w, S)
  BY <1>2, <1>4
<1>6. WeightOf(w, S) = fold[S]
  BY <1>5, WeightIs
<1>7. QED
  BY <1>1, <1>6 DEF w

LEMMA RksSumFacts ==
  ASSUME NEW S, IsFiniteSet(S), \A play \in S : play.rks \in Nat
  PROVE  /\ RksSum(S) \in Nat
         /\ S = {} => RksSum(S) = 0
         /\ \A play \in S : RksSum(S) = play.rks + RksSum(S \ {play})
<1> DEFINE w == [play \in S |-> play.rks]
<1>1. RksSum(S) = WeightOf(w, S)
  BY RksSumIs
<1>2. \A x \in S : w[x] \in Nat /\ w[x] = x.rks
  OBVIOUS
<1>3. ASSUME NEW play \in S PROVE RksSum(S \ {play}) = WeightOf(w, S \ {play})
  <2> DEFINE R == S \ {play}
             v == [x \in R |-> x.rks]
  <2>1. IsFiniteSet(R) /\ \A x \in R : v[x] = w[x]
    BY FS_Subset
  <2>2. RksSum(R) = WeightOf(v, R)
    BY <2>1, RksSumIs
  <2> HIDE DEF v, w, R
  <2>3. WeightOf(v, R) = WeightOf(w, R)
    BY <2>1, WeightSame
  <2>4. QED
    BY <2>2, <2>3 DEF R
<1> HIDE DEF w
<1>4. WeightOf(w, S) \in Nat /\ (S = {} => WeightOf(w, S) = 0)
  BY <1>2, WeightNat, WeightPick
<1>5. \A play \in S : WeightOf(w, S) = w[play] + WeightOf(w, S \ {play})
  BY <1>2, WeightRemove
<1>6. QED
  BY <1>1, <1>2, <1>3, <1>4, <1>5

Rated(S) == IsFiniteSet(S) /\ \A play \in S : play.rks \in Nat

LEMMA RatedSubset == \A S, R : Rated(S) /\ R \subseteq S => Rated(R)
  BY FS_Subset DEF Rated

LEMMA RksSumAdd ==
  ASSUME NEW S, Rated(S), NEW play, play.rks \in Nat, play \notin S
  PROVE  /\ Rated(S \cup {play})
         /\ RksSum(S \cup {play}) = play.rks + RksSum(S)
<1> DEFINE Q == S \cup {play}
<1>1. Rated(Q) /\ play \in Q /\ Q \ {play} = S
  BY PutIn DEF Rated
<1> HIDE DEF Q
<1>2. RksSum(Q) = play.rks + RksSum(Q \ {play})
  BY <1>1, RksSumFacts DEF Rated
<1>3. QED
  BY <1>1, <1>2 DEF Q

LEMMA RksSumUnion ==
  ASSUME NEW A, NEW B, Rated(A), Rated(B), A \cap B = {}
  PROVE  /\ RksSum(A) \in Nat /\ RksSum(B) \in Nat
         /\ RksSum(A \cup B) = RksSum(A) + RksSum(B)
<1> DEFINE Good == {R \in SUBSET A : Rated(R \cup B) /\ RksSum(R \cup B) = RksSum(R) + RksSum(B)}
<1>0. \A R : Rated(R) => RksSum(R) \in Nat /\ (R = {} => RksSum(R) = 0)
  BY RksSumFacts DEF Rated
<1>1. {} \in Good
  <2>1. {} \cup B = B /\ Rated({}) /\ RksSum({}) = 0
    BY <1>0, FS_EmptySet DEF Rated
  <2>2. RksSum(B) \in Nat
    BY <1>0
  <2>3. QED
    BY <2>1, <2>2
<1>2. ASSUME NEW R \in SUBSET A, NEW x \in A \ R, R \in Good PROVE R \cup {x} \in Good
  <2> DEFINE U == R \cup B
  <2>1. Rated(U) /\ RksSum(U) = RksSum(R) + RksSum(B) /\ x \notin U /\ Rated(R) /\ x.rks \in Nat
    BY <1>2, RatedSubset DEF Rated
  <2>2. (R \cup {x}) \cup B = U \cup {x}
    OBVIOUS
  <2> HIDE DEF U
  <2>3. Rated(U \cup {x}) /\ RksSum(U \cup {x}) = x.rks + RksSum(U)
    BY <2>1, RksSumAdd
  <2>4. RksSum(R \cup {x}) = x.rks + RksSum(R)
    BY <2>1, RksSumAdd
  <2>5. RksSum(R) \in Nat /\ RksSum(B) \in Nat
    BY <1>0, <2>1
  <2>u. RksSum((R \cup {x}) \cup B) = RksSum(U \cup {x})
    BY <2>2, Zenon
  <2>6. RksSum((R \cup {x}) \cup B) = RksSum(R \cup {x}) + RksSum(B)
    BY <2>u, <2>1, <2>3, <2>4, <2>5
  <2>7. QED
    BY <2>2, <2>3, <2>6
<1> HIDE DEF Good
<1>3. A \in Good
  BY <1>1, <1>2, SetInduction DEF Rated
<1>4. QED
  BY <1>0, <1>3 DEF Good

(* No more plays, none of them better: no larger sum.                       *)
LEMMA RksSumCompare ==
  ASSUME NEW A, NEW B, Rated(A), Rated(B), Cardinality(A) <= Cardinality(B),
         \A x \in A, y \in B : x.rks <= y.rks
  PROVE  RksSum(A) <= RksSum(B)
<1> DEFINE Good == {R \in SUBSET A :
                      \A C \in SUBSET B : Cardinality(R) <= Cardinality(C) => RksSum(R) <= RksSum(C)}
<1>0. \A R : Rated(R) => /\ RksSum(R) \in Nat /\ (R = {} => RksSum(R) = 0)
                         /\ IsFiniteSet(R) /\ Cardinality(R) \in Nat
  BY RksSumFacts, FS_CardinalityType DEF Rated
<1>s. (\A R \in SUBSET A : Rated(R)) /\ \A C \in SUBSET B : Rated(C)
  BY RatedSubset
<1>1. {} \in Good
  BY <1>0, <1>s
<1>2. ASSUME NEW R \in SUBSET A, NEW x \in A \ R, R \in Good PROVE R \cup {x} \in Good
  <2> DEFINE Q == R \cup {x}
  <2>1. Rated(R) /\ x.rks \in Nat /\ Q \in SUBSET A
    BY <1>s DEF Rated
  <2>2. RksSum(Q) = x.rks + RksSum(R)
    BY <2>1, RksSumAdd
  <2>3. Cardinality(Q) = Cardinality(R) + 1
    BY <1>0, <2>1, PutIn
  <2> HIDE DEF Q
  <2>4. ASSUME NEW C \in SUBSET B, Cardinality(Q) <= Cardinality(C)
        PROVE  RksSum(Q) <= RksSum(C)
    <3>1. Rated(C) /\ Cardinality(R) \in Nat /\ Cardinality(C) \in Nat /\ IsFiniteSet(C)
      BY <1>0, <1>s, <2>1
    <3>2. C # {}
      BY <2>3, <2>4, <3>1, FS_EmptySet
    <3>3. PICK y : y \in C
      BY <3>2
    <3> DEFINE D == C \ {y}
    <3>4. Cardinality(C) = Cardinality(D) + 1 /\ Cardinality(D) \in Nat /\ D \in SUBSET B
      BY <3>1, <3>3, TakeOut
    <3>5. RksSum(C) = y.rks + RksSum(D)
      BY <3>1, <3>3, RksSumFacts DEF Rated
    <3> HIDE DEF D
    <3>6. Cardinality(R) <= Cardinality(D)
      BY <2>3, <2>4, <3>1, <3>4
    <3>7. RksSum(R) <= RksSum(D)
      BY <1>2, <3>4, <3>6
    <3>8. x.rks <= y.rks /\ y.rks \in Nat
      BY <3>1, <3>3 DEF Rated
    <3>9. RksSum(R) \in Nat /\ RksSum(D) \in Nat
      BY <1>0, <1>s, <2>1, <3>4
    <3>10. QED
      BY <2>1, <2>2, <3>5, <3>7, <3>8, <3>9
  <2>5. QED
    BY <2>1, <2>4 DEF Q
<1> HIDE DEF Good
<1>3. A \in Good
  BY <1>1, <1>2, SetInduction DEF Rated
<1>4. QED
  BY <1>3 DEF Good

(* The plays of F are as many as, and no worse than, those left out.        *)
LEMMA RksSumExchange ==
  ASSUME NEW P, Rated(P), NEW F \in SUBSET P, NEW T \in SUBSET P,
         Cardinality(T) <= Cardinality(F),
         \A x \in P \ F, y \in F : x.rks <= y.rks
  PROVE  RksSum(T) <= RksSum(F)
<1> DEFINE C == T \cap F
           A == T \ F
           B == F \ T
<1>1. Rated(C) /\ Rated(A) /\ Rated(B) /\ Rated(T) /\ Rated(F)
  BY RatedSubset
<1>2. C \cap A = {} /\ C \cap B = {} /\ T = C \cup A /\ F = C \cup B
  OBVIOUS
<1>3. \A x \in A, y \in B : x.rks <= y.rks
  OBVIOUS
<1>c. A \cap C = {} /\ B \cap C = {}
  OBVIOUS
<1> HIDE DEF A, B, C
<1>4. /\ IsFiniteSet(C) /\ IsFiniteSet(A) /\ IsFiniteSet(B)
      /\ Cardinality(C) \in Nat /\ Cardinality(A) \in Nat /\ Cardinality(B) \in Nat
  BY <1>1, FS_CardinalityType DEF Rated
<1>5. Cardinality(T) = Cardinality(C) + Cardinality(A) - Cardinality(C \cap A)
  BY <1>2, <1>4, FS_Union
<1>6. Cardinality(F) = Cardinality(C) + Cardinality(B) - Cardinality(C \cap B)
  BY <1>2, <1>4, FS_Union
<1>7. Cardinality({}) = 0
  BY FS_EmptySet
<1>z. Cardinality(C \cap A) = 0 /\ Cardinality(C \cap B) = 0
  BY <1>2, <1>7, Zenon
<1>t. Cardinality(T) \in Nat /\ Cardinality(F) \in Nat
  BY <1>1, FS_CardinalityType DEF Rated
<1>8. Cardinality(A) <= Cardinality(B)
  BY <1>t, <1>z, <1>4, <1>5, <1>6
<1>9. RksSum(A) <= RksSum(B)
  BY <1>1, <1>3, <1>8, RksSumCompare
<1>10. RksSum(T) = RksSum(C) + RksSum(A) /\ RksSum(C) \in Nat /\ RksSum(A) \in Nat
  BY <1>1, <1>2, RksSumUnion
<1>11. RksSum(F) = RksSum(C) + RksSum(B) /\ RksSum(B) \in Nat
  BY <1>1, <1>2, RksSumUnion
<1>12. QED
  BY <1>9, <1>10, <1>11

(* The sum of the plays f names, each named once.                           *)
LEMMA RksSumImage ==
  ASSUME NEW S, IsFiniteSet(S), NEW f,
         \A x \in S : f[x].rks \in Nat,
         \A x, y \in S : f[x] = f[y] => x = y
  PROVE  /\ Rated({f[x] : x \in S})
         /\ Cardinality({f[x] : x \in S}) = Cardinality(S)
         /\ RksSum({f[x] : x \in S}) = WeightOf([x \in S |-> f[x].rks], S)
<1> DEFINE v == [x \in S |-> f[x].rks]
           Img(R) == {f[x] : x \in R}
           Good == {R \in SUBSET S : /\ Rated(Img(R)) /\ Cardinality(Img(R)) = Cardinality(R)
                                     /\ RksSum(Img(R)) = WeightOf(v, R)}
<1>0. \A x \in S : v[x] \in Nat /\ v[x] = f[x].rks
  OBVIOUS
<1> HIDE DEF v
<1>1. {} \in Good
  <2>1. Img({}) = {} /\ IsFiniteSet({})
    BY FS_EmptySet
  <2>2. RksSum({}) = 0 /\ WeightOf(v, {}) = 0 /\ Rated({})
    BY <2>1, RksSumFacts, WeightPick DEF Rated
  <2>3. QED
    BY <2>1, <2>2
<1>2. ASSUME NEW R \in SUBSET S, NEW x \in S \ R, R \in Good PROVE R \cup {x} \in Good
  <2> DEFINE Q == R \cup {x}
             I == Img(R)
  <2>1. IsFiniteSet(R) /\ IsFiniteSet(Q) /\ Q \in SUBSET S /\ x \in Q /\ Q \ {x} = R
    BY FS_Subset
  <2>2. Cardinality(Q) = Cardinality(R) + 1
    BY <2>1, PutIn
  <2>3. Img(Q) = I \cup {f[x]} /\ f[x] \notin I
    OBVIOUS
  <2>4. Rated(I) /\ Cardinality(I) = Cardinality(R) /\ RksSum(I) = WeightOf(v, R)
    BY <1>2
  <2> HIDE DEF I, Q, Img
  <2>5. Rated(I \cup {f[x]}) /\ RksSum(I \cup {f[x]}) = f[x].rks + RksSum(I)
    BY <2>3, <2>4, RksSumAdd
  <2>6. Cardinality(I \cup {f[x]}) = Cardinality(I) + 1
    BY <2>3, <2>4, PutIn DEF Rated
  <2>7. WeightOf(v, Q) = v[x] + WeightOf(v, R)
    BY <1>0, <2>1, WeightRemove
  <2>8. QED
    BY <1>0, <2>1, <2>2, <2>3, <2>4, <2>5, <2>6, <2>7 DEF Q
<1> HIDE DEF Good
<1>3. S \in Good
  BY <1>1, <1>2, SetInduction
<1>4. QED
  BY <1>3 DEF Good, v

-----------------------------------------------------------------------------
(* The order of the plays: the place of a play is the number of those ahead *)
(* of it.                                                                   *)

IsAhead(other, play) == \/ other.rks > play.rks
                        \/ other.rks = play.rks /\ Before(other.at, play.at)

AheadIn(P, play) == {other \in P : IsAhead(other, play)}

Sorted(P) ==
  [i \in 1 .. Cardinality(P) |-> CHOOSE play \in P : Cardinality(AheadIn(P, play)) = i - 1]

LEMMA AllPlaysSorted == AllPlays = Sorted(Collected)
  BY DEF AllPlays, Sorted, AheadIn, IsAhead

Ranked(P) ==
  /\ Rated(P)
  /\ \A x \in P : x.at[1] \in Nat /\ x.at[2] \in Nat
  /\ \A x, y \in P : x.at[1] = y.at[1] /\ x.at[2] = y.at[2] => x = y

LEMMA AheadIsAnOrder ==
  ASSUME NEW P, Ranked(P)
  PROVE  /\ \A x \in P : ~IsAhead(x, x)
         /\ \A x, y \in P : x # y => IsAhead(x, y) \/ IsAhead(y, x)
         /\ \A x, y, z \in P : IsAhead(x, y) /\ IsAhead(y, z) => IsAhead(x, z)
         /\ \A x, y \in P : IsAhead(x, y) => x.rks >= y.rks
<1>1. \A x \in P : x.rks \in Nat /\ x.at[1] \in Nat /\ x.at[2] \in Nat
  BY DEF Ranked, Rated
<1>2. \A x \in P : ~IsAhead(x, x)
  BY <1>1 DEF IsAhead, Before
<1>3. ASSUME NEW x \in P, NEW y \in P, x # y PROVE IsAhead(x, y) \/ IsAhead(y, x)
  <2>1. x.at[1] # y.at[1] \/ x.at[2] # y.at[2]
    BY <1>3 DEF Ranked
  <2>2. QED
    BY <1>1, <2>1 DEF IsAhead, Before
<1>4. \A x, y, z \in P : IsAhead(x, y) /\ IsAhead(y, z) => IsAhead(x, z)
  BY <1>1 DEF IsAhead, Before
<1>5. \A x, y \in P : IsAhead(x, y) => x.rks >= y.rks
  BY <1>1 DEF IsAhead
<1>6. QED
  BY <1>2, <1>3, <1>4, <1>5

LEMMA SortedIs ==
  ASSUME NEW P, Ranked(P)
  PROVE  /\ Cardinality(P) \in Nat
         /\ Sorted(P) \in [1 .. Cardinality(P) -> P]
         /\ \A i, j \in 1 .. Cardinality(P) : Sorted(P)[i] = Sorted(P)[j] => i = j
         /\ \A play \in P : \E i \in 1 .. Cardinality(P) : Sorted(P)[i] = play
         /\ \A i, j \in 1 .. Cardinality(P) : i < j => Sorted(P)[i].rks >= Sorted(P)[j].rks
<1> DEFINE n == Cardinality(P)
           rank == [play \in P |-> Cardinality(AheadIn(P, play)) + 1]
<1>0. IsFiniteSet(P) /\ n \in Nat
  BY FS_CardinalityType DEF Ranked, Rated
<1>1. ASSUME NEW x \in P, NEW y \in P, IsAhead(x, y)
      PROVE  Cardinality(AheadIn(P, x)) < Cardinality(AheadIn(P, y))
  <2>1. AheadIn(P, x) \subseteq AheadIn(P, y)
    BY <1>1, AheadIsAnOrder DEF AheadIn
  <2>2. x \in AheadIn(P, y) /\ x \notin AheadIn(P, x)
    BY <1>1, AheadIsAnOrder DEF AheadIn
  <2>3. IsFiniteSet(AheadIn(P, y)) /\ IsFiniteSet(AheadIn(P, x))
    BY <1>0, FS_Subset DEF AheadIn
  <2>4. /\ Cardinality(AheadIn(P, x)) <= Cardinality(AheadIn(P, y))
        /\ Cardinality(AheadIn(P, x)) # Cardinality(AheadIn(P, y))
    BY <2>1, <2>2, <2>3, FS_Subset
  <2>5. Cardinality(AheadIn(P, x)) \in Nat /\ Cardinality(AheadIn(P, y)) \in Nat
    BY <2>3, FS_CardinalityType
  <2>6. QED
    BY <2>4, <2>5
<1>2. ASSUME NEW x \in P PROVE Cardinality(AheadIn(P, x)) \in 0 .. n - 1
  <2>1. AheadIn(P, x) \subseteq P /\ x \notin AheadIn(P, x)
    BY AheadIsAnOrder DEF AheadIn
  <2>2. IsFiniteSet(AheadIn(P, x)) /\ Cardinality(AheadIn(P, x)) \in Nat
    BY <1>0, <2>1, FS_Subset, FS_CardinalityType
  <2>3. Cardinality(AheadIn(P, x)) <= n /\ Cardinality(AheadIn(P, x)) # n
    BY <1>0, <2>1, FS_Subset
  <2>4. QED
    BY <1>0, <2>2, <2>3
<1> HIDE DEF n
<1>3. \A x \in P : rank[x] \in 1 .. n /\ rank[x] = Cardinality(AheadIn(P, x)) + 1
  BY <1>0, <1>2
<1>4. \A x, y \in P : IsAhead(x, y) => rank[x] < rank[y]
  BY <1>1, <1>2, <1>3
<1>t. rank \in [P -> 1 .. n]
  BY <1>3
<1> HIDE DEF rank
<1>5. \A x, y \in P : x # y => rank[x] # rank[y]
  BY <1>3, <1>4, AheadIsAnOrder
<1>6. rank \in Injection(P, 1 .. n)
  BY <1>t, <1>5 DEF Injection, IsInjective
<1>7. IsFiniteSet(1 .. n) /\ Cardinality(1 .. n) = n
  BY <1>0, FS_Interval
<1>8. rank \in Surjection(P, 1 .. n)
  BY <1>6, <1>7, FS_Injection DEF n
<1>9. \A i \in 1 .. n : \E play \in P : rank[play] = i
  BY <1>8 DEF Surjection
<1> DEFINE q == Sorted(P)
<1>10. q = [i \in 1 .. n |-> CHOOSE play \in P : Cardinality(AheadIn(P, play)) = i - 1]
  BY DEF Sorted, n
<1> HIDE DEF q
<1>11. ASSUME NEW i \in 1 .. n PROVE q[i] \in P /\ rank[q[i]] = i
  <2>1. \E play \in P : Cardinality(AheadIn(P, play)) = i - 1
    <3>1. PICK play \in P : rank[play] = i
      BY <1>9
    <3>2. Cardinality(AheadIn(P, play)) \in 0 .. n - 1
      BY <1>2
    <3>3. Cardinality(AheadIn(P, play)) = i - 1
      BY <1>0, <1>3, <3>1, <3>2
    <3>4. QED
      BY <3>3
  <2>2. q[i] \in P /\ Cardinality(AheadIn(P, q[i])) = i - 1
    BY <1>10, <2>1
  <2>3. QED
    BY <1>0, <1>3, <2>2
<1>12. q \in [1 .. n -> P]
  BY <1>10, <1>11
<1>13. ASSUME NEW play \in P PROVE \E i \in 1 .. n : q[i] = play
  <2>1. rank[play] \in 1 .. n
    BY <1>3
  <2>2. q[rank[play]] \in P /\ rank[q[rank[play]]] = rank[play]
    BY <1>11, <2>1
  <2>3. q[rank[play]] = play
    BY <1>5, <2>2
  <2>4. QED
    BY <2>1, <2>3
<1>14. ASSUME NEW i \in 1 .. n, NEW j \in 1 .. n, i < j PROVE q[i].rks >= q[j].rks
  <2>1. q[i] \in P /\ q[j] \in P /\ rank[q[i]] = i /\ rank[q[j]] = j
    BY <1>11
  <2>2. ~IsAhead(q[j], q[i]) /\ q[i] # q[j]
    BY <1>4, <1>14, <2>1
  <2>3. QED
    BY <2>1, <2>2, AheadIsAnOrder
<1>15. \A i, j \in 1 .. n : q[i] = q[j] => i = j
  BY <1>11
<1>16. QED
  BY <1>0, <1>12, <1>13, <1>14, <1>15 DEF n, q

LEMMA SortedSeq ==
  ASSUME NEW P, Ranked(P)
  PROVE  Sorted(P) \in Seq(P) /\ Len(Sorted(P)) = Cardinality(P)
<1>1. Cardinality(P) \in Nat /\ Sorted(P) \in [1 .. Cardinality(P) -> P]
  BY SortedIs
<1>2. QED
  BY <1>1

Shorter(n, m) == IF n < m THEN n ELSE m

LEMMA FirstOfIs ==
  ASSUME NEW P, NEW q \in Seq(P), NEW n \in Nat
  PROVE  /\ Shorter(Len(q), n) \in 0 .. Len(q)
         /\ FirstOf(q, n) \in Seq(P)
         /\ Len(FirstOf(q, n)) = Shorter(Len(q), n)
         /\ DOMAIN FirstOf(q, n) = 1 .. Shorter(Len(q), n)
         /\ \A i \in 1 .. Shorter(Len(q), n) : FirstOf(q, n)[i] = q[i]
<1> DEFINE m == Shorter(Len(q), n)
<1>1. m \in Nat /\ m <= Len(q) /\ Len(q) \in Nat
  BY DEF Shorter
<1>2. FirstOf(q, n) = SubSeq(q, 1, m)
  BY DEF FirstOf, Shorter
<1> HIDE DEF m
<1>3. SubSeq(q, 1, m) \in Seq(P) /\ Len(SubSeq(q, 1, m)) = m
  BY <1>1
<1>4. \A i \in 1 .. m : SubSeq(q, 1, m)[i] = q[i]
  BY <1>1
<1>5. DOMAIN SubSeq(q, 1, m) = 1 .. m
  BY <1>1, <1>3
<1>6. QED
  BY <1>1, <1>2, <1>3, <1>4, <1>5 DEF m

(* The first n plays in order: no play left out is better.                  *)
LEMMA TopIs ==
  ASSUME NEW P, Ranked(P), NEW n \in Nat
  PROVE  \E F \in SUBSET P :
           /\ Cardinality(F) = Shorter(Cardinality(P), n)
           /\ SumOf(FirstOf(Sorted(P), n)) = RksSum(F)
           /\ \A x \in P \ F, y \in F : x.rks <= y.rks
<1> DEFINE q == Sorted(P)
           N == Cardinality(P)
           m == Shorter(N, n)
           top == FirstOf(q, n)
           F == {q[i] : i \in 1 .. m}
<1>1. /\ N \in Nat /\ q \in [1 .. N -> P]
      /\ \A i, j \in 1 .. N : q[i] = q[j] => i = j
      /\ \A play \in P : \E i \in 1 .. N : q[i] = play
      /\ \A i, j \in 1 .. N : i < j => q[i].rks >= q[j].rks
  BY SortedIs
<1>2. q \in Seq(P) /\ Len(q) = N
  BY SortedSeq
<1>3. /\ m \in 0 .. N /\ Len(top) = m /\ DOMAIN top = 1 .. m
      /\ \A i \in 1 .. m : top[i] = q[i]
  BY <1>2, FirstOfIs
<1>4. IsFiniteSet(1 .. m) /\ Cardinality(1 .. m) = m
  BY <1>1, <1>3, FS_Interval
<1> HIDE DEF q, N, m, top
<1>5. \A i \in 1 .. m : i \in 1 .. N /\ q[i] \in P /\ q[i].rks \in Nat
  BY <1>1, <1>3 DEF Ranked, Rated
<1>6. Cardinality(F) = Cardinality(1 .. m) /\ RksSum(F) = WeightOf([i \in 1 .. m |-> q[i].rks], 1 .. m)
  <2>1. \A i, j \in 1 .. m : q[i] = q[j] => i = j
    BY <1>1, <1>5
  <2>2. \A i \in 1 .. m : q[i].rks \in Nat
    BY <1>5
  <2> DEFINE S == 1 .. m
  <2>3. IsFiniteSet(S) /\ (\A i, j \in S : q[i] = q[j] => i = j) /\ \A i \in S : q[i].rks \in Nat
    BY <1>4, <2>1, <2>2
  <2> HIDE DEF S
  <2>4. Cardinality({q[i] : i \in S}) = Cardinality(S)
    BY <2>3, RksSumImage
  <2>5. RksSum({q[i] : i \in S}) = WeightOf([i \in S |-> q[i].rks], S)
    BY <2>3, RksSumImage
  <2>6. QED
    BY <2>4, <2>5 DEF S
<1>7. SumOf(top) = WeightOf([i \in 1 .. m |-> top[i].rks], 1 .. m)
  <2>1. DOMAIN top = 1 .. m
    BY <1>3
  <2>2. IsFiniteSet(DOMAIN top)
    BY <1>4, <2>1
  <2>3. SumOf(top) = WeightOf([i \in DOMAIN top |-> top[i].rks], DOMAIN top)
    BY <2>2, SumOfIs
  <2>4. QED
    BY <2>1, <2>3
<1>8. WeightOf([i \in 1 .. m |-> top[i].rks], 1 .. m) = WeightOf([i \in 1 .. m |-> q[i].rks], 1 .. m)
  <2> DEFINE w == [i \in 1 .. m |-> top[i].rks]
             v == [i \in 1 .. m |-> q[i].rks]
  <2>1. \A i \in 1 .. m : w[i] = v[i]
    BY <1>3
  <2> HIDE DEF w, v
  <2>2. WeightOf(w, 1 .. m) = WeightOf(v, 1 .. m)
    BY <1>4, <2>1, WeightSame
  <2>3. QED
    BY <2>2 DEF w, v
<1>9. ASSUME NEW x \in P \ F, NEW y \in F PROVE x.rks <= y.rks
  <2>1. PICK i \in 1 .. N : q[i] = x
    BY <1>1
  <2>2. PICK j \in 1 .. m : q[j] = y
    OBVIOUS
  <2>3. i \notin 1 .. m
    BY <2>1
  <2>4. j \in 1 .. N /\ j < i
    BY <1>1, <1>3, <2>3
  <2>5. q[j].rks >= q[i].rks /\ q[i].rks \in Nat /\ q[j].rks \in Nat
    BY <1>1, <2>1, <2>4 DEF Ranked, Rated
  <2>6. QED
    BY <2>1, <2>2, <2>5
<1>10. F \in SUBSET P
  BY <1>5
<1>11. /\ F \in SUBSET P /\ Cardinality(F) = m /\ SumOf(top) = RksSum(F)
       /\ \A x \in P \ F, y \in F : x.rks <= y.rks
  BY <1>4, <1>6, <1>7, <1>8, <1>9, <1>10
<1> HIDE DEF F
<1>12. \E T \in SUBSET P : /\ Cardinality(T) = m /\ SumOf(top) = RksSum(T)
                           /\ \A x \in P \ T, y \in T : x.rks <= y.rks
  BY <1>11
<1>13. QED
  BY <1>12 DEF q, N, m, top

-----------------------------------------------------------------------------
(* The record, and the plays collected from it.                             *)

RecordInv == record \in [ToSet(Songs) -> [ToSet(Kinds) -> Level \cup {None}]]

LEMMA TimesNat == \A a, b \in Nat : a * b \in Nat
  OBVIOUS

LEMMA LevelIs ==
  /\ \A level \in Level : level.acc \in 0 .. 100 /\ level.ap \in BOOLEAN
  /\ None \notin Level
<1>1. Level \subseteq [acc : 0 .. 100, ap : BOOLEAN]
  <2>1. \A a \in 0 .. 100 : [acc |-> a, ap |-> FALSE] \in [acc : 0 .. 100, ap : BOOLEAN]
    OBVIOUS
  <2>2. [acc |-> 100, ap |-> TRUE] \in [acc : 0 .. 100, ap : BOOLEAN]
    OBVIOUS
  <2>3. \A a \in Accuracies : a \in 0 .. 100
    BY BestThirtyAssumption
  <2>4. \A level \in Level : \/ \E a \in Accuracies : level = [acc |-> a, ap |-> FALSE]
                             \/ level = [acc |-> 100, ap |-> TRUE]
    BY Zenon DEF Level
  <2>5. QED
    BY <2>1, <2>2, <2>3, <2>4, ZenonT(30)
<1>a. \A level \in [acc : 0 .. 100, ap : BOOLEAN] : level.acc \in 0 .. 100 /\ level.ap \in BOOLEAN
  OBVIOUS
<1>2. \A level \in Level : level.acc \in 0 .. 100 /\ level.ap \in BOOLEAN
  BY <1>1, <1>a, Zenon
<1>3. None \notin Level
  BY <1>1, BestThirtyAssumption, Zenon
<1>4. QED
  BY <1>2, <1>3

LEMMA PlaceIs ==
  /\ \A i \in DOMAIN Songs : i \in Nat /\ Songs[i] \in ToSet(Songs)
  /\ \A j \in DOMAIN Kinds : j \in Nat /\ Kinds[j] \in ToSet(Kinds)
  /\ IsFiniteSet((DOMAIN Songs) \X (DOMAIN Kinds))
<1>1. /\ Len(Songs) \in Nat /\ DOMAIN Songs = 1 .. Len(Songs)
      /\ Len(Kinds) \in Nat /\ DOMAIN Kinds = 1 .. Len(Kinds)
  BY BestThirtyAssumption
<1>2. IsFiniteSet(DOMAIN Songs) /\ IsFiniteSet(DOMAIN Kinds)
  BY <1>1, FS_Interval
<1>3. IsFiniteSet((DOMAIN Songs) \X (DOMAIN Kinds))
  BY <1>2, FS_Product
<1>4. (\A i \in DOMAIN Songs : i \in Nat) /\ \A j \in DOMAIN Kinds : j \in Nat
  BY <1>1
<1>5. (\A i \in DOMAIN Songs : Songs[i] \in ToSet(Songs)) /\ \A j \in DOMAIN Kinds : Kinds[j] \in ToSet(Kinds)
  BY DEF ToSet
<1>6. QED
  BY <1>3, <1>4, <1>5

CountsAt(i, j) == Counts(Songs[i], Kinds[j])

LEMMA CollectedAre ==
  /\ \A play \in Collected :
       \E i \in DOMAIN Songs, j \in DOMAIN Kinds : CountsAt(i, j) /\ play = PlayOf(i, j)
  /\ \A i \in DOMAIN Songs, j \in DOMAIN Kinds : CountsAt(i, j) => PlayOf(i, j) \in Collected
<1> DEFINE At == {ij \in (DOMAIN Songs) \X (DOMAIN Kinds) : Counts(Songs[ij[1]], Kinds[ij[2]])}
<1>1. Collected = {PlayOf(at[1], at[2]) : at \in At}
  BY DEF Collected
<1>2. \A at \in At : at[1] \in DOMAIN Songs /\ at[2] \in DOMAIN Kinds /\ CountsAt(at[1], at[2])
  BY DEF CountsAt
<1>3. \A i \in DOMAIN Songs, j \in DOMAIN Kinds :
        CountsAt(i, j) => \E at \in At : at[1] = i /\ at[2] = j
  <2> SUFFICES ASSUME NEW i \in DOMAIN Songs, NEW j \in DOMAIN Kinds, CountsAt(i, j)
               PROVE  \E at \in At : at[1] = i /\ at[2] = j
    OBVIOUS
  <2>1. <<i, j>> \in At
    BY DEF CountsAt
  <2>2. QED
    BY <2>1
<1> HIDE DEF At
<1>4. \A play \in Collected :
        \E i \in DOMAIN Songs, j \in DOMAIN Kinds : CountsAt(i, j) /\ play = PlayOf(i, j)
  BY <1>1, <1>2
<1>5. ASSUME NEW i \in DOMAIN Songs, NEW j \in DOMAIN Kinds, CountsAt(i, j)
      PROVE  PlayOf(i, j) \in Collected
  <2>1. PICK at \in At : at[1] = i /\ at[2] = j
    BY <1>3, <1>5
  <2>2. PlayOf(at[1], at[2]) \in Collected
    BY <1>1
  <2>3. QED
    BY <2>1, <2>2
<1>6. QED
  BY <1>4, <1>5

LEMMA PlayIs ==
  ASSUME RecordInv, NEW i \in DOMAIN Songs, NEW j \in DOMAIN Kinds, CountsAt(i, j)
  PROVE  /\ record[Songs[i]][Kinds[j]] \in Level
         /\ PlayOf(i, j).rks \in Nat /\ PlayOf(i, j).ap \in BOOLEAN
         /\ PlayOf(i, j).at[1] = i /\ PlayOf(i, j).at[2] = j
<1> DEFINE level == record[Songs[i]][Kinds[j]]
           d == Charts[Songs[i]][Kinds[j]]
<1>1. Songs[i] \in ToSet(Songs) /\ Kinds[j] \in ToSet(Kinds)
  BY PlaceIs
<1>2. level \in Level /\ level.acc >= 70
  BY <1>1 DEF RecordInv, CountsAt, Counts
<1>3. d \in Nat
  BY <1>1, BestThirtyAssumption DEF CountsAt, Counts
<1>4. level.acc - 55 \in Nat /\ level.ap \in BOOLEAN
  BY <1>2, LevelIs
<1>5. /\ PlayOf(i, j).rks = single_rks(level, d)
      /\ PlayOf(i, j).ap = level.ap
      /\ PlayOf(i, j).at = <<i, j>>
  BY DEF PlayOf
<1> HIDE DEF level, d
<1>6. (level.acc - 55) * (level.acc - 55) \in Nat
  BY <1>4, TimesNat
<1>7. single_rks(level, d) \in Nat
  BY <1>3, <1>6, TimesNat DEF single_rks
<1>8. QED
  BY <1>2, <1>4, <1>5, <1>7 DEF level

LEMMA CollectedRanked ==
  ASSUME RecordInv
  PROVE  Ranked(Collected) /\ \A play \in Collected : play.ap \in BOOLEAN
<1>1. \A play \in Collected :
        \E i \in DOMAIN Songs, j \in DOMAIN Kinds :
          /\ play = PlayOf(i, j)
          /\ play.rks \in Nat /\ play.ap \in BOOLEAN
          /\ play.at[1] = i /\ play.at[2] = j
  BY CollectedAre, PlayIs
<1>2. /\ \A play \in Collected : /\ play.rks \in Nat /\ play.ap \in BOOLEAN
                                 /\ play.at[1] \in Nat /\ play.at[2] \in Nat
      /\ \A x, y \in Collected : x.at[1] = y.at[1] /\ x.at[2] = y.at[2] => x = y
  BY <1>1, PlaceIs
<1>3. IsFiniteSet(Collected)
  <2> DEFINE At == {ij \in (DOMAIN Songs) \X (DOMAIN Kinds) : Counts(Songs[ij[1]], Kinds[ij[2]])}
             f == [at \in At |-> PlayOf(at[1], at[2])]
  <2>1. Collected = {f[at] : at \in At}
    BY DEF Collected
  <2>2. IsFiniteSet(At)
    BY PlaceIs, FS_Subset
  <2>3. f \in [At -> Collected] /\ \A play \in Collected : \E at \in At : f[at] = play
    BY <2>1
  <2> HIDE DEF f, At
  <2>4. f \in Surjection(At, Collected)
    BY <2>3 DEF Surjection
  <2>5. QED
    BY <2>2, <2>4, FS_Surjection
<1>4. QED
  BY <1>2, <1>3 DEF Ranked, Rated

LEMMA RecordInvariant == Spec => []RecordInv
<1>1. Init => RecordInv
  BY DEF Init, RecordInv
<1>2. RecordInv /\ [Next]_record => RecordInv'
  <2> SUFFICES ASSUME RecordInv, [Next]_record PROVE RecordInv'
    OBVIOUS
  <2>1. CASE Next
    <3>1. PICK song \in ToSet(Songs), kind \in ToSet(Kinds) : Improve(song, kind)
      BY <2>1 DEF Next
    <3>2. PICK level \in Level : record' = [record EXCEPT ![song][kind] = level]
      BY <3>1 DEF Improve, Better
    <3>3. QED
      BY <3>2 DEF RecordInv
  <2>2. CASE UNCHANGED record
    BY <2>2 DEF RecordInv
  <2>3. QED
    BY <2>1, <2>2
<1>3. QED
  BY <1>1, <1>2, PTL DEF Spec

(* The best plays, and that no others reach a larger sum.                   *)
LEMMA TotalIs ==
  ASSUME RecordInv
  PROVE  /\ \A T \in SUBSET Collected : Cardinality(T) <= Total => RksSum(T) <= TotalRks
         /\ \E F \in SUBSET Collected : Cardinality(F) <= Total /\ TotalRks = RksSum(F)
<1> DEFINE P == Collected
           top == FirstOf(Sorted(P), Total)
<1>1. Ranked(P) /\ Rated(P)
  BY CollectedRanked DEF Ranked
<1>2. Total \in Nat
  BY CountTypes
<1>3. TotalRks = SumOf(top)
  BY AllPlaysSorted DEF TotalRks
<1> HIDE DEF P
<1>4. PICK F \in SUBSET P :
        /\ Cardinality(F) = Shorter(Cardinality(P), Total)
        /\ SumOf(top) = RksSum(F)
        /\ \A x \in P \ F, y \in F : x.rks <= y.rks
  BY <1>1, <1>2, TopIs
<1> HIDE DEF top
<1>5. Cardinality(P) \in Nat /\ IsFiniteSet(P)
  BY <1>1, FS_CardinalityType DEF Rated
<1>6. ASSUME NEW T \in SUBSET P, Cardinality(T) <= Total PROVE RksSum(T) <= RksSum(F)
  <2>1. Cardinality(T) <= Cardinality(P) /\ Cardinality(T) \in Nat
    BY <1>5, FS_Subset, FS_CardinalityType
  <2>2. Cardinality(T) <= Cardinality(F)
    BY <1>4, <1>6, <2>1 DEF Shorter
  <2>3. QED
    BY <1>1, <1>4, <2>2, RksSumExchange
<1>7. Cardinality(F) <= Total
  BY <1>2, <1>4, <1>5 DEF Shorter
<1>8. QED
  BY <1>3, <1>4, <1>6, <1>7 DEF P

(* For any record, song list and number of cards the total is the largest   *)
(* sum so many plays reach.  (compute_b30's total_rks.)                     *)
THEOREM TotalCorrect == Spec => []TotalIsBestSum
<1>1. RecordInv => TotalIsBestSum
  <2> SUFFICES ASSUME RecordInv PROVE TotalIsBestSum
    OBVIOUS
  <2> DEFINE P == Collected
             S == {T \in SUBSET P : Cardinality(T) <= Total}
             sums == {RksSum(chosen) : chosen \in S}
  <2>1. TotalIsBestSum <=> TotalRks = Max(sums)
    BY DEF TotalIsBestSum, RksSum
  <2>2. Rated(P)
    BY CollectedRanked DEF Ranked
  <2>3. (\A T \in S : RksSum(T) <= TotalRks) /\ \E F \in S : TotalRks = RksSum(F)
    BY TotalIs
  <2>4. \A T \in S : RksSum(T) \in Nat
    BY <2>2, RatedSubset, RksSumFacts DEF Rated
  <2> HIDE DEF S, P
  <2>5. TotalRks \in sums /\ TotalRks \in Nat /\ \A x \in sums : x \in Nat /\ TotalRks >= x
    BY <2>3, <2>4
  <2> HIDE DEF sums
  <2>6. \A x \in sums : (\A y \in sums : x >= y) => x = TotalRks
    BY <2>5
  <2>7. Max(sums) = TotalRks
    BY <2>5, <2>6 DEF Max
  <2>8. QED
    BY <2>1, <2>7
<1>2. QED
  BY <1>1, RecordInvariant, PTL

-----------------------------------------------------------------------------
(* A better play of a level: a play of P has one of Q at its place that is  *)
(* worth at least as much.                                                  *)

LEMMA BetterPlays ==
  ASSUME NEW P, NEW Q, Ranked(P), Ranked(Q),
         \A x \in P : \E y \in Q : y.at[1] = x.at[1] /\ y.at[2] = x.at[2] /\ x.rks <= y.rks,
         NEW F \in SUBSET P
  PROVE  \E T \in SUBSET Q : Cardinality(T) = Cardinality(F) /\ RksSum(F) <= RksSum(T)
<1> DEFINE f == [x \in F |-> CHOOSE y \in Q : y.at[1] = x.at[1] /\ y.at[2] = x.at[2] /\ x.rks <= y.rks]
           w == [x \in F |-> x.rks]
           v == [x \in F |-> f[x].rks]
           T == {f[x] : x \in F}
<1>1. ASSUME NEW x \in F
      PROVE  f[x] \in Q /\ f[x].at[1] = x.at[1] /\ f[x].at[2] = x.at[2] /\ x.rks <= f[x].rks
  <2>1. \E y \in Q : y.at[1] = x.at[1] /\ y.at[2] = x.at[2] /\ x.rks <= y.rks
    OBVIOUS
  <2>2. QED
    BY <2>1
<1>2. IsFiniteSet(F) /\ Rated(F)
  BY FS_Subset DEF Ranked, Rated
<1> HIDE DEF f
<1>3. \A x \in F : f[x].rks \in Nat /\ x.rks \in Nat
  BY <1>1 DEF Ranked, Rated
<1>4. ASSUME NEW x \in F, NEW y \in F, f[x] = f[y] PROVE x = y
  <2>1. x.at[1] = y.at[1] /\ x.at[2] = y.at[2]
    BY <1>1, <1>4
  <2>2. QED
    BY <2>1 DEF Ranked
<1>5. Cardinality(T) = Cardinality(F) /\ RksSum(T) = WeightOf(v, F)
  BY <1>2, <1>3, <1>4, RksSumImage
<1>6. RksSum(F) = WeightOf(w, F)
  BY <1>2, RksSumIs
<1>7. \A x \in F : w[x] \in Nat /\ v[x] \in Nat /\ w[x] <= v[x]
  BY <1>1, <1>3
<1>8. T \in SUBSET Q
  BY <1>1
<1> HIDE DEF T, v, w
<1>9. WeightOf(w, F) <= WeightOf(v, F)
  BY <1>2, <1>7, WeightMonotone
<1>10. QED
  BY <1>5, <1>6, <1>8, <1>9

LEMMA SquareMonotone ==
  ASSUME NEW a \in Nat, NEW b \in Nat, NEW d \in Nat, a <= b
  PROVE  a * a * d <= b * b * d
<1>1. a * a <= a * b
  OBVIOUS
<1>2. a * b <= b * b
  OBVIOUS
<1>3. a * a \in Nat /\ b * b \in Nat /\ a * b \in Nat
  BY TimesNat
<1>4. a * a <= b * b
  BY <1>1, <1>2, <1>3
<1>5. \A m, n \in Nat : m <= n => m * d <= n * d
  OBVIOUS
<1>6. QED
  BY <1>3, <1>4, <1>5

BestSum ==
  /\ \A T \in SUBSET Collected : Cardinality(T) <= Total => RksSum(T) <= TotalRks
  /\ \E F \in SUBSET Collected : Cardinality(F) <= Total /\ TotalRks = RksSum(F)

PlaysInv ==
  /\ Ranked(Collected)
  /\ \A play \in Collected :
       \E i \in DOMAIN Songs, j \in DOMAIN Kinds : CountsAt(i, j) /\ play = PlayOf(i, j)
  /\ \A i \in DOMAIN Songs, j \in DOMAIN Kinds :
       CountsAt(i, j) => /\ PlayOf(i, j) \in Collected
                         /\ PlayOf(i, j).at[1] = i /\ PlayOf(i, j).at[2] = j

LEMMA RecordSums == RecordInv => BestSum
  BY TotalIs DEF BestSum

LEMMA RecordPlays == RecordInv => PlaysInv
<1> SUFFICES ASSUME RecordInv PROVE PlaysInv
  OBVIOUS
<1>1. Ranked(Collected)
  BY CollectedRanked
<1>2. QED
  BY <1>1, CollectedAre, PlayIs DEF PlaysInv

LEMMA NextSums == RecordInv' => BestSum'
  BY RecordSums, PTL

LEMMA NextPlays == RecordInv' => PlaysInv'
  BY RecordPlays, PTL

LEMMA StepPlay ==
  ASSUME RecordInv, Next, NEW i \in DOMAIN Songs, NEW j \in DOMAIN Kinds, CountsAt(i, j)
  PROVE  CountsAt(i, j)' /\ PlayOf(i, j).rks <= PlayOf(i, j)'.rks
<1>1. PICK song \in ToSet(Songs), kind \in ToSet(Kinds) : Improve(song, kind)
  BY DEF Next
<1>2. PICK level \in Better(record[song][kind]) : record' = [record EXCEPT ![song][kind] = level]
  BY <1>1 DEF Improve
<1> DEFINE s == Songs[i]
           k == Kinds[j]
           old == record[s][k]
           new == record'[s][k]
           d == Charts[s][k]
<1>3. s \in ToSet(Songs) /\ k \in ToSet(Kinds)
  BY PlaceIs
<1>4. old \in Level /\ old.acc >= 70 /\ old.acc \in Nat
  BY <1>3, LevelIs DEF RecordInv, CountsAt, Counts
<1>5. s \in DOMAIN Charts /\ d # 0 /\ d \in Nat
  BY <1>3, BestThirtyAssumption DEF CountsAt, Counts
<1>6. new \in Level /\ new.acc >= old.acc
  <2>1. CASE s = song /\ k = kind
    <3>1. new = level
      BY <1>2, <1>3, <2>1 DEF RecordInv
    <3>2. level \in Level /\ old # None
      BY <1>2, <1>4, LevelIs DEF Better
    <3>3. level.acc > old.acc \/ level.acc = old.acc
      BY <1>2, <2>1, <3>2 DEF Better
    <3>4. level.acc \in Nat
      BY <3>2, LevelIs
    <3>5. QED
      BY <1>4, <3>1, <3>2, <3>3, <3>4
  <2>2. CASE ~(s = song /\ k = kind)
    <3>1. new = old
      BY <1>2, <1>3, <2>2 DEF RecordInv
    <3>2. QED
      BY <1>4, <3>1
  <2>3. QED
    BY <2>1, <2>2
<1>7. new # None /\ new.acc \in Nat
  BY <1>6, LevelIs
<1>8. /\ PlayOf(i, j).rks = single_rks(old, d)
      /\ PlayOf(i, j)'.rks = single_rks(new, d)
  BY DEF PlayOf
<1>9. CountsAt(i, j)' <=> new # None /\ new.acc >= 70 /\ s \in DOMAIN Charts /\ d # 0
  BY DEF CountsAt, Counts
<1> HIDE DEF s, k, old, new, d
<1>10. /\ old.acc - 55 \in Nat /\ new.acc - 55 \in Nat /\ old.acc - 55 <= new.acc - 55
       /\ new.acc >= 70
  BY <1>4, <1>6, <1>7
<1>11. single_rks(old, d) <= single_rks(new, d)
  BY <1>5, <1>10, SquareMonotone DEF single_rks
<1>12. QED
  BY <1>5, <1>7, <1>8, <1>9, <1>10, <1>11

LEMMA StepTotal ==
  ASSUME RecordInv, RecordInv', Next
  PROVE  TotalRks <= TotalRks'
<1>1. PlaysInv /\ BestSum
  BY RecordPlays, RecordSums
<1>2. PlaysInv' /\ BestSum'
  BY NextPlays, NextSums
<1> DEFINE P == Collected
           Q == Collected'
<1>3. Ranked(P) /\ Ranked(Q)
  BY <1>1, <1>2 DEF PlaysInv
<1>4. ASSUME NEW x \in P
      PROVE  \E y \in Q : y.at[1] = x.at[1] /\ y.at[2] = x.at[2] /\ x.rks <= y.rks
  <2>1. PICK i \in DOMAIN Songs, j \in DOMAIN Kinds : CountsAt(i, j) /\ x = PlayOf(i, j)
    BY <1>1 DEF PlaysInv
  <2>2. CountsAt(i, j)' /\ x.rks <= PlayOf(i, j)'.rks
    BY <2>1, StepPlay
  <2>3. PlayOf(i, j)' \in Q /\ PlayOf(i, j)'.at[1] = i /\ PlayOf(i, j)'.at[2] = j
    BY <1>2, <2>2 DEF PlaysInv
  <2>4. x.at[1] = i /\ x.at[2] = j
    BY <1>1, <2>1 DEF PlaysInv
  <2>5. QED
    BY <2>2, <2>3, <2>4
<1>5. PICK F \in SUBSET P : Cardinality(F) <= Total /\ TotalRks = RksSum(F)
  BY <1>1 DEF BestSum
<1>6. \A T \in SUBSET Q : Cardinality(T) <= Total => RksSum(T) <= TotalRks'
  BY <1>2 DEF BestSum
<1> HIDE DEF P, Q
<1>7. PICK T \in SUBSET Q : Cardinality(T) = Cardinality(F) /\ RksSum(F) <= RksSum(T)
  BY <1>3, <1>4, BetterPlays
<1>8. RksSum(T) <= TotalRks'
  BY <1>5, <1>6, <1>7
<1>r. \A R : Rated(R) => RksSum(R) \in Nat
  BY RksSumFacts DEF Rated
<1>t. PICK H \in SUBSET Q : TotalRks' = RksSum(H)
  BY <1>2 DEF BestSum, Q
<1>9. RksSum(T) \in Nat /\ RksSum(F) \in Nat /\ TotalRks' \in Nat
  BY <1>3, <1>r, <1>t, RatedSubset DEF Ranked
<1>10. QED
  BY <1>5, <1>7, <1>8, <1>9

(* For any record, song list and number of cards a better play of a level   *)
(* never costs rks.  (The accuracy threshold in collect_all_levels.)        *)
THEOREM NeverDropsCorrect == Spec => RksNeverDrops
<1>1. RecordInv /\ RecordInv' /\ [Next]_record => [TotalRks' >= TotalRks]_record
  <2> SUFFICES ASSUME RecordInv, RecordInv', Next PROVE TotalRks' >= TotalRks
    OBVIOUS
  <2>1. TotalRks <= TotalRks'
    BY StepTotal
  <2>2. QED
    BY <2>1
<1>2. QED
  BY <1>1, RecordInvariant, PTL DEF Spec, RksNeverDrops

-----------------------------------------------------------------------------
(* The loop that takes the first APs, and the fold of p3 over the first     *)
(* plays.                                                                   *)

LEMMA MaxIs ==
  ASSUME NEW n \in Nat, NEW T, T \subseteq 1 .. n, T # {}
  PROVE  Max(T) \in T /\ \A y \in T : Max(T) >= y
<1> DEFINE Above == {m \in Nat : \A y \in T : y <= m}
<1>1. n \in Above
  OBVIOUS
<1>2. PICK m \in Above : \A k \in Above : m <= k
  BY <1>1, LeastNat
<1>3. m \in T
  <2> SUFFICES ASSUME m \notin T PROVE FALSE
    OBVIOUS
  <2>1. m \in Nat /\ \A y \in T : y \in 1 .. n /\ y <= m /\ y # m
    BY <1>2
  <2> HIDE DEF Above
  <2>2. m # 0
    <3>1. PICK y : y \in T
      OBVIOUS
    <3>2. y \in 1 .. n /\ y <= m /\ m \in Nat
      BY <2>1, <3>1
    <3>3. QED
      BY <3>2
  <2>3. m - 1 \in Nat /\ \A z \in T : z <= m - 1
    BY <2>1, <2>2
  <2>4. QED
    BY <1>2, <2>3 DEF Above
<1>4. QED
  BY <1>2, <1>3 DEF Max

Take(taken, play) == IF play.ap /\ Len(taken) < ApCount THEN Append(taken, play) ELSE taken

FirstAps(q) ==
  FoldLeft(LAMBDA taken, play :
             IF play.ap /\ Len(taken) < ApCount THEN Append(taken, play) ELSE taken,
           <<>>, q)

(* iter is what the fold computes for each set of the first n places.       *)
Folds(iter, q, n) ==
  iter = [s \in SUBSET (1 .. n) |->
            IF s = {} THEN <<>> ELSE Take(iter[s \ {Max(s)}], q[Max(s)])]

LEMMA FoldsExist ==
  ASSUME NEW q
  PROVE  \A n \in Nat : \E iter : Folds(iter, q, n)
<1> DEFINE T == {n \in Nat : \E iter : Folds(iter, q, n)}
<1>1. 0 \in T
  <2>1. \A s \in SUBSET (1 .. 0) : s = {}
    OBVIOUS
  <2>2. Folds([s \in SUBSET (1 .. 0) |-> <<>>], q, 0)
    BY <2>1 DEF Folds
  <2>3. QED
    BY <2>2
<1>2. ASSUME NEW n \in Nat, n \in T PROVE n + 1 \in T
  <2>1. PICK iter : Folds(iter, q, n)
    BY <1>2
  <2> DEFINE Value(s) ==
               IF n + 1 \in s THEN Take(iter[s \ {n + 1}], q[n + 1]) ELSE iter[s]
             more == [s \in SUBSET (1 .. n + 1) |-> Value(s)]
  <2>2. ASSUME NEW s \in SUBSET (1 .. n + 1)
        PROVE  Value(s) = IF s = {} THEN <<>>
                          ELSE Take(more[s \ {Max(s)}], q[Max(s)])
    <3>1. CASE n + 1 \in s
      <4>1. Max(s) = n + 1
        <5>1. n + 1 \in Nat /\ s \subseteq 1 .. n + 1 /\ s # {}
          BY <3>1
        <5>2. Max(s) \in s /\ \A y \in s : Max(s) >= y
          BY <5>1, MaxIs
        <5>3. Max(s) \in 1 .. n + 1 /\ Max(s) >= n + 1
          BY <3>1, <5>1, <5>2
        <5>4. QED
          BY <5>3
      <4>2. s \ {n + 1} \in SUBSET (1 .. n + 1) /\ n + 1 \notin s \ {n + 1}
        OBVIOUS
      <4>3. more[s \ {n + 1}] = iter[s \ {n + 1}]
        BY <4>2
      <4>4. QED
        BY <3>1, <4>1, <4>3
    <3>2. CASE n + 1 \notin s
      <4>1. s \in SUBSET (1 .. n)
        BY <3>2
      <4>2. iter[s] = IF s = {} THEN <<>>
                      ELSE Take(iter[s \ {Max(s)}], q[Max(s)])
        BY <2>1, <4>1 DEF Folds
      <4>3. s \ {Max(s)} \in SUBSET (1 .. n + 1) /\ n + 1 \notin s \ {Max(s)}
        BY <3>2
      <4>4. more[s \ {Max(s)}] = iter[s \ {Max(s)}]
        BY <4>3
      <4>5. QED
        BY <3>2, <4>2, <4>4
    <3>3. QED
      BY <3>1, <3>2
  <2> HIDE DEF Value
  <2>3. more = [s \in SUBSET (1 .. n + 1) |->
                  IF s = {} THEN <<>>
                  ELSE Take(more[s \ {Max(s)}], q[Max(s)])]
    BY <2>2
  <2>4. Folds(more, q, n + 1)
    BY <2>3 DEF Folds
  <2>5. QED
    BY <2>4
<1> HIDE DEF T
<1>3. Nat \subseteq T
  BY <1>1, <1>2, NatSetInduction
<1>4. QED
  BY <1>3 DEF T

(* The plays taken before and after each play of q.                         *)
LEMMA TakingSteps ==
  ASSUME NEW P, NEW q \in Seq(P)
  PROVE  \E between :
           /\ between[0] = <<>>
           /\ \A n \in 1 .. Len(q) :
                between[n] = Take(between[n - 1], q[n])
           /\ FirstAps(q) = between[Len(q)]
<1> DEFINE Is(f) == Folds(f, q, Len(q))
           iter == CHOOSE f : Is(f)
<1>0. Len(q) \in Nat /\ DOMAIN q = 1 .. Len(q)
  OBVIOUS
<1>1. Is(iter)
  <2>1. \E f : Is(f)
    BY <1>0, FoldsExist
  <2> HIDE DEF Is
  <2>2. QED
    BY <2>1
<1>2. FirstAps(q) = iter[1 .. Len(q)]
  BY <1>0 DEF FirstAps, FoldLeft, MapThenFoldSet, Take, Folds
<1> HIDE DEF iter
<1> DEFINE between == [n \in 0 .. Len(q) |-> iter[1 .. n]]
<1>3. between[0] = <<>>
  <2>1. 1 .. 0 = {} /\ {} \in SUBSET (1 .. Len(q)) /\ 0 \in 0 .. Len(q)
    BY <1>0
  <2>2. iter[{}] = <<>>
    BY <1>1, <2>1 DEF Folds
  <2>3. QED
    BY <2>1, <2>2
<1>4. ASSUME NEW n \in 1 .. Len(q)
      PROVE  between[n] = Take(between[n - 1], q[n])
  <2>1. /\ 1 .. n \in SUBSET (1 .. Len(q)) /\ 1 .. n # {}
        /\ n \in 0 .. Len(q) /\ n - 1 \in 0 .. Len(q)
        /\ (1 .. n) \ {n} = 1 .. n - 1
    <3>1. Len(q) \in Nat /\ n \in Int /\ 1 <= n /\ n <= Len(q)
      BY <1>0
    <3>2. 1 .. n \subseteq 1 .. Len(q) /\ n \in 1 .. n
      BY <3>1
    <3>3. n \in 0 .. Len(q) /\ n - 1 \in 0 .. Len(q)
      BY <3>1
    <3>4. (1 .. n) \ {n} = 1 .. n - 1
      <4> HIDE DEF Is, between
      <4>1. QED
        BY <3>1
    <3>5. QED
      BY <3>2, <3>3, <3>4
  <2>2. Max(1 .. n) = n
    <3>1. n \in Nat /\ n \in 1 .. n
      BY <1>0
    <3>2. Max(1 .. n) \in 1 .. n /\ Max(1 .. n) >= n
      BY <2>1, <3>1, MaxIs
    <3>3. QED
      BY <3>1, <3>2
  <2>3. iter[1 .. n] = Take(iter[(1 .. n) \ {n}], q[n])
    BY <1>1, <2>1, <2>2 DEF Folds
  <2>4. QED
    BY <2>1, <2>3
<1>5. between[Len(q)] = iter[1 .. Len(q)]
  BY <1>0
<1>6. QED
  BY <1>2, <1>3, <1>4, <1>5

(* What has been taken after the first n plays of q.                        *)
Taken(q, n, taken) ==
  /\ Len(taken) <= ApCount
  /\ \A k \in 1 .. Len(taken) : taken[k].ap /\ \E i \in 1 .. n : taken[k] = q[i]
  /\ \A k, l \in 1 .. Len(taken) : taken[k] = taken[l] => k = l
  /\ Len(taken) < ApCount =>
       \A i \in 1 .. n : q[i].ap => \E k \in 1 .. Len(taken) : taken[k] = q[i]
  /\ \A k \in 1 .. Len(taken), i \in 1 .. Len(q) :
       q[i].ap /\ (\A l \in 1 .. Len(taken) : taken[l] # q[i]) => q[i].rks <= taken[k].rks

LEMMA TakeKeeps ==
  ASSUME NEW P, NEW q \in Seq(P),
         \A i, j \in 1 .. Len(q) : q[i] = q[j] => i = j,
         \A i, j \in 1 .. Len(q) : i < j => q[j].rks <= q[i].rks,
         NEW n \in 1 .. Len(q), NEW taken \in Seq(P), Taken(q, n - 1, taken)
  PROVE  Take(taken, q[n]) \in Seq(P) /\ Taken(q, n, Take(taken, q[n]))
<1> DEFINE new == Take(taken, q[n])
           m == Len(taken)
<1>0. Len(q) \in Nat /\ n \in Nat /\ ApCount \in Nat /\ m \in Nat /\ q[n] \in P
  BY CountTypes
<1>1. CASE q[n].ap /\ m < ApCount
  <2>1. new = Append(taken, q[n])
    BY <1>1 DEF Take
  <2>2. /\ new \in Seq(P) /\ Len(new) = m + 1 /\ new[m + 1] = q[n]
        /\ \A k \in 1 .. m : new[k] = taken[k]
    BY <1>0, <2>1
  <2>3. \A k \in 1 .. m + 1 : k \in 1 .. m \/ k = m + 1
    BY <1>0
  <2>4. \A i \in 1 .. n : i \in 1 .. n - 1 \/ i = n
    BY <1>0
  <2>5. \A k \in 1 .. m : \E i \in 1 .. n - 1 : taken[k] = q[i]
    BY DEF Taken
  <2>6. \A i \in 1 .. n - 1 : i \in 1 .. n /\ i \in 1 .. Len(q) /\ i # n
    BY <1>0
  <2>7. \A k \in 1 .. m : taken[k] # q[n]
    BY <2>5, <2>6
  <2>8. \A k, l \in 1 .. m : taken[k] = taken[l] => k = l
    BY DEF Taken
  <2>9. \A i \in 1 .. n - 1 : q[i].ap => \E k \in 1 .. m : taken[k] = q[i]
    BY <1>1 DEF Taken
  <2>10. \A k \in 1 .. m, i \in 1 .. Len(q) :
           q[i].ap /\ (\A l \in 1 .. m : taken[l] # q[i]) => q[i].rks <= taken[k].rks
    BY DEF Taken
  <2>11. \A k \in 1 .. m : taken[k].ap
    BY DEF Taken
  <2>m. m + 1 \in 1 .. m + 1 /\ n \in 1 .. n /\ \A k \in 1 .. m : k \in 1 .. m + 1
    BY <1>0
  <2> HIDE DEF new, m
  <2>12. \A k \in 1 .. m + 1 : new[k].ap /\ \E i \in 1 .. n : new[k] = q[i]
    <3>1. ASSUME NEW k \in 1 .. m PROVE new[k].ap /\ \E i \in 1 .. n : new[k] = q[i]
      <4>1. PICK i \in 1 .. n - 1 : taken[k] = q[i]
        BY <2>5
      <4>2. i \in 1 .. n /\ new[k] = q[i] /\ new[k] = taken[k]
        BY <2>2, <2>6, <4>1
      <4>3. QED
        BY <2>11, <4>2
    <3>2. new[m + 1].ap /\ \E i \in 1 .. n : new[m + 1] = q[i]
      BY <1>1, <2>2, <2>m
    <3>3. QED
      BY <2>3, <3>1, <3>2
  <2>13. \A k, l \in 1 .. m + 1 : new[k] = new[l] => k = l
    BY <2>2, <2>3, <2>7, <2>8
  <2>14. ASSUME NEW i \in 1 .. n, q[i].ap PROVE \E k \in 1 .. m + 1 : new[k] = q[i]
    BY <2>2, <2>4, <2>9, <2>14, <2>m
  <2>15. ASSUME NEW k \in 1 .. m + 1, NEW i \in 1 .. Len(q), q[i].ap,
                \A l \in 1 .. m + 1 : new[l] # q[i]
         PROVE  q[i].rks <= new[k].rks
    <3>1. \A l \in 1 .. m : taken[l] # q[i]
      BY <2>2, <2>15, <2>m
    <3>2. CASE k \in 1 .. m
      BY <2>2, <2>10, <2>15, <3>1, <3>2
    <3>3. CASE k = m + 1
      <4>1. i # n
        BY <2>2, <2>15, <2>m
      <4>2. i \notin 1 .. n - 1
        BY <2>9, <2>15, <3>1
      <4>3. n < i
        BY <1>0, <4>1, <4>2
      <4>4. QED
        BY <2>2, <3>3, <4>3
    <3>4. QED
      BY <2>3, <3>2, <3>3
  <2>16. m + 1 <= ApCount
    BY <1>0, <1>1 DEF m
  <2>17. Taken(q, n, new)
    BY <2>2, <2>12, <2>13, <2>14, <2>15, <2>16 DEF Taken
  <2>18. QED
    BY <2>2, <2>17 DEF new
<1>2. CASE ~(q[n].ap /\ m < ApCount)
  <2>1. Take(taken, q[n]) = taken
    BY <1>2 DEF Take
  <2>2. \A i \in 1 .. n : i \in 1 .. n - 1 \/ i = n
    BY <1>0
  <2>3. \A i \in 1 .. n - 1 : i \in 1 .. n
    BY <1>0
  <2>4. m < ApCount => \A i \in 1 .. n : q[i].ap => \E k \in 1 .. m : taken[k] = q[i]
    BY <1>2, <2>2 DEF Taken
  <2>5. \A k \in 1 .. m : taken[k].ap /\ \E i \in 1 .. n : taken[k] = q[i]
    BY <2>3 DEF Taken
  <2>6. Taken(q, n, taken)
    BY <2>4, <2>5 DEF Taken
  <2>7. QED
    BY <2>1, <2>6
<1>3. QED
  BY <1>1, <1>2

LEMMA FirstApsAre ==
  ASSUME NEW P, NEW q \in Seq(P),
         \A i, j \in 1 .. Len(q) : q[i] = q[j] => i = j,
         \A i, j \in 1 .. Len(q) : i < j => q[j].rks <= q[i].rks
  PROVE  FirstAps(q) \in Seq(P) /\ Taken(q, Len(q), FirstAps(q))
<1>0. Len(q) \in Nat /\ ApCount \in Nat
  BY CountTypes
<1>1. PICK between :
        /\ between[0] = <<>>
        /\ \A n \in 1 .. Len(q) : between[n] = Take(between[n - 1], q[n])
        /\ FirstAps(q) = between[Len(q)]
  BY TakingSteps
<1> DEFINE T == {n \in Nat : n <= Len(q) => between[n] \in Seq(P) /\ Taken(q, n, between[n])}
<1>2. 0 \in T
  <2>1. <<>> \in Seq(P) /\ Len(<<>>) = 0
    OBVIOUS
  <2>2. Taken(q, 0, <<>>)
    BY <1>0 DEF Taken
  <2>3. QED
    BY <1>1, <2>1, <2>2
<1>3. ASSUME NEW n \in Nat, n \in T PROVE n + 1 \in T
  <2> SUFFICES ASSUME n + 1 <= Len(q)
               PROVE  between[n + 1] \in Seq(P) /\ Taken(q, n + 1, between[n + 1])
    OBVIOUS
  <2> DEFINE m == n + 1
  <2>1. m \in 1 .. Len(q) /\ m - 1 = n
    BY <1>0
  <2>2. between[m - 1] \in Seq(P) /\ Taken(q, m - 1, between[m - 1])
    BY <1>0, <1>3, <2>1
  <2> HIDE DEF m, T
  <2>3. Take(between[m - 1], q[m]) \in Seq(P) /\ Taken(q, m, Take(between[m - 1], q[m]))
    BY <2>1, <2>2, TakeKeeps
  <2>4. between[m] = Take(between[m - 1], q[m])
    BY <1>1, <2>1
  <2>5. QED
    BY <2>3, <2>4 DEF m
<1> HIDE DEF T
<1>4. Len(q) \in T
  BY <1>0, <1>2, <1>3, NatSetInduction
<1>5. QED
  BY <1>0, <1>1, <1>4 DEF T

LEMMA FirstNumbers ==
  ASSUME NEW n \in Nat
  PROVE  IsFiniteSet(1 .. n) /\ Cardinality(1 .. n) = n
<1>1. IsFiniteSet(1 .. n) /\ Cardinality(1 .. n) = IF 1 > n THEN 0 ELSE n - 1 + 1
  BY FS_Interval
<1>2. (IF 1 > n THEN 0 ELSE n - 1 + 1) = n
  OBVIOUS
<1>3. QED
  BY <1>1, <1>2

LEMMA MinOfTwo ==
  ASSUME NEW a \in Nat, NEW b \in Nat, NEW m \in Nat, m <= a, m <= b, m = a \/ m = b
  PROVE  m = Min({a, b})
<1>1. m \in {a, b} /\ \A y \in {a, b} : m <= y
  OBVIOUS
<1>2. \A x \in {a, b} : (\A y \in {a, b} : x <= y) => x = m
  OBVIOUS
<1>3. QED
  BY <1>1, <1>2 DEF Min

LEMMA ApCardsAre ==
  ASSUME NEW P, Ranked(P), NEW t, t = FirstAps(Sorted(P))
  PROVE  LET aps   == {play \in P : play.ap}
             shown == ToSet(t)
         IN  /\ Len(t) = Min({ApCount, Cardinality(aps)})
             /\ Cardinality(shown) = Len(t)
             /\ shown \subseteq aps
             /\ \A play \in shown, other \in aps \ shown : play.rks >= other.rks
<1> DEFINE q == Sorted(P)
           N == Cardinality(P)
           aps == {play \in P : play.ap}
           shown == ToSet(t)
           D == 1 .. Len(t)
<1>1. /\ N \in Nat /\ q \in [1 .. N -> P]
      /\ \A i, j \in 1 .. N : q[i] = q[j] => i = j
      /\ \A play \in P : \E i \in 1 .. N : q[i] = play
      /\ \A i, j \in 1 .. N : i < j => q[i].rks >= q[j].rks
  BY SortedIs
<1>2. q \in Seq(P) /\ Len(q) = N
  BY SortedSeq
<1>r. IsFiniteSet(P) /\ \A x \in P : x.rks \in Nat
  BY DEF Ranked, Rated
<1> HIDE DEF q, N
<1>3. \A i, j \in 1 .. N : i < j => q[j].rks <= q[i].rks
  BY <1>1, <1>r
<1>4. t \in Seq(P) /\ Taken(q, N, t)
  <2>1. FirstAps(q) \in Seq(P) /\ Taken(q, Len(q), FirstAps(q))
    BY <1>1, <1>2, <1>3, FirstApsAre
  <2>2. QED
    BY <1>2, <2>1 DEF q
<1>5. Len(t) \in Nat /\ DOMAIN t = D /\ \A k \in D : t[k] \in P
  BY <1>4
<1>6. shown = {t[k] : k \in D}
  BY <1>5 DEF ToSet
<1>7. Cardinality(shown) = Len(t)
  <2> DEFINE f == [k \in D |-> t[k]]
  <2>1. IsFiniteSet(D) /\ Cardinality(D) = Len(t)
    BY <1>5, FirstNumbers
  <2>2. \A k, l \in D : t[k] = t[l] => k = l
    BY <1>4 DEF Taken
  <2> HIDE DEF D, shown
  <2>3. f \in [D -> shown] /\ (\A k \in D : f[k] = t[k]) /\ \A x \in shown : \E k \in D : f[k] = x
    BY <1>6
  <2>4. \A k, l \in D : f[k] = f[l] => k = l
    BY <2>2, <2>3
  <2> HIDE DEF f
  <2>5. f \in Injection(D, shown) /\ f \in Surjection(D, shown)
    BY <2>3, <2>4 DEF Injection, IsInjective, Surjection
  <2>6. QED
    BY <2>1, <2>5, FS_Surjection
<1> HIDE DEF shown
<1>8. shown \subseteq aps
  BY <1>4, <1>5, <1>6 DEF Taken
<1>9. ASSUME NEW play \in shown, NEW other \in aps \ shown PROVE play.rks >= other.rks
  <2>1. PICK k \in D : play = t[k]
    BY <1>6
  <2>2. PICK i \in 1 .. N : q[i] = other
    BY <1>1
  <2>3. \A l \in D : t[l] # q[i]
    BY <1>6, <2>2
  <2>4. q[i].rks <= t[k].rks
    BY <1>2, <1>4, <2>1, <2>2, <2>3 DEF Taken
  <2>5. other.rks \in Nat /\ play.rks \in Nat
    BY <1>5, <1>r, <2>1
  <2>6. QED
    BY <2>1, <2>2, <2>4, <2>5
<1>10. IsFiniteSet(aps) /\ Cardinality(aps) \in Nat /\ Len(t) <= Cardinality(aps)
  <2>1. IsFiniteSet(aps)
    BY <1>r, FS_Subset
  <2>2. Cardinality(shown) <= Cardinality(aps)
    BY <1>8, <2>1, FS_Subset
  <2>3. QED
    BY <1>7, <2>1, <2>2, FS_CardinalityType
<1>11. Len(t) <= ApCount /\ ApCount \in Nat
  BY <1>4, CountTypes DEF Taken
<1>12. Len(t) = ApCount \/ Len(t) = Cardinality(aps)
  <2>1. CASE Len(t) < ApCount
    <3>1. \A i \in 1 .. N : q[i].ap => \E k \in D : t[k] = q[i]
      BY <1>4, <2>1 DEF Taken
    <3>2. aps \subseteq shown
      BY <1>1, <1>6, <3>1
    <3>3. aps = shown
      BY <1>8, <3>2
    <3>4. QED
      BY <1>7, <3>3
  <2>2. CASE ~(Len(t) < ApCount)
    <3>1. Len(t) \in Nat /\ Len(t) <= ApCount /\ ApCount \in Nat
      BY <1>5, <1>11
    <3> HIDE DEF aps, D
    <3>2. QED
      BY <2>2, <3>1
  <2>3. QED
    BY <2>1, <2>2
<1> HIDE DEF aps, D
<1>13. Len(t) = Min({ApCount, Cardinality(aps)})
  BY <1>5, <1>10, <1>11, <1>12, MinOfTwo
<1>14. QED
  BY <1>7, <1>8, <1>9, <1>13 DEF aps, shown

(* For any record, song list and numbers of cards the APs shown are the     *)
(* best APs of the record, as many as there are up to ApCount.              *)
(* (compute_b30's p3.)                                                      *)
THEOREM ApCardsCorrect == Spec => []ApCardsAreTheBestAps
<1>1. RecordInv => ApCardsAreTheBestAps
  <2> SUFFICES ASSUME RecordInv PROVE ApCardsAreTheBestAps
    OBVIOUS
  <2>1. Ranked(Collected)
    BY CollectedRanked
  <2>2. p3 = FirstAps(Sorted(Collected))
    BY AllPlaysSorted DEF p3, FirstAps
  <2>3. QED
    BY <2>1, <2>2, ApCardsAre DEF ApCardsAreTheBestAps
<1>2. QED
  BY <1>1, RecordInvariant, PTL
=============================================================================
