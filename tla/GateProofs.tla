----------------------------- MODULE GateProofs ------------------------------
(***************************************************************************)
(* What the gates before a deployment promise, for any plan, any resource  *)
(* group, any requirements and any catalogue: the plan of the boundary,    *)
(* its live check, the choice of a region, and the verdict on its cost.    *)
(***************************************************************************)
EXTENDS Boundary, BoundaryPlan, Regions, Prices, FiniteSetTheorems, SequenceTheorems,
        WellFoundedInduction, TLAPS

-----------------------------------------------------------------------------
(* Finite sets and folds.  A finite set is well founded under inclusion,   *)
(* so a set that has a member of some kind has a least one; a fold over a  *)
(* finite set is the value that some history of picks leads to.            *)

\* Among sets of a finite set there is one that has none of the others below it.
LEMMA LeastSet ==
    ASSUME NEW S, IsFiniteSet(S), NEW B, B \subseteq SUBSET S, B # {}
    PROVE  \E T \in B : \A U \in B : U \subseteq T => U = T
<1>1. IsWellFoundedOn(StrictSubsetOrdering(S), SUBSET S)
  BY FS_StrictSubsetOrderingWellFounded, FS_FiniteSubsetsOfFinite
<1>2. \E T \in B : \A U \in B : ~ (<<U, T>> \in StrictSubsetOrdering(S))
  BY <1>1, WFMin
<1> QED
  BY <1>2 DEF StrictSubsetOrdering

\* A finite set with a strict total order has a first element.
LEMMA FirstOf ==
    ASSUME NEW S, IsFiniteSet(S), S # {}, NEW R,
           \A x, y \in S : x # y => <<x, y>> \in R \/ <<y, x>> \in R,
           \A x, y, z \in S : <<x, y>> \in R /\ <<y, z>> \in R => <<x, z>> \in R
    PROVE  \E x \in S : \A y \in S \ {x} : <<x, y>> \in R
<1> DEFINE Has(T) == \E x \in T : \A y \in T \ {x} : <<x, y>> \in R
           B == {T \in SUBSET S : T # {} /\ ~ Has(T)}
<1>1. SUFFICES ASSUME B # {} PROVE FALSE
  BY Zenon
<1>2. PICK T \in B : \A U \in B : U \subseteq T => U = T
  <2> HIDE DEF B
  <2>1. B \subseteq SUBSET S
    BY DEF B
  <2> QED
    BY <1>1, <2>1, LeastSet
<1>3. PICK e \in T : TRUE
  BY <1>2
<1>4. CASE T \ {e} = {}
  <2>1. ~ \E x \in T : \A y \in T \ {x} : <<x, y>> \in R
    BY <1>2
  <2>2. \A y \in T \ {e} : <<e, y>> \in R
    BY <1>4
  <2> QED
    BY <1>3, <2>1, <2>2
<1>5. CASE T \ {e} # {}
  <2>1. Has(T \ {e})
    <3> HIDE DEF Has
    <3>1. T \ {e} \notin B
      <4> HIDE DEF B
      <4> QED BY <1>2, <1>3
    <3>2. T \ {e} \in SUBSET S
      BY <1>2
    <3> QED
      BY <1>5, <3>1, <3>2
  <2>2. PICK f \in T \ {e} : \A y \in (T \ {e}) \ {f} : <<f, y>> \in R
    BY <2>1
  <2>3. T \subseteq S
    BY <1>2
  <2>4. CASE <<f, e>> \in R
    <3>1. \A y \in T \ {f} : <<f, y>> \in R
      BY <2>2, <2>4
    <3> QED
      BY <1>2, <2>2, <3>1
  <2>5. CASE <<e, f>> \in R
    <3>1. \A y \in T \ {e} : <<e, y>> \in R
      BY <1>3, <2>2, <2>3, <2>5
    <3> QED
      BY <1>2, <1>3, <3>1
  <2> QED
    BY <1>3, <2>2, <2>3, <2>4, <2>5
<1> QED
  BY <1>4, <1>5

-----------------------------------------------------------------------------
(* Folds over a finite set: an element after the other is picked and taken *)
(* into what the others come to.                                           *)

Picks(pick, S) == \A s \in SUBSET S : s # {} => pick[s] \in s
IsFold(h, pick, op, base, S) ==
    \A s \in SUBSET S : h[s] = IF s = {} THEN base ELSE op[<<pick[s], h[s \ {pick[s]}]>>]
\* What is only known to op where the rest is a value.
Steps(h, pick, op, base, S, Values) ==
    /\ h[{}] = base
    /\ \A s \in SUBSET S : s # {} /\ h[s \ {pick[s]}] \in Values => h[s] = op[<<pick[s], h[s \ {pick[s]}]>>]

\* Folds have values.
LEMMA FoldType ==
    ASSUME NEW S, IsFiniteSet(S), NEW pick, Picks(pick, S), NEW Values, NEW base \in Values,
           NEW op \in [S \X Values -> Values], NEW h, Steps(h, pick, op, base, S, Values)
    PROVE  \A s \in SUBSET S : h[s] \in Values
<1> DEFINE B == {s \in SUBSET S : h[s] \notin Values}
<1>1. SUFFICES ASSUME B # {} PROVE FALSE
  BY Zenon
<1>2. PICK s \in B : \A u \in B : u \subseteq s => u = s
  <2> HIDE DEF B
  <2>1. B \subseteq SUBSET S
    BY DEF B
  <2> QED
    BY <1>1, <2>1, LeastSet
<1>3. s \in SUBSET S /\ h[s] \notin Values
  BY <1>2
<1>4. s # {}
  BY <1>3 DEF Steps
<1>5. pick[s] \in s /\ pick[s] \in S
  BY <1>3, <1>4 DEF Picks
<1>6. h[s \ {pick[s]}] \in Values
  <2>1. s \ {pick[s]} \notin B
    <3> HIDE DEF B
    <3> QED BY <1>2, <1>5
  <2> QED
    BY <1>3, <2>1
<1>7. h[s] = op[<<pick[s], h[s \ {pick[s]}]>>]
  BY <1>3, <1>4, <1>6 DEF Steps
<1> QED
  BY <1>3, <1>5, <1>6, <1>7

LEMMA OneFold ==
    ASSUME NEW S, IsFiniteSet(S), NEW T, NEW pick, Picks(pick, S), NEW op, NEW base,
           NEW g, NEW h, IsFold(g, pick, op, base, S), IsFold(h, pick, op, base, T)
    PROVE  \A w \in SUBSET (S \cap T) : g[w] = h[w]
<1> DEFINE B == {w \in SUBSET (S \cap T) : g[w] # h[w]}
<1>1. SUFFICES ASSUME B # {} PROVE FALSE
  BY Zenon
<1>2. PICK w \in B : \A u \in B : u \subseteq w => u = w
  <2> HIDE DEF B
  <2>1. B \subseteq SUBSET S
    BY DEF B
  <2> QED
    BY <1>1, <2>1, LeastSet
<1>3. w \in SUBSET S /\ w \in SUBSET T /\ g[w] # h[w]
  BY <1>2
<1>4. /\ g[w] = IF w = {} THEN base ELSE op[<<pick[w], g[w \ {pick[w]}]>>]
      /\ h[w] = IF w = {} THEN base ELSE op[<<pick[w], h[w \ {pick[w]}]>>]
  BY <1>3 DEF IsFold
<1>5. w # {}
  BY <1>3, <1>4
<1>6. pick[w] \in w
  BY <1>3, <1>5 DEF Picks
<1>7. w \ {pick[w]} \notin B
  <2> HIDE DEF B
  <2> QED BY <1>2, <1>6
<1>8. g[w \ {pick[w]}] = h[w \ {pick[w]}]
  BY <1>3, <1>7
<1> QED
  BY <1>3, <1>4, <1>5, <1>8

\* There is a fold.
LEMMA FoldExists ==
    ASSUME NEW S, IsFiniteSet(S), NEW pick, Picks(pick, S), NEW op, NEW base
    PROVE  \E h : DOMAIN h = SUBSET S /\ h = [s \in SUBSET S |-> h[s]] /\ IsFold(h, pick, op, base, S)
<1> DEFINE Folds(h, T) == DOMAIN h = SUBSET T /\ h = [s \in SUBSET T |-> h[s]] /\ IsFold(h, pick, op, base, T)
           B == {s \in SUBSET S : ~ \E h : Folds(h, s)}
<1>1. SUFFICES ASSUME B # {} PROVE FALSE
  <2>1. S \notin B => \E h : Folds(h, S)
    BY DEF B
  <2> QED
    BY <2>1
<1>2. PICK s \in B : \A u \in B : u \subseteq s => u = s
  <2> HIDE DEF B
  <2>1. B \subseteq SUBSET S
    BY DEF B
  <2> QED
    BY <1>1, <2>1, LeastSet
<1>3. s \in SUBSET S /\ ~ \E h : Folds(h, s)
  BY <1>2
<1> DEFINE Part(t) == CHOOSE h : Folds(h, t)
           m == pick[s]
           val(t) == IF t # s THEN Part(t)[t] ELSE IF s = {} THEN base ELSE op[<<m, Part(s \ {m})[s \ {m}]>>]
           H == [t \in SUBSET s |-> val(t)]
<1>4. ASSUME NEW t \in SUBSET s, t # s PROVE IsFold(Part(t), pick, op, base, t) /\ IsFiniteSet(t)
  <2>1. t \notin B /\ t \in SUBSET S
    <3> HIDE DEF B
    <3> QED BY <1>2, <1>3, <1>4
  <2>2. \E h : Folds(h, t)
    BY <2>1
  <2>3. Folds(Part(t), t)
    <3> HIDE DEF Folds
    <3> QED BY <2>2
  <2>4. IsFiniteSet(t)
    BY <2>1, FS_Subset
  <2> QED
    BY <2>3, <2>4
<1> HIDE DEF Folds
<1>5. ASSUME NEW t \in SUBSET s
      PROVE  H[t] = IF t = {} THEN base ELSE op[<<pick[t], H[t \ {pick[t]}]>>]
  <2>1. H[t] = val(t)
    OBVIOUS
  <2>2. CASE t = {}
    <3>1. CASE t = s
      BY <2>1, <2>2, <3>1
    <3>2. CASE t # s
      <4>1. Part(t)[t] = base
        <5>1. IsFold(Part(t), pick, op, base, t)
          BY <1>4, <3>2
        <5> HIDE DEF Part
        <5> QED BY <2>2, <5>1 DEF IsFold
      <4> QED
        BY <2>1, <2>2, <3>2, <4>1
    <3> QED
      BY <3>1, <3>2
  <2>3. CASE t # {}
    <3> DEFINE k == pick[t]  u == t \ {k}
    <3>1. k \in t /\ u \in SUBSET s /\ u # s /\ u # t
      <4>1. k \in t
        BY <1>3, <2>3 DEF Picks
      <4> QED
        BY <4>1
    <3>2. H[u] = Part(u)[u]
      BY <3>1
    <3>3. CASE t = s
      BY <2>1, <2>3, <3>2, <3>3
    <3>4. CASE t # s
      <4>1. /\ IsFold(Part(t), pick, op, base, t) /\ IsFold(Part(u), pick, op, base, u)
            /\ IsFiniteSet(t)
        BY <1>4, <3>1, <3>4
      <4>2. Part(t)[t] = op[<<k, Part(t)[u]>>]
        <5> HIDE DEF Part
        <5> QED BY <2>3, <4>1 DEF IsFold
      <4>3. Part(t)[u] = Part(u)[u]
        <5>1. Picks(pick, t)
          BY <1>3 DEF Picks
        <5> HIDE DEF Part, u, k
        <5>2. u \in SUBSET (t \cap u)
          BY <3>1 DEF u
        <5> QED
          BY <4>1, <5>1, <5>2, OneFold
      <4> HIDE DEF H, Part, u
      <4>4. H[t] = Part(t)[t]
        BY <2>1, <3>4
      <4> QED
        BY <2>3, <3>2, <4>2, <4>3, <4>4 DEF u
    <3> QED
      BY <3>3, <3>4
  <2> QED
    BY <2>2, <2>3
<1>6. Folds(H, s)
  <2>1. DOMAIN H = SUBSET s /\ H = [t \in SUBSET s |-> H[t]]
    OBVIOUS
  <2> HIDE DEF H
  <2>2. IsFold(H, pick, op, base, s)
    BY <1>5 DEF IsFold
  <2> QED
    BY <2>1, <2>2 DEF Folds
<1> QED
  BY <1>3, <1>6

-----------------------------------------------------------------------------
(* Sums *)

\* The sum over a finite set: none is zero, and some member comes to the others' sum.
LEMMA SumOfSet ==
    ASSUME NEW f, NEW S, IsFiniteSet(S), \A x \in S : f[x] \in Int
    PROVE  /\ SumFunctionOnSet(f, {}) = 0
           /\ \A T \in SUBSET S :
                 /\ SumFunctionOnSet(f, T) \in Int
                 /\ T # {} => \E x \in T : SumFunctionOnSet(f, T) = f[x] + SumFunctionOnSet(f, T \ {x})
<1> DEFINE Member(s) == CHOOSE x \in s : TRUE
           pick == [s \in SUBSET S |-> Member(s)]
           op == [p \in S \X Int |-> f[p[1]] + p[2]]
           IsSum(h, T) == h = [s \in SUBSET T |-> IF s = {} THEN 0 ELSE f[Member(s)] + h[s \ {Member(s)}]]
           sum(T) == CHOOSE h : IsSum(h, T)
<1>1. \A T : SumFunctionOnSet(f, T) = sum(T)[T]
  BY DEF SumFunctionOnSet, FoldFunctionOnSet, MapThenFoldSet
<1>2. /\ Picks(pick, S) /\ op \in [S \X Int -> Int]
      /\ \A s \in SUBSET S : pick[s] = Member(s)
      /\ \A x \in S, n \in Int : op[<<x, n>>] = f[x] + n
      /\ \A s : s # {} => Member(s) \in s
  BY DEF Picks
<1> HIDE DEF pick, op, Member
<1>3. ASSUME NEW T \in SUBSET S PROVE \E h : IsSum(h, T)
  <2>1. IsFiniteSet(T) /\ Picks(pick, T) /\ op \in [S \X Int -> Int]
    BY <1>2, FS_Subset DEF Picks
  <2>2. PICK h : DOMAIN h = SUBSET T /\ h = [s \in SUBSET T |-> h[s]] /\ IsFold(h, pick, op, 0, T)
    BY <2>1, FoldExists
  <2>3. op \in [S \X Int -> Int] => Steps(h, pick, op, 0, T, Int)
    BY <2>2 DEF IsFold, Steps
  <2>4. \A s \in SUBSET T : h[s] \in Int
    <3> DEFINE o == [p \in T \X Int |-> op[p]]
    <3>1. o \in [T \X Int -> Int] /\ \A x \in T, n \in Int : o[<<x, n>>] = op[<<x, n>>]
      BY <2>1
    <3> HIDE DEF o
    <3>2. Steps(h, pick, o, 0, T, Int)
      BY <2>1, <2>2, <3>1 DEF IsFold, Steps, Picks
    <3>3. 0 \in Int
      OBVIOUS
    <3> QED
      BY <2>1, <3>1, <3>2, <3>3, FoldType, ZenonT(30)
  <2>5. ASSUME NEW s \in SUBSET T
        PROVE  h[s] = IF s = {} THEN 0 ELSE f[Member(s)] + h[s \ {Member(s)}]
    BY <1>2, <2>2, <2>4 DEF IsFold, Picks
  <2> QED
    BY <2>2, <2>5
<1>4. \A T \in SUBSET S : IsSum(sum(T), T)
  <2> HIDE DEF IsSum
  <2> QED BY <1>3
<1> HIDE DEF sum
<1>5. ASSUME NEW T \in SUBSET S
      PROVE  \A s \in SUBSET T : sum(T)[s] = IF s = {} THEN 0 ELSE f[Member(s)] + sum(T)[s \ {Member(s)}]
  BY <1>4
<1>6. ASSUME NEW T \in SUBSET S PROVE Steps(sum(T), pick, op, 0, T, Int)
  <2>1. sum(T)[{}] = 0
    BY <1>5
  <2>2. ASSUME NEW s \in SUBSET T, s # {}, sum(T)[s \ {pick[s]}] \in Int
        PROVE  sum(T)[s] = op[<<pick[s], sum(T)[s \ {pick[s]}]>>]
    <3>1. pick[s] \in S /\ pick[s] = Member(s)
      BY <1>2, <2>2 DEF Picks
    <3>2. sum(T)[s] = f[Member(s)] + sum(T)[s \ {Member(s)}]
      BY <1>5, <2>2
    <3> QED
      BY <1>2, <2>2, <3>1, <3>2
  <2> QED
    BY <2>1, <2>2 DEF Steps
<1>7. ASSUME NEW T \in SUBSET S PROVE \A s \in SUBSET T : sum(T)[s] \in Int
  <2> DEFINE o == [p \in T \X Int |-> op[p]]
  <2>1. o \in [T \X Int -> Int] /\ \A x \in T, n \in Int : o[<<x, n>>] = op[<<x, n>>]
    BY <1>2
  <2>2. IsFiniteSet(T) /\ Picks(pick, T) /\ 0 \in Int
    BY <1>2, FS_Subset DEF Picks
  <2> HIDE DEF o
  <2>3. Steps(sum(T), pick, o, 0, T, Int)
    <3> DEFINE h == sum(T)
    <3> HIDE DEF h
    <3>1. Steps(h, pick, op, 0, T, Int)
      BY <1>6 DEF h
    <3>2. \A s \in SUBSET T : s # {} => pick[s] \in T
      BY <2>2 DEF Picks
    <3>3. Steps(h, pick, o, 0, T, Int)
      BY <2>1, <3>1, <3>2 DEF Steps
    <3> QED
      BY <3>3 DEF h
  <2> QED
    BY <2>1, <2>2, <2>3, FoldType, ZenonT(30)
<1>8. ASSUME NEW T \in SUBSET S, NEW s \in SUBSET T PROVE sum(T)[s] = sum(s)[s]
  <2> DEFINE B == {w \in SUBSET s : sum(T)[w] # sum(s)[w]}
  <2>1. SUFFICES ASSUME B # {} PROVE FALSE
    BY Zenon
  <2>2. PICK w \in B : \A u \in B : u \subseteq w => u = w
    <3>1. B \subseteq SUBSET S
      OBVIOUS
    <3> HIDE DEF B
    <3> QED BY <2>1, <3>1, LeastSet
  <2>3. w \in SUBSET s /\ s \in SUBSET S /\ sum(T)[w] # sum(s)[w]
    BY <2>2
  <2>4. /\ sum(T)[w] = IF w = {} THEN 0 ELSE f[Member(w)] + sum(T)[w \ {Member(w)}]
        /\ sum(s)[w] = IF w = {} THEN 0 ELSE f[Member(w)] + sum(s)[w \ {Member(w)}]
    BY <1>5, <2>3
  <2>5. w # {}
    BY <2>3, <2>4
  <2>6. Member(w) \in w
    BY <1>2, <2>5
  <2>7. w \ {Member(w)} \notin B
    <3> HIDE DEF B
    <3> QED BY <2>2, <2>6
  <2> QED
    BY <2>3, <2>4, <2>7
<1>9. SumFunctionOnSet(f, {}) = 0
  BY <1>1, <1>5
<1>10. ASSUME NEW T \in SUBSET S, T # {}
       PROVE  \E x \in T : SumFunctionOnSet(f, T) = f[x] + SumFunctionOnSet(f, T \ {x})
  <2>1. Member(T) \in T /\ sum(T)[T] = f[Member(T)] + sum(T)[T \ {Member(T)}]
    BY <1>2, <1>5, <1>10
  <2>2. sum(T)[T \ {Member(T)}] = sum(T \ {Member(T)})[T \ {Member(T)}]
    BY <1>8
  <2> QED
    BY <1>1, <2>1, <2>2
<1>11. \A T \in SUBSET S : SumFunctionOnSet(f, T) \in Int
  BY <1>1, <1>7
<1> QED
  BY <1>9, <1>10, <1>11

\* Any member can be taken out of a sum.
LEMMA SumWithout ==
    ASSUME NEW f, NEW S, IsFiniteSet(S), \A x \in S : f[x] \in Int, NEW x \in S
    PROVE  SumFunctionOnSet(f, S) = f[x] + SumFunctionOnSet(f, S \ {x})
<1> DEFINE sum(T) == SumFunctionOnSet(f, T)
           B == {T \in SUBSET S : \E y \in T : sum(T) # f[y] + sum(T \ {y})}
<1>1. /\ \A T \in SUBSET S : sum(T) \in Int
      /\ \A T \in SUBSET S : T # {} => \E y \in T : sum(T) = f[y] + sum(T \ {y})
  BY SumOfSet
<1> HIDE DEF sum
<1>2. SUFFICES ASSUME B # {} PROVE FALSE
  BY Zenon DEF sum
<1>3. PICK T \in B : \A u \in B : u \subseteq T => u = T
  <2>1. B \subseteq SUBSET S
    OBVIOUS
  <2> HIDE DEF B
  <2> QED BY <1>2, <2>1, LeastSet
<1>4. PICK y \in T : sum(T) # f[y] + sum(T \ {y})
  BY <1>3
<1>5. PICK z \in T : sum(T) = f[z] + sum(T \ {z})
  BY <1>1, <1>3, <1>4
<1>6. y # z /\ y \in S /\ z \in S /\ T \in SUBSET S
  BY <1>3, <1>4, <1>5
<1>7. T \ {y} \notin B /\ T \ {z} \notin B
  <2> HIDE DEF B
  <2> QED BY <1>3, <1>4, <1>5
<1>8. /\ sum(T \ {z}) = f[y] + sum((T \ {z}) \ {y})
      /\ sum(T \ {y}) = f[z] + sum((T \ {y}) \ {z})
  BY <1>4, <1>5, <1>6, <1>7
<1>9. (T \ {z}) \ {y} = (T \ {y}) \ {z} /\ sum((T \ {z}) \ {y}) \in Int
  BY <1>1, <1>6
<1> DEFINE rest == sum((T \ {z}) \ {y})
<1>10. f[y] \in Int /\ f[z] \in Int /\ rest \in Int
  BY <1>6, <1>9
<1> HIDE DEF rest
<1>11. sum(T) = f[z] + (f[y] + rest) /\ sum(T \ {y}) = f[z] + rest
  BY <1>5, <1>8, <1>9 DEF rest
<1> QED
  BY <1>4, <1>10, <1>11

\* What is nothing outside a part sums up to the part's sum, of an equal function.
LEMMA SumOfPart ==
    ASSUME NEW f, NEW g, NEW S, IsFiniteSet(S), \A x \in S : f[x] \in Int, NEW P \in SUBSET S,
           \A x \in P : g[x] = f[x], \A x \in S \ P : f[x] = 0
    PROVE  SumFunctionOnSet(f, S) = SumFunctionOnSet(g, P)
<1> DEFINE sf(T) == SumFunctionOnSet(f, T)
           sg(T) == SumFunctionOnSet(g, T)
           B == {T \in SUBSET S : sf(T) # sg(T \cap P)}
<1>1. SUFFICES ASSUME B # {} PROVE FALSE
  <2>1. S \notin B
    BY <1>1
  <2>2. S \cap P = P
    OBVIOUS
  <2> QED
    BY <2>1, <2>2
<1>2. PICK T \in B : \A u \in B : u \subseteq T => u = T
  <2>1. B \subseteq SUBSET S
    OBVIOUS
  <2> HIDE DEF B
  <2> QED BY <1>1, <2>1, LeastSet
<1>3. T \in SUBSET S /\ IsFiniteSet(T) /\ IsFiniteSet(T \cap P) /\ \A x \in T \cap P : g[x] \in Int
  BY <1>2, FS_Subset
<1>4. T # {}
  <2>1. sf({}) = 0 /\ sg({}) = 0
    <3>1. sf({}) = 0
      BY SumOfSet
    <3>2. IsFiniteSet(P) /\ \A x \in P : g[x] \in Int
      BY FS_Subset
    <3>3. sg({}) = 0
      BY <3>2, SumOfSet
    <3> QED
      BY <3>1, <3>3
  <2> HIDE DEF sf, sg
  <2>2. {} \cap P = {}
    OBVIOUS
  <2> QED
    BY <1>2, <2>1, <2>2
<1>5. PICK x \in T : TRUE
  BY <1>4
<1>6. sf(T) = f[x] + sf(T \ {x})
  BY <1>3, SumWithout
<1>7. T \ {x} \notin B
  <2> HIDE DEF B
  <2> QED BY <1>2, <1>5
<1>8. sf(T \ {x}) = sg((T \ {x}) \cap P)
  BY <1>3, <1>7
<1>9. sg((T \ {x}) \cap P) \in Int
  <2>1. (T \ {x}) \cap P \in SUBSET (T \cap P)
    OBVIOUS
  <2> QED
    BY <1>3, <2>1, SumOfSet
<1> HIDE DEF sf
<1>10. CASE x \in P
  <2>1. sg(T \cap P) = g[x] + sg((T \cap P) \ {x})
    BY <1>3, <1>10, SumWithout
  <2>2. (T \cap P) \ {x} = (T \ {x}) \cap P /\ g[x] = f[x]
    BY <1>10
  <2> HIDE DEF sg
  <2> QED
    BY <1>2, <1>6, <1>8, <2>1, <2>2
<1>11. CASE x \notin P
  <2>1. (T \ {x}) \cap P = T \cap P /\ f[x] = 0
    BY <1>3, <1>11
  <2> HIDE DEF sg
  <2> QED
    BY <1>2, <1>6, <1>8, <1>9, <2>1
<1> QED
  BY <1>10, <1>11

\* A sum changes by as much as one of its terms.
LEMMA SumChanged ==
    ASSUME NEW f, NEW g, NEW S, IsFiniteSet(S), \A x \in S : f[x] \in Int, NEW x \in S, NEW d \in Int,
           g[x] = f[x] + d, \A y \in S \ {x} : g[y] = f[y]
    PROVE  SumFunctionOnSet(g, S) = SumFunctionOnSet(f, S) + d
<1> DEFINE sf(T) == SumFunctionOnSet(f, T)
           sg(T) == SumFunctionOnSet(g, T)
<1>1. \A y \in S : g[y] \in Int
  OBVIOUS
<1>2. sf(S) = f[x] + sf(S \ {x})
  BY SumWithout
<1>3. sg(S) = g[x] + sg(S \ {x})
  BY <1>1, SumWithout
<1>4. sf(S \ {x}) = sg(S \ {x})
  <2> DEFINE R == S \ {x}
  <2>1. IsFiniteSet(R) /\ R \in SUBSET R /\ \A y \in R : f[y] \in Int /\ g[y] = f[y]
    BY FS_Subset
  <2>2. \A y \in R \ R : f[y] = 0
    OBVIOUS
  <2> HIDE DEF R
  <2>3. sf(R) = sg(R)
    BY <2>1, <2>2, SumOfPart
  <2> QED
    BY <2>3 DEF R
<1>5. sf(S \ {x}) \in Int
  BY SumOfSet
<1> HIDE DEF sf, sg
<1>6. sg(S) = sf(S) + d
  BY <1>2, <1>3, <1>4, <1>5
<1> QED
  BY <1>6 DEF sf, sg

\* So the sum over a basket is a number.
LEMMA SumsAreNumbers ==
    ASSUME NEW r, NEW S, IsFiniteSet(S), \A x \in S : world.price[r][x] \in Int
    PROVE  Sum(r, S) \in Int
<1> DEFINE v == world.price[r]
<1>1. Sum(r, S) = SumFunctionOnSet(v, S)
  BY DEF Sum, MapThenSumSet, SumFunctionOnSet, FoldFunctionOnSet, MapThenFoldSet
<1> HIDE DEF v
<1>2. S \in SUBSET S /\ \A x \in S : v[x] \in Int
  BY DEF v
<1> QED
  BY <1>1, <1>2, SumOfSet

-----------------------------------------------------------------------------
(* Regions, the gates.  A region that passed a gate has what the gate asks *)
(* for, and nothing that a gate asked about changes before the verdict.    *)

\* The requirements, gate by gate.
Named(r) == world.meta[r].physical /\ (needs.candidates # {} => r \in needs.candidates)
Placed(r) == Resident(r) /\ Reliable(r) /\ Near(r)
Offered(r) == \A t \in needs.types : r \in world.offered[t]
Capable(r) == \A c \in needs.capabilities : r \in Allowed(c)
Endowed(r) == needs.models \subseteq world.models[r] /\ world.headroom[r] >= needs.quota

Ranked == {"rank", "done"}
Priced == Ranked \cup {"price"}
Judged == Priced \cup {"judge"}
Used == Judged \cup {"usage"}
Matched == Used \cup {"models"}
Typed == Matched \cup {"matrix"}
Located == Typed \cup {"types"}
Discovered == Located \cup {"metadata"}

\* What a survivor has by now.
Required(r) ==
    /\ Named(r) /\ (choice \in Located => Placed(r)) /\ (choice \in Typed => Offered(r))
    /\ (choice \in Matched => Capable(r)) /\ (choice \in Priced => Endowed(r))
\* Whoever is left has what was asked for so far, and whoever has it is left, but for what
\* could not be read; what was probed is so.
GateInv ==
    /\ choice \in Discovered => regions = {r \in Regions : Named(r)}
    /\ choice \in Located => \A r \in Regions :
          /\ r \in Survivors => Required(r)
          /\ Required(r) => r \in Survivors \/ unread # {}
    /\ choice \in {"usage", "judge"} => \A r \in Survivors : probed.models[r] \in {Nil, world.models[r]}
    /\ choice = "judge" => \A r \in Survivors : probed.usage[r] \in {Nil, world.headroom[r]}
    /\ DOMAIN probed = {"models", "usage"}
    /\ choice \in {"start", "discover", "metadata", "types"} => unread = {}

LEMMA Eliminated ==
    ASSUME NEW name, name # Nil, NEW passing, Eliminate(name, passing), regions' = regions,
           regions \subseteq Regions
    PROVE  Survivors' = Survivors \cap passing
BY DEF Eliminate, Survivors

LEMMA GateInvInit == RegionsInit => GateInv
BY DEF RegionsInit, GateInv, Discovered, Located, Typed, Matched, Used, Judged, Priced, Ranked

LEMMA GateInvStep ==
    ASSUME GateInv, [RegionsNext]_choosing
    PROVE  GateInv'
<1> DEFINE Same == world' = world /\ needs' = needs
<1> USE DEF Discovered, Located, Typed, Matched, Used, Judged, Priced, Ranked
<1>0. ASSUME Same PROVE \A r : /\ Named(r)' = Named(r) /\ Placed(r)' = Placed(r) /\ Offered(r)' = Offered(r)
                               /\ Capable(r)' = Capable(r) /\ Endowed(r)' = Endowed(r)
  BY <1>0 DEF Named, Placed, Resident, Reliable, Near, Offered, Capable, Allowed, Endowed
<1>1. ASSUME NEW m \in Asked, Enable(m) PROVE GateInv'
  BY <1>1 DEF Enable, GateInv
<1>2. CASE Discover
  <2>1. Same /\ choice = "discover" /\ choice' = "metadata" /\ probed' = probed /\ unread' = unread
    BY <1>2 DEF Discover, StepTo
  <2>2. regions' = {r \in Regions : Named(r)}
    BY <1>2 DEF Discover, Named
  <2>3. regions' = {r \in Regions : Named(r)'}
    BY <1>0, <2>1, <2>2
  <2> QED
    BY <2>1, <2>3 DEF GateInv
<1>3. CASE DiscoverFails
  BY <1>3 DEF DiscoverFails, StepTo, GateInv
<1>4. CASE Metadata
  <2>1. /\ Same /\ choice = "metadata" /\ choice' = "types" /\ probed' = probed /\ unread' = unread
        /\ regions' = regions
    BY <1>4 DEF Metadata, StepTo
  <2>2. \A r \in Regions : gate'[r] = Nil <=> r \notin regions \/ Placed(r)
    BY <1>4, RegionsAssumption DEF Metadata, Placed
  <2>3. regions = {r \in Regions : Named(r)} /\ unread = {} /\ DOMAIN probed = {"models", "usage"}
    BY <2>1 DEF GateInv
  <2>4. \A r \in Regions : r \in Survivors' <=> Named(r) /\ Placed(r)
    BY <2>1, <2>2, <2>3 DEF Survivors
  <2>5. \A r \in Regions : Required(r)' <=> Named(r) /\ Placed(r)
    BY <1>0, <2>1 DEF Required
  <2>6. regions' = {r \in Regions : Named(r)'}
    BY <1>0, <2>1, <2>3
  <2> QED
    BY <2>1, <2>3, <2>4, <2>5, <2>6 DEF GateInv
<1>5. ASSUME NEW failing \in SUBSET needs.types, ResourceTypes(failing) PROVE GateInv'
  <2> DEFINE passing == {r \in Survivors : \A t \in needs.types : t \notin failing /\ r \in world.offered[t]}
  <2>1. /\ Same /\ choice = "types" /\ choice' = "matrix" /\ probed' = probed /\ unread' = failing
        /\ regions' = regions /\ Eliminate("resource-type", passing)
    BY <1>5 DEF ResourceTypes, StepTo
  <2>2. /\ regions = {r \in Regions : Named(r)} /\ unread = {} /\ DOMAIN probed = {"models", "usage"}
        /\ \A r \in Regions : r \in Survivors <=> Required(r)
    BY <2>1 DEF GateInv
  <2>3. Survivors' = Survivors \cap passing
    BY <2>1, <2>2, Eliminated, RegionsAssumption
  <2>4. \A r \in Regions : /\ Required(r) <=> Named(r) /\ Placed(r)
                           /\ Required(r)' <=> Named(r) /\ Placed(r) /\ Offered(r)
    BY <1>0, <2>1 DEF Required
  <2>5. \A r \in Survivors : /\ r \in passing => Offered(r)
                             /\ Offered(r) => r \in passing \/ failing # {}
    BY DEF Offered
  <2>6. regions' = {r \in Regions : Named(r)'}
    BY <1>0, <2>1, <2>2
  <2> HIDE DEF passing
  <2>7. \A r \in Regions : /\ r \in Survivors' => Required(r)'
                           /\ Required(r)' => r \in Survivors' \/ unread' # {}
    <3> SUFFICES ASSUME NEW r \in Regions
                 PROVE  /\ r \in Survivors' => Required(r)'
                        /\ Required(r)' => r \in Survivors' \/ unread' # {}
      OBVIOUS
    <3>1. (r \in Survivors' <=> r \in Survivors /\ r \in passing) /\ unread' = failing
      BY <2>1, <2>3
    <3>2. r \in Survivors <=> Named(r) /\ Placed(r)
      BY <2>2, <2>4
    <3>3. r \in Survivors => /\ r \in passing => Offered(r)
                             /\ Offered(r) => r \in passing \/ failing # {}
      BY <2>5
    <3> QED
      BY <2>4, <3>1, <3>2, <3>3
  <2> QED
    BY <2>1, <2>2, <2>6, <2>7 DEF GateInv
<1>6. CASE Capabilities
  <2> DEFINE passing == {r \in Survivors : \A c \in needs.capabilities : r \in Allowed(c)}
  <2>1. /\ Same /\ choice = "matrix" /\ choice' \in {"models", "raised"} /\ probed' = probed /\ unread' = unread
        /\ regions' = regions /\ (choice' = "models" => Eliminate("capability", passing))
    BY <1>6 DEF Capabilities, StepTo
  <2>2. CASE choice' = "raised"
    BY <2>1, <2>2 DEF GateInv
  <2>3. CASE choice' = "models"
    <3>1. /\ regions = {r \in Regions : Named(r)} /\ DOMAIN probed = {"models", "usage"}
          /\ \A r \in Regions : /\ r \in Survivors => Required(r)
                                /\ Required(r) => r \in Survivors \/ unread # {}
      BY <2>1 DEF GateInv
    <3>2. Survivors' = Survivors \cap passing
      BY <2>1, <2>3, <3>1, Eliminated, RegionsAssumption
    <3>3. \A r \in Regions : Required(r)' <=> Required(r) /\ Capable(r)
      BY <1>0, <2>1, <2>3 DEF Required
    <3>4. \A r \in Survivors : r \in passing <=> Capable(r)
      BY DEF Capable
    <3>5. regions' = {r \in Regions : Named(r)'}
      BY <1>0, <2>1, <3>1
    <3> HIDE DEF passing
    <3> QED
      BY <2>1, <2>3, <3>1, <3>2, <3>3, <3>4, <3>5 DEF GateInv
  <2> QED
    BY <2>1, <2>2, <2>3
<1>7. ASSUME Same, regions' = regions, gate' = gate, unread' = unread, choice \in Located, choice' \in Located,
             \A r \in Regions : Required(r)' <=> Required(r)
      PROVE  /\ Survivors' = Survivors /\ regions' = {r \in Regions : Named(r)'}
             /\ \A r \in Regions : /\ r \in Survivors' => Required(r)'
                                   /\ Required(r)' => r \in Survivors' \/ unread' # {}
  <2>1. regions' = {r \in Regions : Named(r)'}
    BY <1>0, <1>7 DEF GateInv
  <2>2. Survivors' = Survivors
    BY <1>7 DEF Survivors
  <2> QED
    BY <1>7, <2>1, <2>2 DEF GateInv
<1>8. ASSUME NEW failing \in SUBSET Survivors, Probe("models", "usage", failing) PROVE GateInv'
  <2> DEFINE new == [r \in Survivors |-> IF r \in failing THEN Nil ELSE world.models[r]]
  <2>1. /\ Same /\ choice = "models" /\ choice' = "usage" /\ unread' = unread /\ regions' = regions /\ gate' = gate
        /\ probed' = [probed EXCEPT !["models"] = new]
    BY <1>8 DEF Probe, StepTo
  <2>2. \A r \in Regions : Required(r)' <=> Required(r)
    BY <1>0, <2>1 DEF Required
  <2>3. probed'.models = new /\ DOMAIN probed' = {"models", "usage"}
    BY <2>1 DEF GateInv
  <2>4. \A r \in Survivors' : probed'.models[r] \in {Nil, world'.models[r]}
    BY <2>1, <2>3 DEF Survivors
  <2> HIDE DEF new
  <2> QED
    BY <1>7, <2>1, <2>2, <2>3, <2>4 DEF GateInv
<1>9. ASSUME NEW failing \in SUBSET Survivors, Probe("usage", "judge", failing) PROVE GateInv'
  <2> DEFINE new == [r \in Survivors |-> IF r \in failing THEN Nil ELSE world.headroom[r]]
  <2>1. /\ Same /\ choice = "usage" /\ choice' = "judge" /\ unread' = unread /\ regions' = regions /\ gate' = gate
        /\ probed' = [probed EXCEPT !["usage"] = new]
    BY <1>9 DEF Probe, StepTo
  <2>2. \A r \in Regions : Required(r)' <=> Required(r)
    BY <1>0, <2>1 DEF Required
  <2>3. probed'.usage = new /\ probed'.models = probed.models /\ DOMAIN probed' = {"models", "usage"}
    BY <2>1 DEF GateInv
  <2>4. \A r \in Survivors' : /\ probed'.usage[r] \in {Nil, world'.headroom[r]}
                              /\ probed'.models[r] \in {Nil, world'.models[r]}
    BY <2>1, <2>3 DEF Survivors, GateInv
  <2> HIDE DEF new
  <2> QED
    BY <1>7, <2>1, <2>2, <2>3, <2>4 DEF GateInv
<1>10. CASE Judge
  <2> DEFINE passing == {r \in Survivors :
                            needs.models \subseteq probed.models[r] /\ probed.usage[r] >= needs.quota}
  <2>1. /\ Same /\ choice = "judge" /\ choice' \in {"price", "raised"} /\ probed' = probed /\ unread' = unread
        /\ regions' = regions
        /\ choice' = "price" => Unanswered = {} /\ Eliminate("model or quota", passing)
    BY <1>10 DEF Judge, StepTo
  <2>2. CASE choice' = "raised"
    BY <2>1, <2>2 DEF GateInv
  <2>3. CASE choice' = "price"
    <3>1. /\ regions = {r \in Regions : Named(r)} /\ DOMAIN probed = {"models", "usage"}
          /\ \A r \in Regions : /\ r \in Survivors => Required(r)
                                /\ Required(r) => r \in Survivors \/ unread # {}
      BY <2>1 DEF GateInv
    <3>2. Survivors' = Survivors \cap passing
      BY <2>1, <2>3, <3>1, Eliminated, RegionsAssumption
    <3>3. \A r \in Regions : Required(r)' <=> Required(r) /\ Endowed(r)
      BY <1>0, <2>1, <2>3 DEF Required
    <3>4. \A r \in Survivors : probed.models[r] = world.models[r] /\ probed.usage[r] = world.headroom[r]
      BY <2>1, <2>3 DEF GateInv, Unanswered
    <3>5. \A r \in Survivors : r \in passing <=> Endowed(r)
      BY <3>4 DEF Endowed
    <3>6. regions' = {r \in Regions : Named(r)'}
      BY <1>0, <2>1, <3>1
    <3> HIDE DEF passing
    <3> QED
      BY <2>1, <2>3, <3>1, <3>2, <3>3, <3>5, <3>6 DEF GateInv
  <2> QED
    BY <2>1, <2>2, <2>3
<1>11. ASSUME NEW failing \in SUBSET (Survivors \X needs.basket), Price(failing) PROVE GateInv'
  <2>1. /\ Same /\ choice = "price" /\ choice' \in {"rank", "raised"} /\ unread' = unread
        /\ regions' = regions /\ gate' = gate /\ probed' = probed
    BY <1>11 DEF Price, StepTo
  <2>2. CASE choice' = "rank"
    <3>1. \A r \in Regions : Required(r)' <=> Required(r)
      BY <1>0, <2>1, <2>2 DEF Required
    <3> QED
      BY <1>7, <2>1, <2>2, <3>1 DEF GateInv
  <2>3. CASE choice' = "raised"
    BY <2>1, <2>3 DEF GateInv
  <2> QED
    BY <2>1, <2>2, <2>3
<1>12. CASE Rank
  <2>1. /\ Same /\ choice = "rank" /\ choice' \in {"done", "raised"} /\ unread' = unread /\ regions' = regions
        /\ gate' = gate /\ probed' = probed
    BY <1>12 DEF Rank, StepTo
  <2>2. CASE choice' = "done"
    <3>1. \A r \in Regions : Required(r)' <=> Required(r)
      BY <1>0, <2>1, <2>2 DEF Required
    <3> QED
      BY <1>7, <2>1, <2>2, <3>1 DEF GateInv
  <2>3. CASE choice' = "raised"
    BY <2>1, <2>3 DEF GateInv
  <2> QED
    BY <2>1, <2>2, <2>3
<1>13. CASE UNCHANGED choosing
  <2>1. /\ Same /\ choice' = choice /\ unread' = unread /\ regions' = regions /\ gate' = gate /\ probed' = probed
    BY <1>13 DEF choosing
  <2>2. \A r \in Regions : Required(r)' <=> Required(r)
    BY <1>0, <2>1 DEF Required
  <2>3. Survivors' = Survivors /\ {r \in Regions : Named(r)'} = {r \in Regions : Named(r)}
    BY <1>0, <2>1 DEF Survivors
  <2> QED
    BY <2>1, <2>2, <2>3 DEF GateInv
<1> QED
  BY <1>1, <1>2, <1>3, <1>4, <1>5, <1>6, <1>8, <1>9, <1>10, <1>11, <1>12, <1>13 DEF RegionsNext

LEMMA InvQualifies == GateInv => QualifiedIsTrue
<1> SUFFICES ASSUME GateInv, choice = "done", NEW r \in Regions
             PROVE  (r \in Survivors => Meets(r)) /\ (Meets(r) => r \in Survivors \/ unread # {})
  BY DEF QualifiedIsTrue
<1>1. Required(r) <=> Meets(r)
  <2>1. Required(r) <=> Named(r) /\ Placed(r) /\ Offered(r) /\ Capable(r) /\ Endowed(r)
    BY DEF Required, Located, Typed, Matched, Used, Judged, Priced, Ranked
  <2>2. ASSUME NEW c PROVE r \in Allowed(c) <=>
            /\ r \notin Matrix[c].excluded
            /\ r \in Matrix[IF Matrix[c].derived = Nil THEN c ELSE Matrix[c].derived].regions
    BY DEF Allowed
  <2>3. Placed(r) <=> /\ (needs.geographies # {} => world.meta[r].geography \in needs.geographies)
                      /\ (needs.pair => world.meta[r].paired) /\ world.meta[r].zones >= needs.zones
                      /\ (needs.km # Nil => world.meta[r].km <= needs.km)
    BY DEF Placed, Resident, Reliable, Near
  <2> QED
    BY <2>1, <2>2, <2>3 DEF Named, Offered, Capable, Endowed, Meets
<1> QED
  BY <1>1 DEF GateInv, Located, Typed, Matched, Used, Judged, Priced, Ranked

-----------------------------------------------------------------------------
(* Regions, the ranking.  Keys are compared position by position, so       *)
(* whoever comes first has no higher price, and the regions left are       *)
(* ranked by numbers.                                                      *)

\* The first difference of two keys, position by position.
Precedes(a, b) ==
    \/ a[1] < b[1]
    \/ a[1] = b[1] /\ a[2] < b[2]
    \/ a[1] = b[1] /\ a[2] = b[2] /\ a[3] < b[3]
    \/ a[1] = b[1] /\ a[2] = b[2] /\ a[3] = b[3] /\ a[4] < b[4]
    \/ a[1] = b[1] /\ a[2] = b[2] /\ a[3] = b[3] /\ a[4] = b[4] /\ a[5] < b[5]
Keys == [1 .. 5 -> Int]

LEMMA FirstDifference ==
    ASSUME NEW a \in Keys, NEW b \in Keys
    PROVE  (\E i \in 1 .. 5 : a[i] < b[i] /\ \A j \in 1 .. i - 1 : a[j] = b[j]) <=> Precedes(a, b)
<1>1. ASSUME NEW i \in 1 .. 5, a[i] < b[i], \A j \in 1 .. i - 1 : a[j] = b[j]
      PROVE  Precedes(a, b)
  <2>1. CASE i = 1
    BY <1>1, <2>1 DEF Precedes, Keys
  <2>2. CASE i = 2
    BY <1>1, <2>2 DEF Precedes, Keys
  <2>3. CASE i = 3
    BY <1>1, <2>3 DEF Precedes, Keys
  <2>4. CASE i = 4
    BY <1>1, <2>4 DEF Precedes, Keys
  <2>5. CASE i = 5
    BY <1>1, <2>5 DEF Precedes, Keys
  <2> QED
    BY <2>1, <2>2, <2>3, <2>4, <2>5
<1>2. ASSUME NEW i \in 1 .. 5, a[i] < b[i], \A j \in 1 .. i - 1 : a[j] = b[j]
      PROVE  \E k \in 1 .. 5 : a[k] < b[k] /\ \A j \in 1 .. k - 1 : a[j] = b[j]
  BY <1>2
<1>3. ASSUME Precedes(a, b)
      PROVE  \E k \in 1 .. 5 : a[k] < b[k] /\ \A j \in 1 .. k - 1 : a[j] = b[j]
  <2> DEFINE First(k) == a[k] < b[k] /\ \A j \in 1 .. k - 1 : a[j] = b[j]
  <2>1. First(1) \/ First(2) \/ First(3) \/ First(4) \/ First(5)
    BY <1>3 DEF Precedes, Keys
  <2>2. 1 \in 1 .. 5 /\ 2 \in 1 .. 5 /\ 3 \in 1 .. 5 /\ 4 \in 1 .. 5 /\ 5 \in 1 .. 5
    OBVIOUS
  <2> HIDE DEF First
  <2>3. \E k \in 1 .. 5 : First(k)
    BY <2>1, <2>2
  <2> QED
    BY <2>3 DEF First
<1> QED
  BY <1>1, <1>3

LEMMA PrecedesIsAnOrder ==
    /\ \A a, b \in Keys : Precedes(a, b) \/ Precedes(b, a) \/ a[5] = b[5]
    /\ \A a, b, c \in Keys : Precedes(a, b) /\ Precedes(b, c) => Precedes(a, c)
<1>1. ASSUME NEW a \in Keys, NEW b \in Keys
      PROVE  Precedes(a, b) \/ Precedes(b, a) \/ a[5] = b[5]
  BY DEF Precedes, Keys
<1>2. ASSUME NEW a \in Keys, NEW b \in Keys, NEW c \in Keys, Precedes(a, b), Precedes(b, c)
      PROVE  Precedes(a, c)
  BY <1>2 DEF Precedes, Keys
<1> QED
  BY <1>1, <1>2

\* The prices, headrooms and distances are numbers.
CostOf(x) == IF basket[x] = Nil THEN 0 ELSE basket[x]
Distance(x) == IF needs.km = Nil THEN 0 ELSE world.meta[x].km
Key(x) == <<IF basket[x] = Nil THEN 1 ELSE 0, CostOf(x), 0 - headroom[x], Distance(x), x>>
Numbered(x) == x \in Int /\ basket[x] \in Int \cup {Nil} /\ headroom[x] \in Int /\ world.meta[x].km \in Int

LEMMA KeysOfSurvivors == \A x : Numbered(x) => Key(x) \in Keys /\ Key(x)[1] = (IF basket[x] = Nil THEN 1 ELSE 0)
                                          /\ Key(x)[2] = CostOf(x) /\ Key(x)[5] = x
BY DEF Numbered, Key, CostOf, Distance, Keys

LEMMA BeforeByKeys ==
    ASSUME NEW x, NEW y, Numbered(x), Numbered(y)
    PROVE  Before(x, y) <=> Precedes(Key(x), Key(y))
<1>1. Key(x) \in Keys /\ Key(y) \in Keys
  BY KeysOfSurvivors
<1>2. Before(x, y) <=> \E i \in 1 .. 5 : Key(x)[i] < Key(y)[i] /\ \A j \in 1 .. i - 1 : Key(x)[j] = Key(y)[j]
  BY DEF Before, Key, CostOf, Distance
<1> HIDE DEF Key
<1> QED
  BY <1>1, <1>2, FirstDifference

-----------------------------------------------------------------------------
(* Regions, the choice.                                                    *)

\* What the ranking relies on.
NumbersInv ==
    /\ world \in Worlds /\ "basket" \in DOMAIN needs /\ IsFiniteSet(needs.basket)
    /\ \A r \in Regions : \A e \in needs.basket : world.price[r][e] \in Int \cup NoPrice
    /\ \A r \in Regions : headroom[r] \in Int
\* A total is the sum over the basket, or there is none.
TotalInv ==
    choice \in Ranked => \A r \in Survivors :
        basket[r] = Nil \/ (basket[r] = Sum(r, needs.basket)
                            /\ \A e \in needs.basket : world.price[r][e] \notin NoPrice)
\* What was decided on is left, and nothing that is left costs less.
ChosenInv ==
    decision # Nil =>
        /\ choice = "done" /\ decision \in Survivors /\ basket[decision] # Nil
        /\ \A r \in Survivors : basket[r] # Nil => basket[decision] <= basket[r]
ChoiceInv == GateInv /\ NumbersInv /\ TotalInv /\ ChosenInv

LEMMA TotalIsNumber ==
    ASSUME NumbersInv, NEW r \in Regions, \A e \in needs.basket : world.price[r][e] \notin NoPrice
    PROVE  Sum(r, needs.basket) \in Int
<1>1. \A e \in needs.basket : world.price[r][e] \in Int
  BY DEF NumbersInv
<1> QED
  BY <1>1, SumsAreNumbers DEF NumbersInv

\* The regions that are left in the end are numbered.
LEMMA SurvivorsNumbered ==
    ASSUME GateInv, NumbersInv, TotalInv, choice \in Ranked, NEW r \in Survivors
    PROVE  r \in Regions /\ Numbered(r)
<1>1. r \in Regions
  BY DEF GateInv, Survivors, Discovered, Located, Typed, Matched, Used, Judged, Priced
<1>2. basket[r] = Nil \/ basket[r] \in Int
  BY <1>1, TotalIsNumber DEF TotalInv
<1>3. r \in Int /\ world.meta[r].km \in Int /\ headroom[r] \in Int
  BY <1>1, RegionsAssumption DEF NumbersInv
<1> QED
  BY <1>1, <1>2, <1>3 DEF Numbered

\* A survivor comes first, and none that was priced is cheaper.
LEMMA WinnerIsCheapest ==
    ASSUME GateInv, NumbersInv, TotalInv, choice \in Ranked, NEW p \in Survivors, basket[p] # Nil
    PROVE  /\ Winner \in Survivors /\ basket[Winner] # Nil
           /\ \A r \in Survivors : basket[r] # Nil => basket[Winner] <= basket[r]
<1> DEFINE R == {q \in Survivors \X Survivors : Before(q[1], q[2])}
<1>1. \A r \in Survivors : r \in Regions /\ Numbered(r) /\ Key(r) \in Keys /\ Key(r)[5] = r
  BY SurvivorsNumbered, KeysOfSurvivors
<1>2. \A x, y \in Survivors : <<x, y>> \in R <=> Precedes(Key(x), Key(y))
  BY <1>1, BeforeByKeys
<1>3. \A x, y \in Survivors : x # y => <<x, y>> \in R \/ <<y, x>> \in R
  <2> HIDE DEF R
  <2> QED BY <1>1, <1>2, PrecedesIsAnOrder
<1>4. \A x, y, z \in Survivors : <<x, y>> \in R /\ <<y, z>> \in R => <<x, z>> \in R
  <2> HIDE DEF R
  <2> QED BY <1>1, <1>2, PrecedesIsAnOrder
<1>5. IsFiniteSet(Survivors)
  BY <1>1, RegionsAssumption, FS_Subset
<1>6. \E x \in Survivors : \A y \in Survivors \ {x} : <<x, y>> \in R
  <2> HIDE DEF R
  <2> QED BY <1>3, <1>4, <1>5, FirstOf
<1>7. Winner \in Survivors /\ \A y \in Survivors \ {Winner} : Before(Winner, y)
  <2>1. \E x \in Survivors : \A y \in Survivors \ {x} : Before(x, y)
    BY <1>6
  <2> QED
    BY <2>1 DEF Winner
<1> HIDE DEF R
<1> DEFINE w == Winner
<1>8. \A r \in Survivors \ {w} : Precedes(Key(w), Key(r))
  BY <1>1, <1>7, BeforeByKeys
<1> HIDE DEF w
<1>9. w \in Survivors /\ Numbered(w)
  BY <1>1, <1>7 DEF w
<1>10. \A r \in Survivors \ {w} : basket[r] # Nil => basket[w] # Nil /\ basket[w] <= basket[r]
  <2> SUFFICES ASSUME NEW r \in Survivors \ {w}, basket[r] # Nil
               PROVE  basket[w] # Nil /\ basket[w] <= basket[r]
    OBVIOUS
  <2>1. /\ Key(w)[1] = (IF basket[w] = Nil THEN 1 ELSE 0) /\ Key(w)[2] = CostOf(w)
        /\ Key(r)[1] = 0 /\ Key(r)[2] = CostOf(r)
    BY <1>1, <1>9, KeysOfSurvivors
  <2>2. Precedes(Key(w), Key(r))
    BY <1>8
  <2>3. basket[w] # Nil
    BY <2>1, <2>2 DEF Precedes
  <2>4. basket[w] \in Int /\ basket[r] \in Int /\ CostOf(w) = basket[w] /\ CostOf(r) = basket[r]
    BY <1>1, <1>9, <2>3 DEF Numbered, CostOf
  <2> QED
    BY <2>1, <2>2, <2>3, <2>4 DEF Precedes
<1>11. basket[w] # Nil
  BY <1>10
<1>12. basket[w] <= basket[w]
  BY <1>9, <1>11 DEF Numbered
<1> QED
  BY <1>7, <1>10, <1>11, <1>12 DEF w

LEMMA ChoiceInvInit == RegionsInit => ChoiceInv
<1> SUFFICES ASSUME RegionsInit PROVE ChoiceInv
  OBVIOUS
<1>1. NumbersInv
  <2>1. /\ world \in Worlds /\ needs \in Needs /\ \A r \in Regions : headroom[r] \in Int
    BY DEF RegionsInit
  <2>2. "basket" \in DOMAIN needs /\ IsFiniteSet(needs.basket)
    BY <2>1, RegionsAssumption
  <2>3. \A r \in Regions, e \in needs.basket : world.price[r][e] \in Int \cup NoPrice
    BY <2>1, RegionsAssumption
  <2> QED
    BY <2>1, <2>2, <2>3 DEF NumbersInv
<1>2. TotalInv /\ ChosenInv
  BY DEF RegionsInit, TotalInv, ChosenInv, Ranked
<1> QED
  BY <1>1, <1>2, GateInvInit DEF ChoiceInv

LEMMA NumbersStay ==
    ASSUME ChoiceInv, [RegionsNext]_choosing
    PROVE  NumbersInv'
<1> DEFINE Same == world' = world /\ needs' = needs /\ headroom' = headroom
<1>1. ASSUME Same PROVE NumbersInv'
  BY <1>1 DEF NumbersInv, ChoiceInv
<1>2. ASSUME NEW m \in Asked, Enable(m) PROVE NumbersInv'
  <2>1. "basket" \in DOMAIN needs' /\ needs'.basket = needs.basket
    BY <1>2 DEF Enable, NumbersInv, ChoiceInv
  <2>2. world' = world /\ headroom' = headroom
    BY <1>2 DEF Enable
  <2> QED
    BY <2>1, <2>2 DEF NumbersInv, ChoiceInv
<1>3. CASE Judge
  <2>1. /\ world' = world /\ needs' = needs
        /\ \/ headroom' = headroom
           \/ /\ Unanswered = {} /\ choice = "judge"
              /\ headroom' = [r \in Regions |-> IF r \in Survivors THEN probed.usage[r] ELSE 0]
    BY <1>3 DEF Judge, StepTo
  <2>2. CASE headroom' = headroom
    BY <1>1, <2>1, <2>2
  <2>3. CASE /\ Unanswered = {} /\ choice = "judge"
             /\ headroom' = [r \in Regions |-> IF r \in Survivors THEN probed.usage[r] ELSE 0]
    <3>1. \A r \in Survivors : probed.usage[r] = world.headroom[r]
      BY <2>3 DEF ChoiceInv, GateInv, Unanswered
    <3>2. \A r \in Regions : world.headroom[r] \in Int
      BY RegionsAssumption DEF ChoiceInv, NumbersInv
    <3>3. \A r \in Regions : headroom'[r] \in Int
      BY <2>3, <3>1, <3>2
    <3> QED
      BY <2>1, <3>3 DEF ChoiceInv, NumbersInv
  <2> QED
    BY <2>1, <2>2, <2>3
<1>4. ASSUME NEW f, ResourceTypes(f) PROVE Same
  BY <1>4 DEF ResourceTypes, StepTo
<1>5. ASSUME NEW f, NEW k, NEW n, Probe(k, n, f) PROVE Same
  BY <1>5 DEF Probe, StepTo
<1>6. ASSUME NEW f, Price(f) PROVE Same
  BY <1>6 DEF Price, StepTo
<1>7. CASE Discover \/ DiscoverFails \/ Metadata \/ Capabilities \/ Rank \/ UNCHANGED choosing
  BY <1>1, <1>7 DEF Discover, DiscoverFails, Metadata, Capabilities, Rank, StepTo, choosing
<1> QED
  BY <1>1, <1>2, <1>3, <1>4, <1>5, <1>6, <1>7 DEF RegionsNext

LEMMA TotalStays ==
    ASSUME ChoiceInv, [RegionsNext]_choosing
    PROVE  TotalInv'
<1>1. ASSUME choice' \notin Ranked PROVE TotalInv'
  BY <1>1 DEF TotalInv
<1>2. ASSUME NEW failing, Price(failing) PROVE TotalInv'
  <2>0. CASE choice' = "raised"
    BY <1>1, <2>0 DEF Ranked
  <2> SUFFICES ASSUME choice' # "raised" PROVE TotalInv'
    BY <2>0
  <2>1. /\ choice = "price" /\ world' = world /\ needs' = needs /\ regions' = regions /\ gate' = gate
        /\ basket' = [r \in Regions |-> IF r \in Survivors
                         THEN PriceBasket(r, {e \in needs.basket : <<r, e>> \in failing}) ELSE Nil]
    BY <1>2 DEF Price, StepTo
  <2>2. Survivors' = Survivors /\ Survivors \subseteq Regions
    BY <2>1 DEF Survivors, ChoiceInv, GateInv, Discovered, Located, Typed, Matched, Used, Judged, Priced
  <2>3. \A r : Sum(r, needs.basket)' = Sum(r, needs.basket)
    BY <2>1, Zenon DEF Sum, MapThenSumSet, MapThenFoldSet
  <2> HIDE DEF Sum
  <2>4. ASSUME NEW r \in Survivors
        PROVE  basket'[r] = Nil \/ (basket'[r] = Sum(r, needs.basket)
                                    /\ \A e \in needs.basket : world.price[r][e] \notin NoPrice)
    BY <2>1, <2>2 DEF PriceBasket
  <2> QED
    BY <2>1, <2>2, <2>3, <2>4 DEF TotalInv
<1>3. CASE Rank \/ UNCHANGED choosing
  <2>1. /\ world' = world /\ needs' = needs /\ regions' = regions /\ gate' = gate /\ basket' = basket
        /\ choice \in Ranked \/ choice' = choice
    BY <1>3 DEF Rank, StepTo, choosing, Ranked
  <2>2. Survivors' = Survivors
    BY <2>1 DEF Survivors
  <2>3. \A r : Sum(r, needs.basket)' = Sum(r, needs.basket)
    BY <2>1, Zenon DEF Sum, MapThenSumSet, MapThenFoldSet
  <2> QED
    BY <2>1, <2>2, <2>3 DEF TotalInv, ChoiceInv
<1>4. ASSUME NEW m, Enable(m) PROVE choice' \notin Ranked
  BY <1>4 DEF Enable, Ranked
<1>5. ASSUME NEW f, ResourceTypes(f) PROVE choice' \notin Ranked
  BY <1>5 DEF ResourceTypes, StepTo, Ranked
<1>6. ASSUME NEW f, Probe("models", "usage", f) \/ Probe("usage", "judge", f) PROVE choice' \notin Ranked
  BY <1>6 DEF Probe, StepTo, Ranked
<1>7. CASE Discover \/ DiscoverFails \/ Metadata \/ Capabilities \/ Judge
  BY <1>1, <1>7 DEF Discover, DiscoverFails, Metadata, Capabilities, Judge, StepTo, Ranked
<1> QED
  BY <1>1, <1>2, <1>3, <1>4, <1>5, <1>6, <1>7 DEF RegionsNext

LEMMA ChosenStays ==
    ASSUME ChoiceInv, [RegionsNext]_choosing
    PROVE  ChosenInv'
<1>1. ASSUME decision' = decision, choice # "done" PROVE ChosenInv'
  BY <1>1 DEF ChosenInv, ChoiceInv
<1>2. CASE UNCHANGED choosing
  <2>1. Survivors' = Survivors
    BY <1>2 DEF Survivors, choosing
  <2> QED
    BY <1>2, <2>1 DEF ChosenInv, ChoiceInv, choosing
<1>3. CASE Rank
  <2>1. /\ choice = "rank" /\ regions' = regions /\ gate' = gate /\ basket' = basket
        /\ choice' = IF Survivors # {} /\ \A r \in Survivors : basket[r] = Nil THEN "raised" ELSE "done"
        /\ decision' = IF choice' = "done" /\ Survivors # {} THEN Winner ELSE decision
    BY <1>3 DEF Rank, StepTo
  <2>2. decision = Nil /\ Survivors' = Survivors
    BY <2>1 DEF ChosenInv, ChoiceInv, Survivors
  <2>3. CASE choice' = "done" /\ Survivors # {}
    <3>1. PICK p \in Survivors : basket[p] # Nil
      BY <2>1, <2>3
    <3>2. /\ Winner \in Survivors /\ basket[Winner] # Nil
          /\ \A r \in Survivors : basket[r] # Nil => basket[Winner] <= basket[r]
      BY <2>1, <3>1, WinnerIsCheapest DEF ChoiceInv, Ranked
    <3> QED
      BY <2>1, <2>2, <2>3, <3>2 DEF ChosenInv
  <2>4. CASE ~ (choice' = "done" /\ Survivors # {})
    BY <2>1, <2>2, <2>4 DEF ChosenInv
  <2> QED
    BY <2>3, <2>4
<1>4. ASSUME NEW m, Enable(m) PROVE ChosenInv'
  BY <1>1, <1>4 DEF Enable
<1>5. ASSUME NEW f, ResourceTypes(f) PROVE ChosenInv'
  BY <1>1, <1>5 DEF ResourceTypes, StepTo
<1>6. ASSUME NEW f, Probe("models", "usage", f) \/ Probe("usage", "judge", f) PROVE ChosenInv'
  BY <1>1, <1>6 DEF Probe, StepTo
<1>7. ASSUME NEW f, Price(f) PROVE ChosenInv'
  BY <1>1, <1>7 DEF Price, StepTo
<1>8. CASE Discover \/ DiscoverFails \/ Metadata \/ Capabilities \/ Judge
  BY <1>1, <1>8 DEF Discover, DiscoverFails, Metadata, Capabilities, Judge, StepTo
<1> QED
  BY <1>2, <1>3, <1>4, <1>5, <1>6, <1>7, <1>8 DEF RegionsNext

LEMMA InvIsCheapest == ChoiceInv => DecisionIsCheapest
<1> SUFFICES ASSUME ChoiceInv, decision # Nil
             PROVE  /\ \A e \in needs.basket : world.price[decision][e] \notin NoPrice
                    /\ basket[decision] = Sum(decision, needs.basket)
                    /\ \A r \in Survivors : basket[r] # Nil =>
                          Sum(decision, needs.basket) <= Sum(r, {e \in needs.basket : world.price[r][e] \notin NoPrice})
  BY DEF DecisionIsCheapest
<1>1. choice \in Ranked
  BY DEF ChoiceInv, ChosenInv, Ranked
<1>2. ASSUME NEW r \in Survivors, basket[r] # Nil
      PROVE  /\ basket[r] = Sum(r, needs.basket) /\ \A e \in needs.basket : world.price[r][e] \notin NoPrice
             /\ {e \in needs.basket : world.price[r][e] \notin NoPrice} = needs.basket
  BY <1>1, <1>2 DEF ChoiceInv, TotalInv
<1> QED
  BY <1>2 DEF ChoiceInv, ChosenInv

\* No region is lost to a probe that failed, and none wins by a price that is not known:
\* a run that ends qualifies exactly the regions that have everything (but for locations
\* that were not read), and decides for none that is dearer than another that was priced.
THEOREM ChoiceRight == RegionsSpec => []ChoiceIsRight
<1>1. RegionsInit => ChoiceInv
  BY ChoiceInvInit
<1>2. ChoiceInv /\ [RegionsNext]_choosing => ChoiceInv'
  <2>1. ChoiceInv => GateInv
    BY DEF ChoiceInv
  <2> QED
    BY <2>1, GateInvStep, NumbersStay, TotalStays, ChosenStays DEF ChoiceInv
<1>3. ChoiceInv => ChoiceIsRight
  BY InvQualifies, InvIsCheapest DEF ChoiceInv, ChoiceIsRight
<1> QED
  BY <1>1, <1>2, <1>3, PTL DEF RegionsSpec

-----------------------------------------------------------------------------
(* Boundary.  While nothing changes, what the check has read is what is    *)
(* there; once it compares, it has read all of it.                         *)

Comparing == {"compare", "identities", "details", "roles"}
Reading == {"resources", "children"} \cup Comparing
\* A check of the group that has found nothing wrong.
Clean == target = "exists" /\ violations = {}
CleanAt(places) == at \in places /\ Clean

\* How far the check is, whatever others do.
CourseInv ==
    /\ at \in {"static", "groups"} => target = "unknown"
    /\ at \in Reading => target = "exists"
    /\ target \in {"unknown", "absent", "exists"}
    /\ at # "static" /\ violations = {} => request.static
    /\ at = "done" /\ violations = {} /\ request.live => target # "unknown"
    /\ CleanAt({"children", "done"} \cup Comparing) => request.existing
\* What there may be, and that every role is somebody's.
ThereInv ==
    /\ group \in {"absent", "ours", "foreign"}
    /\ live \subseteq Scopes
    /\ \A g \in grants : g.principal # NoPrincipal
\* The group is made last.
CreatedInv == made = "created" => violations = {} /\ request.static /\ target = "absent" /\ at = "done"

\* What was found is there, with its principal if the list shows it.
FoundInv ==
    /\ DOMAIN found \subseteq live
    /\ \A s \in DOMAIN found : /\ found[s] \in {NoPrincipal, Principal[s]}
                               /\ Shown[s] = "list" => found[s] = Principal[s]
\* What the reads that are over cover was found.
CoverInv ==
    /\ live \cap Listed \subseteq DOMAIN found
    /\ reported \subseteq DOMAIN found
    /\ \A q \in Queries \ pending : live \cap Contents[q] \subseteq DOMAIN found
\* What the plan declares, one to one, of the resources themselves.
FitsLive(e) ==
    LET n == Cardinality(e.matches \cap live) IN
    \/ n = e.expected
    \/ request.readiness /\ n <= e.most
    \/ n = 0 /\ ~ e.required
LiveOneToOne ==
    /\ \A e \in Active(Declared) : FitsLive(e)
    /\ \A s \in live : Cardinality({e \in Active(Declared) : s \in e.matches}) = 1
\* Whose principal the plan's roles depend on.
Needed(s) == \E e \in Active(Declared), a \in Active(Assigned) : a.principal = e.name /\ s \in e.matches

\* While others leave the subscription alone: what was found is there, from the comparison
\* on it is all there is, and what the steps so far asked for is so.
StillInv ==
    /\ Clean => group = "ours"
    /\ target = "absent" /\ made # "created" => group = "absent"
    /\ at \in {"children"} \cup Comparing \/ CleanAt({"done"}) => FoundInv
    /\ at = "children" => CoverInv
    /\ CleanAt({"done"} \cup Comparing) => DOMAIN found = live
    /\ CleanAt({"identities", "details", "roles", "done"}) => LiveOneToOne
    /\ at \in {"details", "roles"} \/ CleanAt({"done"}) =>
          \A s \in live : Shown[s] = "identity" => s \in DOMAIN found /\ found[s] = Principal[s]
    /\ CleanAt({"roles", "done"}) => \A s \in live : Shown[s] = "detail" /\ Needed(s) => found[s] = Principal[s]
    /\ CleanAt({"done"}) => ~ RoleViolations(grants)
BoundaryInv == CourseInv /\ ThereInv /\ CreatedInv /\ (still => StillInv)

LEMMA BoundaryStarts == BoundaryInit => BoundaryInv
<1> SUFFICES ASSUME BoundaryInit PROVE BoundaryInv
  OBVIOUS
<1>1. CourseInv /\ CreatedInv
  BY DEF BoundaryInit, CourseInv, CreatedInv, CleanAt, Clean, Reading, Comparing
<1>2. ThereInv
  BY BoundaryAssumption DEF BoundaryInit, ThereInv
<1>3. StillInv
  BY DEF BoundaryInit, StillInv, CleanAt, Clean, Comparing
<1> QED
  BY <1>1, <1>2, <1>3 DEF BoundaryInv

LEMMA CourseStays ==
    ASSUME BoundaryInv, [BoundaryNext]_boundary
    PROVE  CourseInv'
<1> USE DEF CourseInv, CleanAt, Clean, Reading, Comparing, Checking, Fails
<1>0. CourseInv
  BY DEF BoundaryInv
<1>1. CASE Regroup \/ (\E s \in Scopes : Deploy(s)) \/ (\E g \in Grants : Grant(g))
  BY <1>0, <1>1 DEF Regroup, Deploy, Grant, Change
<1>2. CASE ReadFails
  BY <1>0, <1>2 DEF ReadFails
<1>3. CASE CheckStatic
  BY <1>0, <1>3 DEF CheckStatic
<1>4. CASE ReadGroups
  BY <1>0, <1>4 DEF ReadGroups
<1>5. CASE ReadResources
  BY <1>0, <1>5 DEF ReadResources
<1>6. CASE Children
  <2>1. /\ at = "children" /\ target' = target /\ request' = request
        /\ \/ at' = at /\ violations' = violations
           \/ at' = "compare" /\ violations \subseteq violations'
    BY <1>6 DEF Children, ReadPage
  <2> QED
    BY <1>0, <2>1
<1>7. CASE ChildrenRead \/ Compare \/ ReadIdentities \/ ReadDetails \/ ReadRoles
  BY <1>0, <1>7 DEF ChildrenRead, Compare, ReadIdentities, ReadDetails, ReadRoles
<1>8. ASSUME NEW dry \in BOOLEAN, Ensure(dry) PROVE CourseInv'
  BY <1>0, <1>8 DEF Ensure
<1>9. CASE UNCHANGED boundary
  BY <1>0, <1>9 DEF boundary
<1> QED
  BY <1>1, <1>2, <1>3, <1>4, <1>5, <1>6, <1>7, <1>8, <1>9 DEF BoundaryNext, CheckStep

LEMMA ThereStays ==
    ASSUME BoundaryInv, [BoundaryNext]_boundary
    PROVE  ThereInv'
<1>0. ThereInv
  BY DEF BoundaryInv
<1>1. ASSUME UNCHANGED <<group, live, grants>> PROVE ThereInv'
  BY <1>0, <1>1 DEF ThereInv
<1>2. CASE Regroup
  BY <1>0, <1>2 DEF Regroup, ThereInv
<1>3. ASSUME NEW s \in Scopes, Deploy(s) PROVE ThereInv'
  BY <1>0, <1>3 DEF Deploy, ThereInv
<1>4. ASSUME NEW g \in Grants, Grant(g) PROVE ThereInv'
  BY <1>0, <1>4, BoundaryAssumption DEF Grant, ThereInv
<1>5. CASE ReadFails \/ CheckStep
  BY <1>1, <1>5 DEF ReadFails, CheckStep, Checking, CheckStatic, ReadGroups, ReadResources, Children, ChildrenRead,
                    Compare, ReadIdentities, ReadDetails, ReadRoles
<1>6. ASSUME NEW dry \in BOOLEAN, Ensure(dry) PROVE ThereInv'
  BY <1>0, <1>6 DEF Ensure, ThereInv
<1>7. CASE UNCHANGED boundary
  BY <1>1, <1>7 DEF boundary
<1> QED
  BY <1>2, <1>3, <1>4, <1>5, <1>6, <1>7 DEF BoundaryNext

LEMMA CreatedStays ==
    ASSUME BoundaryInv, [BoundaryNext]_boundary
    PROVE  CreatedInv'
<1>0. CourseInv /\ CreatedInv
  BY DEF BoundaryInv
<1>1. CASE Regroup \/ (\E s \in Scopes : Deploy(s)) \/ (\E g \in Grants : Grant(g))
  BY <1>0, <1>1 DEF Regroup, Deploy, Grant, Change, CreatedInv
<1>2. CASE ReadFails \/ CheckStep
  BY <1>0, <1>2 DEF ReadFails, CheckStep, Checking, CheckStatic, ReadGroups, ReadResources, Children, ChildrenRead,
                    Compare, ReadIdentities, ReadDetails, ReadRoles, CreatedInv
<1>3. ASSUME NEW dry \in BOOLEAN, Ensure(dry) PROVE CreatedInv'
  BY <1>0, <1>3 DEF Ensure, CreatedInv, CourseInv
<1>4. CASE UNCHANGED boundary
  BY <1>0, <1>4 DEF boundary, CreatedInv
<1> QED
  BY <1>1, <1>2, <1>3, <1>4 DEF BoundaryNext

\* The steps of the check touch nothing of the subscription.
LEMMA StepsLook ==
    ASSUME CheckStep
    PROVE  /\ group' = group /\ live' = live /\ grants' = grants /\ still' = still
           /\ request' = request /\ made' = made
BY DEF CheckStep, Checking, CheckStatic, ReadGroups, ReadResources, Children, ChildrenRead, Compare,
       ReadIdentities, ReadDetails, ReadRoles

LEMMA SeenIsFound ==
    ASSUME FoundInv, NEW scopes, scopes \subseteq live, live' = live, Seen(scopes)
    PROVE  FoundInv' /\ DOMAIN found' = DOMAIN found \cup scopes
<1>1. /\ DOMAIN found' = DOMAIN found \cup scopes
      /\ \A s \in DOMAIN found' : found'[s] = IF s \in scopes
            THEN (IF Shown[s] \in {"list"} THEN Principal[s] ELSE NoPrincipal) ELSE found[s]
  BY DEF Seen, Known
<1> QED
  BY <1>1 DEF FoundInv

LEMMA ResourcesStill ==
    ASSUME BoundaryInv, still, ReadResources
    PROVE  StillInv'
<1>1. /\ at = "resources" /\ group' = group /\ live' = live /\ target' = target /\ made' = made
      /\ at' = IF request.existing THEN "children" ELSE "done"
      /\ violations' = violations \cup (IF request.existing THEN {} ELSE {"target-not-adopted"})
      /\ found' = Known(live \cap Listed, {"list"}) /\ pending' = Queries /\ reported' = {}
  BY DEF ReadResources, Checking, Fails
<1>2. StillInv /\ CourseInv
  BY DEF BoundaryInv
<1>3. FoundInv' /\ DOMAIN found' = live \cap Listed
  BY <1>1 DEF FoundInv, Known
<1>4. CoverInv'
  BY <1>1, <1>3 DEF CoverInv
<1> QED
  BY <1>1, <1>2, <1>3, <1>4 DEF StillInv, CourseInv, CleanAt, Clean, Comparing, Reading

LEMMA ChildrenStill ==
    ASSUME BoundaryInv, still, Children
    PROVE  StillInv'
<1> DEFINE q == CHOOSE p \in pending : TRUE
<1>1. /\ at = "children" /\ group' = group /\ live' = live /\ target' = target /\ made' = made
      /\ pending # {}
  BY DEF Children
<1>2. StillInv /\ CourseInv /\ FoundInv /\ CoverInv
  BY <1>1 DEF BoundaryInv, StillInv
<1>3. CASE at' = "compare" /\ violations' # {} /\ FoundInv'
  BY <1>1, <1>2, <1>3 DEF StillInv, CleanAt, Clean, Comparing
<1>4. CASE at' = at /\ violations' = violations /\ FoundInv' /\ CoverInv'
  BY <1>1, <1>2, <1>4 DEF StillInv, CleanAt, Clean, Comparing
<1>5. CASE q \in Single /\ live \cap Contents[q] = {}
  <2>1. at' = "compare" /\ violations' # {} /\ found' = found
    BY <1>5 DEF Children, Fails
  <2> QED
    BY <1>1, <1>2, <1>3, <2>1 DEF FoundInv
<1>6. ASSUME NEW part \in SUBSET (live \cap Contents[q]), NEW token, ReadPage(q, part, token)
      PROVE  StillInv'
  <2>1. FoundInv' /\ DOMAIN found' = DOMAIN found \cup part
    <3>1. Seen(part) /\ part \subseteq live
      BY <1>6 DEF ReadPage
    <3> QED
      BY <1>1, <1>2, <3>1, SeenIsFound
  <2>2. CASE /\ token = "none" /\ live \cap Contents[q] \subseteq reported \cup part
             /\ pending' = pending \ {q} /\ visited' = {} /\ reported' = {}
             /\ UNCHANGED <<violations, at>>
    <3> HIDE DEF q
    <3>1. CoverInv'
      BY <1>1, <1>2, <2>1, <2>2 DEF CoverInv
    <3> QED
      BY <1>4, <2>1, <2>2, <3>1
  <2>3. CASE /\ token # "none" /\ token \notin visited /\ (token \in Fresh => token # next)
             /\ visited' = visited \cup ({token} \cap Tokens) /\ reported' = reported \cup part
             /\ UNCHANGED <<pending, violations, at>>
    <3> HIDE DEF q
    <3>1. CoverInv'
      BY <1>1, <1>2, <2>1, <2>3 DEF CoverInv
    <3> QED
      BY <1>4, <2>1, <2>3, <3>1
  <2>4. CASE Fails({"declared-resource-inventory"}) /\ at' = "compare"
    BY <1>3, <2>1, <2>4 DEF Fails
  <2> QED
    BY <1>6, <2>2, <2>3, <2>4 DEF ReadPage
<1> QED
  BY <1>5, <1>6 DEF Children

\* When all reads are over what was found is what is there.
LEMMA ReadStill ==
    ASSUME BoundaryInv, still, ChildrenRead
    PROVE  StillInv'
<1>1. /\ at = "children" /\ at' = "compare" /\ group' = group /\ live' = live /\ target' = target
      /\ made' = made /\ violations' = violations /\ found' = found /\ pending = {}
  BY DEF ChildrenRead, Checking
<1>2. StillInv /\ FoundInv /\ CoverInv /\ ThereInv
  BY <1>1 DEF BoundaryInv, StillInv
<1>3. DOMAIN found = live
  <2>1. ASSUME NEW s \in live PROVE s \in DOMAIN found
    <3>1. s \in Listed \/ \E q \in Queries : s \in Contents[q]
      BY <1>2, <2>1, BoundaryAssumption DEF ThereInv
    <3> QED
      BY <1>1, <1>2, <3>1 DEF CoverInv
  <2> QED
    BY <1>2, <2>1 DEF FoundInv
<1>4. FoundInv'
  BY <1>1, <1>2 DEF FoundInv
<1> QED
  BY <1>1, <1>2, <1>3, <1>4 DEF StillInv, CleanAt, Clean, Comparing

LEMMA CompareStill ==
    ASSUME BoundaryInv, still, Compare
    PROVE  StillInv'
<1>1. /\ at = "compare" /\ at' = "identities" /\ group' = group /\ live' = live /\ target' = target
      /\ made' = made /\ found' = found /\ request' = request
      /\ violations' = violations \cup (IF OneToOne THEN {} ELSE {"declared-resource-inventory"})
  BY DEF Compare, Checking, Fails
<1>2. StillInv /\ FoundInv
  BY <1>1 DEF BoundaryInv, StillInv, Comparing
<1>3. FoundInv'
  BY <1>1, <1>2 DEF FoundInv
<1>4. Clean' => Clean /\ OneToOne /\ DOMAIN found = live
  BY <1>1, <1>2 DEF StillInv, CleanAt, Clean, Comparing
<1>5. ASSUME OneToOne, DOMAIN found = live PROVE LiveOneToOne
  BY <1>5 DEF OneToOne, LiveOneToOne, Fits, FitsLive, Matches
<1>6. LiveOneToOne' <=> LiveOneToOne
  BY <1>1 DEF LiveOneToOne, FitsLive, Active, Enabled
<1> QED
  BY <1>1, <1>2, <1>3, <1>4, <1>5, <1>6 DEF StillInv, CleanAt, Clean, Comparing

LEMMA IdentitiesStill ==
    ASSUME BoundaryInv, still, ReadIdentities
    PROVE  StillInv'
<1> DEFINE ids == {s \in live : Shown[s] = "identity"}
<1>1. /\ at = "identities" /\ at' = "details" /\ group' = group /\ live' = live /\ target' = target
      /\ made' = made /\ violations' = violations /\ request' = request
      /\ found' = [s \in DOMAIN found \cup ids |-> IF s \in ids THEN Principal[s] ELSE found[s]]
  BY DEF ReadIdentities, Checking
<1>2. StillInv /\ FoundInv
  BY <1>1 DEF BoundaryInv, StillInv, Comparing
<1>3. DOMAIN found' = DOMAIN found \cup ids /\ ids \subseteq live
  BY <1>1
<1>4. \A s \in DOMAIN found' : found'[s] = IF s \in ids THEN Principal[s] ELSE found[s]
  BY <1>1
<1>5. FoundInv'
  <2> HIDE DEF ids
  <2> QED BY <1>1, <1>2, <1>3, <1>4 DEF FoundInv
<1>6. \A s \in live : Shown[s] = "identity" => s \in DOMAIN found' /\ found'[s] = Principal[s]
  BY <1>3, <1>4
<1>7. LiveOneToOne' <=> LiveOneToOne
  BY <1>1 DEF LiveOneToOne, FitsLive, Active, Enabled
<1> HIDE DEF ids
<1>8. Clean' => Clean /\ LiveOneToOne /\ DOMAIN found' = live
  BY <1>1, <1>2, <1>3 DEF StillInv, CleanAt, Clean, Comparing
<1> QED
  BY <1>1, <1>2, <1>5, <1>6, <1>7, <1>8 DEF StillInv, CleanAt, Clean, Comparing

LEMMA DetailsStill ==
    ASSUME BoundaryInv, still, ReadDetails
    PROVE  StillInv'
<1> DEFINE named == {s \in DOMAIN found : found[s] = NoPrincipal /\
                        \E e \in Active(Declared), a \in Active(Assigned) :
                           a.principal = e.name /\ s \in e.matches}
<1>1. /\ at = "details" /\ at' \in {"roles", "raised"} /\ group' = group /\ live' = live /\ target' = target
      /\ made' = made /\ violations' = violations /\ request' = request
      /\ found' = [s \in DOMAIN found |->
                      IF s \in named /\ Shown[s] = "detail" THEN Principal[s] ELSE found[s]]
  BY DEF ReadDetails, Checking
<1>2. StillInv /\ FoundInv /\ ThereInv
  BY <1>1 DEF BoundaryInv, StillInv, Comparing
<1>3. \A s \in DOMAIN found : s \in named <=> found[s] = NoPrincipal /\ Needed(s)
  BY DEF Needed
<1> HIDE DEF named
<1>4. /\ DOMAIN found' = DOMAIN found
      /\ \A s \in DOMAIN found : found'[s] = IF s \in named /\ Shown[s] = "detail" THEN Principal[s] ELSE found[s]
  BY <1>1
<1>5. FoundInv'
  BY <1>1, <1>2, <1>4 DEF FoundInv
<1>6. \A s \in live : Shown[s] = "identity" => s \in DOMAIN found' /\ found'[s] = Principal[s]
  BY <1>1, <1>2, <1>4 DEF StillInv
<1>7. LiveOneToOne' <=> LiveOneToOne
  BY <1>1 DEF LiveOneToOne, FitsLive, Active, Enabled
<1>8. Clean' => Clean /\ LiveOneToOne /\ DOMAIN found' = live
  BY <1>1, <1>2, <1>4 DEF StillInv, CleanAt, Clean, Comparing
<1>9. \A s \in DOMAIN found : Shown[s] = "detail" /\ Needed(s) => found'[s] = Principal[s]
  BY <1>2, <1>3, <1>4 DEF FoundInv
<1>10. \A s : Needed(s)' <=> Needed(s)
  BY <1>1 DEF Needed, Active, Enabled
<1> QED
  BY <1>1, <1>2, <1>4, <1>5, <1>6, <1>7, <1>8, <1>9, <1>10 DEF StillInv, CleanAt, Clean, Comparing

\* Whatever changes neither what was found nor the subscription.
LEMMA FactsStay ==
    ASSUME UNCHANGED <<group, live, grants, request, found, pending, reported>>
    PROVE  /\ FoundInv' <=> FoundInv
           /\ CoverInv' <=> CoverInv
           /\ LiveOneToOne' <=> LiveOneToOne
           /\ \A s : Needed(s)' <=> Needed(s)
           /\ RoleViolations(grants)' <=> RoleViolations(grants)
<1>1. FoundInv' <=> FoundInv
  BY DEF FoundInv
<1>2. CoverInv' <=> CoverInv
  BY DEF CoverInv
<1>3. LiveOneToOne' <=> LiveOneToOne
  BY DEF LiveOneToOne, FitsLive, Active, Enabled
<1>4. \A s : Needed(s)' <=> Needed(s)
  BY DEF Needed, Active, Enabled
<1>5. RoleViolations(grants)' <=> RoleViolations(grants)
  BY DEF RoleViolations, Unsupplied, Supplied, Unresolved, Resolved, Ambiguous, Skipped, Waived, IsExternal,
         PrincipalsOf, ScopesOf, MayMiss, ExpectedGrants, Aliases, Active, Enabled, Matches
<1> QED
  BY <1>1, <1>2, <1>3, <1>4, <1>5

LEMMA RolesStill ==
    ASSUME BoundaryInv, still, ReadRoles
    PROVE  StillInv'
<1>1. /\ at = "roles" /\ at' = "done" /\ target' = target /\ made' = made
      /\ UNCHANGED <<group, live, grants, request, found, pending, reported>>
      /\ violations' = violations \cup (IF RoleViolations(grants) THEN {"declared-role-assignments"} ELSE {})
  BY DEF ReadRoles, Checking, Fails
<1>2. StillInv
  BY DEF BoundaryInv
<1>3. Clean' => Clean /\ ~ RoleViolations(grants)
  BY <1>1 DEF Clean
<1> QED
  BY <1>1, <1>2, <1>3, FactsStay DEF StillInv, CleanAt, Clean, Comparing

LEMMA StillStays ==
    ASSUME BoundaryInv, [BoundaryNext]_boundary, still'
    PROVE  StillInv'
<1>0. CourseInv /\ ThereInv /\ (still => StillInv)
  BY DEF BoundaryInv
<1>1. CASE Regroup \/ (\E s \in Scopes : Deploy(s)) \/ (\E g \in Grants : Grant(g))
  <2>1. at = "static" /\ at' = at /\ target' = target
    BY <1>1 DEF Regroup, Deploy, Grant, Change
  <2> QED
    BY <1>0, <2>1 DEF StillInv, CourseInv, CleanAt, Clean, Comparing
<1>2. CASE ReadFails
  <2>1. /\ target' = target /\ made' = made /\ still' = still
        /\ UNCHANGED <<group, live, grants, request, found, pending, reported>>
        /\ \/ violations' # {} /\ (at' = "done" \/ (at = "children" /\ at' = "compare"))
           \/ violations' = violations /\ at' = "raised"
    <3>1. /\ UNCHANGED <<target, found, pending, reported>>
          /\ \/ Checking("groups", "done") /\ Fails({"subscription-inventory"})
             \/ Checking("resources", "done") /\ Fails({"resource-inventory"})
             \/ Checking("children", "compare") /\ Fails({"declared-resource-inventory"})
             \/ Checking(at, "raised") /\ UNCHANGED violations
      BY <1>2 DEF ReadFails
    <3> QED
      BY <3>1 DEF Checking, Fails
  <2> QED
    BY <1>0, <2>1, FactsStay DEF StillInv, CleanAt, Clean, Comparing
<1>3. ASSUME still, CheckStep PROVE StillInv'
  <2>1. CASE CheckStatic
    <3>1. at = "static" /\ at' \in {"groups", "done", "raised"} /\ target' = target
      BY <2>1 DEF CheckStatic, Checking
    <3> QED
      BY <1>0, <3>1 DEF StillInv, CourseInv, CleanAt, Clean, Comparing
  <2>2. CASE ReadGroups
    <3>1. /\ at' = (IF group = "absent" THEN "done" ELSE "resources") /\ group' = group
          /\ target' = (IF group = "absent" THEN "absent" ELSE "exists")
          /\ violations' = violations \cup (IF group = "foreign" THEN {"target-ownership-tags"} ELSE {})
      BY <2>2 DEF ReadGroups, Checking, Fails
    <3> QED
      BY <1>0, <1>3, <3>1 DEF StillInv, ThereInv, CleanAt, Clean, Comparing
  <2> QED
    BY <1>3, <2>1, <2>2, ResourcesStill, ChildrenStill, ReadStill, CompareStill, IdentitiesStill, DetailsStill,
       RolesStill DEF CheckStep
<1>4. ASSUME NEW dry \in BOOLEAN, Ensure(dry) PROVE StillInv'
  <2>1. CASE group' = group
    <3>1. /\ target' = target /\ still' = still /\ at' = at /\ violations' = violations /\ made = "nothing"
          /\ UNCHANGED <<group, live, grants, request, found, pending, reported>>
      BY <1>4, <2>1 DEF Ensure
    <3> QED
      BY <1>0, <3>1, FactsStay DEF StillInv, CleanAt, Clean, Comparing
  <2>2. CASE group' # group
    <3>1. target # "exists" /\ target' = target /\ made' = "created" /\ at' = "done"
      BY <1>4, <2>2 DEF Ensure
    <3> QED
      BY <3>1 DEF StillInv, CleanAt, Clean, Comparing
  <2> QED
    BY <2>1, <2>2
<1>5. CASE UNCHANGED boundary
  <2>1. /\ target' = target /\ still' = still /\ at' = at /\ violations' = violations /\ made' = made
        /\ UNCHANGED <<group, live, grants, request, found, pending, reported>>
    BY <1>5 DEF boundary
  <2> QED
    BY <1>0, <2>1, FactsStay DEF StillInv, CleanAt, Clean, Comparing
<1> QED
  BY <1>1, <1>2, <1>3, <1>4, <1>5, StepsLook DEF BoundaryNext

LEMMA BoundaryKeeps == BoundaryInv /\ [BoundaryNext]_boundary => BoundaryInv'
BY CourseStays, ThereStays, CreatedStays, StillStays DEF BoundaryInv

\* The principal of a resource the plan names is the one that is known of it.
LEMMA PrincipalsKnown ==
    ASSUME BoundaryInv, still, CleanAt({"done"}), NEW s \in live, NEW e \in Active(Declared),
           NEW a \in Active(Assigned), a.principal = e.name, s \in e.matches
    PROVE  found[s] = Principal[s]
<1>1. StillInv /\ ThereInv /\ FoundInv /\ s \in DOMAIN found
  BY DEF BoundaryInv, StillInv, CleanAt
<1>2. Shown[s] \in {"list", "identity", "detail"}
  BY <1>1, BoundaryAssumption DEF ThereInv
<1>3. Shown[s] = "list" => found[s] = Principal[s]
  BY <1>1 DEF FoundInv
<1>4. Shown[s] = "identity" => found[s] = Principal[s]
  BY <1>1 DEF StillInv
<1>5. Needed(s)
  BY DEF Needed
<1>6. Shown[s] = "detail" => found[s] = Principal[s]
  BY <1>1, <1>5 DEF StillInv, CleanAt
<1> QED
  BY <1>2, <1>3, <1>4, <1>6

LEMMA CleanIsOwned == BoundaryInv => CleanMeansOwned
<1> SUFFICES ASSUME BoundaryInv, at = "done", violations = {}, request.live, still, made # "created",
                    group # "absent"
             PROVE  /\ group = "ours" /\ request.existing
                    /\ \A s \in live : InPlan(s)
                    /\ ~ request.readiness => \A e \in Active(Declared) :
                          e.required => Cardinality(e.matches \cap live) = e.expected
                    /\ \A g \in grants : g.scope # "above" => HasGrant(g)
  BY DEF CleanMeansOwned
<1>1. StillInv /\ CourseInv
  BY DEF BoundaryInv
<1>2. target = "exists" /\ CleanAt({"done"})
  BY <1>1 DEF CourseInv, StillInv, CleanAt, Clean
<1>3. group = "ours" /\ request.existing
  BY <1>1, <1>2 DEF CourseInv, StillInv, CleanAt, Clean
<1>4. LiveOneToOne /\ DOMAIN found = live /\ ~ RoleViolations(grants) /\ FoundInv
  BY <1>1, <1>2 DEF StillInv, CleanAt
<1>5. ASSUME NEW s \in live PROVE InPlan(s)
  <2>1. Cardinality({e \in Active(Declared) : s \in e.matches}) = 1
    BY <1>4 DEF LiveOneToOne
  <2>2. {e \in Active(Declared) : s \in e.matches} # {}
    BY <2>1, FS_EmptySet
  <2> QED
    BY <2>2 DEF InPlan
<1>6. ASSUME ~ request.readiness, NEW e \in Active(Declared), e.required
      PROVE  Cardinality(e.matches \cap live) = e.expected
  BY <1>4, <1>6 DEF LiveOneToOne, FitsLive
<1>7. ASSUME NEW g \in grants, g.scope # "above" PROVE HasGrant(g)
  <2>1. g \in ExpectedGrants(Resolved)
    BY <1>4, <1>7 DEF RoleViolations
  <2>2. PICK a \in Resolved : \E p \in PrincipalsOf(a), s \in ScopesOf(a) :
                                g = [principal |-> p, role |-> a.role, scope |-> s]
    BY <2>1 DEF ExpectedGrants
  <2>3. a \in Active(Assigned) /\ a.role = g.role /\ g.scope \in ScopesOf(a) /\ g.principal \in PrincipalsOf(a)
    BY <2>2 DEF Resolved
  <2>4. g.scope \in a.matches
    BY <2>3 DEF ScopesOf
  <2>5. CASE \E x \in Active(External) : x.name = a.principal /\ Supplied(x.name)
    <3>1. g.principal = Owner[a.principal]
      BY <2>3, <2>5 DEF PrincipalsOf
    <3> QED
      BY <2>3, <2>4, <2>5, <3>1 DEF HasGrant
  <2>6. CASE ~ \E x \in Active(External) : x.name = a.principal /\ Supplied(x.name)
    <3>1. /\ g.principal # NoPrincipal
          /\ \E e \in Active(Declared) : e.name = a.principal /\ \E s \in Matches(e) : g.principal = found[s]
      BY <2>3, <2>6 DEF PrincipalsOf
    <3>2. PICK e \in Active(Declared) : e.name = a.principal /\ \E s \in Matches(e) : g.principal = found[s]
      BY <3>1
    <3>3. \E s \in live \cap e.matches : Principal[s] = g.principal
      BY <1>4, <3>1, <3>2 DEF Matches, FoundInv
    <3> QED
      BY <2>3, <2>4, <3>2, <3>3 DEF HasGrant
  <2> QED
    BY <2>5, <2>6
<1> QED
  BY <1>3, <1>5, <1>6, <1>7

LEMMA CleanHasNoneAbove == BoundaryInv => NoRoleAboveGroup
<1> SUFFICES ASSUME BoundaryInv, at = "done", violations = {}, still, target = "exists",
                    NEW g \in grants, NEW a \in Active(Assigned), NEW e \in Active(Declared),
                    g.scope = "above", a.principal = e.name,
                    NEW s \in live \cap e.matches, Principal[s] = g.principal
             PROVE  FALSE
  BY DEF NoRoleAboveGroup
<1>1. CleanAt({"done"}) /\ StillInv /\ ThereInv
  BY DEF BoundaryInv, CleanAt, Clean
<1>2. DOMAIN found = live /\ ~ RoleViolations(grants)
  BY <1>1 DEF StillInv, CleanAt
<1>3. found[s] = g.principal /\ g.principal # NoPrincipal
  BY <1>1, PrincipalsKnown DEF ThereInv
<1>4. ~ \E x \in Active(External) : x.name = a.principal
  BY BoundaryAssumption DEF Active
<1>5. g.principal \in PrincipalsOf(a)
  <2>1. s \in Matches(e)
    BY <1>2 DEF Matches
  <2> QED
    BY <1>3, <1>4, <2>1 DEF PrincipalsOf
<1>6. ~ Skipped(a)
  BY <1>4, <1>5 DEF Skipped, Waived
<1>7. a \in Resolved
  BY <1>2, <1>6 DEF RoleViolations, Resolved
<1> QED
  BY <1>2, <1>5, <1>7 DEF RoleViolations, Aliases

\* A check that finds nothing wrong, in a subscription others leave alone during it, means
\* that the group is ours and all that is in it of the plan, that no role is held that the
\* plan does not give and none above the group; and nothing is made but after such a check.
THEOREM CleanCheck == BoundarySpec => []CleanIsClean
<1>1. BoundaryInv => CleanIsClean
  BY CleanIsOwned, CleanHasNoneAbove DEF CleanIsClean, CreatedWhenClean, BoundaryInv, CreatedInv
<1> QED
  BY <1>1, BoundaryStarts, BoundaryKeeps, PTL DEF BoundarySpec

-----------------------------------------------------------------------------
(* BoundaryPlan.  An address is a walk down from the group, and a scope    *)
(* that never goes up stays inside it.                                     *)

(* What a scope addresses *)

\* A set of positions has a last one.
LEMMA LastOf ==
    ASSUME NEW n \in Nat, NEW s \in SUBSET (1 .. n), s # {}
    PROVE  Max(s) \in s /\ \A x \in s : x <= Max(s)
<1> DEFINE R == {p \in s \X s : p[1] > p[2]}
<1>1. IsFiniteSet(s)
  BY FS_BoundedSetOfNaturals
<1>2. \A x, y \in s : x # y => <<x, y>> \in R \/ <<y, x>> \in R
  OBVIOUS
<1>3. \A x, y, z \in s : <<x, y>> \in R /\ <<y, z>> \in R => <<x, z>> \in R
  OBVIOUS
<1>4. \E x \in s : \A y \in s \ {x} : <<x, y>> \in R
  <2> HIDE DEF R
  <2> DEFINE t == s
  <2>1. /\ IsFiniteSet(t) /\ t # {}
        /\ \A x, y \in t : x # y => <<x, y>> \in R \/ <<y, x>> \in R
        /\ \A x, y, z \in t : <<x, y>> \in R /\ <<y, z>> \in R => <<x, z>> \in R
    BY <1>1, <1>2, <1>3
  <2> HIDE DEF t
  <2>2. \E x \in t : \A y \in t \ {x} : <<x, y>> \in R
    BY <2>1, FirstOf
  <2> QED
    BY <2>2 DEF t
<1>5. \E x \in s : \A y \in s : x >= y
  <2>1. PICK x \in s : \A y \in s \ {x} : <<x, y>> \in R
    BY <1>4
  <2>2. ASSUME NEW y \in s PROVE x >= y
    <3>1. CASE y = x
      BY <3>1
    <3>2. CASE y # x
      <4>1. <<x, y>> \in R
        BY <2>1, <3>2
      <4> QED
        BY <4>1
    <3> QED
      BY <3>1, <3>2
  <2> QED
    BY <2>2
<1>6. Max(s) \in s /\ \A y \in s : Max(s) >= y
  <2> DEFINE P(x) == x \in s /\ \A y \in s : x >= y
  <2>1. Max(s) = CHOOSE x \in s : \A y \in s : x >= y
    BY DEF Max
  <2> QED
    BY <1>5, <2>1
<1> QED
  BY <1>6

\* A name on the way: no name stays, another goes one down.
Down(path, s) == IF s = "." THEN path ELSE Append(path, s)
Below == {"subscriptions", "ours", "resourcegroups", "here"} \cup STRING
\* What is in the group.
Inside == {p \in Seq(Below) : Len(p) >= 4 /\ \A i \in 1 .. 4 : p[i] = Group[i]}

\* Where no name goes up, each prefix of the scope is resolved from the one before.
IsWalk(h, scope) ==
    h = [s \in SUBSET (1 .. Len(scope)) |->
            IF s = {} THEN Group ELSE
            IF scope[Max(s)] = ".." THEN (IF h[s \ {Max(s)}] = <<>> THEN <<>> ELSE Front(h[s \ {Max(s)}]))
            ELSE IF scope[Max(s)] = "." THEN h[s \ {Max(s)}] ELSE Append(h[s \ {Max(s)}], scope[Max(s)])]
Level(scope) == \A i \in 1 .. Len(scope) : scope[i] # ".."

LEMMA GroupIsInside == Group \in Inside /\ Len(Group) = 4
<1>1. Group \in Seq(Below) /\ Len(Group) = 4
  BY DEF Group, Below
<1>2. Len(Group) >= 4 /\ \A i \in 1 .. 4 : Group[i] = Group[i]
  BY <1>1
<1> HIDE DEF Group
<1> QED
  BY <1>1, <1>2, Zenon DEF Inside

LEMMA InsideIsBelow ==
    ASSUME NEW p \in Inside
    PROVE  IsPrefix(Group, p)
<1>1. p \in Seq(Below) /\ Len(p) >= 4 /\ Len(p) \in Nat /\ \A i \in 1 .. 4 : p[i] = Group[i]
  BY DEF Inside
<1>2. Group \in Seq(Below) /\ Len(Group) = 4
  BY GroupIsInside DEF Inside
<1>3. SubSeq(p, 1, 4) = SubSeq(Group, 1, 4)
  BY <1>1, <1>2
<1> QED
  BY <1>1, <1>2, <1>3 DEF IsPrefix

LEMMA Appended ==
    ASSUME NEW V, NEW p \in Seq(V), NEW s \in V
    PROVE  /\ Append(p, s) \in Seq(V) /\ Len(Append(p, s)) = Len(p) + 1
           /\ \A i \in 1 .. Len(p) : Append(p, s)[i] = p[i]
           /\ Append(p, s)[Len(p) + 1] = s
OBVIOUS

LEMMA DownIsInside ==
    ASSUME NEW p \in Inside, NEW s \in STRING
    PROVE  Down(p, s) \in Inside
<1>1. p \in Seq(Below) /\ Len(p) >= 4 /\ Len(p) \in Nat /\ \A i \in 1 .. 4 : p[i] = Group[i]
  BY DEF Inside
<1>2. s \in Below
  BY DEF Below
<1> DEFINE q == Append(p, s)
<1>3. q \in Seq(Below) /\ Len(q) = Len(p) + 1
  <2> DEFINE V == Below
  <2>1. p \in Seq(V) /\ s \in V
    BY <1>1, <1>2
  <2> HIDE DEF V
  <2>2. Append(p, s) \in Seq(V) /\ Len(Append(p, s)) = Len(p) + 1
    BY <2>1, Appended
  <2> QED
    BY <2>2 DEF V
<1>4. ASSUME NEW i \in 1 .. 4 PROVE q[i] = Group[i]
  <2>1. i \in 1 .. Len(p) /\ p[i] = Group[i]
    BY <1>1
  <2>2. q[i] = p[i]
    BY <1>1, <1>2, <2>1
  <2> QED
    BY <2>1, <2>2
<1> HIDE DEF q
<1>5. Len(q) >= 4 /\ \A i \in 1 .. 4 : q[i] = Group[i]
  <2>1. Len(q) >= 4
    BY <1>1, <1>3
  <2> QED
    BY <1>4, <2>1
<1>6. q \in Inside
  BY <1>3, <1>5, Zenon DEF Inside
<1>7. Down(p, s) \in {p, q}
  BY DEF Down, q
<1> QED
  BY <1>6, <1>7

\* The fold of a scope that does not go up stays inside.
LEMMA Walking ==
    ASSUME NEW scope \in Seq(STRING), Level(scope)
    PROVE  /\ \E h : IsWalk(h, scope)
           /\ \A h : IsWalk(h, scope) => \A s \in SUBSET (1 .. Len(scope)) :
                 /\ h[s] \in Inside
                 /\ h[s] = IF s = {} THEN Group ELSE Down(h[s \ {Max(s)}], scope[Max(s)])
<1> DEFINE n == Len(scope)
           S == 1 .. n
           pick == [s \in SUBSET S |-> Max(s)]
           op == [p \in S \X Inside |-> Down(p[2], scope[p[1]])]
<1>1. n \in Nat
  OBVIOUS
<1>2. IsFiniteSet(S) /\ \A s \in SUBSET S : s # {} => Max(s) \in s
  <2> HIDE DEF n
  <2>1. S \in SUBSET Nat /\ \A x \in S : x <= n
    BY <1>1
  <2>2. IsFiniteSet(S)
    <3> HIDE DEF S
    <3> QED BY <1>1, <2>1, FS_BoundedSetOfNaturals
  <2>3. ASSUME NEW s \in SUBSET S, s # {} PROVE Max(s) \in s
    BY <1>1, <2>3, LastOf
  <2> QED
    BY <2>2, <2>3
<1>3. \A i \in S : scope[i] \in STRING /\ scope[i] # ".."
  BY DEF Level
<1> HIDE DEF S, n
<1>4. Picks(pick, S) /\ \A s \in SUBSET S : pick[s] = Max(s)
  BY <1>2 DEF Picks
<1>5. op \in [S \X Inside -> Inside] /\ \A i \in S, p \in Inside : op[<<i, p>>] = Down(p, scope[i])
  BY <1>3, DownIsInside
<1>6. Group \in Inside
  BY GroupIsInside
<1> HIDE DEF pick, op
<1>7. \E h : IsWalk(h, scope)
  <2>1. PICK h : DOMAIN h = SUBSET S /\ h = [s \in SUBSET S |-> h[s]] /\ IsFold(h, pick, op, Group, S)
    BY <1>2, <1>4, FoldExists
  <2>2. Steps(h, pick, op, Group, S, Inside)
    BY <2>1 DEF IsFold, Steps
  <2>3. \A s \in SUBSET S : h[s] \in Inside
    BY <1>2, <1>4, <1>5, <1>6, <2>2, FoldType
  <2>4. ASSUME NEW s \in SUBSET S
        PROVE  h[s] = IF s = {} THEN Group ELSE Down(h[s \ {Max(s)}], scope[Max(s)])
    BY <1>2, <1>4, <1>5, <2>1, <2>3 DEF IsFold
  <2>5. ASSUME NEW s \in SUBSET S
        PROVE  h[s] = IF s = {} THEN Group ELSE
            IF scope[Max(s)] = ".." THEN (IF h[s \ {Max(s)}] = <<>> THEN <<>> ELSE Front(h[s \ {Max(s)}]))
            ELSE IF scope[Max(s)] = "." THEN h[s \ {Max(s)}] ELSE Append(h[s \ {Max(s)}], scope[Max(s)])
    <3>1. s # {} => scope[Max(s)] # ".."
      BY <1>2, <1>3
    <3> QED
      BY <2>4, <3>1 DEF Down
  <2> QED
    BY <2>1, <2>5 DEF IsWalk, S, n
<1>8. ASSUME NEW h, IsWalk(h, scope)
      PROVE  \A s \in SUBSET S : /\ h[s] \in Inside
                                 /\ h[s] = IF s = {} THEN Group ELSE Down(h[s \ {Max(s)}], scope[Max(s)])
  <2>1. ASSUME NEW s \in SUBSET S
        PROVE  h[s] = IF s = {} THEN Group ELSE Down(h[s \ {Max(s)}], scope[Max(s)])
    <3>1. s # {} => scope[Max(s)] # ".."
      BY <1>2, <1>3
    <3>2. h[s] = IF s = {} THEN Group ELSE
            IF scope[Max(s)] = ".." THEN (IF h[s \ {Max(s)}] = <<>> THEN <<>> ELSE Front(h[s \ {Max(s)}]))
            ELSE IF scope[Max(s)] = "." THEN h[s \ {Max(s)}] ELSE Append(h[s \ {Max(s)}], scope[Max(s)])
      BY <1>8 DEF IsWalk, S, n
    <3> QED
      BY <3>1, <3>2 DEF Down
  <2>2. Steps(h, pick, op, Group, S, Inside)
    <3>1. h[{}] = Group
      BY <2>1
    <3>2. ASSUME NEW s \in SUBSET S, s # {}, h[s \ {pick[s]}] \in Inside
          PROVE  h[s] = op[<<pick[s], h[s \ {pick[s]}]>>]
      <4>1. pick[s] \in S /\ pick[s] = Max(s)
        BY <1>4, <3>2 DEF Picks
      <4>2. h[s] = Down(h[s \ {Max(s)}], scope[Max(s)])
        BY <2>1, <3>2
      <4> QED
        BY <1>5, <3>2, <4>1, <4>2
    <3> QED
      BY <3>1, <3>2 DEF Steps
  <2>3. \A s \in SUBSET S : h[s] \in Inside
    BY <1>2, <1>4, <1>5, <1>6, <2>2, FoldType
  <2> QED
    BY <2>1, <2>3
<1> QED
  BY <1>7, <1>8 DEF S, n

\* An address is where the walk ends.
LEMMA AddressIsWalk ==
    ASSUME NEW e, e.scope \in Seq(STRING), ~ e.absolute
    PROVE  Address(e) = (CHOOSE h : IsWalk(h, e.scope))[1 .. Len(e.scope)]
<1>1. DOMAIN e.scope = 1 .. Len(e.scope)
  OBVIOUS
<1> QED
  BY <1>1 DEF Address, FoldLeft, MapThenFoldSet, IsWalk

LEMMA AddressInside ==
    ASSUME NEW e, e.scope \in Seq(STRING), ~ e.absolute, Level(e.scope)
    PROVE  IsPrefix(Group, Address(e))
<1> DEFINE w == CHOOSE h : IsWalk(h, e.scope)
<1>1. IsWalk(w, e.scope)
  BY Walking
<1> HIDE DEF w
<1>2. w[1 .. Len(e.scope)] \in Inside
  BY <1>1, Walking
<1>3. Address(e) = w[1 .. Len(e.scope)]
  BY AddressIsWalk DEF w
<1> QED
  BY <1>2, <1>3, InsideIsBelow

\* Without a name that stays, the scope is what follows the group.
LEMMA WalkIsScope ==
    ASSUME NEW scope \in Seq(STRING), Level(scope), \A i \in 1 .. Len(scope) : scope[i] # ".",
           NEW h, IsWalk(h, scope)
    PROVE  /\ Len(h[1 .. Len(scope)]) = 4 + Len(scope)
           /\ \A i \in 1 .. Len(scope) : h[1 .. Len(scope)][4 + i] = scope[i]
<1> DEFINE n == Len(scope)
           S == 1 .. n
           Good(k) == Len(h[1 .. k]) = 4 + k /\ \A i \in 1 .. k : h[1 .. k][4 + i] = scope[i]
           B == {s \in SUBSET S : \E k \in 0 .. n : s = 1 .. k /\ ~ Good(k)}
<1>1. /\ n \in Nat
      /\ \A s \in SUBSET S : h[s] \in Inside
      /\ \A s \in SUBSET S : h[s] = IF s = {} THEN Group ELSE Down(h[s \ {Max(s)}], scope[Max(s)])
  <2>1. n \in Nat
    OBVIOUS
  <2> QED
    BY <2>1, Walking
<1>2. \A i \in S : scope[i] \in STRING /\ scope[i] # "."
  OBVIOUS
<1> HIDE DEF n
<1>3. SUFFICES B = {}
  <2>1. B = {} => Good(n)
    <3>1. n \in 0 .. n /\ 1 .. n \in SUBSET S
      BY <1>1
    <3> HIDE DEF Good
    <3> QED BY <3>1
  <2> QED
    BY <2>1 DEF n
<1>4. SUFFICES ASSUME B # {} PROVE FALSE
  BY Zenon
<1>5. PICK s \in B : \A u \in B : u \subseteq s => u = s
  <2> HIDE DEF B
  <2>1. B \subseteq SUBSET S
    BY DEF B
  <2>2. IsFiniteSet(S)
    <3>1. S \in SUBSET Nat /\ \A x \in S : x <= n
      BY <1>1
    <3> HIDE DEF S
    <3> QED BY <1>1, <3>1, FS_BoundedSetOfNaturals
  <2> HIDE DEF S
  <2> QED
    BY <1>4, <2>1, <2>2, LeastSet
<1>6. PICK k \in 0 .. n : s = 1 .. k /\ ~ Good(k)
  BY <1>5
<1>7. k # 0
  <2>1. ASSUME k = 0 PROVE Good(k)
    <3>1. 1 .. k = {}
      BY <2>1
    <3>2. h[1 .. k] = Group
      BY <1>1, <3>1
    <3> QED
      BY <2>1, <3>1, <3>2, GroupIsInside
  <2> QED
    BY <1>6, <2>1
<1> DEFINE j == k - 1
           before == h[1 .. j]
<1>8. j \in 0 .. n /\ k \in 1 .. n /\ k = j + 1 /\ k \in Nat /\ j \in Nat
  BY <1>1, <1>6, <1>7
<1>9. Max(1 .. k) = k
  <2>1. 1 .. k \in SUBSET (1 .. k) /\ 1 .. k # {} /\ k \in 1 .. k
    <3>1. k >= 1 /\ k \in Nat
      BY <1>1, <1>8
    <3>2. k \in 1 .. k
      BY <3>1
    <3> QED
      BY <3>2, Zenon
  <2>2. Max(1 .. k) \in 1 .. k /\ \A x \in 1 .. k : x <= Max(1 .. k)
    BY <1>8, <2>1, LastOf
  <2> QED
    BY <1>8, <2>1, <2>2
<1>10. (1 .. k) \ {k} = 1 .. j
  BY <1>8
<1>11. Good(j)
  <2>1. 1 .. j \subseteq s /\ 1 .. j # s
    BY <1>6, <1>8
  <2>2. 1 .. j \in SUBSET S
    BY <1>1, <1>8
  <2> HIDE DEF Good, S, j
  <2> QED
    BY <1>5, <1>8, <2>1, <2>2
<1>12. h[1 .. k] = Append(before, scope[k])
  <2>1. 1 .. k \in SUBSET S /\ 1 .. k # {} /\ k \in S
    <3>1. k >= 1 /\ k \in Nat /\ k <= n
      BY <1>1, <1>8
    <3>2. k \in 1 .. k /\ k \in S
      BY <1>1, <3>1
    <3>3. 1 .. k \subseteq S
      BY <1>1, <3>1
    <3> QED
      BY <3>2, <3>3, Zenon
  <2>2. h[1 .. k] = Down(before, scope[k])
    BY <1>1, <1>9, <1>10, <2>1
  <2> QED
    BY <1>2, <2>1, <2>2 DEF Down
<1>13. before \in Seq(Below) /\ Len(before) = 4 + j /\ \A i \in 1 .. j : before[4 + i] = scope[i]
  <2>1. before \in Inside
    <3>1. 1 .. j \in SUBSET S
      BY <1>1, <1>8
    <3> QED
      BY <1>1, <3>1
  <2> QED
    BY <1>11, <2>1 DEF Inside
<1> HIDE DEF before
<1>14. /\ Len(Append(before, scope[k])) = Len(before) + 1
       /\ \A i \in 1 .. Len(before) : Append(before, scope[k])[i] = before[i]
       /\ Append(before, scope[k])[Len(before) + 1] = scope[k]
  <2>1. scope[k] \in Below
    BY <1>2, <1>8 DEF Below
  <2> QED
    BY <1>13, <2>1, Appended
<1>15. Good(k)
  <2> DEFINE after == h[1 .. k]
  <2>1. Len(after) = 4 + k
    BY <1>8, <1>12, <1>13, <1>14
  <2>2. ASSUME NEW i \in 1 .. k PROVE after[4 + i] = scope[i]
    <3>1. CASE i = k
      BY <1>8, <1>12, <1>13, <1>14, <3>1
    <3>2. CASE i # k
      <4>1. i \in 1 .. j /\ 4 + i \in 1 .. Len(before)
        BY <1>8, <1>13, <3>2
      <4> QED
        BY <1>12, <1>13, <1>14, <4>1
    <3> QED
      BY <3>1, <3>2
  <2> QED
    BY <2>1, <2>2
<1> QED
  BY <1>6, <1>15

LEMMA AddressIsOwn ==
    ASSUME NEW e, e.scope \in Seq(STRING), ~ e.absolute, Level(e.scope), "." \notin Names(e),
           NEW f, f.scope \in Seq(STRING), ~ f.absolute, Level(f.scope), "." \notin Names(f),
           Address(e) = Address(f)
    PROVE  e.scope = f.scope
<1>1. ASSUME NEW x, x.scope \in Seq(STRING), ~ x.absolute, Level(x.scope), "." \notin Names(x)
      PROVE  /\ Len(Address(x)) = 4 + Len(x.scope)
             /\ \A i \in 1 .. Len(x.scope) : Address(x)[4 + i] = x.scope[i]
  <2> DEFINE w == CHOOSE h : IsWalk(h, x.scope)
  <2>1. IsWalk(w, x.scope)
    BY <1>1, Walking
  <2>2. \A i \in 1 .. Len(x.scope) : x.scope[i] # "."
    BY <1>1 DEF Names, ToSet
  <2>3. Address(x) = w[1 .. Len(x.scope)]
    BY <1>1, AddressIsWalk
  <2> HIDE DEF w
  <2> QED
    BY <1>1, <2>1, <2>2, <2>3, WalkIsScope
<1>2. /\ Len(Address(e)) = 4 + Len(e.scope) /\ \A i \in 1 .. Len(e.scope) : Address(e)[4 + i] = e.scope[i]
      /\ Len(Address(f)) = 4 + Len(f.scope) /\ \A i \in 1 .. Len(f.scope) : Address(f)[4 + i] = f.scope[i]
  BY <1>1
<1>3. Len(e.scope) = Len(f.scope) /\ \A i \in 1 .. Len(e.scope) : e.scope[i] = f.scope[i]
  BY <1>2
<1> QED
  BY <1>3

-----------------------------------------------------------------------------
(* The check of a plan *)

PlanInv == plan \in Plans /\ (checked = {} => \A c \in Checks : Passes(c))

LEMMA PlanKeeps == PlanInv /\ [PlanNext]_planning => PlanInv'
<1> SUFFICES ASSUME PlanInv, [PlanNext]_planning PROVE PlanInv'
  OBVIOUS
<1>1. plan' = plan
  BY DEF PlanNext, CheckPlan, planning
<1>2. \A c : Passes(c)' <=> Passes(c)
  BY <1>1 DEF Passes, ModulesKnown, Relative, Names, ScopesUnique, Created, Entries, RoleInside, Widens,
              TargetsDeclared, TornDown
<1>3. checked' = checked \/ checked' = {c \in Checks : ~ Passes(c)}
  BY DEF PlanNext, CheckPlan, planning
<1> QED
  BY <1>1, <1>2, <1>3 DEF PlanInv

\* What a plan that passes all its checks has.
LEMMA SoundPlan ==
    ASSUME PlanInv, checked = {}
    PROVE  /\ \A e \in plan.entries : Relative(e) /\ e.scope \in Seq(STRING) /\ Level(e.scope)
           /\ \A e \in Entries({"role_assignments"}) : RoleInside(e)
           /\ ScopesUnique /\ TornDown /\ \A e \in Created : ~ e.reuse
<1>1. Passes("scopes") /\ Passes("roles") /\ Passes("unique") /\ Passes("teardown") /\ Passes("reuse")
  BY DEF PlanInv, Checks
<1>2. /\ \A e \in plan.entries : Relative(e)
      /\ \A e \in Entries({"role_assignments"}) : RoleInside(e)
      /\ ScopesUnique /\ TornDown /\ \A e \in Created : ~ e.reuse
  BY <1>1 DEF Passes
<1>3. ASSUME NEW e \in plan.entries PROVE e.scope \in Seq(STRING) /\ Level(e.scope)
  <2>1. e.scope \in Seq(STRING)
    BY PlansAssumption DEF PlanInv
  <2>2. ".." \notin {e.scope[i] : i \in DOMAIN e.scope}
    BY <1>2, PlansAssumption DEF Relative, Names, ToSet
  <2> QED
    BY <2>1, <2>2 DEF Level
<1> QED
  BY <1>2, <1>3

LEMMA SoundIsOurs == PlanInv => SoundPlanIsOurs
<1> SUFFICES ASSUME PlanInv, checked = {} PROVE SoundPlanIsOurs
  BY DEF SoundPlanIsOurs, SoundPlanStaysInside, SoundPlanIsRemovable
<1>1. ASSUME NEW e \in plan.entries
      PROVE  /\ IsPrefix(Group, Address(e))
             /\ e.section = "role_assignments" => Len(e.scope) > 1 \/ e.scope[1] \notin Wide
  <2>1. Relative(e) /\ e.scope \in Seq(STRING) /\ Level(e.scope)
    BY SoundPlan
  <2>2. IsPrefix(Group, Address(e))
    BY <2>1, AddressInside DEF Relative
  <2>3. Len(e.scope) \in Nat /\ Len(e.scope) # 0
    <3>1. e.scope # <<>>
      BY <2>1 DEF Relative
    <3> DEFINE scope == e.scope
    <3>2. scope \in Seq(STRING) /\ scope # <<>>
      BY <2>1, <3>1
    <3> HIDE DEF scope
    <3>3. Len(scope) \in Nat /\ Len(scope) # 0
      BY <3>2
    <3> QED
      BY <3>3 DEF scope
  <2>4. e.section = "role_assignments" => ~ (Len(e.scope) = 1 /\ e.scope[1] \in Wide)
    BY <2>1, SoundPlan DEF Entries, RoleInside, Widens, Relative
  <2>5. Len(e.scope) > 1 \/ Len(e.scope) = 1
    <3> DEFINE n == Len(e.scope)
    <3>1. n \in Nat /\ n # 0
      BY <2>3
    <3> HIDE DEF n
    <3>2. n > 1 \/ n = 1
      BY <3>1
    <3> QED
      BY <3>2 DEF n
  <2> QED
    BY <2>2, <2>4, <2>5
<1>2. ASSUME plan.teardown, NEW e \in Created
      PROVE  /\ ~ e.reuse
             /\ \A f \in Created : Address(f) = Address(e) => f = e \/ "." \in Names(e) \cup Names(f)
             /\ \E t \in Entries({"teardown"}) : t.group \/ t.name = e.name
  <2>1. ~ e.reuse
    BY SoundPlan
  <2>2. \E t \in Entries({"teardown"}) : t.group \/ t.name = e.name
    BY <1>2, SoundPlan DEF TornDown
  <2>3. ASSUME NEW f \in Created, Address(f) = Address(e), "." \notin Names(e) \cup Names(f)
        PROVE  f = e
    <3>1. /\ Relative(e) /\ e.scope \in Seq(STRING) /\ Level(e.scope)
          /\ Relative(f) /\ f.scope \in Seq(STRING) /\ Level(f.scope)
      BY SoundPlan DEF Created, Entries
    <3>2. e.scope = f.scope
      BY <2>3, <3>1, AddressIsOwn DEF Relative
    <3> QED
      BY <3>2, SoundPlan DEF ScopesUnique
  <2> QED
    BY <2>1, <2>2, <2>3
<1> QED
  BY <1>1, <1>2 DEF SoundPlanIsOurs, SoundPlanStaysInside, SoundPlanIsRemovable

\* Whatever plan passes its static checks names nothing outside the group, gives no role
\* above it, and all that it makes is made once and can be removed.
THEOREM SoundPlans == PlanSpec => []SoundPlanIsOurs
<1>1. PlanInit => PlanInv
  BY PlansAssumption DEF PlanInit, PlanInv
<1> QED
  BY <1>1, PlanKeeps, SoundIsOurs, PTL DEF PlanSpec

-----------------------------------------------------------------------------
(* Prices, the tiers.  One unit more is priced by the last tier that       *)
(* begins below it, so the marginal sum over the tiers is the sum over the *)
(* units.                                                                  *)

\* A set of numbers has a least one.
LEMMA LeastNumber ==
    ASSUME NEW B \in SUBSET Nat, B # {}
    PROVE  \E m \in B : \A k \in B : m <= k
<1>1. PICK n \in B : TRUE
  OBVIOUS
<1> DEFINE L == {k \in B : k <= n}
           R == {p \in Nat \X Nat : p[1] < p[2]}
<1>2. IsFiniteSet(L) /\ L # {} /\ n \in Nat
  <2>1. n \in Nat /\ L \in SUBSET Nat /\ \A s \in L : s <= n
    BY <1>1
  <2>2. n \in L
    BY <1>1, <2>1
  <2> HIDE DEF L
  <2> QED
    BY <2>1, <2>2, FS_BoundedSetOfNaturals
<1>3. /\ \A x, y \in L : x # y => <<x, y>> \in R \/ <<y, x>> \in R
      /\ \A x, y, z \in L : <<x, y>> \in R /\ <<y, z>> \in R => <<x, z>> \in R
  OBVIOUS
<1>4. PICK m \in L : \A y \in L \ {m} : <<m, y>> \in R
  <2> HIDE DEF L, R
  <2> QED BY <1>2, <1>3, FirstOf
<1>5. ASSUME NEW k \in B PROVE m <= k
  <2>1. m \in Nat /\ k \in Nat /\ n \in Nat /\ m <= n
    BY <1>2, <1>4
  <2>2. CASE k <= n
    <3>1. k = m \/ <<m, k>> \in R
      BY <1>4, <2>2
    <3> QED
      BY <2>1, <3>1
  <2> QED
    BY <2>1, <2>2
<1> QED
  BY <1>4, <1>5

\* Tiers begin beyond F, in order, and cost P by the unit.
InOrder(F, P, n) ==
    n \in Nat /\ F \in [1 .. n -> Nat] /\ P \in [1 .. n -> Int] /\ \A j, k \in 1 .. n : j <= k => F[j] <= F[k]
\* What the unit u costs.
CostsAt(c, u, F, P, n) ==
    /\ c \in Int
    /\ \/ c = 0 /\ \A k \in 1 .. n : u <= F[k]
       \/ \E k \in 1 .. n : F[k] < u /\ (k + 1 \in 1 .. n => u <= F[k + 1]) /\ c = P[k]
\* What the k-th tier adds.
Marginal(F, P, n, q) ==
    [k \in 1 .. n |->
        IF F[k] < q THEN ((IF k + 1 \in 1 .. n /\ F[k + 1] < q THEN F[k + 1] ELSE q) - F[k]) * P[k] ELSE 0]

LEMMA MarginalIsNumber ==
    ASSUME NEW n, NEW F, NEW P, InOrder(F, P, n), NEW q \in Nat
    PROVE  \A k \in 1 .. n : Marginal(F, P, n, q)[k] \in Int
<1> USE DEF InOrder
<1> SUFFICES ASSUME NEW k \in 1 .. n PROVE Marginal(F, P, n, q)[k] \in Int
  OBVIOUS
<1> DEFINE w == (IF k + 1 \in 1 .. n /\ F[k + 1] < q THEN F[k + 1] ELSE q) - F[k]
<1>1. w \in Int /\ P[k] \in Int
  OBVIOUS
<1>2. Marginal(F, P, n, q)[k] = IF F[k] < q THEN w * P[k] ELSE 0
  BY DEF Marginal
<1> HIDE DEF w
<1>3. w * P[k] \in Int
  BY <1>1
<1> QED
  BY <1>2, <1>3

\* One unit more costs what the last tier that begins below it asks for.
LEMMA OneMore ==
    ASSUME NEW n, NEW F, NEW P, InOrder(F, P, n), NEW q \in Nat, NEW price, CostsAt(price, q + 1, F, P, n)
    PROVE  SumFunctionOnSet(Marginal(F, P, n, q + 1), 1 .. n)
              = SumFunctionOnSet(Marginal(F, P, n, q), 1 .. n) + price
<1> DEFINE f == Marginal(F, P, n, q)
           g == Marginal(F, P, n, q + 1)
           D == 1 .. n
<1> USE DEF InOrder
<1>0. /\ price \in Int
      /\ \/ price = 0 /\ \A k \in 1 .. n : q + 1 <= F[k]
         \/ \E k \in 1 .. n : F[k] < q + 1 /\ (k + 1 \in 1 .. n => q + 1 <= F[k + 1]) /\ price = P[k]
  BY DEF CostsAt
<1>1. IsFiniteSet(D) /\ q + 1 \in Nat /\ \A k \in D : f[k] \in Int /\ g[k] \in Int
  <2>1. q + 1 \in Nat /\ IsFiniteSet(D)
    BY FS_Interval
  <2>2. \A k \in D : f[k] \in Int
    BY MarginalIsNumber
  <2>3. \A k \in D : g[k] \in Int
    <3> DEFINE r == q + 1
    <3> HIDE DEF r
    <3>1. r \in Nat
      BY <2>1 DEF r
    <3>2. \A k \in D : Marginal(F, P, n, r)[k] \in Int
      BY <3>1, MarginalIsNumber
    <3> QED
      BY <3>2 DEF r
  <2> QED
    BY <2>1, <2>2, <2>3
<1>2. CASE price = 0 /\ \A k \in D : q + 1 <= F[k]
  <2>1. f = g
    BY <1>2 DEF Marginal
  <2>2. SumFunctionOnSet(f, D) \in Int
    BY <1>1, SumOfSet
  <2> HIDE DEF f, g
  <2>3. SumFunctionOnSet(g, D) = SumFunctionOnSet(f, D) + price
    BY <1>2, <2>1, <2>2
  <2> QED
    BY <2>3 DEF f, g
<1>3. ASSUME NEW k \in D, F[k] < q + 1, k + 1 \in D => q + 1 <= F[k + 1], price = P[k]
      PROVE  SumFunctionOnSet(g, D) = SumFunctionOnSet(f, D) + price
  <2>1. g[k] = f[k] + price
    <3> DEFINE a == q - F[k]
               b == P[k]
    <3>1. a \in Int /\ b \in Int /\ (q + 1) - F[k] = a + 1
      OBVIOUS
    <3>2. g[k] = (a + 1) * b
      <4> DEFINE w == IF k + 1 \in 1 .. n /\ F[k + 1] < q + 1 THEN F[k + 1] ELSE q + 1
      <4>1. g[k] = IF F[k] < q + 1 THEN (w - F[k]) * b ELSE 0
        BY DEF Marginal
      <4>2. w = q + 1
        BY <1>3
      <4> HIDE DEF w
      <4> QED
        BY <1>3, <3>1, <4>1, <4>2
    <3>3. f[k] = IF F[k] < q THEN a * b ELSE 0
      BY <1>3 DEF Marginal
    <3>4. F[k] < q \/ a = 0
      BY <1>3
    <3> HIDE DEF a, b, f, g
    <3>5. (a + 1) * b = a * b + b /\ (a = 0 => a * b = 0)
      BY <3>1
    <3>6. g[k] = f[k] + b
      BY <3>1, <3>2, <3>3, <3>4, <3>5
    <3> QED
      BY <1>3, <3>6 DEF b
  <2>2. ASSUME NEW y \in D \ {k} PROVE g[y] = f[y]
    <3>1. CASE y < k
      <4>1. y + 1 \in D /\ F[y + 1] <= q /\ F[y] <= F[y + 1]
        BY <1>3, <2>2, <3>1
      <4>2. g[y] = (F[y + 1] - F[y]) * P[y]
        BY <4>1 DEF Marginal
      <4>3. CASE F[y] < q
        BY <4>1, <4>2, <4>3 DEF Marginal
      <4>4. CASE F[y] >= q
        <5>1. F[y + 1] - F[y] = 0 /\ f[y] = 0
          BY <4>1, <4>4 DEF Marginal
        <5>2. 0 * P[y] = 0
          OBVIOUS
        <5> HIDE DEF f, g
        <5> QED BY <4>2, <5>1, <5>2
      <4> QED
        BY <4>1, <4>3, <4>4
    <3>2. CASE y > k
      <4>1. k + 1 \in D /\ F[k + 1] <= F[y]
        BY <1>3, <2>2, <3>2
      <4> QED
        BY <1>3, <4>1 DEF Marginal
    <3> QED
      BY <3>1, <3>2
  <2>3. \A y \in D : f[y] \in Int
    BY <1>1
  <2> HIDE DEF f, g, D, InOrder
  <2> QED
    BY <1>0, <1>1, <2>1, <2>2, <2>3, SumChanged
<1> QED
  BY <1>0, <1>2, <1>3

\* The marginal sum is the sum of what the units cost.
LEMMA MarginalIsCounted ==
    ASSUME NEW n, NEW F, NEW P, InOrder(F, P, n), NEW q \in Nat, NEW price,
           \A u \in 1 .. q : CostsAt(price[u], u, F, P, n)
    PROVE  SumFunctionOnSet(Marginal(F, P, n, q), 1 .. n) = SumFunctionOnSet(price, 1 .. q)
<1> DEFINE total(r) == SumFunctionOnSet(Marginal(F, P, n, r), 1 .. n)
           counted(r) == SumFunctionOnSet(price, 1 .. r)
           B == {r \in 0 .. q : total(r) # counted(r)}
<1>0. \A u \in 1 .. q : price[u] \in Int
  BY DEF CostsAt
<1>1. SUFFICES ASSUME B # {} PROVE FALSE
  BY <1>1
<1>2. PICK r \in B : \A s \in B : r <= s
  <2>1. B \in SUBSET Nat
    OBVIOUS
  <2> HIDE DEF B
  <2> QED BY <1>1, <2>1, LeastNumber
<1>3. r \in 0 .. q /\ total(r) # counted(r)
  BY <1>2
<1>4. CASE r = 0
  <2>1. Marginal(F, P, n, 0) = [k \in 1 .. n |-> 0]
    BY DEF InOrder, Marginal
  <2>2. IsFiniteSet(1 .. n) /\ 1 .. 0 = {}
    BY FS_Interval DEF InOrder
  <2> DEFINE zero == [k \in 1 .. n |-> 0]
  <2>3. SumFunctionOnSet(zero, 1 .. n) = 0
    <3>1. (\A k \in 1 .. n : zero[k] \in Int /\ zero[k] = 0) /\ {} \in SUBSET (1 .. n)
      OBVIOUS
    <3> HIDE DEF zero
    <3> DEFINE D == 1 .. n
    <3>2. IsFiniteSet(D) /\ (\A k \in D : zero[k] \in Int) /\ {} \in SUBSET D
          /\ (\A k \in {} : zero[k] = zero[k]) /\ \A k \in D \ {} : zero[k] = 0
      BY <2>2, <3>1
    <3> HIDE DEF D
    <3>3. SumFunctionOnSet(zero, D) = SumFunctionOnSet(zero, {})
      BY <3>2, SumOfPart
    <3>4. SumFunctionOnSet(zero, {}) = 0
      BY <3>2, SumOfSet
    <3> QED
      BY <3>3, <3>4 DEF D
  <2>4. SumFunctionOnSet(price, {}) = 0
    BY FS_EmptySet, SumOfSet
  <2> QED
    BY <1>3, <1>4, <2>1, <2>2, <2>3, <2>4
<1>5. CASE r # 0
  <2> DEFINE p == r - 1
  <2>1. p \in Nat /\ p + 1 = r /\ p \in 0 .. q /\ r \in 1 .. q /\ r \in Nat
    BY <1>3, <1>5
  <2>2. total(p) = counted(p)
    <3>1. p \notin B
      <4> HIDE DEF B
      <4> QED BY <1>2, <2>1
    <3> QED
      BY <2>1, <3>1
  <2> HIDE DEF p
  <2>3. total(p + 1) = total(p) + price[r]
    <3>1. CostsAt(price[r], p + 1, F, P, n)
      BY <2>1
    <3> HIDE DEF B
    <3>2. SumFunctionOnSet(Marginal(F, P, n, p + 1), 1 .. n)
             = SumFunctionOnSet(Marginal(F, P, n, p), 1 .. n) + price[r]
      BY <2>1, <3>1, OneMore
    <3> QED
      BY <3>2
  <2>4. counted(r) = price[r] + counted(p)
    <3> DEFINE D == 1 .. r
    <3>1. IsFiniteSet(D) /\ r \in D
      BY <2>1, FS_Interval
    <3>2. \A u \in D : price[u] \in Int
      BY <1>0, <2>1
    <3>3. D \ {r} = 1 .. p
      BY <2>1
    <3> HIDE DEF D, B
    <3>4. SumFunctionOnSet(price, D) = price[r] + SumFunctionOnSet(price, D \ {r})
      BY <3>1, <3>2, SumWithout, ZenonT(30)
    <3> QED
      BY <3>3, <3>4 DEF D
  <2>5. counted(p) \in Int /\ price[r] \in Int
    <3>1. IsFiniteSet(1 .. p) /\ (\A u \in 1 .. p : price[u] \in Int) /\ 1 .. p \in SUBSET (1 .. p)
      BY <1>0, <2>1, FS_Interval
    <3> QED
      BY <1>0, <2>1, <3>1, SumOfSet
  <2> HIDE DEF total, counted
  <2> QED
    BY <1>3, <2>1, <2>2, <2>3, <2>4, <2>5
<1> QED
  BY <1>4, <1>5

-----------------------------------------------------------------------------
(* Prices, the listing of a meter's tiers, from the lowest to the highest. *)

Sorted(offers, s, n) == \A j, k \in 1 .. n : j < k => Lower(offers, s[j], s[k])

\* One that is above all can be added at the end.
LEMMA ListOneMore ==
    ASSUME NEW offers, NEW D, IsFiniteSet(D), NEW x \in D, \A y \in D \ {x} : Lower(offers, y, x),
           NEW s \in Bijection(1 .. Cardinality(D \ {x}), D \ {x}),
           Sorted(offers, s, Cardinality(D \ {x}))
    PROVE  \E t \in Bijection(1 .. Cardinality(D), D) : Sorted(offers, t, Cardinality(D))
<1> DEFINE E == D \ {x}
           m == Cardinality(E)
           t == [k \in 1 .. m + 1 |-> IF k <= m THEN s[k] ELSE x]
<1>1. m \in Nat /\ Cardinality(D) = m + 1
  <2>1. IsFiniteSet(E) /\ m = Cardinality(D) - 1
    BY FS_RemoveElement
  <2>2. m \in Nat /\ Cardinality(D) \in Nat
    BY <2>1, FS_CardinalityType
  <2> QED
    BY <2>1, <2>2
<1>2. /\ s \in [1 .. m -> E] /\ (\A j, k \in 1 .. m : s[j] = s[k] => j = k)
      /\ \A e \in E : \E k \in 1 .. m : s[k] = e
  BY DEF Bijection, Injection, Surjection, IsInjective
<1>3. \A y \in E : Lower(offers, y, x)
  OBVIOUS
<1>4. Sorted(offers, s, m)
  OBVIOUS
<1>5. E \subseteq D /\ x \in D /\ x \notin E /\ \A y \in D : y = x \/ y \in E
  OBVIOUS
<1> HIDE DEF m, E
<1>6. t \in [1 .. m + 1 -> D]
  BY <1>1, <1>2, <1>5
<1>7. ASSUME NEW j \in 1 .. m + 1, NEW k \in 1 .. m + 1, t[j] = t[k] PROVE j = k
  <2>1. (j <= m => j \in 1 .. m /\ s[j] \in E) /\ (k <= m => k \in 1 .. m /\ s[k] \in E)
    BY <1>1, <1>2
  <2> QED
    BY <1>1, <1>2, <1>5, <1>7, <2>1
<1>8. ASSUME NEW y \in D PROVE \E k \in 1 .. m + 1 : t[k] = y
  <2>1. CASE y = x
    <3>1. m + 1 \in 1 .. m + 1 /\ t[m + 1] = x
      BY <1>1
    <3> QED
      BY <2>1, <3>1
  <2>2. CASE y \in E
    <3>1. PICK k \in 1 .. m : s[k] = y
      BY <1>2, <2>2
    <3>2. k \in 1 .. m + 1 /\ t[k] = s[k]
      BY <1>1, <3>1
    <3> QED
      BY <3>1, <3>2
  <2> QED
    BY <1>5, <2>1, <2>2
<1>9. Sorted(offers, t, m + 1)
  <2> SUFFICES ASSUME NEW j \in 1 .. m + 1, NEW k \in 1 .. m + 1, j < k PROVE Lower(offers, t[j], t[k])
    BY DEF Sorted
  <2>1. j \in 1 .. m /\ t[j] = s[j] /\ s[j] \in E
    BY <1>1, <1>2
  <2>2. CASE k <= m
    <3>1. k \in 1 .. m /\ t[k] = s[k]
      BY <1>1, <2>2
    <3> HIDE DEF t
    <3> QED BY <1>4, <2>1, <3>1 DEF Sorted
  <2>3. CASE ~ k <= m
    <3>1. t[k] = x
      BY <2>3
    <3> HIDE DEF t
    <3> QED BY <1>3, <2>1, <3>1
  <2> QED
    BY <2>2, <2>3
<1>10. t \in Bijection(1 .. m + 1, D)
  <2> HIDE DEF t
  <2> QED BY <1>6, <1>7, <1>8 DEF Bijection, Injection, Surjection, IsInjective
<1> QED
  BY <1>1, <1>9, <1>10

\* A listing exists, of every row that is to be listed.
LEMMA ListingIsSorted ==
    ASSUME NEW offers, NEW these, IsFiniteSet(these),
           \A i \in these : i \in Nat /\ offers[i].min \in Nat
    PROVE  /\ Listing(offers, these) \in Bijection(1 .. Cardinality(these), these)
           /\ Sorted(offers, Listing(offers, these), Cardinality(these))
<1> DEFINE Has(D) == \E s \in Bijection(1 .. Cardinality(D), D) : Sorted(offers, s, Cardinality(D))
           B == {D \in SUBSET these : ~ Has(D)}
<1>1. B = {}
  <2>1. SUFFICES ASSUME B # {} PROVE FALSE
    BY Zenon
  <2>2. PICK D \in B : \A u \in B : u \subseteq D => u = D
    <3> HIDE DEF Has
    <3>1. B \subseteq SUBSET these
      OBVIOUS
    <3> HIDE DEF B
    <3>2. \E T \in B : \A U \in B : U \subseteq T => U = T
      BY <2>1, <3>1, LeastSet
    <3> QED
      BY <3>2
  <2>3. D \in SUBSET these /\ ~ Has(D) /\ IsFiniteSet(D)
    BY <2>2, FS_Subset
  <2>4. D # {}
    <3> DEFINE none == [k \in {} |-> 0]
    <3>1. Cardinality({}) = 0 /\ 1 .. 0 = {}
      BY FS_EmptySet
    <3>2. none \in Bijection({}, {})
      BY DEF Bijection, Injection, Surjection, IsInjective
    <3>3. Sorted(offers, none, 0)
      BY DEF Sorted
    <3>4. Has({})
      <4> HIDE DEF none
      <4> QED BY <3>1, <3>2, <3>3
    <3> QED
      BY <2>3, <3>4
  <2> DEFINE R == {p \in these \X these : Lower(offers, p[2], p[1])}
  <2>5. /\ \A x, y \in D : x # y => <<x, y>> \in R \/ <<y, x>> \in R
        /\ \A x, y, z \in D : <<x, y>> \in R /\ <<y, z>> \in R => <<x, z>> \in R
    <3>1. \A x \in D : x \in these /\ x \in Nat /\ offers[x].min \in Nat
      BY <2>3
    <3>2. \A x, y \in D : <<x, y>> \in R <=> Lower(offers, y, x)
      BY <3>1
    <3>3. \A x, y \in D : x # y => Lower(offers, x, y) \/ Lower(offers, y, x)
      BY <3>1 DEF Lower
    <3>4. \A x, y, z \in D : Lower(offers, y, x) /\ Lower(offers, z, y) => Lower(offers, z, x)
      BY <3>1 DEF Lower
    <3> HIDE DEF R
    <3> QED
      BY <3>2, <3>3, <3>4
  <2>6. PICK x \in D : \A y \in D \ {x} : <<x, y>> \in R
    <3> HIDE DEF R
    <3> QED BY <2>3, <2>4, <2>5, FirstOf
  <2>7. \A y \in D \ {x} : Lower(offers, y, x)
    BY <2>6
  <2>8. D \ {x} \notin B
    <3> HIDE DEF B
    <3> QED BY <2>2, <2>6
  <2>9. PICK s \in Bijection(1 .. Cardinality(D \ {x}), D \ {x}) : Sorted(offers, s, Cardinality(D \ {x}))
    BY <2>3, <2>8
  <2> QED
    BY <2>3, <2>6, <2>7, <2>9, ListOneMore
<1>2. Has(these)
  BY <1>1
<1>3. \E s \in Bijection(1 .. Cardinality(these), these) :
         \A j, k \in DOMAIN s : j < k => Lower(offers, s[j], s[k])
  BY <1>2 DEF Sorted, Bijection, Injection
<1>4. /\ Listing(offers, these) \in Bijection(1 .. Cardinality(these), these)
      /\ \A j, k \in DOMAIN Listing(offers, these) :
            j < k => Lower(offers, Listing(offers, these)[j], Listing(offers, these)[k])
  BY <1>3 DEF Listing
<1> QED
  BY <1>4 DEF Sorted, Bijection, Injection

-----------------------------------------------------------------------------
(* Prices, the cost of a line.  The listing has the tiers in order, so     *)
(* what is added up tier by tier is what a customer counts unit by unit.   *)

\* The lesser of two numbers.
LEMMA LesserOfTwo ==
    ASSUME NEW a \in Int, NEW b \in Int
    PROVE  Min({a, b}) = IF b < a THEN b ELSE a
<1>1. \E x \in {a, b} : \A y \in {a, b} : x <= y
  OBVIOUS
<1>2. Min({a, b}) \in {a, b} /\ \A y \in {a, b} : Min({a, b}) <= y
  BY <1>1 DEF Min
<1> QED
  BY <1>2

\* Where the tiers begin in order, the cost is the marginal sum.
LEMMA CostIsMarginal ==
    ASSUME NEW n, NEW F, NEW P, InOrder(F, P, n), NEW q \in Nat, NEW tiers, DOMAIN tiers = 1 .. n,
           \A k \in 1 .. n : Floor(tiers[k]) = F[k] /\ UnitPrice(tiers[k]) = P[k]
    PROVE  Cost(tiers, q) = SumFunctionOnSet(Marginal(F, P, n, q), 1 .. n)
<1> DEFINE D == 1 .. n
           reached == {k \in DOMAIN tiers : \A j \in DOMAIN tiers : j <= k => Floor(tiers[j]) < q}
           upper(k) == IF k + 1 \in DOMAIN tiers THEN Min({q, Floor(tiers[k + 1])}) ELSE q
           g == [k \in reached |-> (upper(k) - Floor(tiers[k])) * UnitPrice(tiers[k])]
           f == Marginal(F, P, n, q)
<1> USE DEF InOrder
<1>1. Cost(tiers, q) = SumFunctionOnSet(g, reached)
  BY DEF Cost, SumFunction
<1>2. reached = {k \in D : F[k] < q}
  <2>1. ASSUME NEW k \in D PROVE (\A j \in D : j <= k => F[j] < q) <=> F[k] < q
    <3>1. ASSUME F[k] < q, NEW j \in D, j <= k PROVE F[j] < q
      <4>1. F[j] <= F[k] /\ F[j] \in Nat /\ F[k] \in Nat
        BY <3>1
      <4> QED
        BY <3>1, <4>1
    <3>2. k <= k
      OBVIOUS
    <3> QED
      BY <3>1, <3>2
  <2>2. reached = {k \in D : \A j \in D : j <= k => F[j] < q}
    OBVIOUS
  <2> HIDE DEF reached, D
  <2> QED
    BY <2>1, <2>2
<1>3. ASSUME NEW k \in reached PROVE g[k] = f[k]
  <2>1. k \in D /\ F[k] < q /\ DOMAIN tiers = D
    BY <1>2
  <2>2. upper(k) = IF k + 1 \in D /\ F[k + 1] < q THEN F[k + 1] ELSE q
    <3>1. CASE k + 1 \in D
      <4> DEFINE b == F[k + 1]
      <4>1. b \in Nat /\ Floor(tiers[k + 1]) = b /\ k + 1 \in DOMAIN tiers
        BY <2>1, <3>1
      <4>2. upper(k) = Min({q, b})
        BY <4>1
      <4> HIDE DEF b, upper, InOrder
      <4>3. Min({q, b}) = IF b < q THEN b ELSE q
        BY <4>1, LesserOfTwo
      <4> QED
        BY <3>1, <4>2, <4>3 DEF b
    <3>2. CASE k + 1 \notin D
      BY <2>1, <3>2
    <3> QED
      BY <3>1, <3>2
  <2>3. g[k] = (upper(k) - F[k]) * P[k]
    BY <2>1
  <2>4. f[k] = ((IF k + 1 \in D /\ F[k + 1] < q THEN F[k + 1] ELSE q) - F[k]) * P[k]
    BY <2>1 DEF Marginal
  <2> HIDE DEF upper, g, f
  <2> QED
    BY <2>2, <2>3, <2>4
<1>4. ASSUME NEW k \in D \ reached PROVE f[k] = 0
  BY <1>2 DEF Marginal
<1>5. IsFiniteSet(D) /\ reached \in SUBSET D
  BY <1>2, FS_Interval
<1>6. \A k \in D : f[k] \in Int
  BY MarginalIsNumber
<1>7. (\A k \in reached : g[k] = f[k]) /\ \A k \in D \ reached : f[k] = 0
  BY <1>3, <1>4
<1> HIDE DEF f, g, reached, D, InOrder
<1>8. SumFunctionOnSet(f, D) = SumFunctionOnSet(g, reached)
  BY <1>5, <1>6, <1>7, SumOfPart
<1>9. SumFunctionOnSet(f, D) = SumFunctionOnSet(Marginal(F, P, n, q), 1 .. n)
  BY DEF f, D
<1> QED
  BY <1>1, <1>8, <1>9

\* A product of natural numbers grows with them.
LEMMA TimesMonotone ==
    ASSUME NEW a \in Nat, NEW b \in Nat, NEW c \in Nat
    PROVE  a * c \in Nat /\ (a <= b => a * c <= b * c)
OBVIOUS

\* A set of numbers that goes no higher than n has a greatest one.
LEMMA GreatestNumber ==
    ASSUME NEW n \in Nat, NEW B \in SUBSET (1 .. n), B # {}
    PROVE  \E m \in B : \A k \in B : k <= m
<1> DEFINE A == {n - k : k \in B}
<1>1. A \in SUBSET Nat /\ A # {}
  <2>1. \A k \in B : k \in 1 .. n /\ n - k \in Nat
    OBVIOUS
  <2>2. PICK k \in B : TRUE
    OBVIOUS
  <2>3. n - k \in A
    OBVIOUS
  <2> QED
    BY <2>1, <2>3
<1>2. PICK a \in A : \A x \in A : a <= x
  <2> HIDE DEF A
  <2> QED BY <1>1, LeastNumber
<1>3. PICK m \in B : a = n - m
  BY <1>2
<1>4. ASSUME NEW k \in B PROVE k <= m
  <2>1. n - k \in A
    OBVIOUS
  <2>2. n - m <= n - k
    <3> HIDE DEF A
    <3> QED BY <1>2, <1>3, <2>1
  <2> QED
    BY <2>2
<1> QED
  BY <1>4

\* The rows that are priced: those that fit, of the newest date.
Current(offers, item) == Newest(offers, Fitting(offers, item))

\* Where the tiers are found, the rows that are priced are of one meter.
LEMMA OneMeter ==
    ASSUME NEW offers, NEW item, Quoted(offers, item), TiersOf(offers, item) # <<>>
    PROVE  \A i, j \in Fitting(offers, item) : offers[i].meter = offers[j].meter
<1> DEFINE fit == Fitting(offers, item)
           meters == {offers[i].meter : i \in fit}
           f == [i \in fit |-> offers[i].meter]
<1>1. Cardinality(meters) = 1
  BY DEF TiersOf
<1>2. IsFiniteSet(fit)
  <2>1. fit \in SUBSET (1 .. Len(offers)) /\ Len(offers) \in Nat
    BY DEF Quoted, Fitting
  <2>2. IsFiniteSet(1 .. Len(offers))
    BY <2>1, FS_Interval
  <2> HIDE DEF fit
  <2> QED
    BY <2>1, <2>2, FS_Subset
<1>3. f \in Surjection(fit, meters)
  BY DEF Surjection
<1>4. IsFiniteSet(meters)
  <2> HIDE DEF f, fit, meters
  <2> QED BY <1>2, <1>3, FS_Surjection
<1>5. PICK m : meters = {m}
  <2> HIDE DEF meters
  <2> QED BY <1>1, <1>4, FS_Singleton
<1> HIDE DEF fit
<1>6. \A i \in fit : offers[i].meter = m
  BY <1>5
<1> QED
  BY <1>6 DEF fit

\* The tiers begin in order, and they are the rows that are priced.
LEMMA TiersInOrder ==
    ASSUME NEW offers, NEW item, Quoted(offers, item), TiersOf(offers, item) # <<>>
    PROVE  LET tiers == TiersOf(offers, item)
               these == Current(offers, item)
           IN  \E n \in Nat :
                  /\ DOMAIN tiers = 1 .. n
                  /\ \A k \in 1 .. n : \E i \in these : tiers[k] = offers[i]
                  /\ \A i \in these : \E k \in 1 .. n : tiers[k] = offers[i]
                  /\ \A j, k \in 1 .. n : j <= k => tiers[j].min <= tiers[k].min
<1> DEFINE tiers == TiersOf(offers, item)
           these == Current(offers, item)
           n == Cardinality(these)
           s == Listing(offers, these)
<1>1. IsFiniteSet(these) /\ \A i \in these : i \in Nat /\ offers[i].min \in Nat
  <2>1. these \in SUBSET (1 .. Len(offers)) /\ Len(offers) \in Nat
    BY DEF Quoted, Current, Newest, Fitting
  <2>2. IsFiniteSet(1 .. Len(offers)) /\ DOMAIN offers = 1 .. Len(offers)
    BY <2>1, FS_Interval DEF Quoted
  <2>3. \A i \in DOMAIN offers : offers[i].min \in Nat
    BY DEF Quoted
  <2> HIDE DEF these
  <2>4. IsFiniteSet(these)
    BY <2>1, <2>2, FS_Subset
  <2>5. \A i \in these : i \in 1 .. Len(offers)
    BY <2>1
  <2> QED
    BY <2>1, <2>2, <2>3, <2>4, <2>5
<1>2. n \in Nat
  <2> HIDE DEF these
  <2> QED BY <1>1, FS_CardinalityType
<1>3. s \in Bijection(1 .. n, these) /\ Sorted(offers, s, n)
  <2> HIDE DEF these
  <2> QED BY <1>1, ListingIsSorted
<1>4. tiers = [k \in DOMAIN s |-> offers[s[k]]]
  BY DEF TiersOf, Current
<1> HIDE DEF tiers, these, n, s
<1>5. s \in [1 .. n -> these] /\ \A i \in these : \E k \in 1 .. n : s[k] = i
  BY <1>3 DEF Bijection, Injection, Surjection
<1>6. DOMAIN tiers = 1 .. n /\ \A k \in 1 .. n : tiers[k] = offers[s[k]] /\ s[k] \in these
  BY <1>4, <1>5
<1>7. ASSUME NEW j \in 1 .. n, NEW k \in 1 .. n, j <= k PROVE tiers[j].min <= tiers[k].min
  <2>1. offers[s[j]].min \in Nat /\ offers[s[k]].min \in Nat
    BY <1>1, <1>6
  <2>2. CASE j = k
    BY <1>6, <2>1, <2>2
  <2>3. CASE j # k
    <3>1. j < k
      BY <1>2, <1>7, <2>3
    <3>2. Lower(offers, s[j], s[k])
      BY <1>3, <3>1 DEF Sorted
    <3>3. offers[s[j]].min <= offers[s[k]].min
      BY <2>1, <3>2 DEF Lower
    <3> QED
      BY <1>6, <3>3
  <2> QED
    BY <2>2, <2>3
<1>8. /\ \A k \in 1 .. n : \E i \in these : tiers[k] = offers[i]
      /\ \A i \in these : \E k \in 1 .. n : tiers[k] = offers[i]
  BY <1>5, <1>6
<1> QED
  BY <1>2, <1>6, <1>7, <1>8 DEF tiers, these

\* A line costs what a customer counts, unit by unit.
LEMMA CostIsCountedOut ==
    ASSUME NEW item, Quoted(catalogue[item.filter], item), item.quantity \in Nat,
           TiersOf(catalogue[item.filter], item) # <<>>, Scale \in Nat
    PROVE  Cost(TiersOf(catalogue[item.filter], item), item.quantity) = CountedOut(item)
<1> DEFINE offers == catalogue[item.filter]
           q == item.quantity
           tiers == TiersOf(offers, item)
           these == Current(offers, item)
           shown == {offers[i] : i \in {j \in DOMAIN offers : offers[j].named /\ (offers[j].term => item.term)}}
           current == {t \in shown : \A s \in shown : s.date <= t.date}
           price == [u \in 1 .. q |-> PriceOfUnit(u, current)]
<1>1. CountedOut(item) = SumFunctionOnSet(price, 1 .. q)
  BY DEF CountedOut, SumFunction
<1>2. current = {offers[i] : i \in these}
  <2>1. shown = {offers[i] : i \in Fitting(offers, item)}
    BY DEF Fitting
  <2>2. these = {i \in Fitting(offers, item) : \A j \in Fitting(offers, item) : offers[j].date <= offers[i].date}
    BY DEF Current, Newest
  <2> HIDE DEF shown, these
  <2> QED
    BY <2>1, <2>2
<1>3. PICK n \in Nat :
         /\ DOMAIN tiers = 1 .. n
         /\ \A k \in 1 .. n : \E i \in these : tiers[k] = offers[i]
         /\ \A i \in these : \E k \in 1 .. n : tiers[k] = offers[i]
         /\ \A j, k \in 1 .. n : j <= k => tiers[j].min <= tiers[k].min
  BY TiersInOrder
<1> DEFINE D == 1 .. n
<1>4. \A i \in these : /\ i \in DOMAIN offers /\ offers[i].min \in Nat /\ offers[i].unit \in Nat \ {0}
                       /\ offers[i].price \in Int
  BY DEF Quoted, Current, Newest, Fitting
<1>5. \A i, j \in these : /\ offers[i].unit = offers[j].unit
                          /\ offers[i].min = offers[j].min => offers[i].price = offers[j].price
  <2>1. \A i, j \in these : offers[i].meter = offers[j].meter
    BY OneMeter DEF Current, Newest
  <2>2. \A i, j \in these : offers[i].meter = offers[j].meter =>
           offers[i].unit = offers[j].unit /\ (offers[i].min = offers[j].min => offers[i].price = offers[j].price)
    BY DEF Quoted, Current
  <2> HIDE DEF these, offers
  <2> QED
    BY <2>1, <2>2
<1> HIDE DEF these, offers, tiers, shown, current
<1>6. /\ \A k \in D : tiers[k].min \in Nat /\ tiers[k].unit \in Nat \ {0} /\ tiers[k].price \in Int
      /\ \A k \in D : tiers[k] \in current
      /\ \A j, k \in D : /\ tiers[j].unit = tiers[k].unit
                         /\ tiers[j].min = tiers[k].min => tiers[j].price = tiers[k].price
      /\ \A t \in current : \E k \in D : t = tiers[k]
  <2>1. \A k \in D : \E i \in these : tiers[k] = offers[i]
    BY <1>3
  <2>2. ASSUME NEW k \in D
        PROVE  /\ tiers[k].min \in Nat /\ tiers[k].unit \in Nat \ {0} /\ tiers[k].price \in Int
               /\ tiers[k] \in current
    <3>1. PICK i \in these : tiers[k] = offers[i]
      BY <2>1
    <3> QED
      BY <1>2, <1>4, <3>1
  <2>3. ASSUME NEW j \in D, NEW k \in D
        PROVE  /\ tiers[j].unit = tiers[k].unit
               /\ tiers[j].min = tiers[k].min => tiers[j].price = tiers[k].price
    <3>1. PICK x \in these : tiers[j] = offers[x]
      BY <2>1
    <3>2. PICK y \in these : tiers[k] = offers[y]
      BY <2>1
    <3> QED
      BY <1>5, <3>1, <3>2
  <2>4. \A t \in current : \E k \in D : t = tiers[k]
    BY <1>2, <1>3
  <2> QED
    BY <2>2, <2>3, <2>4
<1> DEFINE F == [k \in D |-> tiers[k].min * tiers[k].unit]
           P == [k \in D |-> UnitPrice(tiers[k])]
<1>7. F \in [D -> Nat]
  <2>1. \A k \in D : tiers[k].min * tiers[k].unit \in Nat
    BY <1>6, TimesMonotone
  <2> QED
    BY <2>1
<1>8. P \in [D -> Int]
  <2>1. ASSUME NEW k \in D PROVE UnitPrice(tiers[k]) \in Int
    <3> DEFINE a == tiers[k].price  b == tiers[k].unit
    <3>1. a \in Int /\ b \in Nat \ {0}
      BY <1>6
    <3> HIDE DEF a, b
    <3>2. Scale \div b \in Int
      BY <3>1
    <3> DEFINE c == Scale \div b
    <3> HIDE DEF c
    <3>3. a * c \in Int
      BY <3>1, <3>2 DEF c
    <3> QED
      BY <3>3 DEF UnitPrice, a, b, c
  <2> QED
    BY <2>1
<1>9. \A j, k \in D : j <= k => F[j] <= F[k]
  <2> SUFFICES ASSUME NEW j \in D, NEW k \in D, j <= k PROVE F[j] <= F[k]
    OBVIOUS
  <2> DEFINE a == tiers[j].min  b == tiers[k].min  c == tiers[k].unit
  <2>1. a \in Nat /\ b \in Nat /\ c \in Nat /\ tiers[j].unit = c /\ a <= b
    BY <1>3, <1>6
  <2>2. F[j] = a * c /\ F[k] = b * c
    BY <2>1
  <2> HIDE DEF a, b, c, F
  <2> QED
    BY <2>1, <2>2, TimesMonotone
<1>10. \A k \in D : Floor(tiers[k]) = F[k] /\ UnitPrice(tiers[k]) = P[k]
  BY DEF Floor
<1> HIDE DEF D
<1>11. InOrder(F, P, n)
  <2> HIDE DEF F, P
  <2> QED
    BY <1>3, <1>7, <1>8, <1>9 DEF InOrder, D
<1>12. Cost(tiers, q) = SumFunctionOnSet(Marginal(F, P, n, q), 1 .. n)
  <2> HIDE DEF F, P, q
  <2>1. DOMAIN tiers = 1 .. n /\ q \in Nat
    BY <1>3 DEF q
  <2>2. \A k \in 1 .. n : Floor(tiers[k]) = F[k] /\ UnitPrice(tiers[k]) = P[k]
    BY <1>10 DEF D
  <2> QED
    BY <1>11, <2>1, <2>2, CostIsMarginal
<1> USE DEF D
<1>13. ASSUME NEW u \in 1 .. q
       PROVE  CostsAt(price[u], u, F, P, n)
  <2>1. u \in Nat /\ price[u] = PriceOfUnit(u, current)
    OBVIOUS
  <2>2. \A t \in current : \E k \in D : t = tiers[k] /\ t.min * t.unit = F[k]
    BY <1>6
  <2>3. \A k \in D : tiers[k] \in current /\ tiers[k].min * tiers[k].unit = F[k] /\ F[k] \in Nat
    BY <1>6, <1>7
  <2>4. \A k \in D : P[k] = UnitPrice(tiers[k]) /\ P[k] \in Int
    BY <1>8
  <2> HIDE DEF F, P, price
  <2>5. CASE \A k \in D : ~ F[k] < u
    <3>1. ~ \E t \in current : t.min * t.unit < u
      BY <2>2, <2>5
    <3>2. price[u] = 0
      BY <2>1, <3>1 DEF PriceOfUnit
    <3> QED
      BY <2>1, <2>3, <2>5, <3>2 DEF CostsAt
  <2>6. CASE \E k \in D : F[k] < u
    <3> DEFINE K == {k \in D : F[k] < u}
    <3>1. PICK k \in K : \A j \in K : j <= k
      <4>1. K \in SUBSET (1 .. n) /\ K # {}
        BY <2>6
      <4> HIDE DEF K
      <4> QED BY <4>1, GreatestNumber
    <3>2. k \in D /\ F[k] < u /\ (k + 1 \in D => u <= F[k + 1])
      <4>1. k + 1 \in D => k + 1 \notin K
        <5>1. k \in Nat
          BY <3>1
        <5>2. ~ k + 1 <= k
          BY <5>1
        <5> HIDE DEF K
        <5> QED BY <3>1, <5>2
      <4>2. k + 1 \in D => F[k + 1] \in Nat
        BY <2>3
      <4> QED
        BY <2>1, <3>1, <4>1, <4>2
    <3> DEFINE InF(t) == t.min * t.unit < u /\ \A s \in current : s.min * s.unit < u => s.min <= t.min
               v == InForce(u, current)
    <3>3. InF(tiers[k])
      <4>1. ASSUME NEW s \in current, s.min * s.unit < u PROVE s.min <= tiers[k].min
        <5>1. PICK j \in D : s = tiers[j] /\ s.min * s.unit = F[j]
          BY <2>2
        <5>2. j \in K
          BY <4>1, <5>1
        <5>3. j <= k
          <6> HIDE DEF K
          <6> QED BY <3>1, <5>2
        <5> QED
          BY <1>3, <3>2, <5>1, <5>3
      <4> QED
        BY <2>3, <3>2, <4>1
    <3>4. v \in current /\ InF(v)
      <4>1. v = CHOOSE t \in current : InF(t)
        BY DEF InForce
      <4>2. tiers[k] \in current
        BY <2>3, <3>2
      <4> HIDE DEF v, InF
      <4> QED
        BY <3>3, <4>1, <4>2
    <3>5. price[u] = UnitPrice(v)
      BY <2>1, <3>4 DEF PriceOfUnit
    <3>6. PICK j \in D : v = tiers[j] /\ v.min * v.unit = F[j]
      BY <2>2, <3>4
    <3>7. tiers[j].min <= tiers[k].min /\ tiers[k].min <= tiers[j].min
      <4>1. tiers[j].min * tiers[j].unit < u /\ tiers[k].min * tiers[k].unit < u
        BY <3>3, <3>4, <3>6
      <4>2. tiers[j] \in current /\ tiers[k] \in current
        BY <2>3, <3>2
      <4> HIDE DEF v
      <4> QED BY <3>3, <3>4, <3>6, <4>1, <4>2
    <3>8. tiers[j].price = tiers[k].price /\ tiers[j].unit = tiers[k].unit
      BY <1>6, <3>2, <3>7
    <3>9. price[u] = P[k]
      <4>1. UnitPrice(tiers[j]) = UnitPrice(tiers[k])
        BY <3>8 DEF UnitPrice
      <4> QED
        BY <2>4, <3>2, <3>5, <3>6, <4>1
    <3> HIDE DEF K, v
    <3> QED
      BY <2>4, <3>2, <3>9 DEF CostsAt
  <2> QED
    BY <2>5, <2>6
<1>14. SumFunctionOnSet(Marginal(F, P, n, q), 1 .. n) = SumFunctionOnSet(price, 1 .. q)
  <2> HIDE DEF F, P, q, price, D
  <2>1. q \in Nat
    BY DEF q
  <2> QED
    BY <1>11, <1>13, <2>1, MarginalIsCounted
<1> QED
  BY <1>1, <1>12, <1>14 DEF tiers, offers

-----------------------------------------------------------------------------
(* Prices, the deadline.  A request lasts no longer than what remains or a *)
(* second, and a pause ends with the deadline.                             *)

\* The time a page has taken, with all its retries.
ElapsedInv == attempt \in 0 .. MaxRetries /\ elapsed \in Int /\ elapsed <= Deadline + 1

LEMMA PauseEnds ==
    ASSUME NEW asked \in RetryAfters \cup {NotGiven}, NEW t \in Int, attempt \in 0 .. MaxRetries
    PROVE  Pause(asked, t) \in Int /\ (Pause(asked, t) <= Remaining(t) \/ Pause(asked, t) <= 0)
<1> DEFINE a == IF asked # NotGiven THEN asked ELSE Backoff * 2 ^ attempt
           b == MaxPause
           c == Max({Remaining(t), 0})
<1>1. a \in Int /\ b \in Int /\ Deadline \in Int
  BY PricesAssumption
<1>2. Remaining(t) \in Int
  BY <1>1 DEF Remaining
<1>3. c \in Int /\ c \in {Remaining(t), 0}
  <2> DEFINE r == Remaining(t)
  <2>1. \E x \in {r, 0} : \A y \in {r, 0} : x >= y
    BY <1>2
  <2> HIDE DEF r
  <2>2. Max({r, 0}) \in {r, 0}
    BY <2>1 DEF Max
  <2> QED
    BY <1>2, <2>2 DEF r
<1> HIDE DEF a, b, c
<1>4. Min({a, b, c}) \in Int /\ Min({a, b, c}) <= c
  <2>1. \E x \in {a, b, c} : \A y \in {a, b, c} : x <= y
    BY <1>1, <1>3
  <2>2. Min({a, b, c}) \in {a, b, c} /\ \A y \in {a, b, c} : Min({a, b, c}) <= y
    BY <2>1 DEF Min
  <2> QED
    BY <1>1, <1>3, <2>2
<1>5. Pause(asked, t) = Min({a, b, c})
  BY DEF Pause, a, b, c
<1> QED
  BY <1>2, <1>3, <1>4, <1>5

LEMMA RequestEnds ==
    ASSUME ElapsedInv, NEW took \in 1 .. Timeout, Request(took)
    PROVE  /\ attempt < MaxRetries
           /\ elapsed + took <= Deadline \/ elapsed + took = Deadline + 1
<1> DEFINE r == Deadline - elapsed
           c == Max({r, 2})
<1>1. r \in Int /\ r > 0 /\ attempt < MaxRetries /\ took <= Min({Timeout, c}) /\ Timeout \in Int
  BY PricesAssumption DEF ElapsedInv, Request, Remaining
<1> HIDE DEF r
<1>2. c \in {r, 2} /\ c \in Int
  <2>1. \E x \in {r, 2} : \A y \in {r, 2} : x >= y
    BY <1>1
  <2>2. c \in {r, 2}
    BY <2>1 DEF Max
  <2> QED
    BY <1>1, <2>2
<1> HIDE DEF c
<1>3. Min({Timeout, c}) <= c /\ Min({Timeout, c}) \in Int
  <2>1. \E x \in {Timeout, c} : \A y \in {Timeout, c} : x <= y
    BY <1>1, <1>2
  <2>2. Min({Timeout, c}) \in {Timeout, c} /\ \A y \in {Timeout, c} : Min({Timeout, c}) <= y
    BY <2>1 DEF Min
  <2> QED
    BY <1>1, <1>2, <2>2
<1>4. took \in Int /\ (took <= r \/ took <= 2)
  BY <1>1, <1>2, <1>3, PricesAssumption
<1> QED
  BY <1>1, <1>4, PricesAssumption DEF r, ElapsedInv

\* A sustained throttle does not let a page take longer than its deadline, but for the
\* second the last request may always take, whatever pauses the service asks for.
THEOREM PageDeadline == PricesSpec => []DeadlineKept
<1>1. PricesInit => ElapsedInv
  BY PricesAssumption DEF PricesInit, ElapsedInv
<1>2. ElapsedInv /\ [PricesNext]_prices => ElapsedInv'
  <2> SUFFICES ASSUME ElapsedInv, [PricesNext]_prices PROVE ElapsedInv'
    OBVIOUS
  <2>1. ASSUME attempt' = 0, elapsed' = 0 PROVE ElapsedInv'
    BY <2>1, PricesAssumption DEF ElapsedInv
  <2>2. ASSUME attempt' = attempt, elapsed' = elapsed PROVE ElapsedInv'
    BY <2>2 DEF ElapsedInv
  <2>3. ASSUME NEW o \in Orders, Start(o) PROVE ElapsedInv'
    BY <2>2, <2>3 DEF Start, fetching
  <2>4. CASE Reprice
    BY <2>2, <2>4 DEF Reprice, fetching
  <2>5. CASE ReadQuery
    BY <2>1, <2>5 DEF ReadQuery
  <2>6. ASSUME NEW took \in 1 .. Timeout, NEW link \in BOOLEAN, Answer(took, link) PROVE ElapsedInv'
    BY <2>1, <2>6 DEF Answer
  <2>7. ASSUME NEW took \in 1 .. Timeout, NEW asked \in RetryAfters \cup {NotGiven}, Retry(took, asked)
        PROVE  ElapsedInv'
    <3> DEFINE t == elapsed + took
    <3>1. Request(took) /\ attempt' = attempt + 1 /\ elapsed' = t + Pause(asked, t)
      BY <2>7 DEF Retry
    <3>2. t \in Int /\ attempt < MaxRetries /\ (t <= Deadline \/ t = Deadline + 1)
      BY <3>1, RequestEnds, PricesAssumption DEF ElapsedInv
    <3>3. attempt' \in 0 .. MaxRetries
      BY <3>1, <3>2, PricesAssumption DEF ElapsedInv
    <3> HIDE DEF t
    <3>4. Pause(asked, t) \in Int /\ (Pause(asked, t) <= Remaining(t) \/ Pause(asked, t) <= 0)
      BY <3>2, PauseEnds DEF ElapsedInv
    <3>5. t + Pause(asked, t) \in Int /\ t + Pause(asked, t) <= Deadline + 1
      <4> DEFINE q == Pause(asked, t)
      <4> HIDE DEF q
      <4>1. q \in Int /\ (q <= Deadline - t \/ q <= 0)
        BY <3>4 DEF q, Remaining
      <4>2. t + q \in Int /\ t + q <= Deadline + 1
        BY <3>2, <4>1, PricesAssumption
      <4> QED
        BY <4>2 DEF q
    <3> QED
      BY <3>1, <3>3, <3>5 DEF ElapsedInv
  <2>8. CASE FetchFails \/ PriceLine \/ ResolveTiers \/ Conclude
    BY <2>2, <2>8 DEF FetchFails, PriceLine, ResolveTiers, Conclude, fetching
  <2>9. CASE UNCHANGED prices
    BY <2>2, <2>9 DEF prices, fetching
  <2> QED
    BY <2>3, <2>4, <2>5, <2>6, <2>7, <2>8, <2>9 DEF PricesNext, PricesStep
<1>3. ElapsedInv => DeadlineKept
  BY DEF ElapsedInv, DeadlineKept
<1> QED
  BY <1>1, <1>2, <1>3, PTL DEF PricesSpec

-----------------------------------------------------------------------------
(* Prices, the pages.  What was read so far is the first rows of what is   *)
(* published.                                                              *)

Lesser(a, b) == IF b < a THEN b ELSE a
FirstRows(s, all, n) == s \in Seq(Range(all)) /\ Len(s) = n /\ \A i \in 1 .. n : s[i] = all[i]

\* A page more, of which the last may be short or empty.
LEMMA PageMore ==
    ASSUME NEW all, all \in Seq(Range(all)), NEW a \in Nat, NEW b \in Nat, a <= b,
           NEW s, FirstRows(s, all, Lesser(a, Len(all)))
    PROVE  FirstRows(s \o SubSeq(all, a + 1, Lesser(b, Len(all))), all, Lesser(b, Len(all)))
<1> DEFINE S == Range(all)
           m == Len(all)
           k == Lesser(a, m)
           w == Lesser(b, m)
           t == SubSeq(all, a + 1, w)
<1>1. m \in Nat /\ DOMAIN all = 1 .. m /\ all \in [1 .. m -> S]
  BY LenProperties
<1>2. s \in Seq(S) /\ Len(s) = k /\ \A i \in 1 .. k : s[i] = all[i]
  BY DEF FirstRows
<1> SUFFICES FirstRows(s \o t, all, w)
  OBVIOUS
<1> HIDE DEF m, S
<1>3. k \in Nat /\ w \in Nat /\ k <= w /\ w <= m /\ (w > k => k = a)
  BY <1>1 DEF Lesser
<1>4. k < w \/ w < a + 1
  BY <1>1 DEF Lesser
<1> HIDE DEF k, w
<1>5. /\ t \in Seq(S) /\ Len(t) = w - k
      /\ \A i \in 1 .. w - k : t[i] = all[k + i]
  <2>1. CASE w < a + 1 /\ k = w
    <3>1. t = <<>>
      BY <1>3, <2>1, SubSeqEmpty
    <3>2. w - k = 0
      BY <1>3, <2>1
    <3> HIDE DEF t
    <3> QED
      BY <3>1, <3>2, EmptySeq
  <2>2. CASE k < w
    <3>1. k = a /\ a + 1 \in Int /\ w \in Int /\ a + 1 <= w /\ w - (a + 1) + 1 = w - k
      BY <1>3, <2>2
    <3>2. \A i \in a + 1 .. w : all[i] \in S
      BY <1>1, <1>3
    <3>3. /\ t \in Seq(S)
          /\ Len(t) = IF a + 1 <= w THEN w - (a + 1) + 1 ELSE 0
          /\ \A i \in 1 .. w - (a + 1) + 1 : t[i] = all[(a + 1) + i - 1]
      BY <3>1, <3>2, SubSeqProperties
    <3>4. \A i \in 1 .. w - k : (a + 1) + i - 1 = k + i
      BY <1>3, <3>1
    <3> HIDE DEF t
    <3> QED
      BY <3>1, <3>3, <3>4
  <2> QED
    BY <1>3, <1>4, <2>1, <2>2
<1> HIDE DEF t
<1>6. /\ s \o t \in Seq(S) /\ Len(s \o t) = Len(s) + Len(t)
      /\ \A i \in 1 .. Len(s) + Len(t) : (s \o t)[i] = IF i <= Len(s) THEN s[i] ELSE t[i - Len(s)]
  BY <1>2, <1>5, ConcatProperties
<1>7. k + (w - k) = w
  BY <1>3
<1> DEFINE c == s \o t
<1>8. c \in Seq(S) /\ Len(c) = w /\ \A i \in 1 .. w : c[i] = IF i <= k THEN s[i] ELSE t[i - k]
  BY <1>2, <1>5, <1>6, <1>7
<1> HIDE DEF c
<1>9. ASSUME NEW i \in 1 .. w PROVE c[i] = all[i]
  <2>1. CASE i <= k
    <3>1. i \in 1 .. k
      BY <1>3, <2>1
    <3> QED
      BY <1>2, <1>8, <2>1, <3>1
  <2>2. CASE ~ i <= k
    <3>1. i - k \in 1 .. w - k /\ k + (i - k) = i
      BY <1>3, <2>2
    <3> QED
      BY <1>5, <1>8, <2>2, <3>1
  <2> QED
    BY <2>1, <2>2
<1> QED
  BY <1>8, <1>9 DEF FirstRows, S, c

\* The last page completes them.
LEMMA PagesEnd ==
    ASSUME NEW all, all \in Seq(Range(all)), NEW s, NEW b \in Nat, Len(all) <= b,
           FirstRows(s, all, Lesser(b, Len(all)))
    PROVE  s = all
<1>1. Lesser(b, Len(all)) = Len(all)
  BY DEF Lesser
<1>2. s \in Seq(Range(all)) /\ Len(s) = Len(all) /\ \A i \in 1 .. Len(all) : s[i] = all[i]
  BY <1>1 DEF FirstRows
<1> QED
  BY <1>2, SeqEqual

-----------------------------------------------------------------------------
(* Prices, the verdict.  While nothing is repriced, a live run remembers   *)
(* what the publisher shows, and it has spent on each line before this one *)
(* what is due.                                                            *)

Same == order' = order /\ catalogue' = catalogue
DueOn(k) == Due(order.estimate.lines[k])
\* What the publisher shows for the line.
Today == catalogue[Item.filter]

LineInv == order \in Orders /\ catalogue \in Catalogues /\ line \in Nat \ {0}
\* What the run remembers is what is published: what it read, and nothing of the file.
MemoInv == \A f \in DOMAIN memo : memo[f] = catalogue[f]
\* Each line before this one has spent what it owes, once, and no other has.
SpentInv == spend = [k \in {j \in Owed : j < line} |-> DueOn(k)]
\* A query is for a line that has to be priced, and a run is done after the last line.
AtInv ==
    /\ step \in {"query", "get", "resolve"} => line \in Owed /\ Item.published
    /\ step = "resolve" => Item.filter \in DOMAIN memo
    /\ step = "done" => line > Len(order.estimate.lines)
\* The rows read so far are the first of what is published, as many as the pages before hold.
PagesInv ==
    step = "get" => /\ page \in 1 .. PageCap
                    /\ FirstRows(rows, Today, Lesser((page - 1) * PageRows, Len(Today)))
\* A live run that prices, while nothing was repriced under it.
Reflecting == step \notin {"idle", "raised"} /\ quiet /\ ~ order.offline
PricingInv == LineInv /\ (Reflecting => MemoInv /\ SpentInv /\ AtInv /\ PagesInv)

\* The lines of an order are a sequence.
LEMMA LinesOfOrder ==
    ASSUME NEW o \in Orders
    PROVE  Len(o.estimate.lines) \in Nat /\ DOMAIN o.estimate.lines = 1 .. Len(o.estimate.lines)
<1> DEFINE lines == o.estimate.lines
<1>1. lines \in Seq(Range(lines))
  BY CatalogueAssumption
<1> HIDE DEF lines
<1>2. Len(lines) \in Nat /\ DOMAIN lines = 1 .. Len(lines)
  BY <1>1, LenProperties
<1> QED
  BY <1>2 DEF lines

\* What is owed and due changes with the order and the catalogue only.
LEMMA DueStays ==
    ASSUME Same
    PROVE  Owed' = Owed /\ \A k : DueOn(k)' = DueOn(k)
BY DEF Same, Owed, DueOn, Due, CountedOut, Included

\* A line is done: what it owes is spent, and one that owes nothing is skipped.
LEMMA LineDone ==
    ASSUME LineInv, SpentInv, Same, line' = line + 1,
           \/ line \in Owed /\ Spends(DueOn(line))
           \/ line \notin Owed /\ spend' = spend
    PROVE  SpentInv'
<1> DEFINE before == {j \in Owed : j < line}
           after == {j \in Owed : j < line + 1}
<1>1. SpentInv' <=> spend' = [k \in after |-> DueOn(k)]
  BY DueStays DEF SpentInv
<1>2. \A j \in Owed : j \in Nat
  BY LinesOfOrder DEF LineInv, Owed
<1>3. line \in Nat
  BY DEF LineInv
<1>4. CASE line \in Owed /\ Spends(DueOn(line))
  <2>1. after = before \cup {line}
    <3>1. \A j \in Owed : j < line + 1 <=> j < line \/ j = line
      BY <1>2, <1>3
    <3> QED
      BY <1>4, <3>1
  <2>2. spend' = [k \in DOMAIN spend \cup {line} |-> IF k = line THEN DueOn(line) ELSE spend[k]]
    BY <1>4 DEF Spends, Put
  <2>3. DOMAIN spend = before /\ \A k \in before : spend[k] = DueOn(k)
    BY DEF SpentInv
  <2> HIDE DEF before, after
  <2>4. spend' = [k \in after |-> DueOn(k)]
    BY <2>1, <2>2, <2>3
  <2> QED
    BY <1>1, <2>4
<1>5. CASE line \notin Owed /\ spend' = spend
  <2>1. after = before
    BY <1>2, <1>3, <1>5
  <2> QED
    BY <1>1, <1>5, <2>1 DEF SpentInv
<1> QED
  BY <1>4, <1>5

\* What is published for a line that is priced, is sound.
LEMMA Published ==
    ASSUME LineInv, line \in Owed, Item.published
    PROVE  Item.quantity \in Nat /\ Quoted(Today, Item) /\ DueOn(line) = CountedOut(Item)
<1>1. line \in DOMAIN order.estimate.lines /\ Item.billing = "azure"
  BY DEF Owed, Item
<1>2. order \in Orders /\ catalogue \in Catalogues
  BY DEF LineInv
<1>3. Item.quantity \in Nat /\ Quoted(Today, Item)
  BY <1>1, <1>2, CatalogueAssumption DEF Item, Today
<1> QED
  BY <1>3 DEF DueOn, Due, Item

\* A live run starts with nothing remembered and nothing spent.
LEMMA StartPrices ==
    ASSUME PricingInv, NEW o \in Orders, Start(o)
    PROVE  PricingInv'
<1>1. LineInv'
  BY DEF PricingInv, LineInv, Start
<1>2. ASSUME Reflecting' PROVE (MemoInv /\ SpentInv /\ AtInv /\ PagesInv)'
  <2>1. memo' = <<>> /\ spend' = <<>> /\ line' = 1 /\ step' = "line" /\ order' = o
    BY <1>2 DEF Start, CacheOf, Reflecting
  <2>2. \A j \in Owed' : ~ j < 1
    <3>1. Owed' \subseteq 1 .. Len(o.estimate.lines) /\ Len(o.estimate.lines) \in Nat
      BY <2>1, LinesOfOrder DEF Owed
    <3> QED
      BY <3>1
  <2>3. SpentInv'
    <3>1. {j \in Owed' : j < line'} = {}
      BY <2>1, <2>2
    <3>2. spend' = [k \in {} |-> DueOn(k)']
      BY <2>1
    <3> QED
      BY <3>1, <3>2 DEF SpentInv
  <2> QED
    BY <2>1, <2>3 DEF MemoInv, AtInv, PagesInv
<1> QED
  BY <1>1, <1>2 DEF PricingInv

\* A repricing ends the claim.
LEMMA RepricePrices == ASSUME PricingInv, Reprice PROVE PricingInv'
BY DEF PricingInv, LineInv, Reprice, Reflecting

\* A line that needs no price is done, and one that needs one is queried.
LEMMA PriceLinePrices ==
    ASSUME PricingInv, PriceLine
    PROVE  PricingInv'
<1> DEFINE counted == Item.module \in Included /\ Item.billing = "azure"
           reserved == counted /\ ~ Item.published /\ Item.reserve # NotGiven
<1>1. /\ Same /\ quiet' = quiet /\ memo' = memo /\ step = "line"
      /\ line \in DOMAIN order.estimate.lines
      /\ step' \in {"raised", "query", "line"}
      /\ line' = IF step' = "line" THEN line + 1 ELSE line
      /\ IF reserved THEN Spends(Item.reserve * Scale) ELSE spend' = spend
  <2>1. order \in Orders /\ line \in Nat \ {0}
    BY DEF PricingInv, LineInv
  <2>2. Len(order.estimate.lines) \in Nat /\ DOMAIN order.estimate.lines = 1 .. Len(order.estimate.lines)
    BY <2>1, LinesOfOrder
  <2> QED
    BY <2>1, <2>2 DEF PriceLine, Later, Same
<1>2. LineInv'
  BY <1>1 DEF PricingInv, LineInv, Same
<1>3. line \in Owed <=> counted
  BY <1>1 DEF Owed, Item
<1>4. step' = "query" => counted /\ Item.published
  BY DEF PriceLine, Later
<1>5. step' = "line" => ~ counted \/ reserved
  BY DEF PriceLine, Later
<1>6. reserved => DueOn(line) = Item.reserve * Scale
  BY DEF DueOn, Due, Item
<1> HIDE DEF counted, reserved
<1>7. ASSUME Reflecting' PROVE (MemoInv /\ SpentInv /\ AtInv /\ PagesInv)'
  <2>1. Reflecting /\ step' \in {"query", "line"}
    BY <1>1, <1>7 DEF Reflecting, Same
  <2>2. LineInv /\ MemoInv /\ SpentInv
    BY <2>1 DEF PricingInv
  <2>3. MemoInv'
    BY <1>1, <2>2 DEF MemoInv, Same
  <2>4. CASE step' = "query"
    <3>1. line' = line /\ spend' = spend
      BY <1>1, <1>4, <2>4 DEF reserved
    <3>2. SpentInv'
      BY <1>1, <2>2, <3>1, DueStays DEF SpentInv
    <3>3. line' \in Owed' /\ Item'.published
      BY <1>1, <1>3, <1>4, <2>4, <3>1, DueStays DEF Item, Same
    <3> QED
      BY <2>3, <2>4, <3>2, <3>3 DEF AtInv, PagesInv
  <2>5. CASE step' = "line"
    <3>1. line' = line + 1
      BY <1>1, <2>5
    <3>2. \/ line \in Owed /\ Spends(DueOn(line))
          \/ line \notin Owed /\ spend' = spend
      BY <1>1, <1>3, <1>5, <1>6, <2>5 DEF reserved
    <3>3. SpentInv'
      BY <1>1, <2>2, <3>1, <3>2, LineDone
    <3> QED
      BY <2>3, <2>5, <3>3 DEF AtInv, PagesInv
  <2> QED
    BY <2>1, <2>4, <2>5
<1> QED
  BY <1>2, <1>7 DEF PricingInv

\* A query reads no page yet.
LEMMA ReadQueryPrices ==
    ASSUME PricingInv, ReadQuery
    PROVE  PricingInv'
<1>1. /\ Same /\ quiet' = quiet /\ memo' = memo /\ spend' = spend /\ line' = line /\ step = "query"
      /\ step' = IF Item.filter \in DOMAIN memo THEN "resolve" ELSE IF order.offline THEN "raised" ELSE "get"
      /\ rows' = <<>> /\ page' = 1
  BY DEF ReadQuery, Later, Same
<1>2. LineInv' /\ Item' = Item /\ Today' = Today
  BY <1>1 DEF PricingInv, LineInv, Same, Item, Today
<1>3. ASSUME Reflecting' PROVE (MemoInv /\ SpentInv /\ AtInv /\ PagesInv)'
  <2>1. Reflecting
    BY <1>1, <1>3 DEF Reflecting, Same
  <2>2. MemoInv /\ SpentInv /\ line \in Owed /\ Item.published
    BY <1>1, <2>1 DEF PricingInv, AtInv
  <2>3. MemoInv' /\ SpentInv'
    BY <1>1, <2>2, DueStays DEF MemoInv, SpentInv, Same
  <2>4. AtInv'
    BY <1>1, <1>2, <2>2, DueStays DEF AtInv
  <2>5. PagesInv'
    <3>1. 1 \in 1 .. PageCap /\ (1 - 1) * PageRows = 0
      BY CatalogueAssumption
    <3>2. Today \in Seq(Range(Today))
      BY <2>2, Published DEF PricingInv, Quoted
    <3>3. Lesser(0, Len(Today)) = 0
      BY <3>2, LenProperties DEF Lesser
    <3>4. FirstRows(<<>>, Today, 0)
      <4>1. <<>> \in Seq(Range(Today)) /\ Len(<<>>) = 0
        BY EmptySeq
      <4> QED
        BY <4>1 DEF FirstRows
    <3> QED
      BY <1>1, <1>2, <3>1, <3>3, <3>4 DEF PagesInv
  <2> QED
    BY <2>3, <2>4, <2>5
<1> QED
  BY <1>2, <1>3 DEF PricingInv

\* A page is added to those before it, and the last one completes them.
LEMMA AnswerPrices ==
    ASSUME PricingInv, NEW took, NEW link \in BOOLEAN, Answer(took, link)
    PROVE  PricingInv'
<1> DEFINE all == Today
           last == page * PageRows
           read == rows \o SubSeq(all, last - PageRows + 1, Min({last, Len(all)}))
<1>1. /\ Same /\ quiet' = quiet /\ spend' = spend /\ line' = line /\ step = "get" /\ (last < Len(all) => link)
      /\ IF LastPage(link) THEN memo' = Put(memo, Item.filter, read) /\ step' = "resolve"
         ELSE rows' = read /\ page' = Min({page + 1, PageCap}) /\ step' = "get" /\ memo' = memo
  BY DEF Answer, Later, Same, Request, Today
<1>2. LineInv' /\ Item' = Item /\ Today' = Today
  BY <1>1 DEF PricingInv, LineInv, Same, Item, Today
<1>3. ASSUME Reflecting' PROVE (MemoInv /\ SpentInv /\ AtInv /\ PagesInv)'
  <2>1. Reflecting
    BY <1>1, <1>3 DEF Reflecting, Same
  <2>2. MemoInv /\ SpentInv /\ line \in Owed /\ Item.published /\ LineInv
    BY <1>1, <2>1 DEF PricingInv, AtInv
  <2>3. page \in 1 .. PageCap /\ FirstRows(rows, all, Lesser((page - 1) * PageRows, Len(all)))
    BY <1>1, <2>1 DEF PricingInv, PagesInv
  <2>4. PageRows \in Nat /\ PageCap \in Nat \ {0} /\ page \in Nat /\ page - 1 \in Nat
    BY <2>3, CatalogueAssumption
  <2>5. all \in Seq(Range(all)) /\ Len(all) \in Nat /\ Len(all) <= PageRows * PageCap
    <3>1. Quoted(all, Item)
      BY <2>2, Published
    <3> HIDE DEF all
    <3> QED
      BY <3>1, LenProperties DEF Quoted
  <2>6. last \in Nat /\ (page - 1) * PageRows \in Nat /\ last - PageRows = (page - 1) * PageRows
        /\ (page - 1) * PageRows <= last
    <3> DEFINE p == page - 1
    <3>1. p \in Nat /\ page = p + 1
      BY <2>4
    <3> HIDE DEF p
    <3>2. p * PageRows \in Nat /\ (p + 1) * PageRows = p * PageRows + PageRows
      BY <2>4, <3>1
    <3> QED
      BY <2>4, <3>1, <3>2 DEF p
  <2> DEFINE a == (page - 1) * PageRows
  <2>7. FirstRows(read, all, Lesser(last, Len(all)))
    <3>1. Min({last, Len(all)}) = Lesser(last, Len(all))
      <4> HIDE DEF last, all
      <4> QED BY <2>5, <2>6, LesserOfTwo DEF Lesser
    <3>2. a \in Nat /\ last - PageRows + 1 = a + 1 /\ a <= last /\ FirstRows(rows, all, Lesser(a, Len(all)))
      BY <2>3, <2>6
    <3> HIDE DEF a, last, all
    <3>3. FirstRows(rows \o SubSeq(all, a + 1, Lesser(last, Len(all))), all, Lesser(last, Len(all)))
      BY <2>5, <2>6, <3>2, PageMore
    <3> QED
      BY <3>1, <3>2, <3>3
  <2>8. SpentInv'
    BY <1>1, <2>2, DueStays DEF SpentInv
  <2>9. line' \in Owed' /\ Item'.published
    BY <1>1, <1>2, <2>2, DueStays
  <2>10. CASE LastPage(link)
    <3>1. memo' = Put(memo, Item.filter, read) /\ step' = "resolve"
      BY <1>1, <2>10
    <3>2. read = all
      <4>1. Len(all) <= last
        <5>1. CASE ~ link
          BY <1>1, <2>5, <2>6, <5>1
        <5>2. CASE page = PageCap
          <6>1. last = PageRows * PageCap
            BY <2>4, <5>2
          <6> QED
            BY <2>5, <6>1
        <5> QED
          BY <2>10, <5>1, <5>2 DEF LastPage
      <4> HIDE DEF read, last, all
      <4> QED
        BY <2>5, <2>6, <2>7, <4>1, PagesEnd
    <3> HIDE DEF read
    <3>3. MemoInv'
      BY <1>1, <2>2, <3>1, <3>2 DEF MemoInv, Put, Same, Today
    <3>4. Item'.filter \in DOMAIN memo'
      BY <1>2, <3>1 DEF Put
    <3> QED
      BY <2>8, <2>9, <3>1, <3>3, <3>4 DEF AtInv, PagesInv
  <2>11. CASE ~ LastPage(link)
    <3>1. rows' = read /\ page' = Min({page + 1, PageCap}) /\ step' = "get" /\ memo' = memo
      BY <1>1, <2>11
    <3>2. page' = page + 1 /\ page' \in 1 .. PageCap
      <4>1. page # PageCap /\ page + 1 \in Int /\ PageCap \in Int /\ page + 1 <= PageCap
        BY <2>3, <2>4, <2>11 DEF LastPage
      <4>2. Min({page + 1, PageCap}) = page + 1
        <5> DEFINE b == page + 1
        <5> HIDE DEF b
        <5>1. b \in Int /\ b <= PageCap
          BY <4>1 DEF b
        <5>2. Min({b, PageCap}) = b
          BY <4>1, <5>1, LesserOfTwo
        <5> QED
          BY <5>2 DEF b
      <4> QED
        BY <2>4, <3>1, <4>1, <4>2
    <3>3. (page' - 1) * PageRows = last
      BY <2>4, <3>2
    <3>4. PagesInv'
      <4> HIDE DEF read, last
      <4> QED BY <1>2, <2>7, <3>1, <3>2, <3>3 DEF PagesInv
    <3>5. MemoInv' /\ AtInv'
      BY <1>1, <2>2, <2>9, <3>1 DEF MemoInv, AtInv, Same
    <3> QED
      BY <2>8, <3>4, <3>5
  <2> QED
    BY <2>10, <2>11
<1> QED
  BY <1>2, <1>3 DEF PricingInv

\* A line that is resolved has spent what it costs.
LEMMA ResolvePrices ==
    ASSUME PricingInv, ResolveTiers
    PROVE  PricingInv'
<1> DEFINE tiers == TiersOf(memo[Item.filter], Item)
<1>1. /\ Same /\ quiet' = quiet /\ memo' = memo /\ step = "resolve" /\ line' \in {line, line + 1}
      /\ \/ step' = "raised"
         \/ step' = "line" /\ tiers # <<>> /\ line' = line + 1 /\ Spends(Cost(tiers, Item.quantity))
  BY DEF ResolveTiers, Later, Same
<1>2. LineInv'
  BY <1>1 DEF PricingInv, LineInv, Same
<1>3. ASSUME Reflecting' PROVE (MemoInv /\ SpentInv /\ AtInv /\ PagesInv)'
  <2>1. Reflecting /\ step' = "line" /\ tiers # <<>> /\ line' = line + 1 /\ Spends(Cost(tiers, Item.quantity))
    BY <1>1, <1>3 DEF Reflecting, Same
  <2>2. LineInv /\ MemoInv /\ SpentInv /\ line \in Owed /\ Item.published /\ Item.filter \in DOMAIN memo
    BY <1>1, <2>1 DEF PricingInv, AtInv
  <2>3. memo[Item.filter] = catalogue[Item.filter]
    BY <2>2 DEF MemoInv
  <2>4. Cost(tiers, Item.quantity) = DueOn(line)
    <3>1. Item.quantity \in Nat /\ Quoted(Today, Item) /\ DueOn(line) = CountedOut(Item) /\ Scale \in Nat
      BY <2>2, Published, CatalogueAssumption
    <3>2. TiersOf(catalogue[Item.filter], Item) # <<>> /\ tiers = TiersOf(catalogue[Item.filter], Item)
      BY <2>1, <2>3
    <3> DEFINE i == Item
    <3> HIDE DEF tiers, i
    <3>3. Cost(TiersOf(catalogue[i.filter], i), i.quantity) = CountedOut(i)
      BY <3>1, <3>2, CostIsCountedOut DEF i, Today
    <3> QED
      BY <3>1, <3>2, <3>3 DEF i
  <2>5. SpentInv'
    <3> HIDE DEF tiers
    <3> QED BY <1>1, <2>1, <2>2, <2>4, LineDone
  <2>6. MemoInv'
    BY <1>1, <2>2 DEF MemoInv, Same
  <2> QED
    BY <2>1, <2>5, <2>6 DEF AtInv, PagesInv
<1> QED
  BY <1>2, <1>3 DEF PricingInv

\* The others keep what was priced.
LEMMA OthersPrice ==
    ASSUME PricingInv,
           \/ FetchFails \/ Conclude \/ UNCHANGED prices
           \/ \E took, asked : Retry(took, asked)
    PROVE  PricingInv'
<1>1. CASE FetchFails
  BY <1>1 DEF PricingInv, LineInv, FetchFails, Later, Reflecting
<1>2. ASSUME Same, line' = line, memo' = memo, spend' = spend, quiet' = quiet,
             step' \in {step, "done"}, step \notin {"idle", "raised"} \/ step' = step,
             step' = "done" => line > Len(order.estimate.lines) \/ step = "done",
             rows' = rows, page' = page
      PROVE  PricingInv'
  <2>1. LineInv' /\ Item' = Item /\ Today' = Today /\ (Reflecting' => Reflecting)
    BY <1>2 DEF PricingInv, LineInv, Same, Item, Today, Reflecting
  <2>2. ASSUME Reflecting PROVE (MemoInv /\ SpentInv /\ AtInv /\ PagesInv)'
    BY <1>2, <2>1, <2>2, DueStays DEF PricingInv, MemoInv, SpentInv, AtInv, PagesInv, Same
  <2> QED
    BY <2>1, <2>2 DEF PricingInv
<1>3. CASE Conclude
  BY <1>2, <1>3 DEF Conclude, Same, fetching
<1>4. CASE UNCHANGED prices
  BY <1>2, <1>4 DEF prices, fetching, Same
<1>5. ASSUME NEW took, NEW asked, Retry(took, asked) PROVE PricingInv'
  BY <1>2, <1>5 DEF Retry, Request, Later, Same
<1> QED
  BY <1>1, <1>3, <1>4, <1>5

\* A run that is done has spent on every line that owes what is due.
LEMMA DoneIsDue == PricingInv => VerdictIsTodays
<1> SUFFICES ASSUME PricingInv, step = "done", ~ order.offline, quiet
             PROVE  WithinBudget <=> Bill <= Ceiling
  BY DEF VerdictIsTodays
<1>1. LineInv /\ SpentInv /\ line > Len(order.estimate.lines)
  BY DEF PricingInv, Reflecting, AtInv
<1>2. {j \in Owed : j < line} = Owed
  <2>1. Owed \subseteq 1 .. Len(order.estimate.lines) /\ Len(order.estimate.lines) \in Nat /\ line \in Nat
    BY <1>1, LinesOfOrder DEF LineInv, Owed
  <2>2. \A j \in Owed : j < line
    BY <1>1, <2>1
  <2> QED
    BY <2>2
<1>3. spend = [k \in Owed |-> Due(order.estimate.lines[k])]
  BY <1>1, <1>2 DEF SpentInv, DueOn
<1>4. Total = Bill
  BY <1>3 DEF Total, Bill
<1> QED
  BY <1>4 DEF WithinBudget

\* The invariant holds of every run.
LEMMA PricingStarts == PricesInit => PricingInv
BY DEF PricesInit, PricingInv, LineInv, Reflecting

LEMMA PricingKeeps == PricingInv /\ [PricesNext]_prices => PricingInv'
<1> SUFFICES ASSUME PricingInv, [PricesNext]_prices PROVE PricingInv'
  OBVIOUS
<1>1. ASSUME NEW o \in Orders, Start(o) PROVE PricingInv'
  BY <1>1, StartPrices
<1>2. CASE Reprice
  BY <1>2, RepricePrices
<1>3. CASE PriceLine
  BY <1>3, PriceLinePrices
<1>4. CASE ReadQuery
  BY <1>4, ReadQueryPrices
<1>5. CASE ResolveTiers
  BY <1>5, ResolvePrices
<1>6. ASSUME NEW took \in 1 .. Timeout, NEW link \in BOOLEAN, Answer(took, link) PROVE PricingInv'
  BY <1>6, AnswerPrices
<1>7. ASSUME NEW took \in 1 .. Timeout, NEW asked \in RetryAfters \cup {NotGiven}, Retry(took, asked)
      PROVE  PricingInv'
  BY <1>7, OthersPrice
<1>8. CASE Conclude \/ FetchFails \/ UNCHANGED prices
  BY <1>8, OthersPrice
<1> QED
  BY <1>1, <1>2, <1>3, <1>4, <1>5, <1>6, <1>7, <1>8 DEF PricesNext, PricesStep

(* A live run that nothing was repriced under passes if and only if the    *)
(* bill at today's prices is within the ceiling, and no page takes longer  *)
(* than its deadline (costs.py:90, 152): for any catalogue, any estimate,  *)
(* any number of runs, whatever earlier runs cached.                       *)
THEOREM VerdictRight == PricesSpec => []VerdictIsDue
BY PricingStarts, PricingKeeps, DoneIsDue, PageDeadline, PTL DEF PricesSpec, VerdictIsDue

=============================================================================
