------------------------------- MODULE Lemmas -------------------------------
(* What the proofs about ledgers need of sums over finite sets and of the    *)
(* sequences their rows are kept in.                                         *)
EXTENDS Integers, Sequences, FiniteSets, Functions, FiniteSetsExt, SequencesExt,
        FiniteSetTheorems, SequenceTheorems, TLAPS

(* Sums.                                                                     *)

\* The element a sum begins with, and the function it is the value of.
Pick(s) == CHOOSE x \in s : TRUE
IsSum(f, S, g) ==
  g = [s \in SUBSET S |-> IF s = {} THEN 0 ELSE f[Pick(s)] + g[s \ {Pick(s)}]]

-----------------------------------------------------------------------------

\* Of the sets of a family of subsets of a finite set, one has none under it.
LEMMA LeastSet ==
  ASSUME NEW S, IsFiniteSet(S), NEW T, T \subseteq SUBSET S, T # {}
  PROVE  \E U \in T : \A V \in T : V \subseteq U => V = U
<1>1. T \subseteq FiniteSubsetsOf(S) BY FS_FiniteSubsetsOfFinite
<1>2. IsWellFoundedOn(StrictSubsetOrdering(S), FiniteSubsetsOf(S))
  BY FS_StrictSubsetOrderingWellFounded
<1>3. PICK U \in T : \A V \in T : ~(<<V, U>> \in StrictSubsetOrdering(S))
  BY <1>1, <1>2, WFMin
<1>4. ASSUME NEW V \in T, V \subseteq U, V # U PROVE FALSE
  BY <1>3, <1>4 DEF StrictSubsetOrdering
<1> QED BY <1>4

LEMMA PickIn ==
  ASSUME NEW S, S # {} PROVE Pick(S) \in S
BY DEF Pick

LEMMA SumIsFunction ==
  ASSUME NEW f, NEW S, NEW g, IsSum(f, S, g), NEW s \in SUBSET S
  PROVE  g[s] = IF s = {} THEN 0 ELSE f[Pick(s)] + g[s \ {Pick(s)}]
<1> DEFINE h == [t \in SUBSET S |-> IF t = {} THEN 0 ELSE f[Pick(t)] + g[t \ {Pick(t)}]]
<1>1. g = h BY DEF IsSum
<1>2. h[s] = IF s = {} THEN 0 ELSE f[Pick(s)] + g[s \ {Pick(s)}] OBVIOUS
<1> HIDE DEF h
<1> QED BY <1>1, <1>2

\* Two such functions agree where both are defined.
LEMMA SumIsOne ==
  ASSUME NEW f, NEW S, IsFiniteSet(S), NEW R, NEW g, NEW h, IsSum(f, S, g), IsSum(f, R, h),
         NEW s \in SUBSET S, s \in SUBSET R
  PROVE  g[s] = h[s]
<1> DEFINE T == {t \in SUBSET S : t \subseteq R /\ g[t] # h[t]}
<1> SUFFICES ASSUME T # {} PROVE FALSE OBVIOUS
<1>1. PICK U \in T : \A V \in T : V \subseteq U => V = U
  <2>1. T \subseteq SUBSET S OBVIOUS
  <2> HIDE DEF T
  <2> QED BY <2>1, LeastSet
<1>2. U \in SUBSET S /\ U \in SUBSET R OBVIOUS
<1> DEFINE p == Pick(U)
           V == U \ {p}
<1>3. U # {} BY SumIsFunction
<1>4. p \in U BY <1>3, PickIn
<1>5. V \notin T BY <1>1, <1>4
<1>6. g[V] = h[V] BY <1>5
<1>7. g[U] = f[p] + g[V] BY <1>3, <1>2, SumIsFunction
<1>8. h[U] = f[p] + h[V]
  <2>1. \A t \in SUBSET R : h[t] = IF t = {} THEN 0 ELSE f[Pick(t)] + h[t \ {Pick(t)}]
    <3> HIDE DEF T, p, V
    <3> QED BY SumIsFunction
  <2> QED BY <1>3, <1>2, <2>1
<1> QED BY <1>6, <1>7, <1>8

\* And there is one, on every finite set.
LEMMA SumExists ==
  ASSUME NEW f, NEW S, IsFiniteSet(S)
  PROVE  \E g : IsSum(f, S, g)
<1> DEFINE T == {t \in SUBSET S : ~\E g : IsSum(f, t, g)}
<1> SUFFICES ASSUME T # {} PROVE FALSE OBVIOUS
<1>1. PICK U \in T : \A V \in T : V \subseteq U => V = U
  <2>1. T \subseteq SUBSET S OBVIOUS
  <2> HIDE DEF T
  <2> QED BY <2>1, LeastSet
<1> DEFINE Fun(t) == CHOOSE g : IsSum(f, t, g)
           Rest(t) == t \ {Pick(t)}
           new == [t \in SUBSET U |-> IF t = {} THEN 0 ELSE f[Pick(t)] + Fun(Rest(t))[Rest(t)]]
<1>2. ASSUME NEW V \in SUBSET U, V # U PROVE IsSum(f, V, Fun(V))
  <2>1. V \notin T BY <1>1, <1>2
  <2> QED BY <2>1
<1>3. ASSUME NEW t \in SUBSET U, t # {} PROVE Rest(t) \in SUBSET U /\ Rest(t) # U /\ Pick(t) \in t
  BY <1>3, PickIn
<1>4. ASSUME NEW V \in SUBSET U, V # U PROVE new[V] = Fun(V)[V]
  <2>1. CASE V = {}
    <3>1. new[V] = 0 BY <2>1
    <3>2. Fun(V)[V] = 0 BY <2>1, <1>2, <1>4, SumIsFunction
    <3> QED BY <3>1, <3>2
  <2>2. CASE V # {}
    <3> DEFINE W == Rest(V)
    <3>1. W \in SUBSET U /\ W # U /\ W \in SUBSET V BY <1>3, <2>2
    <3>2. IsSum(f, V, Fun(V)) /\ IsSum(f, W, Fun(W)) BY <1>2, <1>4, <3>1
    <3>3. Fun(V)[V] = f[Pick(V)] + Fun(V)[W]
      <4> HIDE DEF Fun
      <4> QED BY <3>2, <2>2, SumIsFunction
    <3>4. IsFiniteSet(V) BY FS_Subset
    <3>5. Fun(V)[W] = Fun(W)[W]
      <4> HIDE DEF Fun, Rest
      <4> QED BY <3>1, <3>2, <3>4, SumIsOne
    <3>6. new[V] = f[Pick(V)] + Fun(W)[W] BY <2>2
    <3> HIDE DEF Fun, Rest, new
    <3> QED BY <3>3, <3>5, <3>6
  <2> QED BY <2>1, <2>2
<1>5. IsSum(f, U, new)
  <2>1. ASSUME NEW t \in SUBSET U
        PROVE  (IF t = {} THEN 0 ELSE f[Pick(t)] + Fun(Rest(t))[Rest(t)])
               = (IF t = {} THEN 0 ELSE f[Pick(t)] + new[t \ {Pick(t)}])
    <3>1. CASE t = {} BY <3>1
    <3>2. CASE t # {}
      <4>1. new[Rest(t)] = Fun(Rest(t))[Rest(t)]
        <5> HIDE DEF new, Fun, Rest
        <5> QED BY <1>3, <1>4, <3>2
      <4>2. Rest(t) = t \ {Pick(t)} OBVIOUS
      <4> HIDE DEF new, Fun, Rest
      <4> QED BY <4>1, <4>2, <3>2
    <3> QED BY <3>1, <3>2
  <2>2. PICK now : now = new OBVIOUS
  <2>3. ASSUME NEW t \in SUBSET U
        PROVE  (IF t = {} THEN 0 ELSE f[Pick(t)] + Fun(Rest(t))[Rest(t)])
               = (IF t = {} THEN 0 ELSE f[Pick(t)] + now[t \ {Pick(t)}])
    <3> HIDE DEF new, Fun, Rest
    <3> QED BY <2>1, <2>2
  <2>4. new = [t \in SUBSET U |-> IF t = {} THEN 0 ELSE f[Pick(t)] + now[t \ {Pick(t)}]]
    <3> HIDE DEF Fun, Rest
    <3> QED BY <2>3
  <2>5. now = [t \in SUBSET U |-> IF t = {} THEN 0 ELSE f[Pick(t)] + now[t \ {Pick(t)}]]
    <3> HIDE DEF new
    <3> QED BY <2>2, <2>4
  <2>6. IsSum(f, U, now) BY <2>5 DEF IsSum
  <2> HIDE DEF new
  <2> QED BY <2>2, <2>6
<1> QED BY <1>5

-----------------------------------------------------------------------------

LEMMA SumUnfolds ==
  ASSUME NEW f, NEW S
  PROVE  SumFunctionOnSet(f, S) = (CHOOSE g : IsSum(f, S, g))[S]
BY DEF SumFunctionOnSet, FoldFunctionOnSet, MapThenFoldSet, IsSum, Pick

\* The three equations of a sum: nothing; and one element, whichever, and the rest.
LEMMA SumEmpty ==
  ASSUME NEW f PROVE SumFunctionOnSet(f, {}) = 0
<1> DEFINE g == CHOOSE g : IsSum(f, {}, g)
<1>1. IsFiniteSet({}) BY FS_EmptySet
<1>2. IsSum(f, {}, g) BY <1>1, SumExists
<1>3. g[{}] = 0
  <2> HIDE DEF g
  <2> QED BY <1>2, SumIsFunction
<1> QED BY <1>3, SumUnfolds

LEMMA SumPicked ==
  ASSUME NEW f, NEW S, IsFiniteSet(S), S # {}
  PROVE  SumFunctionOnSet(f, S) = f[Pick(S)] + SumFunctionOnSet(f, S \ {Pick(S)})
<1> DEFINE R == S \ {Pick(S)}
           Fun(t) == CHOOSE g : IsSum(f, t, g)
<1>1. IsFiniteSet(R) BY FS_Subset
<1>2. IsSum(f, S, Fun(S)) /\ IsSum(f, R, Fun(R)) BY <1>1, SumExists
<1>3. R \in SUBSET S /\ R \in SUBSET R OBVIOUS
<1>4. SumFunctionOnSet(f, S) = Fun(S)[S] /\ SumFunctionOnSet(f, R) = Fun(R)[R] BY SumUnfolds
<1>5. Fun(S)[S] = f[Pick(S)] + Fun(S)[R]
  <2> HIDE DEF Fun
  <2> QED BY <1>2, SumIsFunction
<1>6. Fun(S)[R] = Fun(R)[R]
  <2> HIDE DEF Fun, R
  <2> QED BY <1>2, <1>3, SumIsOne
<1> HIDE DEF Fun
<1> QED BY <1>4, <1>5, <1>6

LEMMA SumInt ==
  ASSUME NEW f, NEW S, IsFiniteSet(S), \A x \in S : f[x] \in Int
  PROVE  SumFunctionOnSet(f, S) \in Int
<1> DEFINE T == {t \in SUBSET S : SumFunctionOnSet(f, t) \notin Int}
<1> SUFFICES ASSUME T # {} PROVE FALSE OBVIOUS
<1>1. PICK U \in T : \A V \in T : V \subseteq U => V = U
  <2>1. T \subseteq SUBSET S OBVIOUS
  <2> HIDE DEF T
  <2> QED BY <2>1, LeastSet
<1>2. U # {} BY SumEmpty
<1>3. Pick(U) \in U BY <1>2, PickIn
<1>4. U \ {Pick(U)} \notin T BY <1>1, <1>3
<1>5. SumFunctionOnSet(f, U \ {Pick(U)}) \in Int BY <1>4
<1>6. IsFiniteSet(U) BY FS_Subset
<1>7. SumFunctionOnSet(f, U) = f[Pick(U)] + SumFunctionOnSet(f, U \ {Pick(U)})
  BY <1>2, <1>6, SumPicked
<1> QED BY <1>3, <1>5, <1>7

LEMMA SumTakes ==
  ASSUME NEW f, NEW S, IsFiniteSet(S), \A y \in S : f[y] \in Int, NEW x \in S
  PROVE  SumFunctionOnSet(f, S) = f[x] + SumFunctionOnSet(f, S \ {x})
<1> DEFINE Total(t) == SumFunctionOnSet(f, t)
           T == {t \in SUBSET S : \E y \in t : Total(t) # f[y] + Total(t \ {y})}
<1> SUFFICES ASSUME T # {} PROVE FALSE OBVIOUS
<1>1. PICK U \in T : \A V \in T : V \subseteq U => V = U
  <2>1. T \subseteq SUBSET S OBVIOUS
  <2> HIDE DEF T
  <2> QED BY <2>1, LeastSet
<1>2. PICK y \in U : Total(U) # f[y] + Total(U \ {y}) OBVIOUS
<1> DEFINE p == Pick(U)
<1>3. U # {} /\ p \in U BY <1>2, PickIn
<1>4. IsFiniteSet(U) /\ IsFiniteSet(U \ {p, y}) BY FS_Subset
<1>5. Total(U) = f[p] + Total(U \ {p}) BY <1>3, <1>4, SumPicked
<1>6. p # y BY <1>2, <1>5
<1>7. U \ {p} \notin T /\ U \ {y} \notin T BY <1>1, <1>2, <1>3
<1>8. (U \ {p}) \ {y} = U \ {p, y} /\ (U \ {y}) \ {p} = U \ {p, y} OBVIOUS
<1>9. Total(U \ {p}) = f[y] + Total(U \ {p, y})
  <2>1. Total(U \ {p}) = f[y] + Total((U \ {p}) \ {y}) BY <1>2, <1>6, <1>7
  <2> QED BY <1>8, <2>1
<1>10. Total(U \ {y}) = f[p] + Total(U \ {p, y})
  <2>1. Total(U \ {y}) = f[p] + Total((U \ {y}) \ {p}) BY <1>3, <1>6, <1>7
  <2> QED BY <1>8, <2>1
<1>11. Total(U \ {p, y}) \in Int BY <1>4, SumInt
<1>12. f[p] \in Int /\ f[y] \in Int BY <1>3
<1> HIDE DEF Total, p
<1> QED BY <1>2, <1>5, <1>9, <1>10, <1>11, <1>12

-----------------------------------------------------------------------------

\* What two functions that agree add up to is the same.
LEMMA SumSame ==
  ASSUME NEW f, NEW g, NEW S, IsFiniteSet(S), \A x \in S : f[x] = g[x]
  PROVE  SumFunctionOnSet(f, S) = SumFunctionOnSet(g, S)
<1> DEFINE T == {t \in SUBSET S : SumFunctionOnSet(f, t) # SumFunctionOnSet(g, t)}
<1> SUFFICES ASSUME T # {} PROVE FALSE OBVIOUS
<1>1. PICK U \in T : \A V \in T : V \subseteq U => V = U
  <2>1. T \subseteq SUBSET S OBVIOUS
  <2> HIDE DEF T
  <2> QED BY <2>1, LeastSet
<1>2. U # {} BY SumEmpty
<1>3. Pick(U) \in U BY <1>2, PickIn
<1>4. U \ {Pick(U)} \notin T BY <1>1, <1>3
<1>5. IsFiniteSet(U) BY FS_Subset
<1>6. SumFunctionOnSet(f, U) = f[Pick(U)] + SumFunctionOnSet(f, U \ {Pick(U)})
  BY <1>2, <1>5, SumPicked
<1>7. SumFunctionOnSet(g, U) = g[Pick(U)] + SumFunctionOnSet(g, U \ {Pick(U)})
  BY <1>2, <1>5, SumPicked
<1>8. SumFunctionOnSet(f, U \ {Pick(U)}) = SumFunctionOnSet(g, U \ {Pick(U)}) BY <1>4
<1>9. f[Pick(U)] = g[Pick(U)] BY <1>3
<1>10. SumFunctionOnSet(f, U) # SumFunctionOnSet(g, U) OBVIOUS
<1> QED BY <1>6, <1>7, <1>8, <1>9, <1>10

\* A sum of naturals is one, and that of a subset is no more.
LEMMA SumNat ==
  ASSUME NEW f, NEW S, IsFiniteSet(S), \A x \in S : f[x] \in Nat
  PROVE  SumFunctionOnSet(f, S) \in Nat
<1> DEFINE T == {t \in SUBSET S : SumFunctionOnSet(f, t) \notin Nat}
<1> SUFFICES ASSUME T # {} PROVE FALSE OBVIOUS
<1>1. PICK U \in T : \A V \in T : V \subseteq U => V = U
  <2>1. T \subseteq SUBSET S OBVIOUS
  <2> HIDE DEF T
  <2> QED BY <2>1, LeastSet
<1>2. U # {} BY SumEmpty
<1>3. Pick(U) \in U BY <1>2, PickIn
<1>4. U \ {Pick(U)} \notin T BY <1>1, <1>3
<1>5. SumFunctionOnSet(f, U \ {Pick(U)}) \in Nat BY <1>4
<1>6. IsFiniteSet(U) BY FS_Subset
<1>7. SumFunctionOnSet(f, U) = f[Pick(U)] + SumFunctionOnSet(f, U \ {Pick(U)})
  BY <1>2, <1>6, SumPicked
<1> QED BY <1>3, <1>5, <1>7

LEMMA SumOfSubset ==
  ASSUME NEW f, NEW S, IsFiniteSet(S), \A x \in S : f[x] \in Nat, NEW R \in SUBSET S
  PROVE  SumFunctionOnSet(f, R) <= SumFunctionOnSet(f, S)
<1> DEFINE Total(t) == SumFunctionOnSet(f, t)
           T == {t \in SUBSET S : R \subseteq t /\ ~(Total(R) <= Total(t))}
<1> SUFFICES ASSUME T # {} PROVE FALSE OBVIOUS
<1>1. PICK U \in T : \A V \in T : V \subseteq U => V = U
  <2>1. T \subseteq SUBSET S OBVIOUS
  <2> HIDE DEF T
  <2> QED BY <2>1, LeastSet
<1>2. IsFiniteSet(U) /\ IsFiniteSet(R) BY FS_Subset
<1>3. Total(U) \in Nat /\ Total(R) \in Nat BY <1>2, SumNat
<1>4. U # R BY <1>3
<1>5. PICK x \in U : x \notin R BY <1>4
<1>6. U \ {x} \notin T BY <1>1, <1>5
<1>7. Total(R) <= Total(U \ {x}) BY <1>5, <1>6
<1>8. Total(U) = f[x] + Total(U \ {x}) BY <1>2, SumTakes
<1>9. IsFiniteSet(U \ {x}) BY FS_Subset
<1>10. Total(U \ {x}) \in Nat /\ f[x] \in Nat BY <1>9, SumNat
<1>11. ~(Total(R) <= Total(U)) OBVIOUS
<1> HIDE DEF Total
<1> QED BY <1>3, <1>7, <1>8, <1>10, <1>11

-----------------------------------------------------------------------------
(* Sums that change in one place.                                           *)

LEMMA SumWithout ==
  ASSUME NEW f, NEW S, IsFiniteSet(S), \A y \in S : f[y] \in Int, NEW x
  PROVE  SumFunctionOnSet(f, S \ {x}) = SumFunctionOnSet(f, S) - IF x \in S THEN f[x] ELSE 0
<1>1. IsFiniteSet(S \ {x}) BY FS_Subset
<1>2. SumFunctionOnSet(f, S) \in Int /\ SumFunctionOnSet(f, S \ {x}) \in Int
  BY <1>1, SumInt
<1>3. CASE x \in S
  <2>1. SumFunctionOnSet(f, S) = f[x] + SumFunctionOnSet(f, S \ {x}) BY <1>3, SumTakes
  <2>2. f[x] \in Int BY <1>3
  <2> QED BY <1>2, <1>3, <2>1, <2>2
<1>4. CASE x \notin S
  <2>1. S \ {x} = S BY <1>4
  <2> QED BY <1>2, <1>4, <2>1
<1> QED BY <1>3, <1>4

\* Two functions that agree but for one element, on sets that do.
LEMMA SumChanges ==
  ASSUME NEW f, NEW g, NEW A, NEW B, IsFiniteSet(A), IsFiniteSet(B), NEW x, A \ {x} = B \ {x},
         \A y \in A : f[y] \in Int, \A y \in B : g[y] \in Int, \A y \in A \ {x} : f[y] = g[y]
  PROVE  SumFunctionOnSet(g, B)
           = SumFunctionOnSet(f, A) - (IF x \in A THEN f[x] ELSE 0) + (IF x \in B THEN g[x] ELSE 0)
<1>1. IsFiniteSet(A \ {x}) BY FS_Subset
<1>2. SumFunctionOnSet(f, A \ {x}) = SumFunctionOnSet(g, A \ {x}) BY <1>1, SumSame
<1>3. SumFunctionOnSet(f, A \ {x}) = SumFunctionOnSet(f, A) - IF x \in A THEN f[x] ELSE 0
  BY SumWithout
<1>4. SumFunctionOnSet(g, B \ {x}) = SumFunctionOnSet(g, B) - IF x \in B THEN g[x] ELSE 0
  BY SumWithout
<1>5. SumFunctionOnSet(f, A) \in Int /\ SumFunctionOnSet(g, B) \in Int BY SumInt
<1>6. (x \in A => f[x] \in Int) /\ (x \in B => g[x] \in Int) OBVIOUS
<1>7. SumFunctionOnSet(g, A \ {x}) = SumFunctionOnSet(g, B \ {x}) OBVIOUS
<1> QED BY <1>2, <1>3, <1>4, <1>5, <1>6, <1>7

-----------------------------------------------------------------------------
(* Sequences.                                                                *)

IsSeq(s) == s \in Seq({s[i] : i \in DOMAIN s})

LEMMA SeqIs ==
  ASSUME NEW s, IsSeq(s)
  PROVE  Len(s) \in Nat /\ DOMAIN s = 1..Len(s) /\ \A i \in 1..Len(s) : i \in Nat
BY LenProperties DEF IsSeq

LEMMA TypedIsSeq ==
  ASSUME NEW S, NEW s \in Seq(S)
  PROVE  IsSeq(s)
<1>1. Len(s) \in Nat /\ DOMAIN s = 1..Len(s) /\ s \in [1..Len(s) -> S]
  BY LenProperties
<1>2. s \in [1..Len(s) -> {s[i] : i \in DOMAIN s}]
  BY <1>1
<1>. QED
  BY <1>1, <1>2, SeqDef DEF IsSeq

LEMMA FunctionIsSeq ==
  ASSUME NEW n \in Nat, NEW f, f = [k \in 1..n |-> f[k]]
  PROVE  IsSeq(f) /\ Len(f) = n /\ DOMAIN f = 1..n
<1>1. DOMAIN f = 1..n /\ f \in [1..n -> {f[k] : k \in DOMAIN f}]
  OBVIOUS
<1>2. IsSeq(f)
  BY <1>1, SeqDef DEF IsSeq
<1>3. PICK m \in Nat : m = Len(f)
  BY <1>2, SeqIs
<1>4. 1..m = 1..n
  BY <1>1, <1>2, <1>3, SeqIs
<1>5. m = n
  BY <1>4
<1>. QED
  BY <1>1, <1>2, <1>3, <1>5

\* One sequence after another.
Joins(new, s, t) ==
  /\ IsSeq(new) /\ Len(new) = Len(s) + Len(t)
  /\ \A i \in DOMAIN s : i \in DOMAIN new /\ new[i] = s[i]
  /\ \A i \in DOMAIN new \ DOMAIN s : i > Len(s) /\ \E k \in DOMAIN t : i = Len(s) + k /\ new[i] = t[k]
  /\ \A k \in DOMAIN t : \E i \in DOMAIN new \ DOMAIN s : i = Len(s) + k /\ new[i] = t[k]

LEMMA Joined ==
  ASSUME NEW s, NEW t, IsSeq(s), IsSeq(t), NEW new, new = s \o t
  PROVE  Joins(new, s, t)
<1>1. PICK S : S = {s[i] : i \in DOMAIN s} \cup {t[i] : i \in DOMAIN t}
  OBVIOUS
<1>2. s \in Seq(S) /\ t \in Seq(S)
  <2>1. s \in Seq({s[i] : i \in DOMAIN s}) /\ t \in Seq({t[i] : i \in DOMAIN t})
    BY DEF IsSeq
  <2>2. {s[i] : i \in DOMAIN s} \subseteq S /\ {t[i] : i \in DOMAIN t} \subseteq S
    BY <1>1
  <2>. QED
    BY <2>1, <2>2, SeqMonotonic
<1>3. /\ s \o t \in Seq(S) /\ Len(s \o t) = Len(s) + Len(t)
      /\ \A i \in 1..Len(s) + Len(t) : (s \o t)[i] = IF i <= Len(s) THEN s[i] ELSE t[i - Len(s)]
  BY <1>2, ConcatProperties
<1>4. Len(s) \in Nat /\ Len(t) \in Nat
  BY SeqIs
<1>5. IsSeq(s \o t) /\ DOMAIN (s \o t) = 1..(Len(s) + Len(t))
  BY <1>3, TypedIsSeq, LenProperties
<1>6. PICK n \in Nat, m \in Nat :
        n = Len(s) /\ m = Len(t) /\ DOMAIN s = 1..n /\ DOMAIN t = 1..m
  BY <1>4, SeqIs
<1>7. /\ IsSeq(new) /\ DOMAIN new = 1..(n + m) /\ Len(new) = n + m
      /\ \A i \in 1..(n + m) : new[i] = IF i <= n THEN s[i] ELSE t[i - n]
  BY <1>3, <1>5, <1>6
<1>8. ASSUME NEW i \in 1..n PROVE i \in DOMAIN new /\ new[i] = s[i]
  BY <1>7
<1>9. ASSUME NEW i \in DOMAIN new \ 1..n
      PROVE  i > n /\ \E k \in 1..m : i = n + k /\ new[i] = t[k]
  <2>1. i \in 1..(n + m) /\ i > n /\ i - n \in 1..m /\ i = n + (i - n) /\ ~(i <= n)
    BY <1>7
  <2>2. new[i] = t[i - n]
    BY <1>7, <2>1
  <2>. QED
    BY <2>1, <2>2
<1>10. ASSUME NEW k \in 1..m
       PROVE  \E i \in DOMAIN new \ 1..n : i = n + k /\ new[i] = t[k]
  <2>1. PICK i \in 1..(n + m) : i = n + k
    OBVIOUS
  <2>2. i \notin 1..n /\ ~(i <= n) /\ i - n = k
    BY <2>1
  <2>. QED
    BY <1>7, <2>1, <2>2
<1>11. /\ \A i \in DOMAIN s : i \in DOMAIN new /\ new[i] = s[i]
       /\ \A i \in DOMAIN new \ DOMAIN s :
            i > Len(s) /\ \E k \in DOMAIN t : i = Len(s) + k /\ new[i] = t[k]
       /\ \A k \in DOMAIN t : \E i \in DOMAIN new \ DOMAIN s : i = Len(s) + k /\ new[i] = t[k]
  <2>1. DOMAIN s = 1..n /\ DOMAIN t = 1..m /\ Len(s) = n
    BY <1>6
  <2>2. \A i \in DOMAIN s : i \in DOMAIN new /\ new[i] = s[i]
    BY <2>1, <1>8
  <2>3. \A i \in DOMAIN new \ DOMAIN s :
          i > Len(s) /\ \E k \in DOMAIN t : i = Len(s) + k /\ new[i] = t[k]
    BY <2>1, <1>9, Zenon
  <2>4. \A k \in DOMAIN t : \E i \in DOMAIN new \ DOMAIN s : i = Len(s) + k /\ new[i] = t[k]
    BY <2>1, <1>10, Zenon
  <2>. QED
    BY <2>2, <2>3, <2>4
<1>. QED
  BY <1>6, <1>7, <1>11 DEF Joins

\* The sequence of a set has its elements, each of them once.
LEMMA SetToSeqIs ==
  ASSUME NEW S, IsFiniteSet(S)
  PROVE  /\ IsSeq(SetToSeq(S)) /\ Len(SetToSeq(S)) = Cardinality(S)
         /\ DOMAIN SetToSeq(S) = 1..Cardinality(S)
         /\ \A k \in DOMAIN SetToSeq(S) : SetToSeq(S)[k] \in S
         /\ \A x \in S : \E k \in DOMAIN SetToSeq(S) : SetToSeq(S)[k] = x
         /\ \A k, l \in DOMAIN SetToSeq(S) : SetToSeq(S)[k] = SetToSeq(S)[l] => k = l
<1>1. PICK n \in Nat : n = Cardinality(S)
  BY FS_CardinalityType
<1>2. IsFiniteSet(1..n) /\ Cardinality(1..n) = n
  BY FS_Interval
<1>3. ExistsBijection(1..n, S)
  BY <1>1, FS_CardinalityType
<1>4. PICK g \in [1..n -> S] : IsInjective(g)
  BY <1>3 DEF ExistsBijection, Bijection, Injection
<1>5. PICK f : f = SetToSeq(S)
  OBVIOUS
<1>6. f \in [1..n -> S] /\ IsInjective(f)
  BY <1>1, <1>4, <1>5 DEF SetToSeq
<1>7. f \in Injection(1..n, S)
  BY <1>6 DEF Injection
<1>8. f \in Surjection(1..n, S)
  BY <1>1, <1>2, <1>7, FS_Injection
<1>9. IsSeq(f) /\ Len(f) = n /\ DOMAIN f = 1..n
  BY <1>6, FunctionIsSeq
<1>10. \A x \in S : \E k \in 1..n : f[k] = x
  BY <1>8 DEF Surjection
<1>. QED
  BY <1>1, <1>5, <1>6, <1>9, <1>10 DEF IsInjective

LEMMA Appended ==
  ASSUME NEW s, NEW e, IsSeq(s)
  PROVE  /\ Append(s, e) = s \o <<e>>
         /\ IsSeq(<<e>>) /\ Len(<<e>>) = 1 /\ DOMAIN <<e>> = 1..1 /\ <<e>>[1] = e
<1>1. PICK S : S = {s[i] : i \in DOMAIN s} \cup {e}
  OBVIOUS
<1>2. s \in Seq(S) /\ e \in S
  <2>1. s \in Seq({s[i] : i \in DOMAIN s})
    BY DEF IsSeq
  <2>. QED
    BY <1>1, <2>1, SeqMonotonic
<1>3. Append(s, e) = s \o <<e>>
  BY <1>2, AppendIsConcat
<1>4. <<e>> \in Seq({e})
  OBVIOUS
<1>5. IsSeq(<<e>>)
  BY <1>4, TypedIsSeq
<1>. QED
  BY <1>3, <1>5

=============================================================================
