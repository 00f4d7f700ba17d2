----------------------------- MODULE SumProofs -----------------------------
(***************************************************************************)
(* What SumFunctionOnSet of the community modules computes, for every      *)
(* finite set: it is defined by taking elements out of the set, in an      *)
(* order CHOOSE picks, and the lemmas here show that the order does not    *)
(* matter.  The induction is over the subsets of a finite set, which       *)
(* strict inclusion orders well (WFMin).                                   *)
(***************************************************************************)
EXTENDS Integers, FiniteSets, Functions, FiniteSetTheorems, WellFoundedInduction, TLAPS

(* What holds of a subset whenever it holds of all smaller ones holds of   *)
(* the whole finite set.                                                   *)
LEMMA SubsetInduction ==
  ASSUME NEW S, IsFiniteSet(S), NEW Good,
         \A T \in SUBSET S : (\A U \in SUBSET T : U # T => U \in Good) => T \in Good
  PROVE  S \in Good
<1> DEFINE Bad == {T \in SUBSET S : T \notin Good}
<1>1. FiniteSubsetsOf(S) = SUBSET S
  BY FS_FiniteSubsetsOfFinite
<1>2. IsWellFoundedOn(StrictSubsetOrdering(S), SUBSET S)
  BY <1>1, FS_StrictSubsetOrderingWellFounded
<1>3. SUFFICES ASSUME Bad # {} PROVE FALSE
  OBVIOUS
<1>4. Bad \subseteq SUBSET S
  OBVIOUS
<1> HIDE DEF Bad
<1>5. PICK T \in Bad : \A U \in Bad : <<U, T>> \notin StrictSubsetOrdering(S)
  BY <1>2, <1>3, <1>4, WFMin
<1>6. T \in SUBSET S /\ T \notin Good
  BY <1>5 DEF Bad
<1>7. ASSUME NEW U \in SUBSET T, U # T
      PROVE  U \in Good
  <2>1. <<U, T>> \in StrictSubsetOrdering(S)
    BY <1>6, <1>7 DEF StrictSubsetOrdering
  <2> QED
    BY <1>5, <1>6, <2>1 DEF Bad
<1> QED
  BY <1>6, <1>7

-----------------------------------------------------------------------------

Picked(s) == CHOOSE x \in s : TRUE

(* g is the function that SumFunctionOnSet(fun, S) defines.                *)
Sums(g, fun, S) ==
  g = [s \in SUBSET S |-> IF s = {} THEN 0 ELSE fun[Picked(s)] + g[s \ {Picked(s)}]]

(* SumFunctionOnSet in these terms.                                        *)
LEMMA SumUnfolded ==
  ASSUME NEW fun, NEW S
  PROVE  SumFunctionOnSet(fun, S) = (CHOOSE g : Sums(g, fun, S))[S]
  BY DEF SumFunctionOnSet, FoldFunctionOnSet, MapThenFoldSet, Sums, Picked

(* Two such functions, for two sets, agree on what both sum.               *)
LEMMA SumsAgree ==
  ASSUME NEW fun, NEW S, NEW T, NEW g, NEW h, Sums(g, fun, S), Sums(h, fun, T),
         NEW U, IsFiniteSet(U), U \subseteq S, U \subseteq T
  PROVE  g[U] = h[U]
<1> DEFINE Good == {V \in SUBSET U : g[V] = h[V]}
<1>1. ASSUME NEW V \in SUBSET U, \A W \in SUBSET V : W # V => W \in Good
      PROVE  V \in Good
  <2>1. V \in SUBSET S /\ V \in SUBSET T
    OBVIOUS
  <2>2. CASE V = {}
    <3>1. g[V] = 0 /\ h[V] = 0
      BY <2>1, <2>2 DEF Sums
    <3> QED
      BY <3>1
  <2>3. CASE V # {}
    <3>1. g[V] = fun[Picked(V)] + g[V \ {Picked(V)}]
      BY <2>1, <2>3 DEF Sums
    <3>2. h[V] = fun[Picked(V)] + h[V \ {Picked(V)}]
      BY <2>1, <2>3 DEF Sums
    <3>3. Picked(V) \in V
      BY <2>3 DEF Picked
    <3>4. g[V \ {Picked(V)}] = h[V \ {Picked(V)}]
      BY <1>1, <3>3
    <3> QED
      BY <3>1, <3>2, <3>4
  <2> QED
    BY <2>2, <2>3
<1>2. U \in Good
  <2> HIDE DEF Good
  <2> QED
    BY <1>1, SubsetInduction
<1> QED
  BY <1>2

(* There is such a function for every finite set.                          *)
LEMMA SumsExist ==
  ASSUME NEW fun, NEW S, IsFiniteSet(S)
  PROVE  \E g : Sums(g, fun, S)
<1> DEFINE Good == {T \in SUBSET S : \E g : Sums(g, fun, T)}
<1>1. ASSUME NEW T \in SUBSET S, \A U \in SUBSET T : U # T => U \in Good
      PROVE  T \in Good
  <2> DEFINE G(U) == CHOOSE g : Sums(g, fun, U)
             R(s) == s \ {Picked(s)}
             f    == [s \in SUBSET T |-> IF s = {} THEN 0 ELSE fun[Picked(s)] + G(R(s))[R(s)]]
  <2>1. \A U \in SUBSET T : U # T => Sums(G(U), fun, U)
    BY <1>1
  <2>2. \A U : U \in SUBSET T => IsFiniteSet(U)
    BY FS_Subset
  <2>3. ASSUME NEW s \in SUBSET T, s # {}
        PROVE  f[R(s)] = G(R(s))[R(s)]
    <3>1. Picked(s) \in s
      BY <2>3 DEF Picked
    <3>2. R(s) \in SUBSET T /\ R(s) # T
      BY <3>1
    <3>3. Sums(G(R(s)), fun, R(s))
      BY <2>1, <3>2
    <3> HIDE DEF G
    <3>4. CASE R(s) = {}
      <4>1. G(R(s))[R(s)] = 0
        BY <3>3, <3>4 DEF Sums
      <4>2. f[R(s)] = 0
        BY <3>2, <3>4
      <4> QED
        BY <4>1, <4>2
    <3>5. CASE R(s) # {}
      <4> DEFINE t == R(s)
      <4>1. Picked(t) \in t
        BY <3>5 DEF Picked
      <4>2. t \in SUBSET T /\ R(t) \in SUBSET T /\ R(t) # T /\ R(t) \subseteq t
        BY <3>2, <4>1
      <4> HIDE DEF R, t
      <4>3. G(t)[t] = fun[Picked(t)] + G(t)[R(t)]
        BY <3>3, <3>5 DEF Sums, R, t
      <4>4. f[t] = fun[Picked(t)] + G(R(t))[R(t)]
        BY <3>5, <4>2 DEF t
      <4>5. G(t)[R(t)] = G(R(t))[R(t)]
        BY <2>1, <2>2, <3>3, <4>2, SumsAgree DEF t
      <4> QED
        BY <4>3, <4>4, <4>5 DEF t
    <3> QED
      BY <3>4, <3>5
  <2>4. Sums(f, fun, T)
    <3> HIDE DEF G
    <3>1. f = [s \in SUBSET T |-> IF s = {} THEN 0 ELSE fun[Picked(s)] + f[R(s)]]
      BY <2>3
    <3> QED
      BY <3>1 DEF Sums
  <2> HIDE DEF f
  <2> QED
    BY <2>4
<1>2. S \in Good
  <2> HIDE DEF Good
  <2> QED
    BY <1>1, SubsetInduction
<1> QED
  BY <1>2

-----------------------------------------------------------------------------

(* The empty sum.                                                          *)
LEMMA SumEmpty ==
  ASSUME NEW fun
  PROVE  SumFunctionOnSet(fun, {}) = 0
<1>1. \E g : Sums(g, fun, {})
  BY SumsExist, FS_EmptySet
<1>2. Sums(CHOOSE g : Sums(g, fun, {}), fun, {})
  BY <1>1
<1> QED
  BY <1>2, SumUnfolded DEF Sums

(* A sum is the element picked first and the sum of the rest.              *)
LEMMA SumPicked ==
  ASSUME NEW fun, NEW S, IsFiniteSet(S), S # {}
  PROVE  /\ Picked(S) \in S
         /\ SumFunctionOnSet(fun, S) = fun[Picked(S)] + SumFunctionOnSet(fun, S \ {Picked(S)})
<1> DEFINE R    == S \ {Picked(S)}
           G(U) == CHOOSE g : Sums(g, fun, U)
<1>1. Picked(S) \in S
  BY DEF Picked
<1>2. IsFiniteSet(R)
  BY FS_Subset
<1>3. Sums(G(S), fun, S) /\ Sums(G(R), fun, R)
  BY <1>2, SumsExist
<1> HIDE DEF G
<1>4. G(S)[S] = fun[Picked(S)] + G(S)[R]
  BY <1>3 DEF Sums
<1>5. G(S)[R] = G(R)[R]
  BY <1>2, <1>3, SumsAgree
<1>6. SumFunctionOnSet(fun, S) = G(S)[S] /\ SumFunctionOnSet(fun, R) = G(R)[R]
  BY SumUnfolded DEF G
<1> QED
  BY <1>1, <1>4, <1>5, <1>6

(* A sum of integers is one.                                               *)
LEMMA SumInteger ==
  ASSUME NEW fun, NEW S, IsFiniteSet(S), \A x \in S : fun[x] \in Int
  PROVE  SumFunctionOnSet(fun, S) \in Int
<1> DEFINE Good == {T \in SUBSET S : SumFunctionOnSet(fun, T) \in Int}
<1>1. ASSUME NEW T \in SUBSET S, \A U \in SUBSET T : U # T => U \in Good
      PROVE  T \in Good
  <2>1. CASE T = {}
    BY <2>1, SumEmpty
  <2>2. CASE T # {}
    <3>1. IsFiniteSet(T)
      BY FS_Subset
    <3>2. /\ Picked(T) \in T
          /\ SumFunctionOnSet(fun, T) = fun[Picked(T)] + SumFunctionOnSet(fun, T \ {Picked(T)})
      BY <2>2, <3>1, SumPicked
    <3>3. SumFunctionOnSet(fun, T \ {Picked(T)}) \in Int
      BY <1>1, <3>2
    <3> QED
      BY <3>2, <3>3
  <2> QED
    BY <2>1, <2>2
<1>2. S \in Good
  <2> HIDE DEF Good
  <2> QED
    BY <1>1, SubsetInduction
<1> QED
  BY <1>2

(* Whichever element is taken out first, the sum is the same.              *)
LEMMA SumRemoved ==
  ASSUME NEW fun, NEW S, IsFiniteSet(S), \A x \in S : fun[x] \in Int, NEW y \in S
  PROVE  SumFunctionOnSet(fun, S) = fun[y] + SumFunctionOnSet(fun, S \ {y})
<1> DEFINE Splits(T) == \A z \in T : SumFunctionOnSet(fun, T) = fun[z] + SumFunctionOnSet(fun, T \ {z})
           Good      == {T \in SUBSET S : Splits(T)}
<1>1. ASSUME NEW T \in SUBSET S, \A U \in SUBSET T : U # T => U \in Good
      PROVE  T \in Good
  <2> SUFFICES ASSUME NEW z \in T
               PROVE  SumFunctionOnSet(fun, T) = fun[z] + SumFunctionOnSet(fun, T \ {z})
    OBVIOUS
  <2> DEFINE x == Picked(T)
  <2>1. IsFiniteSet(T) /\ IsFiniteSet(T \ {z}) /\ IsFiniteSet(T \ {x}) /\ IsFiniteSet((T \ {x}) \ {z})
    BY FS_Subset
  <2>2. x \in T /\ SumFunctionOnSet(fun, T) = fun[x] + SumFunctionOnSet(fun, T \ {x})
    BY <2>1, SumPicked
  <2>3. CASE z = x
    BY <2>2, <2>3
  <2>4. CASE z # x
    <3> HIDE DEF x
    <3>1. SumFunctionOnSet(fun, T \ {x}) = fun[z] + SumFunctionOnSet(fun, (T \ {x}) \ {z})
      BY <1>1, <2>2, <2>4
    <3>2. SumFunctionOnSet(fun, T \ {z}) = fun[x] + SumFunctionOnSet(fun, (T \ {z}) \ {x})
      BY <1>1, <2>2, <2>4
    <3>3. (T \ {x}) \ {z} = (T \ {z}) \ {x}
      OBVIOUS
    <3>4. SumFunctionOnSet(fun, (T \ {x}) \ {z}) \in Int
      BY <2>1, SumInteger
    <3>5. fun[x] \in Int /\ fun[z] \in Int
      BY <2>2
    <3>6. SumFunctionOnSet(fun, T \ {z}) = fun[x] + SumFunctionOnSet(fun, (T \ {x}) \ {z})
      BY <3>2, <3>3, Zenon
    <3>7. SumFunctionOnSet(fun, T) = fun[x] + (fun[z] + SumFunctionOnSet(fun, (T \ {x}) \ {z}))
      BY <2>2, <3>1, Zenon
    <3> QED
      BY <3>4, <3>5, <3>6, <3>7
  <2> QED
    BY <2>3, <2>4
<1>2. S \in Good
  <2> HIDE DEF Good
  <2> QED
    BY <1>1, SubsetInduction
<1> QED
  BY <1>2

(* One more element.                                                       *)
LEMMA SumAdded ==
  ASSUME NEW fun, NEW S, IsFiniteSet(S), NEW y, y \notin S,
         \A x \in S \cup {y} : fun[x] \in Int
  PROVE  SumFunctionOnSet(fun, S \cup {y}) = SumFunctionOnSet(fun, S) + fun[y]
<1>1. IsFiniteSet(S \cup {y}) /\ (S \cup {y}) \ {y} = S
  BY FS_AddElement
<1>2. SumFunctionOnSet(fun, S \cup {y}) = fun[y] + SumFunctionOnSet(fun, (S \cup {y}) \ {y})
  <2>1. y \in S \cup {y}
    OBVIOUS
  <2> QED
    BY <1>1, <2>1, SumRemoved
<1>3. SumFunctionOnSet(fun, S \cup {y}) = fun[y] + SumFunctionOnSet(fun, S)
  BY <1>1, <1>2, Zenon
<1>4. SumFunctionOnSet(fun, S) \in Int /\ fun[y] \in Int
  BY SumInteger
<1> QED
  BY <1>3, <1>4

(* Summing f over S and g over the image of S under h, which maps no two   *)
(* elements to one, is the same if h carries the values over.              *)
LEMMA SumImage ==
  ASSUME NEW f, NEW g, NEW h, NEW S, IsFiniteSet(S),
         \A x, y \in S : h[x] = h[y] => x = y,
         \A x \in S : f[x] \in Int /\ g[h[x]] = f[x]
  PROVE  SumFunctionOnSet(f, S) = SumFunctionOnSet(g, {h[x] : x \in S})
<1> DEFINE Image(T) == {h[x] : x \in T}
           Good     == {T \in SUBSET S : SumFunctionOnSet(f, T) = SumFunctionOnSet(g, Image(T))}
<1>1. ASSUME NEW T \in SUBSET S, \A U \in SUBSET T : U # T => U \in Good
      PROVE  T \in Good
  <2>1. CASE T = {}
    <3>1. Image(T) = {}
      BY <2>1
    <3> QED
      BY <2>1, <3>1, SumEmpty
  <2>2. CASE T # {}
    <3> DEFINE x == Picked(T)
               U == T \ {x}
    <3>1. IsFiniteSet(T) /\ IsFiniteSet(U)
      BY FS_Subset
    <3>2. x \in T /\ SumFunctionOnSet(f, T) = f[x] + SumFunctionOnSet(f, U)
      BY <2>2, <3>1, SumPicked
    <3>3. SumFunctionOnSet(f, U) = SumFunctionOnSet(g, Image(U))
      BY <1>1, <3>2
    <3> HIDE DEF x
    <3>4. h[x] \notin Image(U) /\ Image(T) = Image(U) \cup {h[x]}
      BY <3>2
    <3>5. IsFiniteSet(Image(U))
      <4>1. [u \in U |-> h[u]] \in Surjection(U, Image(U))
        BY DEF Surjection
      <4> HIDE DEF Image
      <4> QED
        BY <3>1, <4>1, FS_Surjection
    <3>6. \A y \in Image(U) \cup {h[x]} : g[y] \in Int
      BY <3>2
    <3>7. SumFunctionOnSet(g, Image(U) \cup {h[x]}) = SumFunctionOnSet(g, Image(U)) + g[h[x]]
      <4> DEFINE V == Image(U)
                 y == h[x]
      <4>1. y \notin V /\ IsFiniteSet(V) /\ \A z \in V \cup {y} : g[z] \in Int
        BY <3>4, <3>5, <3>6
      <4> HIDE DEF V, y
      <4>2. SumFunctionOnSet(g, V \cup {y}) = SumFunctionOnSet(g, V) + g[y]
        BY <4>1, SumAdded
      <4> QED
        BY <4>2 DEF V, y
    <3>8. f[x] \in Int /\ g[h[x]] = f[x] /\ SumFunctionOnSet(f, U) \in Int
      <4>1. \A y \in U : f[y] \in Int
        OBVIOUS
      <4> QED
        BY <3>1, <3>2, <4>1, SumInteger
    <3>9. T \in SUBSET S
      OBVIOUS
    <3> HIDE DEF U, Image
    <3>10. SumFunctionOnSet(g, Image(T)) = SumFunctionOnSet(f, U) + f[x]
      BY <3>3, <3>4, <3>7, <3>8, Zenon
    <3>11. SumFunctionOnSet(f, T) = SumFunctionOnSet(g, Image(T))
      BY <3>2, <3>8, <3>10
    <3> USE DEF Image
    <3> QED
      BY <3>9, <3>11
  <2> QED
    BY <2>1, <2>2
<1>2. S \in Good
  <2> HIDE DEF Good
  <2> QED
    BY <1>1, SubsetInduction
<1> QED
  BY <1>2

(* A sum only looks at the values on its set.                              *)
LEMMA SumSame ==
  ASSUME NEW f, NEW g, NEW S, IsFiniteSet(S), \A x \in S : f[x] \in Int /\ g[x] = f[x]
  PROVE  SumFunctionOnSet(f, S) = SumFunctionOnSet(g, S)
<1> DEFINE h == [x \in S |-> x]
<1>1. {h[x] : x \in S} = S
  OBVIOUS
<1>2. /\ \A x, y \in S : h[x] = h[y] => x = y
      /\ \A x \in S : f[x] \in Int /\ g[h[x]] = f[x]
  OBVIOUS
<1> HIDE DEF h
<1>3. SumFunctionOnSet(f, S) = SumFunctionOnSet(g, {h[x] : x \in S})
  BY <1>2, SumImage
<1> QED
  BY <1>1, <1>3
=============================================================================
