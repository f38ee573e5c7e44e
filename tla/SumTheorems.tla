---------------------------- MODULE SumTheorems ----------------------------
(***************************************************************************)
(* Sums over finite sets, as SumFunctionOnSet of the community modules     *)
(* defines them: a recursion that takes the elements of the set in an      *)
(* order of its own. The books of this system are sums; the lemmas say how *)
(* a sum changes when one of its terms does. The last section is about     *)
(* division that rounds up.                                                *)
(***************************************************************************)
EXTENDS Integers, Functions, FiniteSetTheorems, WellFoundedInduction, TLAPS

LEMMA LeastNumber ==
  ASSUME NEW T \in SUBSET Nat, T # {}
  PROVE  \E n \in T : \A m \in T : n <= m
<1>1. \E x \in T : \A y \in T : ~ (<<y, x>> \in OpToRel(<, Nat))
  BY NatLessThanWellFounded, WFMin
<1>2. \E n \in T : \A m \in T : ~ (m < n)
  BY <1>1 DEF OpToRel
<1> QED BY <1>2

(* A property of every subset of a finite set: Good holds those that have  *)
(* it.                                                                     *)
LEMMA SubsetInduction ==
  ASSUME NEW S, IsFiniteSet(S), NEW Good,
         \A T \in SUBSET S : (\A U \in SUBSET T : U # T => U \in Good) => T \in Good
  PROVE  \A T \in SUBSET S : T \in Good
<1> SUFFICES ASSUME NEW B \in SUBSET S, B \notin Good PROVE FALSE
  OBVIOUS
<1> DEFINE sizes == {Cardinality(T) : T \in {V \in SUBSET S : V \notin Good}}
<1>1. \A T \in SUBSET S : IsFiniteSet(T) /\ Cardinality(T) \in Nat
  BY FS_Subset, FS_CardinalityType
<1>2. sizes \in SUBSET Nat
  BY <1>1
<1>3. sizes # {}
  OBVIOUS
<1>4. PICK n \in sizes : \A m \in sizes : n <= m
  <2> HIDE DEF sizes
  <2> QED BY <1>2, <1>3, LeastNumber
<1>5. PICK T \in SUBSET S : T \notin Good /\ n = Cardinality(T)
  OBVIOUS
<1>6. PICK U \in SUBSET T : U # T /\ U \notin Good
  BY <1>5
<1>7. U \in SUBSET S /\ Cardinality(U) \in sizes
  BY <1>6
<1>8. Cardinality(U) < Cardinality(T)
  BY <1>1, <1>6, FS_Subset
<1> QED BY <1>1, <1>2, <1>4, <1>5, <1>7, <1>8

(* The same, one element at a time.                                        *)
LEMMA ElementInduction ==
  ASSUME NEW S, IsFiniteSet(S), NEW Good, {} \in Good,
         \A T \in SUBSET S : \A x \in T : T \ {x} \in Good => T \in Good
  PROVE  S \in Good
<1>1. ASSUME NEW T \in SUBSET S, \A U \in SUBSET T : U # T => U \in Good PROVE T \in Good
  <2>1. CASE T = {}
    BY <2>1
  <2>2. CASE T # {}
    <3>1. PICK x : x \in T
      BY <2>2
    <3>2. T \ {x} \in SUBSET T /\ T \ {x} # T
      BY <3>1
    <3> QED BY <1>1, <3>1, <3>2
  <2> QED BY <2>1, <2>2
<1>2. \A T \in SUBSET S : T \in Good
  BY <1>1, SubsetInduction
<1> QED BY <1>2

-----------------------------------------------------------------------------
Choice(s) == CHOOSE x \in s : TRUE

(* What the definition of the sum asks of its partial sums.                *)
Partial(f, S, g) ==
  g = [s \in SUBSET S |-> IF s = {} THEN 0 ELSE f[Choice(s)] + g[s \ {Choice(s)}]]

LEMMA SumIsPartial ==
  ASSUME NEW f, NEW S
  PROVE  SumFunctionOnSet(f, S) = (CHOOSE g : Partial(f, S, g))[S]
BY DEF SumFunctionOnSet, FoldFunctionOnSet, MapThenFoldSet, Partial, Choice

LEMMA ChoiceIn == ASSUME NEW s, s # {} PROVE Choice(s) \in s
BY DEF Choice

LEMMA PartialValue ==
  ASSUME NEW f, NEW S, NEW g, Partial(f, S, g), NEW s \in SUBSET S
  PROVE  g[s] = IF s = {} THEN 0 ELSE f[Choice(s)] + g[s \ {Choice(s)}]
<1> DEFINE body == [t \in SUBSET S |-> IF t = {} THEN 0 ELSE f[Choice(t)] + g[t \ {Choice(t)}]]
<1>1. g = body
  BY DEF Partial
<1>2. body[s] = IF s = {} THEN 0 ELSE f[Choice(s)] + g[s \ {Choice(s)}]
  OBVIOUS
<1> QED BY <1>1, <1>2

LEMMA PartialFrom ==
  ASSUME NEW f, NEW S, NEW g, g = [s \in SUBSET S |-> g[s]],
         \A s \in SUBSET S : g[s] = IF s = {} THEN 0 ELSE f[Choice(s)] + g[s \ {Choice(s)}]
  PROVE  Partial(f, S, g)
<1>1. [s \in SUBSET S |-> g[s]]
        = [s \in SUBSET S |-> IF s = {} THEN 0 ELSE f[Choice(s)] + g[s \ {Choice(s)}]]
  OBVIOUS
<1> QED BY <1>1 DEF Partial

LEMMA PartialIsFunction ==
  ASSUME NEW f, NEW S, NEW g, Partial(f, S, g)
  PROVE  g = [s \in SUBSET S |-> g[s]]
BY DEF Partial

LEMMA PartialUnique ==
  ASSUME NEW f, NEW S, IsFiniteSet(S), NEW g, NEW h, Partial(f, S, g), Partial(f, S, h)
  PROVE  \A s \in SUBSET S : g[s] = h[s]
<1> DEFINE Good == {s \in SUBSET S : g[s] = h[s]}
<1>1. ASSUME NEW T \in SUBSET S, \A U \in SUBSET T : U # T => U \in Good PROVE T \in Good
  <2>1. CASE T = {}
    BY <2>1, PartialValue
  <2>2. CASE T # {}
    <3>1. Choice(T) \in T
      BY <2>2, ChoiceIn
    <3>2. T \ {Choice(T)} \in SUBSET T /\ T \ {Choice(T)} # T
      BY <3>1
    <3>3. g[T \ {Choice(T)}] = h[T \ {Choice(T)}]
      BY <1>1, <3>2
    <3>4. /\ g[T] = f[Choice(T)] + g[T \ {Choice(T)}]
          /\ h[T] = f[Choice(T)] + h[T \ {Choice(T)}]
      BY <2>2, PartialValue
    <3> QED BY <3>3, <3>4
  <2> QED BY <2>1, <2>2
<1>2. \A T \in SUBSET S : T \in Good
  <2> HIDE DEF Good
  <2> QED BY <1>1, SubsetInduction
<1> QED BY <1>2

LEMMA PartialRestricts ==
  ASSUME NEW f, NEW S, NEW g, Partial(f, S, g), NEW T \in SUBSET S
  PROVE  Partial(f, T, [s \in SUBSET T |-> g[s]])
<1> DEFINE h == [s \in SUBSET T |-> g[s]]
<1>1. ASSUME NEW s \in SUBSET T
      PROVE  h[s] = IF s = {} THEN 0 ELSE f[Choice(s)] + h[s \ {Choice(s)}]
  <2>1. s \in SUBSET S /\ s \ {Choice(s)} \in SUBSET T
    OBVIOUS
  <2>2. g[s] = IF s = {} THEN 0 ELSE f[Choice(s)] + g[s \ {Choice(s)}]
    BY <2>1, PartialValue
  <2>3. h[s] = g[s] /\ h[s \ {Choice(s)}] = g[s \ {Choice(s)}]
    BY <2>1
  <2> HIDE DEF h
  <2> QED BY <2>2, <2>3
<1>2. h = [s \in SUBSET T |-> h[s]]
  OBVIOUS
<1> HIDE DEF h
<1>3. Partial(f, T, h)
  BY <1>1, <1>2, PartialFrom
<1> QED BY <1>3 DEF h

(* If there are partial sums up to T, the sum is the last of them.         *)
LEMMA SumValue ==
  ASSUME NEW f, NEW S, IsFiniteSet(S), NEW g, Partial(f, S, g), NEW T \in SUBSET S
  PROVE  SumFunctionOnSet(f, T) = g[T]
<1> DEFINE h == [s \in SUBSET T |-> g[s]]
<1>1. Partial(f, T, h)
  BY PartialRestricts
<1> HIDE DEF h
<1>2. PICK k : k = CHOOSE p : Partial(f, T, p)
  OBVIOUS
<1>3. Partial(f, T, k)
  BY <1>1, <1>2
<1>4. IsFiniteSet(T) /\ T \in SUBSET T
  BY FS_Subset
<1>5. k[T] = h[T]
  BY <1>1, <1>3, <1>4, PartialUnique
<1>6. h[T] = g[T]
  BY DEF h
<1> QED BY <1>2, <1>5, <1>6, SumIsPartial

LEMMA PartialExists ==
  ASSUME NEW f, NEW S, IsFiniteSet(S)
  PROVE  \E g : Partial(f, S, g)
<1> DEFINE Good == {T \in SUBSET S : \E g : Partial(f, T, g)}
<1>1. ASSUME NEW T \in SUBSET S, \A U \in SUBSET T : U # T => U \in Good PROVE T \in Good
  <2> DEFINE Sum(s) == SumFunctionOnSet(f, s)
             g == [s \in SUBSET T |-> IF s = {} THEN 0 ELSE f[Choice(s)] + Sum(s \ {Choice(s)})]
  <2>1. ASSUME NEW u \in SUBSET T, u # T PROVE g[u] = Sum(u)
    <3>1. PICK h : Partial(f, u, h)
      BY <1>1, <2>1
    <3>2. IsFiniteSet(u) /\ u \in SUBSET u /\ u \ {Choice(u)} \in SUBSET u
      BY FS_Subset
    <3>3. Sum(u) = h[u] /\ Sum(u \ {Choice(u)}) = h[u \ {Choice(u)}]
      BY <3>1, <3>2, SumValue
    <3>4. h[u] = IF u = {} THEN 0 ELSE f[Choice(u)] + h[u \ {Choice(u)}]
      BY <3>1, <3>2, PartialValue
    <3>5. g[u] = IF u = {} THEN 0 ELSE f[Choice(u)] + Sum(u \ {Choice(u)})
      OBVIOUS
    <3> QED BY <3>3, <3>4, <3>5
  <2>2. ASSUME NEW s \in SUBSET T
        PROVE  g[s] = IF s = {} THEN 0 ELSE f[Choice(s)] + g[s \ {Choice(s)}]
    <3>1. g[s] = IF s = {} THEN 0 ELSE f[Choice(s)] + Sum(s \ {Choice(s)})
      OBVIOUS
    <3>2. CASE s = {}
      BY <3>1, <3>2
    <3>3. CASE s # {}
      <4>1. s \ {Choice(s)} \in SUBSET T /\ s \ {Choice(s)} # T
        BY <3>3, ChoiceIn
      <4>2. g[s \ {Choice(s)}] = Sum(s \ {Choice(s)})
        BY <2>1, <4>1
      <4> QED BY <3>1, <3>3, <4>2
    <3> QED BY <3>2, <3>3
  <2>3. g = [s \in SUBSET T |-> g[s]]
    OBVIOUS
  <2> HIDE DEF g
  <2>4. Partial(f, T, g)
    BY <2>2, <2>3, PartialFrom
  <2> QED BY <2>4
<1>2. \A T \in SUBSET S : T \in Good
  <2> HIDE DEF Good
  <2> QED BY <1>1, SubsetInduction
<1> QED BY <1>2

-----------------------------------------------------------------------------
LEMMA SumEmpty ==
  ASSUME NEW f PROVE SumFunctionOnSet(f, {}) = 0
<1>1. IsFiniteSet({})
  BY FS_EmptySet
<1>2. PICK g : Partial(f, {}, g)
  BY <1>1, PartialExists
<1>3. g[{}] = 0
  BY <1>2, PartialValue
<1> QED BY <1>1, <1>2, <1>3, SumValue

LEMMA SumChosen ==
  ASSUME NEW f, NEW S, IsFiniteSet(S), S # {}
  PROVE  SumFunctionOnSet(f, S) = f[Choice(S)] + SumFunctionOnSet(f, S \ {Choice(S)})
<1>1. PICK g : Partial(f, S, g)
  BY PartialExists
<1>2. S \in SUBSET S /\ S \ {Choice(S)} \in SUBSET S
  OBVIOUS
<1>3. g[S] = f[Choice(S)] + g[S \ {Choice(S)}]
  BY <1>1, <1>2, PartialValue
<1> QED BY <1>1, <1>2, <1>3, SumValue

LEMMA SumIsInteger ==
  ASSUME NEW f, NEW S, IsFiniteSet(S), \A x \in S : f[x] \in Int
  PROVE  SumFunctionOnSet(f, S) \in Int
<1> DEFINE Good == {T \in SUBSET S : SumFunctionOnSet(f, T) \in Int}
<1>1. ASSUME NEW T \in SUBSET S, \A U \in SUBSET T : U # T => U \in Good PROVE T \in Good
  <2>1. CASE T = {}
    BY <2>1, SumEmpty
  <2>2. CASE T # {}
    <3>1. Choice(T) \in T /\ IsFiniteSet(T)
      BY <2>2, ChoiceIn, FS_Subset
    <3>2. SumFunctionOnSet(f, T \ {Choice(T)}) \in Int /\ f[Choice(T)] \in Int
      BY <1>1, <3>1
    <3> QED BY <2>2, <3>1, <3>2, SumChosen
  <2> QED BY <2>1, <2>2
<1>2. \A T \in SUBSET S : T \in Good
  <2> HIDE DEF Good
  <2> QED BY <1>1, SubsetInduction
<1> QED BY <1>2

(* A sum does not depend on the order: any term may be taken first.        *)
LEMMA SumRemove ==
  ASSUME NEW f, NEW S, IsFiniteSet(S), \A x \in S : f[x] \in Int, NEW x \in S
  PROVE  SumFunctionOnSet(f, S) = f[x] + SumFunctionOnSet(f, S \ {x})
<1> DEFINE Sum(T) == SumFunctionOnSet(f, T)
           Good == {T \in SUBSET S : \A y \in T : Sum(T) = f[y] + Sum(T \ {y})}
<1>1. ASSUME NEW T \in SUBSET S, \A U \in SUBSET T : U # T => U \in Good PROVE T \in Good
  <2> SUFFICES ASSUME NEW y \in T PROVE Sum(T) = f[y] + Sum(T \ {y})
    OBVIOUS
  <2>1. PICK c : c = Choice(T)
    OBVIOUS
  <2>2. c \in T /\ IsFiniteSet(T) /\ T # {}
    BY <2>1, ChoiceIn, FS_Subset
  <2>3. Sum(T) = f[c] + Sum(T \ {c})
    BY <2>1, <2>2, SumChosen
  <2>4. CASE y = c
    BY <2>3, <2>4
  <2>5. CASE y # c
    <3>1. T \ {c} \in Good /\ T \ {y} \in Good
      BY <1>1, <2>2
    <3>2. y \in T \ {c} /\ c \in T \ {y} /\ (T \ {c}) \ {y} = (T \ {y}) \ {c}
      BY <2>2, <2>5
    <3>3. PICK rest : rest = (T \ {c}) \ {y}
      OBVIOUS
    <3>4. Sum(T \ {c}) = f[y] + Sum(rest) /\ Sum(T \ {y}) = f[c] + Sum(rest)
      BY <3>1, <3>2, <3>3
    <3>5. rest \in SUBSET S /\ IsFiniteSet(rest)
      BY <3>3, FS_Subset
    <3>6. Sum(rest) \in Int
      BY <3>5, SumIsInteger
    <3>7. f[c] \in Int /\ f[y] \in Int
      BY <2>2
    <3> HIDE DEF Sum
    <3> QED BY <2>3, <3>4, <3>6, <3>7
  <2> QED BY <2>4, <2>5
<1>2. \A T \in SUBSET S : T \in Good
  <2> HIDE DEF Good
  <2> QED BY <1>1, SubsetInduction
<1>3. S \in Good
  BY <1>2
<1> QED BY <1>3

LEMMA SumAdd ==
  ASSUME NEW f, NEW S, IsFiniteSet(S), \A x \in S : f[x] \in Int,
         NEW x, x \notin S, f[x] \in Int
  PROVE  SumFunctionOnSet(f, S \cup {x}) = f[x] + SumFunctionOnSet(f, S)
<1>1. IsFiniteSet(S \cup {x})
  BY FS_AddElement
<1>2. (S \cup {x}) \ {x} = S
  OBVIOUS
<1>3. \A y \in S \cup {x} : f[y] \in Int
  OBVIOUS
<1>4. PICK T : T = S \cup {x}
  OBVIOUS
<1>5. SumFunctionOnSet(f, T) = f[x] + SumFunctionOnSet(f, T \ {x})
  BY <1>1, <1>3, <1>4, SumRemove
<1> QED BY <1>2, <1>4, <1>5

LEMMA SumSame ==
  ASSUME NEW f, NEW g, NEW S, IsFiniteSet(S), \A x \in S : f[x] = g[x]
  PROVE  SumFunctionOnSet(f, S) = SumFunctionOnSet(g, S)
<1> DEFINE Good == {T \in SUBSET S : SumFunctionOnSet(f, T) = SumFunctionOnSet(g, T)}
<1>1. ASSUME NEW T \in SUBSET S, \A U \in SUBSET T : U # T => U \in Good PROVE T \in Good
  <2>1. CASE T = {}
    BY <2>1, SumEmpty
  <2>2. CASE T # {}
    <3>1. Choice(T) \in T /\ IsFiniteSet(T)
      BY <2>2, ChoiceIn, FS_Subset
    <3>2. /\ SumFunctionOnSet(f, T \ {Choice(T)}) = SumFunctionOnSet(g, T \ {Choice(T)})
          /\ f[Choice(T)] = g[Choice(T)]
      BY <1>1, <3>1
    <3> QED BY <2>2, <3>1, <3>2, SumChosen
  <2> QED BY <2>1, <2>2
<1>2. \A T \in SUBSET S : T \in Good
  <2> HIDE DEF Good
  <2> QED BY <1>1, SubsetInduction
<1> QED BY <1>2

(* One term changes: the sum changes by as much.                           *)
LEMMA SumChange ==
  ASSUME NEW f, NEW g, NEW S, IsFiniteSet(S), NEW x \in S,
         \A y \in S : f[y] \in Int, g[x] \in Int, \A y \in S : y # x => g[y] = f[y]
  PROVE  SumFunctionOnSet(g, S) = SumFunctionOnSet(f, S) + g[x] - f[x]
<1> DEFINE rest == S \ {x}
<1>1. IsFiniteSet(rest)
  BY FS_RemoveElement
<1>2. SumFunctionOnSet(f, rest) = SumFunctionOnSet(g, rest)
  BY <1>1, SumSame
<1>3. SumFunctionOnSet(f, rest) \in Int
  BY <1>1, SumIsInteger
<1>4. \A y \in S : g[y] \in Int
  OBVIOUS
<1>5. /\ SumFunctionOnSet(f, S) = f[x] + SumFunctionOnSet(f, rest)
      /\ SumFunctionOnSet(g, S) = g[x] + SumFunctionOnSet(g, rest)
  BY <1>4, SumRemove
<1> HIDE DEF rest
<1> QED BY <1>2, <1>3, <1>5

(* Sums add up term by term.                                               *)
LEMMA SumPlus ==
  ASSUME NEW f, NEW g, NEW h, NEW S, IsFiniteSet(S),
         \A x \in S : f[x] \in Int /\ g[x] \in Int /\ h[x] = f[x] + g[x]
  PROVE  SumFunctionOnSet(h, S) = SumFunctionOnSet(f, S) + SumFunctionOnSet(g, S)
<1> DEFINE Good == {T \in SUBSET S :
             SumFunctionOnSet(h, T) = SumFunctionOnSet(f, T) + SumFunctionOnSet(g, T)}
<1>1. ASSUME NEW T \in SUBSET S, \A U \in SUBSET T : U # T => U \in Good PROVE T \in Good
  <2>1. CASE T = {}
    BY <2>1, SumEmpty
  <2>2. CASE T # {}
    <3>1. Choice(T) \in T /\ IsFiniteSet(T) /\ IsFiniteSet(T \ {Choice(T)})
      BY <2>2, ChoiceIn, FS_Subset
    <3>2. PICK c, U : c = Choice(T) /\ U = T \ {c}
      OBVIOUS
    <3>3. SumFunctionOnSet(h, U) = SumFunctionOnSet(f, U) + SumFunctionOnSet(g, U)
      BY <1>1, <3>1, <3>2
    <3>4. SumFunctionOnSet(f, U) \in Int /\ SumFunctionOnSet(g, U) \in Int
      BY <3>1, <3>2, SumIsInteger
    <3>5. f[c] \in Int /\ g[c] \in Int /\ h[c] = f[c] + g[c]
      BY <3>1, <3>2
    <3>6. /\ SumFunctionOnSet(h, T) = h[c] + SumFunctionOnSet(h, U)
          /\ SumFunctionOnSet(f, T) = f[c] + SumFunctionOnSet(f, U)
          /\ SumFunctionOnSet(g, T) = g[c] + SumFunctionOnSet(g, U)
      BY <2>2, <3>1, <3>2, SumChosen
    <3>7. SumFunctionOnSet(h, T) = SumFunctionOnSet(f, T) + SumFunctionOnSet(g, T)
      BY <3>3, <3>4, <3>5, <3>6
    <3> QED BY <3>7
  <2> QED BY <2>1, <2>2
<1>2. \A T \in SUBSET S : T \in Good
  <2> HIDE DEF Good
  <2> QED BY <1>1, SubsetInduction
<1> QED BY <1>2

LEMMA SumZero ==
  ASSUME NEW f, NEW S, IsFiniteSet(S), \A x \in S : f[x] = 0
  PROVE  SumFunctionOnSet(f, S) = 0
<1> DEFINE Good == {T \in SUBSET S : SumFunctionOnSet(f, T) = 0}
<1>1. ASSUME NEW T \in SUBSET S, \A U \in SUBSET T : U # T => U \in Good PROVE T \in Good
  <2>1. CASE T = {}
    BY <2>1, SumEmpty
  <2>2. CASE T # {}
    <3>1. Choice(T) \in T /\ IsFiniteSet(T)
      BY <2>2, ChoiceIn, FS_Subset
    <3>2. SumFunctionOnSet(f, T \ {Choice(T)}) = 0 /\ f[Choice(T)] = 0
      BY <1>1, <3>1
    <3> QED BY <2>2, <3>1, <3>2, SumChosen
  <2> QED BY <2>1, <2>2
<1>2. \A T \in SUBSET S : T \in Good
  <2> HIDE DEF Good
  <2> QED BY <1>1, SubsetInduction
<1> QED BY <1>2

(* Larger terms, larger sum; in particular no sum of natural numbers is    *)
(* negative.                                                               *)
LEMMA SumMonotonic ==
  ASSUME NEW f, NEW g, NEW S, IsFiniteSet(S),
         \A x \in S : f[x] \in Int /\ g[x] \in Int /\ f[x] <= g[x]
  PROVE  SumFunctionOnSet(f, S) <= SumFunctionOnSet(g, S)
<1> DEFINE Good == {T \in SUBSET S : SumFunctionOnSet(f, T) <= SumFunctionOnSet(g, T)}
<1>1. ASSUME NEW T \in SUBSET S, \A U \in SUBSET T : U # T => U \in Good PROVE T \in Good
  <2>1. CASE T = {}
    BY <2>1, SumEmpty
  <2>2. CASE T # {}
    <3>1. Choice(T) \in T /\ IsFiniteSet(T) /\ IsFiniteSet(T \ {Choice(T)})
      BY <2>2, ChoiceIn, FS_Subset
    <3>2. PICK c, U : c = Choice(T) /\ U = T \ {c}
      OBVIOUS
    <3>3. SumFunctionOnSet(f, U) <= SumFunctionOnSet(g, U)
      BY <1>1, <3>1, <3>2
    <3>4. SumFunctionOnSet(f, U) \in Int /\ SumFunctionOnSet(g, U) \in Int
      BY <3>1, <3>2, SumIsInteger
    <3>5. f[c] \in Int /\ g[c] \in Int /\ f[c] <= g[c]
      BY <3>1, <3>2
    <3>6. /\ SumFunctionOnSet(f, T) = f[c] + SumFunctionOnSet(f, U)
          /\ SumFunctionOnSet(g, T) = g[c] + SumFunctionOnSet(g, U)
      BY <2>2, <3>1, <3>2, SumChosen
    <3>7. SumFunctionOnSet(f, T) <= SumFunctionOnSet(g, T)
      BY <3>3, <3>4, <3>5, <3>6
    <3> QED BY <3>7
  <2> QED BY <2>1, <2>2
<1>2. \A T \in SUBSET S : T \in Good
  <2> HIDE DEF Good
  <2> QED BY <1>1, SubsetInduction
<1> QED BY <1>2

LEMMA SumIsNatural ==
  ASSUME NEW f, NEW S, IsFiniteSet(S), \A x \in S : f[x] \in Nat
  PROVE  SumFunctionOnSet(f, S) \in Nat
<1> DEFINE zero == [x \in S |-> 0]
<1>1. \A x \in S : zero[x] = 0 /\ zero[x] \in Int /\ f[x] \in Int /\ zero[x] <= f[x]
  OBVIOUS
<1> HIDE DEF zero
<1>2. SumFunctionOnSet(zero, S) = 0
  BY <1>1, SumZero
<1>3. SumFunctionOnSet(zero, S) <= SumFunctionOnSet(f, S)
  BY <1>1, SumMonotonic
<1>4. SumFunctionOnSet(f, S) \in Int
  BY SumIsInteger
<1> QED BY <1>2, <1>3, <1>4

(* A term of a sum of natural numbers is at most the sum.                  *)
LEMMA TermWithinSum ==
  ASSUME NEW f, NEW S, IsFiniteSet(S), \A x \in S : f[x] \in Nat, NEW x \in S
  PROVE  f[x] <= SumFunctionOnSet(f, S)
<1> DEFINE rest == SumFunctionOnSet(f, S \ {x})
<1>1. IsFiniteSet(S \ {x})
  BY FS_RemoveElement
<1>2. rest \in Nat
  BY <1>1, SumIsNatural
<1>3. SumFunctionOnSet(f, S) = f[x] + rest
  BY SumRemove
<1> HIDE DEF rest
<1> QED BY <1>2, <1>3

(* Terms outside a part that are zero do not count.                        *)
LEMMA SumOfPart ==
  ASSUME NEW f, NEW S, IsFiniteSet(S), NEW P \in SUBSET S,
         \A x \in S : f[x] \in Int, \A x \in S \ P : f[x] = 0
  PROVE  SumFunctionOnSet(f, S) = SumFunctionOnSet(f, P)
<1> DEFINE Good == {T \in SUBSET S : SumFunctionOnSet(f, T) = SumFunctionOnSet(f, T \cap P)}
<1>1. {} \in Good
  <2>1. {} \cap P = {}
    OBVIOUS
  <2> QED BY <2>1
<1>2. ASSUME NEW T \in SUBSET S, NEW x \in T, T \ {x} \in Good PROVE T \in Good
  <2> DEFINE U == T \ {x}
  <2>1. SumFunctionOnSet(f, U) = SumFunctionOnSet(f, U \cap P)
    BY <1>2
  <2>2. IsFiniteSet(T) /\ IsFiniteSet(T \cap P) /\ IsFiniteSet(U \cap P) /\ IsFiniteSet(U)
    BY FS_Subset
  <2>3. SumFunctionOnSet(f, T) = f[x] + SumFunctionOnSet(f, U)
    BY <2>2, SumRemove
  <2>4. CASE x \in P
    <3>1. x \in T \cap P /\ (T \cap P) \ {x} = U \cap P
      BY <2>4
    <3>2. SumFunctionOnSet(f, T \cap P) = f[x] + SumFunctionOnSet(f, (T \cap P) \ {x})
      BY <2>2, <3>1, SumRemove
    <3> QED BY <2>1, <2>3, <3>1, <3>2
  <2>5. CASE x \notin P
    <3>1. T \cap P = U \cap P /\ f[x] = 0
      BY <2>5
    <3>2. SumFunctionOnSet(f, U) \in Int
      BY <2>2, SumIsInteger
    <3>3. PICK total : total = SumFunctionOnSet(f, U)
      OBVIOUS
    <3>4. f[x] + total = total
      BY <3>1, <3>2, <3>3
    <3> QED BY <2>1, <2>3, <3>1, <3>3, <3>4
  <2> QED BY <2>4, <2>5
<1>3. S \in Good
  <2> HIDE DEF Good
  <2> QED BY <1>1, <1>2, ElementInduction
<1>4. S \cap P = P
  OBVIOUS
<1> QED BY <1>3, <1>4
-----------------------------------------------------------------------------
(* Sums over the elements a condition selects, as a WHERE clause does.     *)

LEMMA SumWhere ==
  ASSUME NEW f, NEW S, IsFiniteSet(S), NEW P \in SUBSET S, \A x \in S : f[x] \in Int,
         NEW h, \A x \in S : h[x] = IF x \in P THEN f[x] ELSE 0
  PROVE  SumFunctionOnSet(f, P) = SumFunctionOnSet(h, S)
<1>1. IsFiniteSet(P)
  BY FS_Subset
<1>2. SumFunctionOnSet(f, P) = SumFunctionOnSet(h, P)
  BY <1>1, SumSame
<1>3. SumFunctionOnSet(h, S) = SumFunctionOnSet(h, P)
  BY SumOfPart
<1> QED BY <1>2, <1>3

(* One element changes, or enters or leaves the selection.                 *)
LEMMA SumSelected ==
  ASSUME NEW S, IsFiniteSet(S), NEW f, NEW g, NEW P \in SUBSET S, NEW Q \in SUBSET S,
         \A y \in S : f[y] \in Int /\ g[y] \in Int, NEW x \in S,
         \A y \in S \ {x} : g[y] = f[y] /\ (y \in P <=> y \in Q)
  PROVE  SumFunctionOnSet(g, Q) = SumFunctionOnSet(f, P)
           + (IF x \in Q THEN g[x] ELSE 0) - (IF x \in P THEN f[x] ELSE 0)
<1>1. PICK before : before = [y \in S |-> IF y \in P THEN f[y] ELSE 0]
  OBVIOUS
<1>2. PICK after : after = [y \in S |-> IF y \in Q THEN g[y] ELSE 0]
  OBVIOUS
<1>3. SumFunctionOnSet(f, P) = SumFunctionOnSet(before, S)
  BY <1>1, SumWhere
<1>4. SumFunctionOnSet(g, Q) = SumFunctionOnSet(after, S)
  BY <1>2, SumWhere
<1>5. /\ \A y \in S : before[y] \in Int
      /\ after[x] \in Int /\ \A y \in S : y # x => after[y] = before[y]
  BY <1>1, <1>2
<1>6. SumFunctionOnSet(after, S) = SumFunctionOnSet(before, S) + after[x] - before[x]
  BY <1>5, SumChange
<1> QED BY <1>1, <1>2, <1>3, <1>4, <1>6

(* A selection and the rest.                                               *)
LEMMA SumSplit ==
  ASSUME NEW f, NEW P, IsFiniteSet(P), NEW Q \in SUBSET P, \A x \in P : f[x] \in Int
  PROVE  SumFunctionOnSet(f, P) = SumFunctionOnSet(f, Q) + SumFunctionOnSet(f, P \ Q)
<1>1. PICK g : g = [y \in P |-> IF y \in Q THEN f[y] ELSE 0]
  OBVIOUS
<1>2. PICK h : h = [y \in P |-> IF y \in P \ Q THEN f[y] ELSE 0]
  OBVIOUS
<1>3. \A y \in P : g[y] \in Int /\ h[y] \in Int /\ f[y] = g[y] + h[y]
  BY <1>1, <1>2
<1>4. SumFunctionOnSet(f, P) = SumFunctionOnSet(g, P) + SumFunctionOnSet(h, P)
  BY <1>3, SumPlus
<1>5. SumFunctionOnSet(f, Q) = SumFunctionOnSet(g, P)
  BY <1>1, SumWhere
<1>6. SumFunctionOnSet(f, P \ Q) = SumFunctionOnSet(h, P)
  BY <1>2, SumWhere
<1> QED BY <1>4, <1>5, <1>6

-----------------------------------------------------------------------------
(* Taking n from amounts in an order: each gives what those before it have *)
(* left to give. Together they give n, or all they have.                   *)

InOrder(R, L) ==
  /\ \A x, y \in L : x = y \/ <<x, y>> \in R \/ <<y, x>> \in R
  /\ \A x, y \in L : <<x, y>> \in R => <<y, x>> \notin R
  /\ \A x, y, z \in L : <<x, y>> \in R /\ <<y, z>> \in R => <<x, z>> \in R

LEMMA LastInOrder ==
  ASSUME NEW R, NEW L, IsFiniteSet(L), InOrder(R, L), L # {}
  PROVE  \E m \in L : \A x \in L \ {m} : <<x, m>> \in R
<1> DEFINE Good == {T \in SUBSET L : T # {} => \E m \in T : \A x \in T \ {m} : <<x, m>> \in R}
<1>1. {} \in Good
  OBVIOUS
<1>2. ASSUME NEW T \in SUBSET L, NEW x \in T, T \ {x} \in Good PROVE T \in Good
  <2>1. CASE T \ {x} = {}
    BY <2>1
  <2>2. CASE T \ {x} # {}
    <3>1. PICK m \in T \ {x} : \A y \in (T \ {x}) \ {m} : <<y, m>> \in R
      BY <1>2, <2>2
    <3>2. CASE <<x, m>> \in R
      BY <3>1, <3>2
    <3>3. CASE <<m, x>> \in R
      <4>1. \A y \in T \ {x} : <<y, x>> \in R
        BY <3>1, <3>3 DEF InOrder
      <4> QED BY <4>1
    <3> QED BY <3>2, <3>3 DEF InOrder
  <2> QED BY <2>1, <2>2
<1>3. L \in Good
  <2> HIDE DEF Good
  <2> QED BY <1>1, <1>2, ElementInduction
<1> QED BY <1>3

Gives(left, a) == IF left <= 0 THEN 0 ELSE IF left < a THEN left ELSE a

LEMMA TakenInOrder ==
  ASSUME NEW R, NEW L, IsFiniteSet(L), InOrder(R, L), NEW n \in Nat,
         NEW amount, \A d \in L : amount[d] \in Nat,
         NEW taken,
         \A d \in L :
           taken[d] = Gives(n - SumFunctionOnSet(amount, {x \in L : <<x, d>> \in R}), amount[d])
  PROVE  /\ \A d \in L : taken[d] \in Nat /\ taken[d] <= amount[d]
         /\ n <= SumFunctionOnSet(amount, L) => SumFunctionOnSet(taken, L) = n
<1> DEFINE Sum(T) == SumFunctionOnSet(amount, T)
           Took(T) == SumFunctionOnSet(taken, T)
           Closed(T) == \A d \in T : \A x \in L : <<x, d>> \in R => x \in T
           Least(a) == IF n <= a THEN n ELSE a
           Good == {T \in SUBSET L : Closed(T) => Took(T) = Least(Sum(T))}
<1>0. \A T \in SUBSET L : IsFiniteSet(T) /\ Sum(T) \in Nat
  BY FS_Subset, SumIsNatural
<1>1. \A d \in L : {x \in L : <<x, d>> \in R} \in SUBSET L
  OBVIOUS
<1>2. \A d \in L : taken[d] \in Nat /\ taken[d] <= amount[d]
  <2> SUFFICES ASSUME NEW d \in L PROVE taken[d] \in Nat /\ taken[d] <= amount[d]
    OBVIOUS
  <2>1. PICK a \in Nat : a = SumFunctionOnSet(amount, {x \in L : <<x, d>> \in R})
    BY <1>0, <1>1
  <2> QED BY <2>1 DEF Gives
<1>3. ASSUME NEW T \in SUBSET L, \A U \in SUBSET T : U # T => U \in Good PROVE T \in Good
  <2> SUFFICES ASSUME Closed(T) PROVE Took(T) = Least(Sum(T))
    OBVIOUS
  <2>1. CASE T = {}
    BY <2>1, SumEmpty
  <2>2. CASE T # {}
    <3>1. InOrder(R, T)
      BY DEF InOrder
    <3>2. PICK m \in T : \A x \in T \ {m} : <<x, m>> \in R
      BY <1>0, <2>2, <3>1, LastInOrder
    <3>3. PICK U : U = T \ {m}
      OBVIOUS
    <3>4. U \in SUBSET T /\ U # T /\ U \in SUBSET L
      BY <3>3
    <3>5. Closed(U)
      BY <3>2, <3>3 DEF InOrder
    <3>6. Took(U) = Least(Sum(U))
      BY <1>3, <3>4, <3>5
    <3>7. {x \in L : <<x, m>> \in R} = U
      BY <3>2, <3>3 DEF InOrder
    <3>8. Sum(T) = amount[m] + Sum(U)
      BY <1>0, <3>3, SumRemove
    <3>9. Took(T) = taken[m] + Took(U)
      BY <1>0, <1>2, <3>3, SumRemove
    <3>10. taken[m] = Gives(n - Sum(U), amount[m])
      BY <3>7
    <3>11. Sum(U) \in Nat /\ amount[m] \in Nat
      BY <1>0, <3>4
    <3> HIDE DEF Sum, Took
    <3> QED BY <3>6, <3>8, <3>9, <3>10, <3>11 DEF Gives
  <2> QED BY <2>1, <2>2
<1>4. L \in Good
  <2> HIDE DEF Good
  <2> QED BY <1>3, SubsetInduction
<1>5. Took(L) = Least(Sum(L))
  BY <1>4
<1> QED BY <1>0, <1>2, <1>5

-----------------------------------------------------------------------------
(* Division that rounds up, as prices are computed *)

RoundedUp(n, d) == (n + d - 1) \div d

(* A product grows with either factor. *)
LEMMA ProductMonotone ==
  ASSUME NEW x \in Nat, NEW y \in Nat, NEW z \in Nat, x <= y
  PROVE  x * z <= y * z /\ x * z \in Nat /\ y * z \in Nat
<1>1. PICK k \in Nat : y = x + k
  <2>1. y - x \in Nat /\ y = x + (y - x)
    OBVIOUS
  <2> QED
    BY <2>1
<1>2. y * z = x * z + k * z
  BY <1>1, SMT
<1>3. k * z \in Nat /\ x * z \in Nat
  BY SMT
<1> QED
  BY <1>2, <1>3

(* Rounding up: the least multiple of d that reaches n. *)
LEMMA RoundedUpParts ==
  ASSUME NEW n \in Nat, NEW d \in Nat \ {0}
  PROVE  /\ RoundedUp(n, d) \in Nat
         /\ n <= d * RoundedUp(n, d)
         /\ d * RoundedUp(n, d) < n + d
<1> DEFINE q == (n + d - 1) \div d
           r == (n + d - 1) % d
<1>1. n + d - 1 \in Nat
  OBVIOUS
<1>2. q \in Nat /\ r \in 0..(d - 1) /\ n + d - 1 = d * q + r
  BY <1>1, SMTT(30)
<1> QED
  BY <1>2 DEF RoundedUp

LEMMA RoundedUpZero == ASSUME NEW d \in Nat \ {0} PROVE RoundedUp(0, d) = 0
<1>1. (0 + d - 1) \div d = 0
  BY SMTT(30)
<1> QED
  BY <1>1 DEF RoundedUp

LEMMA RoundedUpMonotone ==
  ASSUME NEW m \in Nat, NEW n \in Nat, NEW d \in Nat \ {0}, m <= n
  PROVE  RoundedUp(m, d) <= RoundedUp(n, d)
<1> DEFINE p == RoundedUp(m, d)
           q == RoundedUp(n, d)
<1>1. p \in Nat /\ q \in Nat /\ d * p < m + d /\ n <= d * q
  BY RoundedUpParts
<1> HIDE DEF p, q
<1>2. SUFFICES ASSUME q + 1 <= p PROVE FALSE
  BY <1>1 DEF p, q
<1>3. (q + 1) * d <= p * d /\ (q + 1) * d \in Nat /\ p * d \in Nat
  BY <1>1, <1>2, ProductMonotone
<1>4. (q + 1) * d = d * q + d /\ p * d = d * p /\ d * q \in Nat /\ d * p \in Nat
  BY <1>1, SMT
<1> QED
  BY <1>1, <1>3, <1>4

(* The signed total is reached by the full fill and never passed. *)
LEMMA RoundedUpWithin ==
  ASSUME NEW s \in Nat, NEW b \in Nat, NEW d \in Nat \ {0}, s <= d
  PROVE  RoundedUp(s * b, d) <= b
<1> DEFINE q == RoundedUp(s * b, d)
<1>1. s * b <= d * b /\ s * b \in Nat
  BY ProductMonotone
<1>2. q \in Nat /\ d * q < s * b + d
  BY <1>1, RoundedUpParts
<1> HIDE DEF q
<1>3. SUFFICES ASSUME b + 1 <= q PROVE FALSE
  BY <1>2 DEF q
<1>4. (b + 1) * d <= q * d /\ (b + 1) * d \in Nat /\ q * d \in Nat
  BY <1>2, <1>3, ProductMonotone
<1>5. (b + 1) * d = d * b + d /\ q * d = d * q /\ d * b \in Nat /\ d * q \in Nat
  BY <1>2, SMT
<1> QED
  BY <1>1, <1>2, <1>4, <1>5
=============================================================================
