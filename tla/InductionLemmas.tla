-------------------------- MODULE InductionLemmas --------------------------
(***************************************************************************)
(* Induction and recursion for the other proofs: least elements, functions *)
(* given by recursion, and SumFunctionOnSet, with which coins, gas and     *)
(* voting powers are added up.  An induction looks at a set of             *)
(* counterexamples, which has a least member.                              *)
(***************************************************************************)
EXTENDS Integers, FiniteSets, Functions, FiniteSetTheorems, WellFoundedInduction, TLAPS

\* A nonempty set of naturals has a least element.
LEMMA LeastNatural ==
    ASSUME NEW T \in SUBSET Nat, T # {}
    PROVE  \E x \in T : \A y \in T : x <= y
<1>1. \E x \in T : \A y \in T : ~ (<<y, x>> \in OpToRel(<, Nat))
  BY NatLessThanWellFounded, WFMin
<1>2. PICK x \in T : \A y \in T : ~ (<<y, x>> \in OpToRel(<, Nat))
  BY <1>1
<1>3. ASSUME NEW y \in T PROVE x <= y
  <2>1. ~ (y < x)
    BY <1>2 DEF OpToRel
  <2> QED
    BY <2>1
<1> QED
  BY <1>3

\* Among sets of subsets of a finite set, each nonempty one has a smallest member.
LEMMA SmallestSubset ==
    ASSUME NEW S, IsFiniteSet(S), NEW T, T \subseteq SUBSET S, T # {}
    PROVE  \E s \in T : \A t \in T : t \subseteq s => t = s
<1>1. IsWellFoundedOn(StrictSubsetOrdering(S), SUBSET S)
  BY FS_StrictSubsetOrderingWellFounded, FS_FiniteSubsetsOfFinite
<1> DEFINE R == StrictSubsetOrdering(S)
<1>2. \E s \in T : \A t \in T : ~ (<<t, s>> \in R)
  <2> HIDE DEF R
  <2>1. IsWellFoundedOn(R, SUBSET S)
    BY <1>1 DEF R
  <2> QED
    BY <2>1, WFMin
<1>3. PICK s \in T : \A t \in T : ~ (<<t, s>> \in R)
  BY <1>2
<1>4. ASSUME NEW t \in T, t \subseteq s, t # s PROVE FALSE
  <2>1. <<t, s>> \in (SUBSET S) \X (SUBSET S)
    OBVIOUS
  <2>2. <<t, s>> \in R
    BY <1>4, <2>1 DEF StrictSubsetOrdering
  <2> QED
    BY <1>3, <2>2
<1> QED
  BY <1>3, <1>4

-----------------------------------------------------------------------------
(* Recursion *)

\* F computes a value in V for x from the values at members of S of smaller measure.
Computes(F, S, m, V) ==
    /\ \A x \in S : \A g \in [S -> V] : F[<<x, g>>] \in V
    /\ \A x \in S : \A g, h \in [S -> V] :
          (\A y \in S : m[y] < m[x] => g[y] = h[y]) => F[<<x, g>>] = F[<<x, h>>]

Solves(f, F, S) == \A x \in S : f[x] = F[<<x, f>>]

\* Then some function has at every member of S the value that F computes from it.
LEMMA RecursiveFunction ==
    ASSUME NEW S, NEW m \in [S -> Nat], NEW V, V # {}, NEW F, Computes(F, S, m, V)
    PROVE  \E f \in [S -> V] : Solves(f, F, S)
<1> USE DEF Computes
<1> DEFINE Good(n, g) == g \in [S -> V] /\ \A x \in S : m[x] < n => g[x] = F[<<x, g>>]
           Bad == {n \in Nat : \A g \in [S -> V] : ~ Good(n, g)}
<1>1. ASSUME NEW n \in Nat, NEW g, Good(n, g), NEW k \in Nat, NEW h, Good(k, h), n <= k
      PROVE  \A x \in S : m[x] < n => g[x] = h[x]
  <2> DEFINE T == {m[x] : x \in {y \in S : m[y] < n /\ g[y] # h[y]}}
  <2>1. ASSUME T # {} PROVE FALSE
    <3>1. T \subseteq Nat
      OBVIOUS
    <3>2. PICK l \in T : \A j \in T : l <= j
      <4> HIDE DEF T
      <4> QED BY <2>1, <3>1, LeastNatural
    <3>3. PICK x \in S : m[x] < n /\ g[x] # h[x] /\ m[x] = l
      BY <3>2
    <3>4. \A y \in S : m[y] < m[x] => g[y] = h[y]
      BY <3>2, <3>3
    <3>5. F[<<x, g>>] = F[<<x, h>>]
      BY <1>1, <3>4
    <3> QED
      BY <1>1, <3>3, <3>5
  <2> QED
    BY <2>1
<1>2. ASSUME Bad # {} PROVE FALSE
  <2>1. Bad \subseteq Nat
    OBVIOUS
  <2>2. PICK n \in Bad : \A j \in Bad : n <= j
    <3> HIDE DEF Bad
    <3> QED BY <1>2, <2>1, LeastNatural
  <2>3. n # 0
    <3>1. PICK v \in V : TRUE
      OBVIOUS
    <3>2. [x \in S |-> v] \in [S -> V]
      OBVIOUS
    <3>3. Good(0, [x \in S |-> v])
      BY <3>2
    <3> QED
      BY <2>2, <3>2, <3>3
  <2>4. n - 1 \in Nat /\ n - 1 \notin Bad
    BY <2>2, <2>3
  <2>5. PICK g \in [S -> V] : Good(n - 1, g)
    BY <2>4
  <2> DEFINE h == [x \in S |-> F[<<x, g>>]]
  <2>6. h \in [S -> V]
    OBVIOUS
  <2>7. \A x \in S : h[x] = F[<<x, g>>]
    OBVIOUS
  <2>8. \A x \in S : m[x] < n - 1 => h[x] = g[x]
    BY <2>5, <2>7
  <2> HIDE DEF h
  <2>9. ASSUME NEW x \in S, m[x] < n PROVE h[x] = F[<<x, h>>]
    <3>1. \A y \in S : m[y] < m[x] => h[y] = g[y]
      BY <2>8, <2>9
    <3>2. F[<<x, h>>] = F[<<x, g>>]
      BY <2>6, <3>1
    <3> QED
      BY <2>7, <3>2
  <2>10. Good(n, h)
    BY <2>6, <2>9
  <2> QED
    BY <2>2, <2>6, <2>10
<1>3. \A n \in Nat : \E g \in [S -> V] : Good(n, g)
  BY <1>2
<1> DEFINE G(n) == CHOOSE g \in [S -> V] : Good(n, g)
           f == [x \in S |-> G(m[x] + 1)[x]]
<1>4. \A n \in Nat : G(n) \in [S -> V] /\ Good(n, G(n))
  BY <1>3
<1> HIDE DEF G
<1>5. \A x \in S : m[x] \in Nat /\ m[x] + 1 \in Nat
  OBVIOUS
<1>6. f \in [S -> V] /\ \A x \in S : f[x] = G(m[x] + 1)[x]
  BY <1>4, <1>5
<1> HIDE DEF f
<1>7. ASSUME NEW x \in S PROVE f[x] = F[<<x, f>>]
  <2> DEFINE g == G(m[x] + 1)
  <2>1. g \in [S -> V] /\ Good(m[x] + 1, g)
    BY <1>4, <1>5
  <2>2. \A y \in S : m[y] < m[x] => f[y] = g[y]
    <3> SUFFICES ASSUME NEW y \in S, m[y] < m[x] PROVE f[y] = g[y]
      OBVIOUS
    <3> DEFINE h == G(m[y] + 1)
    <3>1. h \in [S -> V] /\ Good(m[y] + 1, h) /\ f[y] = h[y]
      BY <1>4, <1>5, <1>6
    <3> HIDE DEF g, h, Good
    <3>2. m[y] + 1 <= m[x] + 1 /\ m[y] < m[y] + 1 /\ m[y] + 1 \in Nat /\ m[x] + 1 \in Nat
      BY <1>5
    <3>3. h[y] = g[y]
      BY <1>1, <2>1, <3>1, <3>2
    <3> QED
      BY <3>1, <3>3
  <2>3. f[x] = g[x]
    BY <1>6
  <2>4. g[x] = F[<<x, g>>]
    BY <1>5, <2>1
  <2> HIDE DEF g
  <2>5. F[<<x, f>>] = F[<<x, g>>]
    BY <1>6, <2>1, <2>2
  <2> QED
    BY <2>3, <2>4, <2>5
<1> QED
  BY <1>6, <1>7 DEF Solves

-----------------------------------------------------------------------------
(* Sums *)

\* What the fold computes with: a table of the sums over all subsets of S, where
\* an arbitrary member of a nonempty set is taken first.
First(s) == CHOOSE x \in s : TRUE

Table(g, f, S) ==
    g = [s \in SUBSET S |-> IF s = {} THEN 0 ELSE f[First(s)] + g[s \ {First(s)}]]

IntOn(f, S) == \A x \in S : f[x] \in Int

LEMMA SumIsTable ==
    ASSUME NEW f, NEW S
    PROVE  SumFunctionOnSet(f, S) = (CHOOSE g : Table(g, f, S))[S]
BY DEF SumFunctionOnSet, FoldFunctionOnSet, MapThenFoldSet, Table, First

\* Two tables agree wherever both are defined.
LEMMA TablesAgree ==
    ASSUME NEW S, IsFiniteSet(S), NEW T \in SUBSET S, NEW f, NEW g, NEW h,
           Table(g, f, S), Table(h, f, T)
    PROVE  \A s \in SUBSET T : g[s] = h[s]
<1> DEFINE Bad == {s \in SUBSET T : g[s] # h[s]}
<1>1. ASSUME Bad # {} PROVE FALSE
  <2>1. IsFiniteSet(T) /\ Bad \subseteq SUBSET T
    BY FS_Subset
  <2>2. PICK s \in Bad : \A t \in Bad : t \subseteq s => t = s
    <3> HIDE DEF Bad
    <3> QED
      BY <1>1, <2>1, SmallestSubset
  <2>3. s \in SUBSET T /\ s \in SUBSET S
    OBVIOUS
  <2>4. CASE s = {}
    BY <2>3, <2>4 DEF Table
  <2>5. CASE s # {}
    <3> DEFINE x == First(s)
    <3>1. x \in s
      BY <2>5 DEF First
    <3> HIDE DEF x
    <3>2. s \ {x} \in SUBSET T /\ s \ {x} \notin Bad
      BY <2>2, <2>3, <3>1
    <3>3. g[s \ {x}] = h[s \ {x}]
      BY <3>2
    <3>4. g[s] = f[x] + g[s \ {x}] /\ h[s] = f[x] + h[s \ {x}]
      BY <2>3, <2>5 DEF Table, x
    <3> QED
      BY <3>3, <3>4
  <2> QED
    BY <2>4, <2>5
<1> QED
  BY <1>1

\* Every finite set has a table.
LEMMA TableExists ==
    ASSUME NEW S, IsFiniteSet(S), NEW f
    PROVE  \E g : Table(g, f, S)
<1> DEFINE Bad == {s \in SUBSET S : ~ \E g : Table(g, f, s)}
<1>1. ASSUME Bad # {} PROVE FALSE
  <2>1. PICK s \in Bad : \A t \in Bad : t \subseteq s => t = s
    <3>1. Bad \subseteq SUBSET S
      OBVIOUS
    <3> HIDE DEF Bad
    <3> QED
      BY <1>1, <3>1, SmallestSubset
  <2> DEFINE H == [t \in SUBSET s |-> CHOOSE g : Table(g, f, t)]
             G == [t \in SUBSET s |-> IF t = {} THEN 0
                      ELSE f[First(t)] + H[t \ {First(t)}][t \ {First(t)}]]
  <2>2. ASSUME NEW t \in SUBSET s, t # s PROVE Table(H[t], f, t) /\ IsFiniteSet(t)
    <3>1. t \in SUBSET S /\ t \notin Bad
      BY <2>1, <2>2
    <3>2. \E g : Table(g, f, t)
      BY <3>1
    <3> QED
      BY <3>1, <3>2, FS_Subset
  <2>3. ASSUME NEW u \in SUBSET s, u # s PROVE G[u] = H[u][u]
    <3>1. Table(H[u], f, u) /\ IsFiniteSet(u)
      BY <2>2, <2>3
    <3>2. CASE u = {}
      <4>1. H[u][u] = 0
        <5> HIDE DEF H
        <5> QED
          BY <3>1, <3>2 DEF Table
      <4> QED
        BY <3>2, <4>1
    <3>3. CASE u # {}
      <4> DEFINE y == First(u)
      <4>1. y \in u
        BY <3>3 DEF First
      <4>2. G[u] = f[y] + H[u \ {y}][u \ {y}]
        BY <3>3
      <4> HIDE DEF y, G
      <4> DEFINE v == u \ {y}
      <4>3. v \in SUBSET u /\ v \in SUBSET s /\ v # s
        BY <4>1
      <4> HIDE DEF H
      <4>4. H[u][u] = f[y] + H[u][v]
        BY <3>1, <3>3 DEF Table, y
      <4> HIDE DEF v
      <4>5. Table(H[v], f, v)
        BY <2>2, <4>3
      <4>6. H[u][v] = H[v][v]
        BY <3>1, <4>3, <4>5, TablesAgree
      <4>7. G[u] = f[y] + H[v][v]
        BY <4>2 DEF v
      <4> QED
        BY <4>4, <4>6, <4>7
    <3> QED
      BY <3>2, <3>3
  <2>4. ASSUME NEW t \in SUBSET s
        PROVE  G[t] = IF t = {} THEN 0 ELSE f[First(t)] + G[t \ {First(t)}]
    <3>1. CASE t = {}
      BY <3>1
    <3>2. CASE t # {}
      <4> DEFINE x == First(t)
      <4>1. x \in t
        BY <3>2 DEF First
      <4>2. G[t] = f[x] + H[t \ {x}][t \ {x}]
        BY <3>2
      <4> HIDE DEF x, G, H
      <4>3. t \ {x} \in SUBSET s /\ t \ {x} # s
        BY <4>1
      <4>4. G[t \ {x}] = H[t \ {x}][t \ {x}]
        BY <2>3, <4>3
      <4> QED
        BY <3>2, <4>2, <4>4 DEF x
    <3> QED
      BY <3>1, <3>2
  <2>5. G = [t \in SUBSET s |-> G[t]]
    OBVIOUS
  <2> HIDE DEF G
  <2>6. Table(G, f, s)
    BY <2>4, <2>5 DEF Table
  <2> QED
    BY <2>1, <2>6
<1> QED
  BY <1>1
-----------------------------------------------------------------------------
(* The defining equations of a sum *)

LEMMA SumEmpty == ASSUME NEW f PROVE SumFunctionOnSet(f, {}) = 0
<1> DEFINE g == CHOOSE h : Table(h, f, {})
<1>1. Table(g, f, {})
  BY TableExists, FS_EmptySet
<1> HIDE DEF g
<1>2. g[{}] = 0
  BY <1>1 DEF Table
<1> QED
  BY <1>2, SumIsTable DEF g

LEMMA SumFirst ==
    ASSUME NEW S, IsFiniteSet(S), S # {}, NEW f
    PROVE  First(S) \in S /\ SumFunctionOnSet(f, S) = f[First(S)] + SumFunctionOnSet(f, S \ {First(S)})
<1> DEFINE x == First(S)
           U == S \ {x}
           g == CHOOSE h : Table(h, f, S)
           k == CHOOSE h : Table(h, f, U)
<1>1. x \in S
  BY DEF First
<1>2. Table(g, f, S)
  BY TableExists
<1>3. IsFiniteSet(U) /\ U \in SUBSET S
  BY FS_Subset
<1>4. Table(k, f, U)
  <2> HIDE DEF U
  <2> QED
    BY <1>3, TableExists
<1>5. SumFunctionOnSet(f, S) = g[S] /\ SumFunctionOnSet(f, U) = k[U]
  <2> HIDE DEF U
  <2> QED
    BY SumIsTable
<1> HIDE DEF g, k
<1>6. g[S] = f[x] + g[U]
  BY <1>2 DEF Table
<1> HIDE DEF U
<1>7. g[U] = k[U]
  BY <1>2, <1>3, <1>4, TablesAgree
<1>8. SumFunctionOnSet(f, S) = f[x] + SumFunctionOnSet(f, U)
  BY <1>5, <1>6, <1>7
<1> QED
  BY <1>1, <1>8 DEF U

-----------------------------------------------------------------------------
(* What follows from them *)

\* A sum of integers is an integer.
THEOREM SumType ==
    ASSUME NEW S, IsFiniteSet(S), NEW f, IntOn(f, S)
    PROVE  SumFunctionOnSet(f, S) \in Int
<1> DEFINE Bad == {s \in SUBSET S : SumFunctionOnSet(f, s) \notin Int}
<1>1. ASSUME Bad # {} PROVE FALSE
  <2>1. PICK s \in Bad : \A t \in Bad : t \subseteq s => t = s
    <3>1. Bad \subseteq SUBSET S
      OBVIOUS
    <3> HIDE DEF Bad
    <3> QED
      BY <1>1, <3>1, SmallestSubset
  <2>2. s \in SUBSET S /\ IsFiniteSet(s)
    BY FS_Subset
  <2>3. s # {}
    BY SumEmpty
  <2> DEFINE x == First(s)
             t == s \ {x}
  <2>4. x \in s /\ SumFunctionOnSet(f, s) = f[x] + SumFunctionOnSet(f, t)
    BY <2>2, <2>3, SumFirst
  <2> HIDE DEF x
  <2>5. t \in SUBSET S /\ t \notin Bad
    BY <2>1, <2>2, <2>4
  <2> HIDE DEF t
  <2>6. SumFunctionOnSet(f, t) \in Int /\ f[x] \in Int
    BY <2>2, <2>4, <2>5 DEF IntOn
  <2> QED
    BY <2>1, <2>4, <2>6
<1> QED
  BY <1>1

\* Any member can be taken out first.
THEOREM SumRemove ==
    ASSUME NEW S, IsFiniteSet(S), NEW f, IntOn(f, S)
    PROVE  \A x \in S : SumFunctionOnSet(f, S) = f[x] + SumFunctionOnSet(f, S \ {x})
<1> DEFINE Sum(s) == SumFunctionOnSet(f, s)
           Bad == {s \in SUBSET S : \E x \in s : Sum(s) # f[x] + Sum(s \ {x})}
<1>1. ASSUME Bad # {} PROVE FALSE
  <2>1. PICK s \in Bad : \A t \in Bad : t \subseteq s => t = s
    <3>1. Bad \subseteq SUBSET S
      OBVIOUS
    <3> HIDE DEF Bad
    <3> QED
      BY <1>1, <3>1, SmallestSubset
  <2>2. s \in SUBSET S /\ IsFiniteSet(s)
    BY FS_Subset
  <2>3. PICK x \in s : Sum(s) # f[x] + Sum(s \ {x})
    BY <2>1
  <2> DEFINE c == First(s)
             sc == s \ {c}
             sx == s \ {x}
             rest == s \ {c, x}
  <2>4. c \in s /\ Sum(s) = f[c] + Sum(sc)
    BY <2>2, <2>3, SumFirst
  <2> HIDE DEF c
  <2>5. c # x
    BY <2>3, <2>4
  <2>6. sc \notin Bad /\ sx \notin Bad /\ sc \in SUBSET S /\ sx \in SUBSET S
    BY <2>1, <2>2, <2>3, <2>4
  <2>7. Sum(sc) = f[x] + Sum(sc \ {x}) /\ Sum(sx) = f[c] + Sum(sx \ {c})
    <3>1. x \in sc /\ c \in sx
      BY <2>3, <2>4, <2>5
    <3> HIDE DEF sc, sx, Sum
    <3> QED
      BY <2>6, <3>1
  <2>8. sc \ {x} = rest /\ sx \ {c} = rest
    OBVIOUS
  <2>9. IsFiniteSet(rest) /\ rest \in SUBSET S
    BY <2>2, FS_Subset
  <2>10. Sum(rest) \in Int /\ f[x] \in Int /\ f[c] \in Int
    <3> HIDE DEF rest
    <3> QED
      BY <2>2, <2>3, <2>4, <2>9, SumType DEF IntOn
  <2>11. Sum(sc) = f[x] + Sum(rest) /\ Sum(sx) = f[c] + Sum(rest)
    BY <2>7, <2>8
  <2> HIDE DEF rest, sc, Sum
  <2>12. Sum(s) = f[x] + Sum(sx)
    <3> HIDE DEF sx
    <3> QED
      BY <2>4, <2>10, <2>11
  <2> QED
    BY <2>3, <2>12
<1> QED
  BY <1>1

\* The sum depends on the values at the members alone.
THEOREM SumEqual ==
    ASSUME NEW S, IsFiniteSet(S), NEW f, NEW g, \A x \in S : f[x] = g[x]
    PROVE  SumFunctionOnSet(f, S) = SumFunctionOnSet(g, S)
<1> DEFINE Bad == {s \in SUBSET S : SumFunctionOnSet(f, s) # SumFunctionOnSet(g, s)}
<1>1. ASSUME Bad # {} PROVE FALSE
  <2>1. PICK s \in Bad : \A t \in Bad : t \subseteq s => t = s
    <3>1. Bad \subseteq SUBSET S
      OBVIOUS
    <3> HIDE DEF Bad
    <3> QED
      BY <1>1, <3>1, SmallestSubset
  <2>2. s \in SUBSET S /\ IsFiniteSet(s)
    BY FS_Subset
  <2>3. s # {}
    BY SumEmpty
  <2> DEFINE x == First(s)
             t == s \ {x}
  <2>4. /\ x \in s /\ SumFunctionOnSet(f, s) = f[x] + SumFunctionOnSet(f, t)
        /\ SumFunctionOnSet(g, s) = g[x] + SumFunctionOnSet(g, t)
    BY <2>2, <2>3, SumFirst
  <2> HIDE DEF x
  <2>5. t \in SUBSET S /\ t \notin Bad
    BY <2>1, <2>2, <2>4
  <2> HIDE DEF t
  <2>6. SumFunctionOnSet(f, t) = SumFunctionOnSet(g, t) /\ f[x] = g[x]
    BY <2>2, <2>4, <2>5
  <2> QED
    BY <2>1, <2>4, <2>6
<1> QED
  BY <1>1

\* One value changes: the sum changes by the difference.
THEOREM SumUpdate ==
    ASSUME NEW S, IsFiniteSet(S), NEW f, NEW g, IntOn(f, S), IntOn(g, S),
           NEW x \in S, \A y \in S : y # x => g[y] = f[y]
    PROVE  SumFunctionOnSet(g, S) = SumFunctionOnSet(f, S) + g[x] - f[x]
<1> DEFINE T == S \ {x}
<1>1. IsFiniteSet(T) /\ IntOn(f, T)
  BY FS_Subset DEF IntOn
<1>2. /\ SumFunctionOnSet(f, S) = f[x] + SumFunctionOnSet(f, T)
      /\ SumFunctionOnSet(g, S) = g[x] + SumFunctionOnSet(g, T)
  BY SumRemove
<1>3. \A y \in T : g[y] = f[y]
  OBVIOUS
<1> HIDE DEF T
<1>4. SumFunctionOnSet(g, T) = SumFunctionOnSet(f, T) /\ SumFunctionOnSet(f, T) \in Int
  BY <1>1, <1>3, SumEqual, SumType
<1>5. f[x] \in Int /\ g[x] \in Int
  BY DEF IntOn
<1> QED
  BY <1>2, <1>4, <1>5

\* The sum of one value over all members is the value times their number.
THEOREM SumConstant ==
    ASSUME NEW S, IsFiniteSet(S), NEW v \in Int, NEW f, \A x \in S : f[x] = v
    PROVE  SumFunctionOnSet(f, S) = v * Cardinality(S)
<1> DEFINE Bad == {s \in SUBSET S : SumFunctionOnSet(f, s) # v * Cardinality(s)}
<1>1. ASSUME Bad # {} PROVE FALSE
  <2>1. PICK s \in Bad : \A t \in Bad : t \subseteq s => t = s
    <3>1. Bad \subseteq SUBSET S
      OBVIOUS
    <3> HIDE DEF Bad
    <3> QED
      BY <1>1, <3>1, SmallestSubset
  <2>2. s \in SUBSET S /\ IsFiniteSet(s)
    BY FS_Subset
  <2>3. s # {}
    BY <2>1, SumEmpty, FS_EmptySet, v * 0 = 0
  <2> DEFINE x == First(s)
             t == s \ {x}
  <2>4. x \in s /\ SumFunctionOnSet(f, s) = f[x] + SumFunctionOnSet(f, t)
    BY <2>2, <2>3, SumFirst
  <2> HIDE DEF x
  <2>5. t \in SUBSET S /\ t \notin Bad /\ IsFiniteSet(t)
    BY <2>1, <2>2, <2>4, FS_Subset
  <2>6. Cardinality(t) = Cardinality(s) - 1
    BY <2>2, <2>4, FS_RemoveElement
  <2> HIDE DEF t
  <2>7. SumFunctionOnSet(f, t) = v * Cardinality(t) /\ f[x] = v
    BY <2>2, <2>4, <2>5
  <2>8. Cardinality(s) \in Nat
    BY <2>2, FS_CardinalityType
  <2>9. \A n \in Nat : v + v * (n - 1) = v * n
    OBVIOUS
  <2> QED
    BY <2>1, <2>4, <2>6, <2>7, <2>8, <2>9
<1> QED
  BY <1>1

\* A sum of naturals over a part is at most the sum over the whole.
THEOREM SumMonotone ==
    ASSUME NEW S, IsFiniteSet(S), NEW f, \A x \in S : f[x] \in Nat, NEW T \in SUBSET S
    PROVE  /\ SumFunctionOnSet(f, T) \in Nat
           /\ SumFunctionOnSet(f, T) <= SumFunctionOnSet(f, S)
<1> DEFINE Sum(s) == SumFunctionOnSet(f, s)
           Bad == {s \in SUBSET S : ~ (Sum(s) \in Nat /\ \A t \in SUBSET s : Sum(t) \in Nat /\ Sum(t) <= Sum(s))}
<1>1. IntOn(f, S)
  BY DEF IntOn
<1>2. ASSUME Bad # {} PROVE FALSE
  <2>1. PICK s \in Bad : \A t \in Bad : t \subseteq s => t = s
    <3>1. Bad \subseteq SUBSET S
      OBVIOUS
    <3> HIDE DEF Bad
    <3> QED
      BY <1>2, <3>1, SmallestSubset
  <2>2. s \in SUBSET S /\ IsFiniteSet(s) /\ IntOn(f, s)
    BY FS_Subset DEF IntOn
  <2>3. ASSUME NEW x \in s PROVE Sum(s) \in Nat /\ Sum(s \ {x}) \in Nat /\ Sum(s \ {x}) <= Sum(s)
    <3> DEFINE u == s \ {x}
    <3>1. Sum(s) = f[x] + Sum(u)
      BY <2>2, SumRemove
    <3>2. u \in SUBSET S /\ u \notin Bad
      BY <2>1, <2>2
    <3>3. Sum(u) \in Nat
      <4> HIDE DEF u, Sum
      <4> QED
        BY <3>2
    <3>4. f[x] \in Nat
      BY <2>2
    <3> HIDE DEF Sum, u
    <3>5. Sum(s) \in Nat /\ Sum(u) <= Sum(s)
      BY <3>1, <3>3, <3>4
    <3> QED
      BY <3>3, <3>5 DEF u
  <2>4. Sum(s) \in Nat
    <3>1. CASE s = {}
      BY <3>1, SumEmpty
    <3>2. CASE s # {}
      BY <2>3, <3>2
    <3> QED
      BY <3>1, <3>2
  <2>5. ASSUME NEW t \in SUBSET s PROVE Sum(t) \in Nat /\ Sum(t) <= Sum(s)
    <3>1. CASE t = s
      BY <2>4, <3>1
    <3>2. CASE t # s
      <4>1. PICK x \in s : x \notin t
        BY <3>2
      <4> DEFINE u == s \ {x}
      <4>2. u \in SUBSET S /\ u \notin Bad /\ t \in SUBSET u
        BY <2>1, <2>2, <4>1
      <4>3. Sum(u) \in Nat /\ Sum(u) <= Sum(s)
        BY <2>3
      <4> HIDE DEF u, Sum
      <4>4. Sum(t) \in Nat /\ Sum(t) <= Sum(u)
        BY <4>2
      <4> QED
        BY <2>4, <4>3, <4>4
    <3> QED
      BY <3>1, <3>2
  <2> HIDE DEF Sum
  <2> QED
    BY <2>1, <2>4, <2>5
<1>3. S \in SUBSET S /\ S \notin Bad
  BY <1>2
<1> HIDE DEF Sum
<1>4. Sum(T) \in Nat /\ Sum(T) <= Sum(S)
  BY <1>3
<1> QED
  BY <1>4 DEF Sum
=============================================================================
