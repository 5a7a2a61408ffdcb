------------------------ MODULE CircuitDepositProofs ------------------------
(***************************************************************************)
(* Proofs about CircuitDeposit, for every set of accounts and every value  *)
(* of the budgets and bounds.                                              *)
(***************************************************************************)
EXTENDS CircuitDeposit, InductionLemmas

-----------------------------------------------------------------------------
(* The set of ids a prune removes stays within the budget. *)

\* A nonempty set of zk ids has a greatest element.
LEMMA GreatestId ==
    ASSUME NEW V \in SUBSET ZkIds, V # {}
    PROVE  \E m \in V : \A y \in V : y <= m
<1> DEFINE T == {n \in Nat : \E v \in V : n = MaxZk - v}
<1>1. T \in SUBSET Nat /\ T # {}
  <2>1. PICK v \in V : TRUE
    OBVIOUS
  <2>2. MaxZk - v \in Nat
    BY BoundAssumption DEF ZkIds
  <2> QED
    BY <2>2
<1>2. PICK t \in T : \A u \in T : t <= u
  BY <1>1, LeastNatural
<1>3. PICK m \in V : t = MaxZk - m
  BY <1>2
<1>4. ASSUME NEW y \in V PROVE y <= m
  <2>1. MaxZk - y \in T
    BY BoundAssumption DEF ZkIds
  <2>2. t <= MaxZk - y
    BY <1>2, <2>1
  <2> QED
    BY <1>3, <2>2, BoundAssumption DEF ZkIds
<1> QED
  BY <1>4

\* FirstIds, the ids pruneCreatorCircuits picks, never exceeds its limit.
LEMMA FirstIdsBound ==
    ASSUME NEW S \in SUBSET ZkIds, NEW max \in Nat
    PROVE  /\ FirstIds(S, max) \subseteq S
           /\ Cardinality(FirstIds(S, max)) \in 0..max
<1> DEFINE V == FirstIds(S, max)
<1>1. V \subseteq S
  BY DEF FirstIds
<1>2. IsFiniteSet(ZkIds)
  BY FS_Interval, BoundAssumption DEF ZkIds
<1>3. IsFiniteSet(S) /\ IsFiniteSet(V)
  BY <1>1, <1>2, FS_Subset
<1>4. CASE V = {}
  BY <1>1, <1>4, FS_EmptySet
<1>5. CASE V # {}
  <2>1. PICK m \in V : \A y \in V : y <= m
    BY <1>1, <1>5, GreatestId
  <2> DEFINE B == {y \in S : y < m}
  <2>2. IsFiniteSet(B) /\ Cardinality(B) \in Nat
    BY <1>3, FS_Subset, FS_CardinalityType
  <2>3. Cardinality(B) < max
    BY <2>1 DEF FirstIds
  <2>4. V \subseteq B \cup {m}
    <3> SUFFICES ASSUME NEW y \in V, y # m PROVE y \in B
      OBVIOUS
    <3>1. y \in S /\ m \in S /\ y <= m
      BY <1>1, <2>1
    <3>2. y \in Int /\ m \in Int
      BY <3>1, BoundAssumption DEF ZkIds
    <3> QED
      BY <3>1, <3>2
  <2>5. IsFiniteSet(B \cup {m}) /\ Cardinality(B \cup {m}) <= Cardinality(B) + 1
    BY <2>2, FS_AddElement
  <2>6. Cardinality(V) <= Cardinality(B \cup {m})
    BY <2>4, <2>5, FS_Subset
  <2>7. Cardinality(V) \in Nat /\ Cardinality(B \cup {m}) \in Nat
    BY <1>3, <2>5, FS_CardinalityType
  <2> HIDE DEF V, B
  <2>8. Cardinality(V) \in 0..max
    BY <2>2, <2>3, <2>5, <2>6, <2>7
  <2> QED
    BY <1>1, <2>8 DEF V
<1> QED
  BY <1>4, <1>5

\* When FirstIds leaves an id behind it has taken as many as it may.
LEMMA FirstIdsFills ==
    ASSUME NEW S \in SUBSET ZkIds, NEW max \in Nat, S \ FirstIds(S, max) # {}
    PROVE  Cardinality(FirstIds(S, max)) = max
<1> DEFINE V == FirstIds(S, max)
<1>1. S \ V # {}
  OBVIOUS
<1> HIDE DEF V
<1>2. S \ V \in SUBSET Nat
  <2>1. ZkIds \subseteq Nat
    BY BoundAssumption DEF ZkIds
  <2> QED
    BY <2>1
<1>3. PICK m \in S \ V : \A y \in S \ V : m <= y
  BY <1>1, <1>2, LeastNatural
<1> DEFINE B == {y \in S : y < m}
<1>4. IsFiniteSet(ZkIds)
  BY FS_Interval, BoundAssumption DEF ZkIds
<1>5. V \subseteq S /\ Cardinality(V) \in 0..max
  BY FirstIdsBound DEF V
<1>6. IsFiniteSet(S) /\ IsFiniteSet(V) /\ IsFiniteSet(B)
  <2>1. IsFiniteSet(S)
    BY <1>4, FS_Subset
  <2> QED
    BY <1>5, <2>1, FS_Subset
<1>7. ~ (Cardinality(B) < max)
  BY <1>3 DEF V, FirstIds
<1>8. B \subseteq V
  <2> SUFFICES ASSUME NEW y \in S, y < m, y \notin V PROVE FALSE
    OBVIOUS
  <2>1. m <= y
    BY <1>3
  <2> QED
    BY <2>1, BoundAssumption DEF ZkIds
<1> HIDE DEF B
<1>9. Cardinality(B) <= Cardinality(V) /\ Cardinality(B) \in Nat
  BY <1>6, <1>8, FS_Subset, FS_CardinalityType
<1>10. Cardinality(V) = max
  BY <1>5, <1>7, <1>9
<1> QED
  BY <1>10 DEF V

-----------------------------------------------------------------------------
(* The inductive invariant.  The two index invariants are restated row by    *)
(* row; LoopInv says what the locals of the prune loops know, and FreshIds    *)
(* that no circuit has an id the sequence has not handed out.                 *)

DepositRows ==
    \A a \in Addr, t \in Nat \ {0} : <<t, a>> \in expiry <=> paidUntil[a] = t

CreatorRows ==
    \A a \in Addr, z \in ZkIds : <<a, z>> \in byCreator <=> circuits[z] = a

FreshIds == \A z \in ZkIds : z >= nextZk => circuits[z] = NoOne

LoopInv ==
    /\ pending \subseteq gc
    /\ phase # "pending" => pending = {}
    /\ \A r \in hits : r[1] <= now

IInv ==
    /\ TypeOK
    /\ DepositRows
    /\ CreatorRows
    /\ FreshIds
    /\ LoopInv
    /\ FlaggedWithoutDeposit
    /\ FlaggedOwnsCircuits
    /\ ParamRefsResolve

LEMMA DepositRowsExact == ASSUME TypeOK, DepositRows PROVE ExpiryIndexExact
<1> DEFINE E == {<<paidUntil[a], a>> : a \in {b \in Addr : paidUntil[b] # 0}}
<1>1. ASSUME NEW r \in expiry PROVE r \in E
  <2>1. PICK t \in Nat \ {0}, a \in Addr : r = <<t, a>>
    BY DEF TypeOK
  <2>2. paidUntil[a] = t
    BY <2>1 DEF DepositRows
  <2> QED
    BY <2>1, <2>2
<1>2. ASSUME NEW a \in Addr, paidUntil[a] # 0 PROVE <<paidUntil[a], a>> \in expiry
  <2>1. paidUntil[a] \in Nat \ {0}
    BY <1>2 DEF TypeOK
  <2> QED
    BY <2>1 DEF DepositRows
<1> QED
  BY <1>1, <1>2 DEF ExpiryIndexExact

LEMMA CreatorRowsExact == ASSUME TypeOK, CreatorRows PROVE CreatorIndexExact
<1> DEFINE E == {<<circuits[z], z>> : z \in {y \in ZkIds : circuits[y] # NoOne}}
<1>1. ASSUME NEW r \in byCreator PROVE r \in E
  <2>1. PICK a \in Addr, z \in ZkIds : r = <<a, z>>
    BY DEF TypeOK
  <2>2. circuits[z] = a /\ a # NoOne
    BY <2>1, AddrAssumption DEF CreatorRows
  <2> QED
    BY <2>1, <2>2
<1>2. ASSUME NEW z \in ZkIds, circuits[z] # NoOne PROVE <<circuits[z], z>> \in byCreator
  <2>1. circuits[z] \in Addr
    BY <1>2 DEF TypeOK
  <2> QED
    BY <2>1 DEF CreatorRows
<1> QED
  BY <1>1, <1>2 DEF CreatorIndexExact

-----------------------------------------------------------------------------
(* What pruneCreatorCircuits does to the circuit tables. *)

LEMMA PruneEffect ==
    ASSUME TypeOK, CreatorRows, FreshIds, ParamRefsResolve,
           NEW a \in Addr, pruneCreatorCircuits(a)
    PROVE  /\ circuits' \in [ZkIds -> Addr \cup {NoOne}]
           /\ paramRef' \in [ZkIds -> 0..MaxParam]
           /\ byCreator' \subseteq Addr \X ZkIds
           /\ circuitsLeft' \in 0..MaxGCCircuits
           /\ nextParam' = nextParam /\ nextZk' = nextZk
           /\ CreatorRows' /\ FreshIds' /\ ParamRefsResolve'
           /\ \A z \in ZkIds : Removed(z) => circuits[z] = a
           /\ \A b \in Addr \ {a} : CircuitsOf(b)' = CircuitsOf(b) /\ (b \in gc' <=> b \in gc)
           /\ a \in gc' <=> CircuitsOf(a)' # {}
           /\ a \in gc' => circuitsLeft' = 0
           /\ gc' \subseteq gc \cup {a}
<1> DEFINE zs == FirstIds(CircuitsOf(a), circuitsLeft)
<1>1. CircuitsOf(a) \in SUBSET ZkIds /\ circuitsLeft \in Nat
  BY BudgetAssumption DEF CircuitsOf, TypeOK
<1>2. zs \subseteq CircuitsOf(a) /\ Cardinality(zs) \in 0..circuitsLeft
  BY <1>1, FirstIdsBound
<1>3. CircuitsOf(a) \ zs # {} => Cardinality(zs) = circuitsLeft
  BY <1>1, FirstIdsFills
<1>4. \A z \in zs : z \in ZkIds /\ circuits[z] = a /\ circuits[z] # NoOne
  BY <1>2, AddrAssumption DEF CircuitsOf, CreatorRows
<1> HIDE DEF zs
<1>5. /\ circuits' = [z \in ZkIds |-> IF z \in zs THEN NoOne ELSE circuits[z]]
      /\ paramRef' = [z \in ZkIds |->
                        IF z \in zs /\ circuits[z] # NoOne THEN 0 ELSE paramRef[z]]
      /\ nextParam' = nextParam /\ nextZk' = nextZk
      /\ circuitsLeft' = circuitsLeft - Cardinality(zs)
      /\ gc' = IF CircuitsOf(a) \ zs # {} THEN gc \cup {a} ELSE gc \ {a}
      /\ byCreator' = {r \in byCreator :
                         ~ (/\ r[2] \in zs
                            /\ r[1] = IF circuits[r[2]] = NoOne THEN a ELSE circuits[r[2]])}
  BY DEF pruneCreatorCircuits, removeCircuits, zs
<1>6. circuits' \in [ZkIds -> Addr \cup {NoOne}]
  BY <1>5 DEF TypeOK
<1>7. paramRef' \in [ZkIds -> 0..MaxParam]
  BY <1>5, BoundAssumption DEF TypeOK
<1>8. byCreator' \subseteq Addr \X ZkIds
  BY <1>5 DEF TypeOK
<1>9. circuitsLeft' \in 0..MaxGCCircuits
  BY <1>2, <1>5, BudgetAssumption DEF TypeOK
<1>10. ASSUME NEW b \in Addr, NEW z \in ZkIds
      PROVE  <<b, z>> \in byCreator' <=> <<b, z>> \in byCreator /\ z \notin zs
  <2>1. CASE z \in zs
    <3>1. <<b, z>> \in byCreator => b = a
      BY <1>4, <2>1 DEF CreatorRows
    <3> QED
      BY <1>4, <1>5, <2>1, <3>1
  <2>2. CASE z \notin zs
    BY <1>5, <2>2
  <2> QED
    BY <2>1, <2>2
<1>11. CreatorRows'
  <2> SUFFICES ASSUME NEW b \in Addr, NEW z \in ZkIds
               PROVE  <<b, z>> \in byCreator' <=> circuits'[z] = b
    BY DEF CreatorRows, ZkIds
  <2>1. circuits'[z] = IF z \in zs THEN NoOne ELSE circuits[z]
    BY <1>5
  <2> QED
    BY <1>10, <2>1, AddrAssumption DEF CreatorRows
<1>12. FreshIds' /\ ParamRefsResolve'
  <2>1. ASSUME NEW z \in ZkIds
        PROVE  /\ circuits'[z] = IF z \in zs THEN NoOne ELSE circuits[z]
               /\ paramRef'[z] = IF z \in zs THEN 0 ELSE paramRef[z]
    BY <1>4, <1>5
  <2>2. FreshIds'
    BY <1>5, <2>1 DEF FreshIds, ZkIds
  <2>3. ParamRefsResolve'
    BY <1>5, <2>1 DEF ParamRefsResolve, ZkIds
  <2> QED
    BY <2>2, <2>3
<1>13. \A z \in ZkIds : Removed(z) => circuits[z] = a
  BY <1>4, <1>5 DEF Removed
<1>14. ASSUME NEW b \in Addr \ {a}
       PROVE  CircuitsOf(b)' = CircuitsOf(b) /\ (b \in gc' <=> b \in gc)
  <2>1. \A z \in zs : <<b, z>> \notin byCreator
    BY <1>4 DEF CreatorRows
  <2>2. CircuitsOf(b)' = {z \in ZkIds : <<b, z>> \in byCreator'}
    BY DEF CircuitsOf, ZkIds
  <2>3. CircuitsOf(b)' = CircuitsOf(b)
    BY <1>10, <2>1, <2>2 DEF CircuitsOf
  <2> QED
    BY <1>5, <2>3
<1>15. a \in gc' <=> CircuitsOf(a)' # {}
  <2>1. CircuitsOf(a)' = {z \in ZkIds : <<a, z>> \in byCreator'}
    BY DEF CircuitsOf, ZkIds
  <2>2. CircuitsOf(a)' = CircuitsOf(a) \ zs
    BY <1>10, <2>1 DEF CircuitsOf
  <2> QED
    BY <1>5, <2>2
<1>16. a \in gc' => circuitsLeft' = 0
  BY <1>3, <1>1, <1>5
<1> QED
  BY <1>5, <1>6, <1>7, <1>8, <1>9, <1>11, <1>12, <1>13, <1>14, <1>15, <1>16

-----------------------------------------------------------------------------
(* Every step preserves the invariant: one lemma per group of actions. *)

LEMMA InitIInv == Init => IInv
<1> SUFFICES ASSUME Init PROVE IInv
  OBVIOUS
<1>1. TypeOK
  BY BudgetAssumption, BoundAssumption DEF Init, TypeOK
<1>2. DepositRows /\ CreatorRows
  BY AddrAssumption DEF Init, DepositRows, CreatorRows
<1>3. FreshIds /\ LoopInv /\ FlaggedWithoutDeposit /\ FlaggedOwnsCircuits /\ ParamRefsResolve
  BY DEF Init, FreshIds, LoopInv, FlaggedWithoutDeposit, FlaggedOwnsCircuits, ParamRefsResolve
<1> QED
  BY <1>1, <1>2, <1>3 DEF IInv

\* A renewal ends later than the old deposit and later than now.
LEMMA RenewalIsLater ==
    ASSUME TypeOK, NEW a \in Addr, NEW years \in 1..MaxYears
    PROVE  /\ Later(now, paidUntil[a]) + years * Year \in Nat \ {0}
           /\ Later(now, paidUntil[a]) + years * Year > paidUntil[a]
           /\ Later(now, paidUntil[a]) + years * Year > now
<1>1. now \in Nat /\ paidUntil[a] \in Nat
  BY BoundAssumption DEF TypeOK
<1>2. years \in Nat /\ years >= 1 /\ Year \in Nat /\ Year >= 1
  BY YearAssumption
<1>3. years * Year \in Nat /\ years * Year >= 1
  BY <1>2
<1> QED
  BY <1>1, <1>3 DEF Later

LEMMA PayInv ==
    ASSUME IInv, NEW a \in Addr, NEW years \in 1..MaxYears, PayCircuitDeposit(a, years)
    PROVE  IInv'
<1> DEFINE until == Later(now, paidUntil[a]) + years * Year
<1>1. TypeOK /\ DepositRows
  BY DEF IInv
<1>2. until \in Nat \ {0}
  BY <1>1, RenewalIsLater
<1> HIDE DEF until
<1>3. /\ paidUntil' = [paidUntil EXCEPT ![a] = until]
      /\ expiry' = (expiry \ {<<paidUntil[a], a>>}) \cup {<<until, a>>}
      /\ gc' = gc \ {a}
      /\ phase = "deliver"
      /\ UNCHANGED <<now, allowed, params, store, loop>>
  BY DEF PayCircuitDeposit, until
<1>4. TypeOK'
  BY <1>1, <1>2, <1>3 DEF TypeOK, params, store, loop, ZkIds
<1>5. DepositRows'
  <2> SUFFICES ASSUME NEW b \in Addr, NEW t \in Nat \ {0}
               PROVE  <<t, b>> \in expiry' <=> paidUntil'[b] = t
    BY DEF DepositRows
  <2>1. CASE b = a
    BY <1>1, <1>2, <1>3, <2>1 DEF DepositRows, TypeOK
  <2>2. CASE b # a
    BY <1>1, <1>3, <2>2 DEF DepositRows, TypeOK
  <2> QED
    BY <2>1, <2>2
<1>6. CreatorRows' /\ FreshIds' /\ ParamRefsResolve'
  BY <1>3 DEF IInv, CreatorRows, FreshIds, ParamRefsResolve, params, store, ZkIds
<1>7. LoopInv'
  BY <1>3 DEF IInv, LoopInv, loop
<1>8. FlaggedWithoutDeposit'
  BY <1>1, <1>3 DEF IInv, TypeOK, FlaggedWithoutDeposit
<1>9. FlaggedOwnsCircuits'
  BY <1>3 DEF IInv, FlaggedOwnsCircuits, CircuitsOf, store, ZkIds
<1> QED
  BY <1>4, <1>5, <1>6, <1>7, <1>8, <1>9 DEF IInv

\* Storing circuit nextZk for a, with a reference to vk param p.
LEMMA StoreInv ==
    ASSUME IInv, NEW a \in Addr, NEW p \in 1..MaxParam,
           nextZk <= MaxZk, phase = "deliver",
           nextZk' = nextZk + 1,
           circuits' = [circuits EXCEPT ![nextZk] = a],
           paramRef' = [paramRef EXCEPT ![nextZk] = p],
           byCreator' = byCreator \cup {<<a, nextZk>>},
           nextParam' \in 1..(MaxParam + 1), nextParam' >= nextParam, p \in 1..(nextParam' - 1),
           UNCHANGED <<now, allowed, rows, loop>>
    PROVE  IInv'
<1>1. TypeOK /\ nextZk \in ZkIds /\ circuits[nextZk] = NoOne
  BY BoundAssumption DEF IInv, TypeOK, ZkIds, FreshIds
<1>2. TypeOK'
  BY <1>1, BoundAssumption DEF TypeOK, rows, loop, ZkIds
<1>3. DepositRows'
  BY DEF IInv, DepositRows, rows
<1>4. CreatorRows'
  <2> SUFFICES ASSUME NEW b \in Addr, NEW z \in ZkIds
               PROVE  <<b, z>> \in byCreator' <=> circuits'[z] = b
    BY DEF CreatorRows, ZkIds
  <2>1. CASE z = nextZk
    BY <1>1, <2>1, AddrAssumption DEF IInv, CreatorRows, TypeOK
  <2>2. CASE z # nextZk
    BY <1>1, <2>2 DEF IInv, CreatorRows, TypeOK
  <2> QED
    BY <2>1, <2>2
<1>5. FreshIds'
  BY <1>1, BoundAssumption DEF IInv, FreshIds, TypeOK, ZkIds
<1>6. ParamRefsResolve'
  <2> SUFFICES ASSUME NEW z \in ZkIds
               PROVE  IF circuits'[z] = NoOne THEN paramRef'[z] = 0
                                              ELSE paramRef'[z] \in 1..(nextParam' - 1)
    BY DEF ParamRefsResolve, ZkIds
  <2>1. CASE z = nextZk
    <3>1. circuits'[z] = a /\ paramRef'[z] = p /\ a # NoOne
      BY <1>1, <2>1, AddrAssumption DEF TypeOK
    <3> QED
      BY <3>1
  <2>2. CASE z # nextZk
    <3>1. circuits'[z] = circuits[z] /\ paramRef'[z] = paramRef[z]
      BY <1>1, <2>2 DEF TypeOK
    <3> QED
      BY <1>1, <3>1, BoundAssumption DEF IInv, ParamRefsResolve, TypeOK
  <2> QED
    BY <2>1, <2>2
<1>7. LoopInv' /\ FlaggedWithoutDeposit'
  BY DEF IInv, LoopInv, FlaggedWithoutDeposit, rows, loop
<1>8. FlaggedOwnsCircuits'
  BY DEF IInv, FlaggedOwnsCircuits, CircuitsOf, rows, ZkIds
<1> QED
  BY <1>2, <1>3, <1>4, <1>5, <1>6, <1>7, <1>8 DEF IInv

LEMMA DeliverInv == ASSUME IInv, Deliver PROVE IInv'
<1>1. ASSUME NEW a \in Addr, NEW years \in 1..MaxYears, PayCircuitDeposit(a, years)
      PROVE  IInv'
  BY <1>1, PayInv
<1>2. ASSUME NEW a \in Addr, StoreVkParam(a)
      PROVE  IInv'
  <2>1. TypeOK'
    BY <1>2, BoundAssumption DEF IInv, TypeOK, StoreVkParam, store, rows, loop, ZkIds
  <2>2. ParamRefsResolve'
    BY <1>2, BoundAssumption DEF IInv, TypeOK, ParamRefsResolve, StoreVkParam, store, ZkIds
  <2> QED
    BY <1>2, <2>1, <2>2 DEF IInv, StoreVkParam, store, rows, loop, ZkIds, DepositRows,
       CreatorRows, FreshIds, LoopInv, FlaggedWithoutDeposit, FlaggedOwnsCircuits, CircuitsOf
<1>3. ASSUME NEW a \in Addr, NEW param \in 1..MaxParam, StoreCircuit(a, param)
      PROVE  IInv'
  <2>1. /\ nextParam' \in 1..(MaxParam + 1) /\ nextParam' >= nextParam
        /\ param \in 1..(nextParam' - 1)
    BY <1>3, BoundAssumption DEF IInv, TypeOK, StoreCircuit
  <2> QED
    BY <1>3, <2>1, StoreInv DEF StoreCircuit
<1>4. ASSUME NEW a \in Addr, StoreFullCircuit(a)
      PROVE  IInv'
  <2>1. /\ nextParam' \in 1..(MaxParam + 1) /\ nextParam' >= nextParam
        /\ nextParam \in 1..MaxParam /\ nextParam \in 1..(nextParam' - 1)
    BY <1>4, BoundAssumption DEF IInv, TypeOK, StoreFullCircuit
  <2> QED
    BY <1>4, <2>1, StoreInv DEF StoreFullCircuit
<1>5. ASSUME NEW list \in SUBSET Addr, SetUploadAccess(list)
      PROVE  IInv'
  <2>1. TypeOK'
    BY <1>5 DEF IInv, TypeOK, SetUploadAccess, params, store, rows, loop, ZkIds
  <2> QED
    BY <1>5, <2>1 DEF IInv, SetUploadAccess, params, store, rows, loop, ZkIds, DepositRows,
       CreatorRows, FreshIds, LoopInv, FlaggedWithoutDeposit, FlaggedOwnsCircuits, CircuitsOf,
       ParamRefsResolve
<1> QED
  BY <1>1, <1>2, <1>3, <1>4, <1>5 DEF Deliver

LEMMA PrunePendingInv == ASSUME IInv, PrunePending PROVE IInv'
<1>1. PICK a \in pending : pruneCreatorCircuits(a) /\ pending' = pending \ {a}
  BY DEF PrunePending
<1>2. a \in Addr /\ a \in gc /\ TypeOK
  BY DEF IInv, LoopInv, TypeOK
<1>3. /\ circuits' \in [ZkIds -> Addr \cup {NoOne}]
      /\ paramRef' \in [ZkIds -> 0..MaxParam]
      /\ byCreator' \subseteq Addr \X ZkIds
      /\ circuitsLeft' \in 0..MaxGCCircuits
      /\ nextParam' = nextParam /\ nextZk' = nextZk
      /\ CreatorRows' /\ FreshIds' /\ ParamRefsResolve'
      /\ \A b \in Addr \ {a} : CircuitsOf(b)' = CircuitsOf(b) /\ (b \in gc' <=> b \in gc)
      /\ a \in gc' <=> CircuitsOf(a)' # {}
      /\ gc' \subseteq gc \cup {a}
  BY <1>1, <1>2, PruneEffect DEF IInv
<1>4. TypeOK'
  BY <1>1, <1>2, <1>3, BudgetAssumption DEF TypeOK, PrunePending, BudgetLeft, ZkIds
<1>5. DepositRows'
  BY DEF IInv, DepositRows, PrunePending
<1>6. LoopInv'
  BY <1>1, <1>2, <1>3 DEF IInv, LoopInv, PrunePending, TypeOK
<1>7. FlaggedWithoutDeposit'
  BY <1>2, <1>3 DEF IInv, FlaggedWithoutDeposit, PrunePending
<1>8. FlaggedOwnsCircuits'
  BY <1>2, <1>3, <1>4 DEF IInv, FlaggedOwnsCircuits, TypeOK
<1> QED
  BY <1>3, <1>4, <1>5, <1>6, <1>7, <1>8 DEF IInv

\* Dropping the deposit of an expired index row.
LEMMA DropInv ==
    ASSUME TypeOK, DepositRows, NEW r \in hits, paidUntil[r[2]] = r[1], DropDeposit(r), BudgetLeft
    PROVE  /\ paidUntil' \in [Addr -> Nat]
           /\ paidUntil'[r[2]] = 0
           /\ \A b \in Addr : paidUntil'[b] # paidUntil[b] => b = r[2]
           /\ expiry' \subseteq (Nat \ {0}) \X Addr
           /\ depositeesLeft' \in 0..MaxGCDepositees
           /\ DepositRows'
<1>1. PICK t \in Nat \ {0}, a \in Addr : r = <<t, a>>
  BY DEF TypeOK
<1>2. /\ paidUntil' = [paidUntil EXCEPT ![a] = 0]
      /\ expiry' = expiry \ {<<t, a>>}
      /\ depositeesLeft' = depositeesLeft - 1
      /\ paidUntil[a] = t
  BY <1>1 DEF DropDeposit
<1>3. DepositRows'
  <2> SUFFICES ASSUME NEW b \in Addr, NEW u \in Nat \ {0}
               PROVE  <<u, b>> \in expiry' <=> paidUntil'[b] = u
    BY DEF DepositRows
  <2>1. CASE b = a
    BY <1>2, <2>1 DEF DepositRows, TypeOK
  <2>2. CASE b # a
    BY <1>2, <2>2 DEF DepositRows, TypeOK
  <2> QED
    BY <2>1, <2>2
<1>4. depositeesLeft' \in 0..MaxGCDepositees
  BY <1>2, BudgetAssumption DEF TypeOK, BudgetLeft
<1> QED
  BY <1>1, <1>2, <1>3, <1>4 DEF TypeOK

LEMMA PruneExpiredInv == ASSUME IInv, PruneExpired PROVE IInv'
<1>1. PICK r \in hits :
        /\ IF paidUntil[r[2]] # r[1] \/ r[1] > now THEN DropStaleRow(r)
           ELSE IF r[2] \in allowed THEN ExpireAllowed(r)
           ELSE ExpireDeposit(r)
        /\ hits' = hits \ {r}
  BY DEF PruneExpired
<1>2. /\ phase = "expired" /\ BudgetLeft
      /\ UNCHANGED <<now, allowed, phase, pending>>
  BY DEF PruneExpired
<1>3. TypeOK /\ DepositRows /\ r[2] \in Addr /\ r[1] \in Nat \ {0}
  BY DEF IInv, TypeOK
<1>4. LoopInv /\ pending = {} /\ hits' \subseteq hits
  BY <1>1, <1>2 DEF IInv, LoopInv
<1>5. LoopInv'
  BY <1>2, <1>4 DEF LoopInv
<1>6. CASE DropStaleRow(r) /\ (paidUntil[r[2]] # r[1] \/ r[1] > now)
  <2>1. TypeOK'
    BY <1>2, <1>3, <1>4, <1>6 DEF TypeOK, DropStaleRow, params, store, ZkIds
  <2>2. DepositRows'
    <3>1. r[1] <= now
      BY <1>4 DEF LoopInv
    <3>2. paidUntil[r[2]] # r[1]
      BY <1>3, <1>6, <3>1, BoundAssumption DEF TypeOK
    <3>3. PICK t \in Nat \ {0}, a \in Addr : r = <<t, a>>
      BY <1>3 DEF TypeOK
    <3>4. <<t, a>> \notin expiry
      BY <1>3, <3>2, <3>3 DEF DepositRows
    <3>5. expiry' = expiry /\ paidUntil' = paidUntil
      BY <1>6, <3>3, <3>4 DEF DropStaleRow
    <3> QED
      BY <1>3, <3>5 DEF DepositRows
  <2> QED
    BY <1>5, <1>6, <2>1, <2>2 DEF IInv, DropStaleRow, params, store, ZkIds,
       CreatorRows, FreshIds, FlaggedWithoutDeposit, FlaggedOwnsCircuits, CircuitsOf,
       ParamRefsResolve
<1>7. ASSUME paidUntil[r[2]] = r[1], DropDeposit(r)
      PROVE  /\ paidUntil' \in [Addr -> Nat]
             /\ paidUntil'[r[2]] = 0
             /\ \A b \in Addr : paidUntil'[b] # paidUntil[b] => b = r[2]
             /\ expiry' \subseteq (Nat \ {0}) \X Addr
             /\ depositeesLeft' \in 0..MaxGCDepositees
             /\ DepositRows'
  BY <1>2, <1>3, <1>7, DropInv
<1>8. CASE paidUntil[r[2]] = r[1] /\ ExpireAllowed(r)
  <2>1. TypeOK'
    BY <1>2, <1>3, <1>4, <1>7, <1>8 DEF TypeOK, ExpireAllowed, params, store, ZkIds
  <2>2. FlaggedWithoutDeposit'
    BY <1>3, <1>7, <1>8 DEF IInv, TypeOK, FlaggedWithoutDeposit, ExpireAllowed
  <2>3. FlaggedOwnsCircuits'
    BY <1>8 DEF IInv, FlaggedOwnsCircuits, CircuitsOf, ExpireAllowed, store, ZkIds
  <2>4. CreatorRows' /\ FreshIds' /\ ParamRefsResolve'
    BY <1>8 DEF IInv, CreatorRows, FreshIds, ParamRefsResolve, ExpireAllowed, params, store, ZkIds
  <2> QED
    BY <1>5, <1>7, <1>8, <2>1, <2>2, <2>3, <2>4 DEF IInv, ExpireAllowed
<1>9. CASE paidUntil[r[2]] = r[1] /\ ExpireDeposit(r)
  <2> DEFINE a == r[2]
  <2>1. /\ circuits' \in [ZkIds -> Addr \cup {NoOne}]
        /\ paramRef' \in [ZkIds -> 0..MaxParam]
        /\ byCreator' \subseteq Addr \X ZkIds
        /\ circuitsLeft' \in 0..MaxGCCircuits
        /\ nextParam' = nextParam /\ nextZk' = nextZk
        /\ CreatorRows' /\ FreshIds' /\ ParamRefsResolve'
        /\ \A b \in Addr \ {a} : CircuitsOf(b)' = CircuitsOf(b) /\ (b \in gc' <=> b \in gc)
        /\ a \in gc' <=> CircuitsOf(a)' # {}
        /\ gc' \subseteq gc \cup {a}
    BY <1>3, <1>9, PruneEffect DEF IInv, ExpireDeposit
  <2>2. DropDeposit(r)
    BY <1>9 DEF ExpireDeposit
  <2>3. TypeOK'
    BY <1>2, <1>3, <1>4, <1>7, <1>9, <2>1, <2>2 DEF TypeOK, ZkIds
  <2>4. FlaggedWithoutDeposit'
    BY <1>3, <1>7, <1>9, <2>1, <2>2 DEF IInv, TypeOK, FlaggedWithoutDeposit
  <2>5. FlaggedOwnsCircuits'
    BY <1>3, <2>1, <2>3 DEF IInv, FlaggedOwnsCircuits, TypeOK
  <2> QED
    BY <1>5, <1>7, <1>9, <2>1, <2>2, <2>3, <2>4, <2>5 DEF IInv
<1> QED
  BY <1>1, <1>6, <1>8, <1>9

LEMMA EndBlockInv == ASSUME IInv, EndBlock PROVE IInv'
<1>1. CASE BeginPrune
  <2>1. TypeOK'
    BY <1>1, BudgetAssumption DEF IInv, TypeOK, BeginPrune, params, store, rows, ZkIds
  <2> QED
    BY <1>1, <2>1 DEF IInv, BeginPrune, params, store, rows, ZkIds, DepositRows, CreatorRows,
       FreshIds, LoopInv, FlaggedWithoutDeposit, FlaggedOwnsCircuits, CircuitsOf, ParamRefsResolve
<1>2. CASE CollectExpired
  <2>1. hits' \subseteq expiry /\ \A r \in hits' : r[1] <= now
    BY <1>2 DEF CollectExpired, FirstRows
  <2>2. TypeOK'
    BY <1>2, <2>1 DEF IInv, TypeOK, CollectExpired, params, store, rows, ZkIds
  <2>3. LoopInv'
    BY <1>2, <2>1 DEF IInv, LoopInv, CollectExpired, rows
  <2> QED
    BY <1>2, <2>2, <2>3 DEF IInv, CollectExpired, params, store, rows, ZkIds, DepositRows,
       CreatorRows, FreshIds, FlaggedWithoutDeposit, FlaggedOwnsCircuits, CircuitsOf,
       ParamRefsResolve
<1> QED
  BY <1>1, <1>2, PrunePendingInv, PruneExpiredInv DEF EndBlock

LEMMA NextBlockInv == ASSUME IInv, NEW dt \in 0..MaxTime, NextBlock(dt) PROVE IInv'
<1>1. now' \in 0..MaxTime
  BY BoundAssumption DEF IInv, TypeOK, NextBlock
<1>2. TypeOK'
  BY <1>1, BudgetAssumption DEF IInv, TypeOK, NextBlock, params, store, rows, ZkIds
<1> QED
  BY <1>2 DEF IInv, NextBlock, params, store, rows, ZkIds, DepositRows, CreatorRows,
     FreshIds, LoopInv, FlaggedWithoutDeposit, FlaggedOwnsCircuits, CircuitsOf, ParamRefsResolve

LEMMA StutterInv == ASSUME IInv, UNCHANGED vars PROVE IInv'
<1>1. TypeOK'
  BY DEF IInv, TypeOK, vars, params, store, rows, loop, ZkIds
<1> QED
  BY <1>1 DEF IInv, vars, params, store, rows, loop, ZkIds, DepositRows, CreatorRows,
     FreshIds, LoopInv, FlaggedWithoutDeposit, FlaggedOwnsCircuits, CircuitsOf, ParamRefsResolve

LEMMA Inductive == Spec => []IInv
<1>1. IInv /\ [Next]_vars => IInv'
  BY DeliverInv, EndBlockInv, NextBlockInv, StutterInv DEF Next
<1> QED
  BY <1>1, InitIInv, PTL DEF Spec

-----------------------------------------------------------------------------
(* The theorems *)

\* The state always has its type.  In particular neither prune budget of a block
\* is ever overdrawn: circuitsLeft and depositeesLeft stay natural numbers.
THEOREM TypeCorrect == Spec => []TypeOK
<1>1. IInv => TypeOK
  BY DEF IInv
<1> QED
  BY <1>1, Inductive, PTL

\* The expiry index and the depositee rows agree in every reachable state, so
\* no depositee is missed by the pruner and no row is left to expire twice.
THEOREM ExpiryIndexAgrees == Spec => []ExpiryIndexExact
<1>1. IInv => ExpiryIndexExact
  BY DepositRowsExact DEF IInv
<1> QED
  BY <1>1, Inductive, PTL

\* The creator index names exactly the stored circuits.
THEOREM CreatorIndexAgrees == Spec => []CreatorIndexExact
<1>1. IInv => CreatorIndexExact
  BY CreatorRowsExact DEF IInv
<1> QED
  BY <1>1, Inductive, PTL

\* A flag means unpaid and unfinished: the flagged account holds no deposit and
\* still owns circuits.
THEOREM FlagsMeanWork == Spec => [](FlaggedWithoutDeposit /\ FlaggedOwnsCircuits)
<1>1. IInv => FlaggedWithoutDeposit /\ FlaggedOwnsCircuits
  BY DEF IInv
<1> QED
  BY <1>1, Inductive, PTL

\* Every stored circuit's vk param reference resolves.
THEOREM ReferencesResolve == Spec => []ParamRefsResolve
<1>1. IInv => ParamRefsResolve
  BY DEF IInv
<1> QED
  BY <1>1, Inductive, PTL

\* The three together: the tables of deposits and circuits agree.
THEOREM IndexesAgree == Spec => []IndexesExact
<1>1. ExpiryIndexExact /\ CreatorIndexExact /\ ParamRefsResolve => IndexesExact
  BY DEF IndexesExact
<1> QED
  BY <1>1, ExpiryIndexAgrees, CreatorIndexAgrees, ReferencesResolve, PTL

\* While a prune may still remove circuits, the only flagged account is one the
\* first loop has not visited yet.
NoneInterrupted == phase # "deliver" /\ circuitsLeft > 0 => gc = pending

\* What pruneCreatorCircuits does to the flags.
LEMMA PruneFlags ==
    ASSUME IInv, NEW a \in Addr, pruneCreatorCircuits(a)
    PROVE  gc' \subseteq gc \cup {a} /\ (a \in gc' => circuitsLeft' = 0)
  BY PruneEffect DEF IInv

\* One account at a time is in the middle of its pruning.  With NoneInterrupted the
\* claim is inductive: a loop iteration starts with circuits left, so nobody but the
\* account it visits is flagged, and that one stays flagged only when none are left.
THEOREM OneAtATime == Spec => []OneInterrupted
<1> DEFINE Alone == OneInterrupted /\ NoneInterrupted
<1>1. Init => Alone
  BY DEF Init, OneInterrupted, NoneInterrupted
<1>2. ASSUME IInv, Alone, Next PROVE Alone'
  <2> USE <1>2
  <2>1. CASE Deliver
    <3>1. gc' \subseteq gc /\ phase' = "deliver"
      BY <2>1 DEF Deliver, PayCircuitDeposit, StoreVkParam, StoreCircuit, StoreFullCircuit,
         SetUploadAccess, rows, loop
    <3> QED
      BY <3>1 DEF OneInterrupted, NoneInterrupted
  <2>2. CASE BeginPrune
    BY <2>2 DEF BeginPrune, OneInterrupted, NoneInterrupted, rows
  <2>3. CASE PrunePending
    <3>1. PICK a \in pending : pruneCreatorCircuits(a) /\ pending' = pending \ {a}
      BY <2>3 DEF PrunePending
    <3>2. a \in Addr /\ gc = pending
      BY <2>3 DEF IInv, TypeOK, PrunePending, BudgetLeft, NoneInterrupted
    <3>3. gc' \subseteq gc \cup {a} /\ (a \in gc' => circuitsLeft' = 0)
      BY <3>1, <3>2, PruneFlags
    <3>4. gc \subseteq {a}
      BY <3>1, <3>2 DEF OneInterrupted
    <3> QED
      BY <3>1, <3>2, <3>3, <3>4 DEF OneInterrupted, NoneInterrupted
  <2>4. CASE CollectExpired
    BY <2>4 DEF CollectExpired, OneInterrupted, NoneInterrupted, rows
  <2>5. CASE PruneExpired
    <3>1. PICK r \in hits :
            \/ DropStaleRow(r)
            \/ ExpireAllowed(r)
            \/ ExpireDeposit(r)
      BY <2>5 DEF PruneExpired
    <3>2. gc = {} /\ pending' = {} /\ r[2] \in Addr
      BY <2>5 DEF IInv, LoopInv, TypeOK, PruneExpired, BudgetLeft, NoneInterrupted
    <3>3. gc' = {} \/ (gc' \subseteq {r[2]} /\ (r[2] \in gc' => circuitsLeft' = 0))
      BY <3>1, <3>2, PruneFlags DEF DropStaleRow, ExpireAllowed, ExpireDeposit
    <3> QED
      BY <3>2, <3>3 DEF OneInterrupted, NoneInterrupted
  <2>6. ASSUME NEW dt \in 0..MaxTime, NextBlock(dt) PROVE Alone'
    BY <2>6 DEF NextBlock, OneInterrupted, NoneInterrupted, rows
  <2> QED
    BY <2>1, <2>2, <2>3, <2>4, <2>5, <2>6 DEF Next, EndBlock
<1>3. ASSUME Alone, UNCHANGED vars PROVE Alone'
  BY <1>3 DEF vars, rows, loop, OneInterrupted, NoneInterrupted
<1>4. IInv /\ Alone /\ [Next]_vars => Alone'
  BY <1>2, <1>3
<1> QED
  BY <1>1, <1>4, Inductive, PTL DEF Spec

\* Paid time is never shortened while it runs: a renewal only extends, and the
\* pruner only drops what has ended.
THEOREM PaidTimeIsKept == Spec => PaidTimeKept
<1> DEFINE Kept == \A a \in Addr : paidUntil'[a] < paidUntil[a] => paidUntil[a] <= now
<1>1. ASSUME IInv, Next PROVE Kept
  <2> USE <1>1
  <2>1. TypeOK
    BY DEF IInv
  <2>2. ASSUME NEW a \in Addr, NEW years \in 1..MaxYears, PayCircuitDeposit(a, years)
        PROVE  Kept
    <3> SUFFICES ASSUME NEW b \in Addr PROVE ~ (paidUntil'[b] < paidUntil[b])
      OBVIOUS
    <3> DEFINE until == Later(now, paidUntil[a]) + years * Year
    <3>1. until \in Nat /\ until > paidUntil[a]
      BY <2>1, RenewalIsLater
    <3>2. paidUntil' = [paidUntil EXCEPT ![a] = until]
      BY <2>2 DEF PayCircuitDeposit
    <3> HIDE DEF until
    <3>3. CASE b = a
      BY <2>1, <3>1, <3>2, <3>3 DEF TypeOK
    <3>4. CASE b # a
      BY <2>1, <3>2, <3>4 DEF TypeOK
    <3> QED
      BY <3>3, <3>4
  <2>3. CASE PruneExpired
    <3>1. PICK r \in hits :
            IF paidUntil[r[2]] # r[1] \/ r[1] > now THEN DropStaleRow(r)
            ELSE IF r[2] \in allowed THEN ExpireAllowed(r)
            ELSE ExpireDeposit(r)
      BY <2>3 DEF PruneExpired
    <3>2. r[2] \in Addr /\ r[1] \in Nat /\ r[1] <= now
      BY DEF IInv, TypeOK, LoopInv
    <3> SUFFICES ASSUME NEW b \in Addr, paidUntil'[b] < paidUntil[b]
                 PROVE  paidUntil[b] <= now
      OBVIOUS
    <3>3. paidUntil[b] \in Nat
      BY <2>1 DEF TypeOK
    <3>4. CASE DropStaleRow(r)
      BY <3>3, <3>4 DEF DropStaleRow
    <3>5. CASE paidUntil[r[2]] = r[1] /\ DropDeposit(r)
      <4>1. paidUntil' = [paidUntil EXCEPT ![r[2]] = 0]
        BY <3>5 DEF DropDeposit
      <4>2. CASE b = r[2]
        BY <3>2, <3>5, <4>2
      <4>3. CASE b # r[2]
        BY <2>1, <3>3, <4>1, <4>3 DEF TypeOK
      <4> QED
        BY <4>2, <4>3
    <3> QED
      BY <3>1, <3>4, <3>5 DEF ExpireAllowed, ExpireDeposit
  <2>4. CASE paidUntil' = paidUntil
    BY <2>1, <2>4 DEF TypeOK
  <2>5. (\E a \in Addr, years \in 1..MaxYears : PayCircuitDeposit(a, years))
        \/ PruneExpired \/ paidUntil' = paidUntil
    BY DEF Next, Deliver, EndBlock, StoreVkParam, StoreCircuit, StoreFullCircuit,
       SetUploadAccess, BeginPrune, PrunePending, CollectExpired, NextBlock, rows
  <2> QED
    BY <2>2, <2>3, <2>4, <2>5
<1>2. IInv /\ [Next]_vars => [Kept]_vars
  BY <1>1
<1> QED
  BY <1>2, Inductive, PTL DEF Spec, PaidTimeKept

\* The pruner never removes a circuit of an account with unexpired paid time.
THEOREM CoveredCircuitsAreKept == Spec => CoveredCircuitsKept
<1> DEFINE Kept == \A z \in ZkIds : Removed(z) => ~ HasCircuitDeposit(circuits[z])
<1>1. ASSUME IInv, Next PROVE Kept
  <2> USE <1>1
  <2>1. TypeOK /\ now \in Nat
    BY BoundAssumption DEF IInv, TypeOK
  <2>2. CASE PrunePending
    <3>1. PICK a \in pending : pruneCreatorCircuits(a)
      BY <2>2 DEF PrunePending
    <3>2. a \in Addr /\ paidUntil[a] = 0
      BY <2>1 DEF IInv, LoopInv, TypeOK, FlaggedWithoutDeposit
    <3>3. \A z \in ZkIds : Removed(z) => circuits[z] = a
      BY <2>1, <3>1, <3>2, PruneEffect DEF IInv
    <3> QED
      BY <2>1, <3>2, <3>3 DEF HasCircuitDeposit
  <2>3. CASE PruneExpired
    <3>1. PICK r \in hits :
            IF paidUntil[r[2]] # r[1] \/ r[1] > now THEN DropStaleRow(r)
            ELSE IF r[2] \in allowed THEN ExpireAllowed(r)
            ELSE ExpireDeposit(r)
      BY <2>3 DEF PruneExpired
    <3>2. r[2] \in Addr /\ r[1] \in Nat /\ r[1] <= now
      BY DEF IInv, TypeOK, LoopInv
    <3>3. CASE circuits' = circuits
      BY <3>3 DEF Removed
    <3>4. CASE paidUntil[r[2]] = r[1] /\ pruneCreatorCircuits(r[2])
      <4>1. \A z \in ZkIds : Removed(z) => circuits[z] = r[2]
        BY <2>1, <3>2, <3>4, PruneEffect DEF IInv
      <4> QED
        BY <2>1, <3>2, <3>4, <4>1 DEF HasCircuitDeposit
    <3> QED
      BY <3>1, <3>3, <3>4 DEF DropStaleRow, ExpireAllowed, ExpireDeposit, store
  <2>4. ASSUME NEW a \in Addr, circuits' = [circuits EXCEPT ![nextZk] = a] PROVE Kept
    BY <2>1, <2>4, AddrAssumption DEF Removed, TypeOK
  <2>5. CASE circuits' = circuits
    BY <2>5 DEF Removed
  <2>6. (\E a \in Addr : circuits' = [circuits EXCEPT ![nextZk] = a])
        \/ PrunePending \/ PruneExpired \/ circuits' = circuits
    BY DEF Next, Deliver, EndBlock, StoreVkParam, StoreCircuit, StoreFullCircuit,
       PayCircuitDeposit, SetUploadAccess, BeginPrune, CollectExpired, NextBlock, store
  <2> QED
    BY <2>2, <2>3, <2>4, <2>5, <2>6
<1>2. IInv /\ [Next]_vars => [Kept]_vars
  BY <1>1
<1> QED
  BY <1>2, Inductive, PTL DEF Spec, CoveredCircuitsKept
=============================================================================
