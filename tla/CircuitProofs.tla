--------------------------- MODULE CircuitProofs ---------------------------
(***************************************************************************)
(* Proofs about CircuitRunway, for every set of validators and every       *)
(* yearly fee: a settlement never runs out of coins and leaves only dust;  *)
(* and about CircuitPins, for every set of checksums.                      *)
(***************************************************************************)
EXTENDS CircuitRunway, CircuitPins, InductionLemmas

\* What the locals of the payout loop know.  With s the balance read at its start
\* and n operators, each = s \div n and n * each <= s < n * each + n.
LoopInv ==
    phase = "settle" =>
      /\ left \subseteq Eligible /\ paid \subseteq Eligible /\ left \cap paid = {}
      /\ Eligible # {}
      /\ valPool >= each * Cardinality(left)
      /\ valPool + each * Cardinality(paid)
           < each * Cardinality(Eligible) + Cardinality(Eligible)

IInv == TypeOK /\ LoopInv

-----------------------------------------------------------------------------
\* Every set of validators is finite.
LEMMA ValFinite ==
    ASSUME NEW S \in SUBSET Val
    PROVE  IsFiniteSet(S) /\ Cardinality(S) \in Nat
BY SetAssumption, FS_Subset, FS_CardinalityType

\* Integer division leaves a remainder smaller than the divisor.
LEMMA Division ==
    ASSUME NEW s \in Nat, NEW n \in Nat \ {0}
    PROVE  /\ s \div n \in Nat
           /\ (s \div n) * n <= s
           /\ s < (s \div n) * n + n
OBVIOUS

\* One operator less is one share less.
LEMMA OneLess ==
    ASSUME NEW e \in Nat, NEW n \in Nat \ {0}
    PROVE  e * (n - 1) = e * n - e
OBVIOUS

LEMMA OneMore ==
    ASSUME NEW e \in Nat, NEW n \in Nat
    PROVE  e * (n + 1) = e * n + e /\ e * n \in Nat
OBVIOUS

-----------------------------------------------------------------------------
LEMMA InitIInv == Init => IInv
<1> SUFFICES ASSUME Init PROVE IInv
  OBVIOUS
<1>1. balance \in [Payer -> Nat] /\ earned \in [Val -> Nat]
  BY AmountAssumption DEF Init
<1>2. elapsed \in 0..Duration /\ epoch \in 0..MaxEpoch
  BY EpochAssumption DEF Init
<1> QED
  BY <1>1, <1>2 DEF Init, IInv, TypeOK, LoopInv

\* The two halves of a payment are natural numbers that add up to it.
LEMMA Halves ==
    ASSUME NEW amt \in Nat
    PROVE  ValHalf(amt) \in Nat /\ DevHalf(amt) \in Nat /\ ValHalf(amt) + DevHalf(amt) = amt
BY DEF ValHalf, DevHalf

LEMMA PaymentInv ==
    ASSUME IInv, NEW p \in Payer, NEW years \in 1..MaxYears,
           receiveCircuitRunwayPayment(p, years)
    PROVE  IInv'
<1> DEFINE amt == Yearly * years
<1>1. amt \in Nat
  BY AmountAssumption
<1>2. ValHalf(amt) \in Nat /\ DevHalf(amt) \in Nat
  BY <1>1, Halves
<1>3. balance[p] \in Nat /\ balance[p] >= amt
  BY DEF IInv, TypeOK, receiveCircuitRunwayPayment
<1>4. balance' = [balance EXCEPT ![p] = balance[p] - amt]
  BY DEF receiveCircuitRunwayPayment
<1>5. /\ valPool' = valPool + ValHalf(amt)
      /\ \/ dao' = dao + DevHalf(amt) /\ devPool' = devPool
         \/ devPool' = devPool + DevHalf(amt) /\ dao' = dao
      /\ phase = "deliver"
      /\ UNCHANGED <<earned, toDao, staking, clock, phase, payout>>
  BY DEF receiveCircuitRunwayPayment
<1> HIDE DEF amt
<1>6. balance' \in [Payer -> Nat]
  <2>1. balance[p] - amt \in Nat
    BY <1>1, <1>3
  <2> QED
    BY <1>4, <2>1 DEF IInv, TypeOK
<1>7. valPool' \in Nat /\ dao' \in Nat /\ devPool' \in Nat
  BY <1>2, <1>5 DEF IInv, TypeOK
<1>8. TypeOK'
  BY <1>5, <1>6, <1>7 DEF IInv, TypeOK, staking, clock, payout
<1> QED
  BY <1>5, <1>8 DEF IInv, LoopInv

LEMMA BeginSettleInv == ASSUME IInv, BeginSettle PROVE IInv'
<1> DEFINE n == Cardinality(Eligible)
<1>1. Eligible \in SUBSET Val /\ Eligible # {} /\ IsFiniteSet(Eligible)
  BY ValFinite DEF Eligible, IInv, TypeOK, BeginSettle
<1>2. n \in Nat \ {0}
  BY <1>1, FS_CardinalityType, FS_EmptySet
<1>3. /\ each' = valPool \div n
      /\ left' = Eligible /\ paid' = {} /\ phase' = "settle"
      /\ UNCHANGED <<coins, toDao, staking, clock>>
      /\ valPool \in Nat
  BY DEF BeginSettle, IInv, TypeOK
<1>4. Eligible' = Eligible /\ valPool' = valPool
  BY <1>3 DEF Eligible, operatorWeight, staking, coins
<1>5. /\ each' \in Nat /\ each' * n <= valPool /\ valPool < each' * n + n
  BY <1>2, <1>3, Division
<1>6. TypeOK'
  BY <1>1, <1>3, <1>5 DEF IInv, TypeOK, coins, staking, clock
<1>7. Cardinality(paid') = 0 /\ each' * 0 = 0
  BY <1>3, <1>5, FS_EmptySet
<1> HIDE DEF n
<1>8. valPool' >= each' * Cardinality(left')
  BY <1>2, <1>3, <1>4, <1>5 DEF n
<1>9. valPool' + each' * Cardinality(paid') < each' * Cardinality(Eligible') + Cardinality(Eligible')
  BY <1>2, <1>3, <1>4, <1>5, <1>7 DEF n
<1> QED
  BY <1>1, <1>3, <1>4, <1>6, <1>8, <1>9 DEF IInv, LoopInv

LEMMA PayOperatorInv == ASSUME IInv, NEW v \in Val, PayOperator(v) PROVE IInv'
<1>1. /\ phase = "settle" /\ v \in left /\ left' = left \ {v}
      /\ UNCHANGED <<balance, devPool, dao, toDao, staking, clock, phase, each>>
  BY DEF PayOperator
<1>2. TypeOK /\ LoopInv /\ each \in Nat /\ valPool \in Nat
  BY DEF IInv, TypeOK
<1>3. Eligible' = Eligible /\ Eligible \in SUBSET Val
  BY <1>1, <1>2 DEF Eligible, operatorWeight, staking, TypeOK
<1> DEFINE l == Cardinality(left)  q == Cardinality(paid)  n == Cardinality(Eligible)
<1>4. IsFiniteSet(left) /\ IsFiniteSet(paid) /\ l \in Nat /\ q \in Nat /\ n \in Nat
  BY <1>2, <1>3, ValFinite DEF TypeOK
<1>5. Cardinality(left') = l - 1 /\ l \in Nat \ {0}
  BY <1>1, <1>4, FS_RemoveElement, FS_EmptySet
<1>6. v \notin paid /\ v \in Eligible /\ valPool >= each * l /\ valPool + each * q < each * n + n
  BY <1>1, <1>2 DEF LoopInv
<1>7. each * (l - 1) = each * l - each /\ each * l \in Nat /\ each * q \in Nat /\ each * n \in Nat
  BY <1>2, <1>4, <1>5, OneLess, OneMore
<1> HIDE DEF l, q, n
<1>8. CASE UNCHANGED <<valPool, earned, paid>>
  <2>1. TypeOK'
    BY <1>1, <1>2, <1>8 DEF TypeOK, staking, clock
  <2>2. valPool' >= each' * Cardinality(left')
    BY <1>1, <1>2, <1>5, <1>6, <1>7, <1>8
  <2> QED
    BY <1>1, <1>2, <1>3, <1>8, <2>1, <2>2 DEF IInv, LoopInv
<1>9. CASE /\ valPool' = valPool - each
           /\ earned' = [earned EXCEPT ![v] = @ + each]
           /\ paid' = paid \cup {v}
  <2>1. valPool' \in Nat /\ valPool' >= each * (l - 1)
    BY <1>2, <1>4, <1>5, <1>6, <1>7, <1>9
  <2>2. earned' \in [Val -> Nat]
    BY <1>2, <1>9 DEF TypeOK
  <2>3. TypeOK'
    BY <1>1, <1>2, <1>9, <2>1, <2>2 DEF TypeOK, staking, clock
  <2>4. Cardinality(paid') = q + 1
    BY <1>4, <1>6, <1>9, FS_AddElement DEF q
  <2>5. each * (q + 1) = each * q + each
    BY <1>2, <1>4, OneMore
  <2>6. valPool' + each * (q + 1) < each * n + n
    BY <1>2, <1>4, <1>6, <1>7, <1>9, <2>5
  <2>7. left' \subseteq Eligible' /\ paid' \subseteq Eligible' /\ left' \cap paid' = {} /\ Eligible' # {}
    BY <1>1, <1>2, <1>3, <1>6, <1>9 DEF LoopInv
  <2>8. valPool' >= each' * Cardinality(left')
    BY <1>1, <1>5, <2>1
  <2>9. valPool' + each' * Cardinality(paid') < each' * Cardinality(Eligible') + Cardinality(Eligible')
    BY <1>1, <1>3, <2>4, <2>6 DEF n
  <2> QED
    BY <2>3, <2>7, <2>8, <2>9 DEF IInv, LoopInv
<1> QED
  BY <1>8, <1>9 DEF PayOperator

LEMMA StepInv == ASSUME IInv, [Next]_vars PROVE IInv'
<1>1. CASE SetDevDestination
  BY <1>1 DEF IInv, TypeOK, LoopInv, SetDevDestination, coins, staking, clock, payout
<1>2. ASSUME NEW v \in Val, ValidatorChanges(v) PROVE IInv'
  <2>1. bonded' \subseteq Val /\ jailed' \subseteq Val
    BY <1>2 DEF IInv, TypeOK, ValidatorChanges, Toggle
  <2> QED
    BY <1>2, <2>1 DEF IInv, TypeOK, LoopInv, ValidatorChanges, coins, clock, payout
<1>3. CASE StartEpoch
  BY <1>3, EpochAssumption DEF IInv, TypeOK, LoopInv, StartEpoch, coins, staking, payout
<1>4. CASE EpochRuns
  BY <1>4 DEF IInv, TypeOK, LoopInv, EpochRuns, coins, staking, clock, payout
<1>5. ASSUME NewEpoch PROVE epoch' \in 0..MaxEpoch /\ elapsed' \in 0..Duration /\ started' \in BOOLEAN
  BY <1>5, EpochAssumption DEF IInv, TypeOK, NewEpoch
<1>6. CASE EpochEndsUnpaid
  BY <1>5, <1>6 DEF IInv, TypeOK, LoopInv, EpochEndsUnpaid, coins, staking, payout
<1>7. CASE EndSettle
  BY <1>5, <1>7 DEF IInv, TypeOK, LoopInv, EndSettle, coins, staking
<1>8. ASSUME NEW dt \in 0..Duration, NextBlock(dt) PROVE IInv'
  <2>1. elapsed' \in 0..Duration
    BY <1>8, EpochAssumption DEF IInv, TypeOK, NextBlock
  <2> QED
    BY <1>8, <2>1 DEF IInv, TypeOK, LoopInv, NextBlock, coins, staking, payout
<1>9. CASE UNCHANGED vars
  BY <1>9 DEF IInv, TypeOK, LoopInv, Eligible, operatorWeight, vars, coins, staking, clock, payout
<1> QED
  BY <1>1, <1>2, <1>3, <1>4, <1>6, <1>7, <1>8, <1>9, PaymentInv, BeginSettleInv, PayOperatorInv
     DEF Next, EndBlock

LEMMA Inductive == Spec => []IInv
BY InitIInv, StepInv, PTL DEF Spec

-----------------------------------------------------------------------------
(* The coins.  CoinsConserved is inductive relative to IInv. *)

\* What the payers and what the operators own.
PayersOwn == SumFunctionOnSet(balance, Payer)
OperatorsOwn == SumFunctionOnSet(earned, Val)

LEMMA OwnInt == TypeOK => PayersOwn \in Int /\ OperatorsOwn \in Int
<1> SUFFICES ASSUME TypeOK PROVE PayersOwn \in Int /\ OperatorsOwn \in Int
  OBVIOUS
<1>1. IntOn(balance, Payer) /\ IntOn(earned, Val)
  BY DEF TypeOK, IntOn
<1> QED
  BY <1>1, SetAssumption, SumType DEF PayersOwn, OperatorsOwn

\* One payer is charged.
LEMMA PayersPay ==
    ASSUME TypeOK, TypeOK', NEW p \in Payer, NEW amt \in Int,
           balance' = [balance EXCEPT ![p] = balance[p] - amt]
    PROVE  PayersOwn' = PayersOwn - amt
<1>1. IntOn(balance, Payer) /\ IntOn(balance', Payer)
  BY DEF TypeOK, IntOn
<1>2. \A q \in Payer : q # p => balance'[q] = balance[q]
  BY DEF TypeOK
<1>3. SumFunctionOnSet(balance', Payer)
        = SumFunctionOnSet(balance, Payer) + balance'[p] - balance[p]
  <2>1. ASSUME NEW f, NEW g, IntOn(f, Payer), IntOn(g, Payer),
               \A q \in Payer : q # p => g[q] = f[q]
        PROVE  SumFunctionOnSet(g, Payer) = SumFunctionOnSet(f, Payer) + g[p] - f[p]
    BY <2>1, SetAssumption, SumUpdate
  <2> QED
    BY <1>1, <1>2, <2>1
<1>4. balance'[p] = balance[p] - amt /\ balance[p] \in Int
  BY DEF TypeOK
<1>5. PayersOwn \in Int
  BY OwnInt
<1> QED
  BY <1>3, <1>4, <1>5 DEF PayersOwn

\* One operator is paid.
LEMMA OperatorEarns ==
    ASSUME TypeOK, TypeOK', NEW v \in Val, earned' = [earned EXCEPT ![v] = earned[v] + each]
    PROVE  OperatorsOwn' = OperatorsOwn + each
<1>1. IntOn(earned, Val) /\ IntOn(earned', Val)
  BY DEF TypeOK, IntOn
<1>2. \A w \in Val : w # v => earned'[w] = earned[w]
  BY DEF TypeOK
<1>3. SumFunctionOnSet(earned', Val)
        = SumFunctionOnSet(earned, Val) + earned'[v] - earned[v]
  <2>1. ASSUME NEW f, NEW g, IntOn(f, Val), IntOn(g, Val),
               \A w \in Val : w # v => g[w] = f[w]
        PROVE  SumFunctionOnSet(g, Val) = SumFunctionOnSet(f, Val) + g[v] - f[v]
    BY <2>1, SetAssumption, SumUpdate
  <2> QED
    BY <1>1, <1>2, <2>1
<1>4. earned'[v] = earned[v] + each /\ earned[v] \in Int /\ each \in Int
  BY DEF TypeOK
<1>5. OperatorsOwn \in Int
  BY OwnInt
<1> QED
  BY <1>3, <1>4, <1>5 DEF OperatorsOwn

LEMMA CoinsInit == ASSUME Init PROVE CoinsConserved
<1>1. TypeOK /\ Funds \in Int /\ 0 \in Int
  BY InitIInv, AmountAssumption DEF IInv
<1>2. (\A p \in Payer : balance[p] = Funds) /\ (\A v \in Val : earned[v] = 0)
  BY DEF Init
<1>3. SumFunctionOnSet(balance, Payer) = Funds * Cardinality(Payer)
  BY <1>1, <1>2, SetAssumption, SumConstant
<1>4. SumFunctionOnSet(earned, Val) = 0 * Cardinality(Val)
  BY <1>1, <1>2, SetAssumption, SumConstant
<1>5. Cardinality(Val) \in Nat /\ Cardinality(Payer) \in Nat
  BY SetAssumption, FS_CardinalityType
<1>6. valPool = 0 /\ devPool = 0 /\ dao = 0
  BY DEF Init
<1> QED
  BY <1>1, <1>3, <1>4, <1>5, <1>6 DEF CoinsConserved

LEMMA CoinsStep == ASSUME IInv, IInv', CoinsConserved, [Next]_vars PROVE CoinsConserved'
<1> DEFINE Total == PayersOwn + valPool + devPool + dao + OperatorsOwn
<1>1. TypeOK /\ TypeOK' /\ PayersOwn \in Int /\ OperatorsOwn \in Int
      /\ valPool \in Int /\ devPool \in Int /\ dao \in Int /\ each \in Int
  BY OwnInt DEF IInv, TypeOK
<1>2. SUFFICES Total' = Total
  BY DEF CoinsConserved, PayersOwn, OperatorsOwn
<1>3. ASSUME UNCHANGED coins PROVE Total' = Total
  BY <1>3 DEF coins, PayersOwn, OperatorsOwn
<1>4. ASSUME NEW p \in Payer, NEW years \in 1..MaxYears, receiveCircuitRunwayPayment(p, years)
      PROVE  Total' = Total
  <2> DEFINE amt == Yearly * years
  <2>1. amt \in Nat
    BY AmountAssumption
  <2>2. ValHalf(amt) \in Nat /\ DevHalf(amt) \in Nat /\ ValHalf(amt) + DevHalf(amt) = amt
    BY <2>1, Halves
  <2>3. /\ valPool' = valPool + ValHalf(amt) /\ earned' = earned
        /\ balance' = [balance EXCEPT ![p] = balance[p] - amt]
        /\ \/ dao' = dao + DevHalf(amt) /\ devPool' = devPool
           \/ devPool' = devPool + DevHalf(amt) /\ dao' = dao
    BY <1>4 DEF receiveCircuitRunwayPayment
  <2> HIDE DEF amt
  <2>4. PayersOwn' = PayersOwn - amt /\ OperatorsOwn' = OperatorsOwn
    <3>1. OperatorsOwn' = OperatorsOwn
      BY <2>3 DEF OperatorsOwn
    <3>2. amt \in Int
      BY <2>1
    <3>3. PayersOwn' = PayersOwn - amt
      BY <1>1, <2>3, <3>2, PayersPay
    <3> QED
      BY <3>1, <3>3
  <2> DEFINE vh == ValHalf(amt)  dh == DevHalf(amt)
  <2>5. vh \in Int /\ dh \in Int /\ amt = vh + dh /\ valPool' = valPool + vh
    BY <2>1, <2>2, <2>3
  <2>6. (dao' = dao + dh /\ devPool' = devPool) \/ (devPool' = devPool + dh /\ dao' = dao)
    BY <2>3
  <2> HIDE DEF vh, dh
  <2>7. PayersOwn - amt \in Int /\ valPool + vh \in Int /\ devPool + dh \in Int /\ dao + dh \in Int
    BY <1>1, <2>1, <2>5
  <2>8. PICK x \in Int, y \in Int, z \in Int, w \in Int :
           x = PayersOwn' /\ y = valPool' /\ z = devPool' /\ w = dao'
    BY <1>1, <2>4, <2>5, <2>6, <2>7
  <2>9. x + y = PayersOwn + valPool - dh /\ z + w = devPool + dao + dh
    <3>1. x = PayersOwn - (vh + dh) /\ y = valPool + vh
      BY <2>4, <2>5, <2>8
    <3>2. (z = devPool /\ w = dao + dh) \/ (z = devPool + dh /\ w = dao)
      BY <2>6, <2>8
    <3> QED
      BY <1>1, <2>5, <3>1, <3>2
  <2>10. x + y + z + w + OperatorsOwn = PayersOwn + valPool + devPool + dao + OperatorsOwn
    BY <1>1, <2>5, <2>9
  <2> QED
    BY <2>4, <2>8, <2>10
<1>5. ASSUME NEW v \in Val, PayOperator(v) PROVE Total' = Total
  <2>1. CASE UNCHANGED <<valPool, earned>>
    BY <1>3, <1>5, <2>1 DEF PayOperator, coins
  <2>2. CASE valPool' = valPool - each /\ earned' = [earned EXCEPT ![v] = earned[v] + each]
    <3>1. OperatorsOwn' = OperatorsOwn + each
      BY <1>1, <2>2, OperatorEarns
    <3>2. PayersOwn' = PayersOwn /\ devPool' = devPool /\ dao' = dao
      BY <1>5 DEF PayOperator, PayersOwn
    <3> QED
      BY <1>1, <2>2, <3>1, <3>2
  <2> QED
    BY <1>5, <2>1, <2>2 DEF PayOperator
<1>6. \/ UNCHANGED coins
      \/ \E p \in Payer, years \in 1..MaxYears : receiveCircuitRunwayPayment(p, years)
      \/ \E v \in Val : PayOperator(v)
  BY DEF Next, EndBlock, vars, SetDevDestination, ValidatorChanges, StartEpoch, EpochRuns,
         EpochEndsUnpaid, BeginSettle, EndSettle, NextBlock
<1> QED
  BY <1>3, <1>4, <1>5, <1>6

-----------------------------------------------------------------------------
(* The theorems *)

\* The state keeps its type; in particular no account and no pool is ever
\* overdrawn, whatever the validators do between the blocks.
THEOREM TypeCorrect == Spec => []TypeOK
<1>1. IInv => TypeOK
  BY DEF IInv
<1> QED
  BY <1>1, Inductive, PTL

\* The coins of the payers, the pools, the destination and the operators add up to
\* what the payers started with, after every payment and every single payout.
THEOREM Conservation == Spec => []CoinsConserved
<1>1. Init => CoinsConserved
  BY CoinsInit
<1>2. IInv /\ IInv' /\ CoinsConserved /\ [Next]_vars => CoinsConserved'
  BY CoinsStep
<1> QED
  BY <1>1, <1>2, Inductive, PTL DEF Spec

\* In the middle of a settlement the pool covers every operator still to be paid.
THEOREM PoolCovers == Spec => []PoolCoversRest
<1>1. IInv => PoolCoversRest
  BY DEF IInv, LoopInv, PoolCoversRest
<1> QED
  BY <1>1, Inductive, PTL

\* A settlement leaves less than one coin per eligible operator, apart from the
\* shares of the operators whose send was refused.
THEOREM DustOnly == Spec => OnlyDustStays
<1> DEFINE Dust == EndSettle => valPool < Cardinality(Eligible)
                                            + each * Cardinality(Eligible \ paid)
<1>1. ASSUME IInv, EndSettle
      PROVE  valPool < Cardinality(Eligible) + each * Cardinality(Eligible \ paid)
  <2> DEFINE q == Cardinality(paid)  n == Cardinality(Eligible)
             r == Cardinality(Eligible \ paid)
  <2>1. /\ paid \subseteq Eligible /\ valPool + each * q < each * n + n
        /\ each \in Nat /\ valPool \in Nat /\ Eligible \in SUBSET Val
    BY <1>1 DEF IInv, LoopInv, EndSettle, TypeOK, Eligible
  <2>2. IsFiniteSet(Eligible) /\ n \in Nat /\ q \in Nat /\ r \in Nat
    BY <2>1, ValFinite
  <2>3. r = n - q
    BY <2>1, <2>2, FS_Difference, Eligible \cap paid = paid
  <2> HIDE DEF q, n, r
  <2>4. n = q + r
    BY <2>2, <2>3
  <2>5. each * n = each * q + each * r /\ each * q \in Nat /\ each * r \in Nat
    BY <2>1, <2>2, <2>4
  <2>6. valPool < n + each * r
    BY <2>1, <2>2, <2>5
  <2> QED
    BY <2>6 DEF n, r
<1>2. IInv => [Dust]_vars
  BY <1>1
<1> QED
  BY <1>2, Inductive, PTL DEF OnlyDustStays

-----------------------------------------------------------------------------
(* CircuitPins *)

\* Stored codes are numbered without gaps, so the next number is free.
LEMMA CodesNumbered ==
    ASSUME PinsTyped
    PROVE  \E n \in 0..MaxCodes : /\ Codes = 1..n /\ Cardinality(Codes) = n
                                  /\ codeHash \in [1..n -> Checksum]
<1>1. PICK n \in 0..MaxCodes : codeHash \in [1..n -> Checksum]
  BY DEF PinsTyped
<1>2. n \in Nat /\ Codes = 1..n
  BY <1>1, BoundAssumption DEF Codes
<1>3. Cardinality(1..n) = n
  BY <1>2, FS_Interval
<1> QED
  BY <1>1, <1>2, <1>3

LEMMA ChecksumsTyped ==
    ASSUME PinsTyped, NEW ids, ids \subseteq Codes
    PROVE  ChecksumsOf(ids) \subseteq Checksum
BY CodesNumbered DEF ChecksumsOf

\* Rows only ever name codes: messages pin stored codes, and unpinning, removing
\* a circuit and rolling back only take rows away.
LEMMA PinsInitially == PinsInit => RowsAreCodes
<1> SUFFICES ASSUME PinsInit PROVE RowsAreCodes
  OBVIOUS
<1>1. codeHash \in [1..0 -> Checksum] /\ 0 \in 0..MaxCodes
  BY BoundAssumption DEF PinsInit
<1> QED
  BY <1>1, BoundAssumption DEF PinsInit, RowsAreCodes, PinsTyped, ChecksumsKnown

LEMMA PinsInductive == PinsSpec => []RowsAreCodes
<1>1. ASSUME RowsAreCodes, [PinsNext]_pinVars PROVE RowsAreCodes'
  <2> USE DEF RowsAreCodes
  <2>0. PICK n \in 0..MaxCodes : /\ Codes = 1..n /\ Cardinality(Codes) = n
                                 /\ codeHash \in [1..n -> Checksum]
    BY <1>1, CodesNumbered
  <2>1. ASSUME NEW h \in Checksum, StoreCode(h) PROVE RowsAreCodes'
    <3>1. n < MaxCodes /\ codeHash' = [c \in 1..(n + 1) |-> IF c \in 1..n THEN codeHash[c] ELSE h]
      BY <2>0, <2>1 DEF StoreCode
    <3>2. n + 1 \in 0..MaxCodes /\ codeHash' \in [1..(n + 1) -> Checksum]
      BY <2>0, <3>1, BoundAssumption
    <3>3. Codes' = 1..(n + 1) /\ Codes \subseteq Codes'
      BY <2>0, <3>1 DEF Codes
    <3> QED
      BY <1>1, <2>1, <3>2, <3>3 DEF StoreCode, PinsTyped, ChecksumsKnown
  <2>2. CASE StoreCircuit
    <3>1. nextZk' \in 1..(MaxCircuits + 1) /\ circuits' \subseteq 1..(nextZk' - 1)
      BY <1>1, <2>2, BoundAssumption DEF StoreCircuit, PinsTyped
    <3> QED
      BY <1>1, <2>2, <3>1 DEF StoreCircuit, PinsTyped, ChecksumsKnown, Codes
  <2>3. ASSUME NEW done \in SUBSET CodeIds, NEW b \in BOOLEAN,
               PinCodes(done, b) \/ UnpinCodes(done, b)
        PROVE  RowsAreCodes'
    <3>1. row' \subseteq Codes /\ UNCHANGED <<stored, engineCircuits, restore>>
      BY <1>1, <2>3 DEF PinCodes, UnpinCodes, ChecksumsKnown
    <3>2. \E ids \in SUBSET Codes : engineCodes' = ChecksumsOf(ids)
      BY <1>1, <2>3 DEF PinCodes, UnpinCodes, ChecksumsKnown
    <3>3. engineCodes' \subseteq Checksum
      BY <1>1, <3>2, ChecksumsTyped
    <3>4. row' \subseteq CodeIds
      BY <2>0, <3>1, BoundAssumption DEF CodeIds
    <3> QED
      BY <1>1, <3>1, <3>3, <3>4 DEF PinsTyped, ChecksumsKnown, Codes, stored
  <2>4. ASSUME NEW done \in SUBSET CircuitIds, NEW b \in BOOLEAN, UnpinCircuits(done, b)
        PROVE  RowsAreCodes'
    <3>1. row' \subseteq row /\ engineCircuits' \subseteq circuits
          /\ UNCHANGED <<stored, engineCodes, restore>>
      BY <2>4 DEF UnpinCircuits, CircuitKeysKnown
    <3>2. circuits \subseteq CircuitIds
      BY <1>1, BoundAssumption DEF PinsTyped, CircuitIds
    <3> QED
      BY <1>1, <3>1, <3>2 DEF PinsTyped, ChecksumsKnown, Codes, stored
  <2>5. ASSUME NEW z \in CircuitIds, removeCircuit(z) PROVE RowsAreCodes'
    BY <1>1, <2>5 DEF removeCircuit, PinsTyped, ChecksumsKnown, Codes
  <2>6. CASE Restart
    <3>1. engineCodes' \subseteq Checksum
      BY <1>1, <2>6, ChecksumsTyped DEF Restart, ChecksumsKnown
    <3> QED
      BY <1>1, <2>6, <3>1 DEF Restart, PinsTyped, ChecksumsKnown, Codes, stored
  <2>7. CASE RestoreSnapshot
    BY <1>1, <2>7 DEF RestoreSnapshot, PinsTyped, ChecksumsKnown, Codes, stored
  <2>8. CASE UNCHANGED pinVars
    BY <1>1, <2>8 DEF pinVars, stored, PinsTyped, ChecksumsKnown, Codes
  <2> QED
    BY <1>1, <2>1, <2>2, <2>3, <2>4, <2>5, <2>6, <2>7, <2>8 DEF PinsNext, Messages
<1> QED
  BY <1>1, PinsInitially, PTL DEF PinsSpec

\* Rows of pinned codes name stored codes in every state (collectPinnedChecksums
\* never fails), although circuits use the same rows.
THEOREM PinnedRowsAreCodes == PinsSpec => []RowsAreCodes
BY PinsInductive

\* A restart and every pin or unpin message that commits leave the engine with
\* exactly the codes the rows name (InitializePinnedCodes, pinCode, unpinCode).
THEOREM EngineRepaired == PinsSpec => SyncRepairsEngine
<1> DEFINE Repairs ==
        \/ \E done \in SUBSET Codes : PinCodes(done, TRUE) \/ UnpinCodes(done, TRUE)
        \/ Restart
        => Agree'
<1>1. Repairs
  BY DEF PinCodes, UnpinCodes, Restart, Agree, ChecksumsOf, stored
<1> QED
  BY <1>1, PTL DEF SyncRepairsEngine

\* Engine and rows part only in a message that is rolled back, or when a circuit
\* of a pinned code's number goes (removeCircuit, unpinCircuit).
THEOREM DriftHasItsSources == PinsSpec => DriftSources
<1> DEFINE Sources ==
        Agree /\ ~ Agree' =>
          \/ row' = row
          \/ \E gone \in SUBSET circuits : row' = row \ gone /\ engineCodes' = engineCodes
<1>1. ASSUME RowsAreCodes, [PinsNext]_pinVars PROVE [Sources]_pinVars
  <2> SUFFICES ASSUME PinsNext, Agree, ~ Agree', row' # row
               PROVE  \E gone \in SUBSET circuits : row' = row \ gone /\ engineCodes' = engineCodes
    BY <1>1
  <2>1. ASSUME NEW done, NEW b \in BOOLEAN, PinCodes(done, b) \/ UnpinCodes(done, b)
        PROVE  FALSE
    BY <2>1 DEF PinCodes, UnpinCodes, Agree, ChecksumsOf, stored
  <2>2. ASSUME NEW done \in SUBSET CircuitIds, NEW b \in BOOLEAN, UnpinCircuits(done, b)
        PROVE  done \in SUBSET circuits /\ row' = row \ done /\ engineCodes' = engineCodes
    BY <2>2 DEF UnpinCircuits
  <2>3. ASSUME NEW z \in CircuitIds, removeCircuit(z)
        PROVE  {z} \in SUBSET circuits /\ row' = row \ {z} /\ engineCodes' = engineCodes
    BY <2>3 DEF removeCircuit
  <2>4. \A h : ~StoreCode(h)
    BY DEF StoreCode
  <2>5. ~StoreCircuit /\ ~Restart /\ ~RestoreSnapshot
    BY DEF StoreCircuit, Restart, RestoreSnapshot
  <2> QED
    BY <2>1, <2>2, <2>3, <2>4, <2>5 DEF PinsNext, Messages
<1>2. PinsSpec => [][Sources]_pinVars
  BY <1>1, PinsInductive, PTL DEF PinsSpec
<1> QED
  BY <1>2 DEF DriftSources
=============================================================================
