----------------------------- MODULE HashProofs -----------------------------
(***************************************************************************)
(* Proofs about the two halves of x/hashmerchant: the escrow that pays for *)
(* callbacks (HashEscrow) and the votes that confirm a root (HashVotes),   *)
(* for every set of contracts, validators, powers and reports.             *)
(***************************************************************************)
EXTENDS HashEscrow, HashVotes, InductionLemmas

\* The provers of each step, in this order: preparing a step for SMT takes long
\* in a module of this size, and most steps need no arithmetic.
USE ZenonT(3), SMTT(30), ZenonT(30)

\* The current block is still to be served.
Open(c) == IF phase = "pre" /\ c \notin called THEN 1 ELSE 0

\* What a contract was served and may still be served is what it bought.
Account ==
    \A c \in Contract :
        /\ served[c] <= bought[c]
        /\ served[c] + (until[c] - height) + Open(c) <= bought[c]

\* A later epoch than the height comes from the genesis file and lasts one block.
Epoch == lastPrune <= height \/ (height = 1 /\ lastPrune <= MaxEpoch)

\* An enabled contract has a record, which was not over at the last prune.
Enabled ==
    \A c \in enabled : coin[c] # NoDenom /\ (lastPrune <= height => until[c] >= lastPrune)

\* The last prune is less than an interval ago when a block starts.
Recent ==
    phase = "pre" /\ height > 1 =>
        lastPrune <= height - 1 /\ height - 1 - lastPrune < params.interval

IInv == TypeOK /\ Account /\ Epoch /\ Enabled /\ Recent

-----------------------------------------------------------------------------
\* Unsigned subtraction: the difference, or the difference plus 2^64.
LEMMA Unsigned ==
    ASSUME NEW h \in Nat, NEW l \in Nat, h < Word, l <= Word
    PROVE  /\ l <= h => (h - l) % Word = h - l
           /\ l > h => (h - l) % Word = Word + h - l
<1>1. Word \in Nat
  BY BoundAssumption
<1> QED BY <1>1, SMTT(30)

\* The blocks that an amount buys are a natural number when the price is not zero.
LEMMA BlocksNat ==
    ASSUME params \in Param, params.price # 0, NEW amt \in Nat
    PROVE  Blocks(amt) \in Nat
<1>1. params.price \in Nat \ {0} /\ params.interval \in Nat
  BY ParamAssumption
<1>2. amt \div params.price \in Nat
  BY <1>1
<1>3. \A a, b \in Nat : a * b \in Nat
  OBVIOUS
<1> QED BY <1>1, <1>2, <1>3 DEF Blocks

\* The initial state has paid nothing, serves nobody and is in its first block.
LEMMA InitInv ==
    ASSUME Init
    PROVE  IInv
<1> QED BY BoundAssumption DEF Init, IInv, TypeOK, Account, Open, Epoch, Enabled, Recent

\* Coins move between two natural balances.
LEMMA EscrowSent ==
    ASSUME TypeOK, NEW amt \in Nat, sendEscrow(amt)
    PROVE  purse' \in [Denom -> Nat] /\ pool' \in [Denom -> Nat]
<1>1. params.denom \in Denom
  BY ParamAssumption DEF TypeOK
<1>2. purse[params.denom] - amt \in Nat /\ pool[params.denom] + amt \in Nat
  BY <1>1 DEF TypeOK, sendEscrow
<1> QED BY <1>1, <1>2 DEF TypeOK, sendEscrow

\* A dispatch serves only contracts whose open block is paid for.
LEMMA DispatchStep ==
    ASSUME IInv, NEW ch \in Chain, dispatchSudoCallbacks(ch)
    PROVE  IInv'
<1> USE DEF IInv, dispatchSudoCallbacks, records, coins, clock
<1>1. Subscribers(ch) \subseteq Contract
  BY DEF TypeOK, Subscribers
<1>2. TypeOK'
  BY <1>1 DEF TypeOK
<1>3. Account'
  <2> SUFFICES ASSUME NEW c \in Contract
               PROVE  /\ served'[c] <= bought[c]
                      /\ served'[c] + (until[c] - height) + Open(c)' <= bought[c]
    BY DEF Account
  <2>1. served[c] \in Nat /\ bought[c] \in Nat /\ until[c] \in Nat /\ height \in Nat
    BY DEF TypeOK
  <2>2. CASE c \in Subscribers(ch) \ called
    <3>1. until[c] >= height
      BY <2>2 DEF Subscribers, Active
    <3>2. Open(c) = 1 /\ Open(c)' = 0
      BY <2>2 DEF Open
    <3>3. served'[c] = served[c] + 1
      BY <2>2
    <3> QED BY <2>1, <3>1, <3>2, <3>3 DEF Account
  <2>3. CASE c \notin Subscribers(ch) \ called
    <3>1. Open(c)' <= Open(c) /\ Open(c) \in Int /\ Open(c)' \in Int
      BY <2>3 DEF Open
    <3>2. served'[c] = served[c]
      BY <2>3
    <3> QED BY <2>1, <3>1, <3>2 DEF Account
  <2> QED BY <2>2, <2>3
<1>4. Epoch' /\ Enabled' /\ Recent'
  BY DEF Epoch, Enabled, Recent
<1> QED BY <1>2, <1>3, <1>4

\* A registration books as many blocks as it sets the record ahead of the height.
LEMMA RegisterStep ==
    ASSUME IInv, NEW c \in Contract, NEW ch \in Chain, NEW amt \in Nat,
           RegisterContract(c, ch, amt)
    PROVE  IInv'
<1> USE DEF IInv, RegisterContract, clock
<1>1. Blocks(amt) \in Nat
  BY BlocksNat DEF TypeOK
<1>2. params.denom \in Denom /\ params.denom # NoDenom
  BY ParamAssumption, RowAssumption DEF TypeOK
<1>3. height \in Nat /\ lastPrune \in Nat
  BY DEF TypeOK
<1>4. TypeOK'
  <2>1. until' \in [Contract -> Nat] /\ bought' \in [Contract -> Nat]
    BY <1>1, <1>3 DEF TypeOK
  <2>2. purse' \in [Denom -> Nat] /\ pool' \in [Denom -> Nat]
    BY EscrowSent
  <2> QED BY <1>2, <2>1, <2>2 DEF TypeOK
<1>5. Account'
  <2> SUFFICES ASSUME NEW d \in Contract
               PROVE  /\ served[d] <= bought'[d]
                      /\ served[d] + (until'[d] - height) + Open(d)' <= bought'[d]
    BY DEF Account
  <2>1. Open(d)' = 0 /\ Open(d) = 0
    BY DEF Open
  <2>2. served[d] \in Nat /\ bought[d] \in Nat /\ until[d] \in Nat
    BY DEF TypeOK
  <2>3. served[d] <= bought[d] /\ served[d] + (until[d] - height) + 0 <= bought[d]
    BY <2>1 DEF Account
  <2>4. CASE d = c
    <3>1. until'[d] = height + Blocks(amt) /\ bought'[d] = bought[d] + Blocks(amt)
      BY <2>4 DEF TypeOK
    <3> QED BY <1>1, <1>3, <2>1, <2>2, <2>3, <3>1
  <2>5. CASE d # c
    <3>1. until'[d] = until[d] /\ bought'[d] = bought[d]
      BY <2>5 DEF TypeOK
    <3> QED BY <1>3, <2>1, <2>2, <2>3, <3>1
  <2> QED BY <2>4, <2>5
<1>6. Enabled'
  <2> SUFFICES ASSUME NEW d \in enabled'
               PROVE  coin'[d] # NoDenom /\ (lastPrune <= height => until'[d] >= lastPrune)
    BY DEF Enabled
  <2>1. CASE d = c
    BY <1>1, <1>2, <1>3, <2>1 DEF TypeOK
  <2>2. CASE d # c
    BY <2>2 DEF Enabled, TypeOK
  <2> QED BY <2>1, <2>2
<1>7. Epoch' /\ Recent'
  BY DEF Epoch, Recent
<1> QED BY <1>4, <1>5, <1>6, <1>7

\* A refill books as many blocks as it moves the end of the record.
LEMMA RefillStep ==
    ASSUME IInv, NEW c \in Contract, NEW amt \in Nat, RefillEscrow(c, amt)
    PROVE  IInv'
<1> USE DEF IInv, RefillEscrow, clock
<1>1. Blocks(amt) \in Nat
  BY BlocksNat DEF TypeOK
<1>2. height \in Nat /\ lastPrune \in Nat
  BY DEF TypeOK
<1>3. TypeOK'
  <2>1. until' \in [Contract -> Nat] /\ bought' \in [Contract -> Nat]
    BY <1>1 DEF TypeOK
  <2>2. purse' \in [Denom -> Nat] /\ pool' \in [Denom -> Nat]
    BY EscrowSent
  <2>3. amount' \in [Contract -> Nat]
    BY DEF TypeOK
  <2> QED BY <2>1, <2>2, <2>3 DEF TypeOK
<1>4. \A d \in Contract : \/ until'[d] = until[d] /\ bought'[d] = bought[d]
                          \/ /\ until'[d] = until[d] + Blocks(amt)
                             /\ bought'[d] = bought[d] + Blocks(amt)
  BY DEF TypeOK
<1>5. Account'
  <2> SUFFICES ASSUME NEW d \in Contract
               PROVE  /\ served[d] <= bought'[d]
                      /\ served[d] + (until'[d] - height) + Open(d)' <= bought'[d]
    BY DEF Account
  <2>1. Open(d)' = 0 /\ Open(d) = 0
    BY DEF Open
  <2>2. served[d] \in Nat /\ bought[d] \in Nat /\ until[d] \in Nat
    BY DEF TypeOK
  <2>3. served[d] <= bought[d] /\ served[d] + (until[d] - height) + 0 <= bought[d]
    BY <2>1 DEF Account
  <2> QED BY <1>1, <1>2, <1>4, <2>1, <2>2, <2>3
<1>6. Enabled'
  <2> SUFFICES ASSUME NEW d \in enabled
               PROVE  coin[d] # NoDenom /\ (lastPrune <= height => until'[d] >= lastPrune)
    BY DEF Enabled
  <2>1. d \in Contract /\ until[d] \in Nat
    BY DEF TypeOK
  <2> QED BY <1>1, <1>2, <1>4, <2>1 DEF Enabled
<1>7. Epoch' /\ Recent'
  BY DEF Epoch, Recent
<1> QED BY <1>3, <1>5, <1>6, <1>7

\* The end of a block prunes as soon as the interval is over, and at once when the
\* epoch is ahead of the height; the next block is open for everybody.
LEMMA EndBlockStep ==
    ASSUME IInv, EndBlocker
    PROVE  IInv'
<1> USE DEF IInv, EndBlocker, records, coins
<1>1. height \in Nat /\ lastPrune \in Nat /\ height < Word /\ height >= 1
  BY BoundAssumption DEF TypeOK
<1>2. params.interval \in Nat \ {0} /\ MaxEpoch + params.interval <= Word
  BY ParamAssumption, WordAssumption DEF TypeOK
<1>3. \/ lastPrune' = height /\ enabled' = enabled \ Expired
      \/ /\ lastPrune' = lastPrune /\ enabled' = enabled
         /\ lastPrune <= height /\ height - lastPrune < params.interval
  <2>1. CASE SincePrune >= params.interval
    BY <2>1 DEF pruneExpiredEscrows
  <2>2. CASE ~ (SincePrune >= params.interval)
    <3>1. lastPrune <= Word
      BY <1>1, <1>2, BoundAssumption DEF Epoch
    <3>2. /\ lastPrune <= height => SincePrune = height - lastPrune
          /\ lastPrune > height => SincePrune = Word + height - lastPrune
      BY <1>1, <3>1, Unsigned DEF SincePrune
    <3>3. lastPrune <= height
      <4> SUFFICES ASSUME lastPrune > height
                   PROVE  FALSE
        BY <1>1
      <4>1. lastPrune <= MaxEpoch
        BY <1>1 DEF Epoch
      <4> QED BY <1>1, <1>2, <2>2, <3>2, <4>1, BoundAssumption
    <3> QED BY <1>1, <1>2, <2>2, <3>2, <3>3 DEF pruneExpiredEscrows
  <2> QED BY <2>1, <2>2
<1>4. TypeOK'
  BY <1>1, <1>3, BoundAssumption DEF TypeOK
<1>5. Account'
  <2> SUFFICES ASSUME NEW c \in Contract
               PROVE  /\ served[c] <= bought[c]
                      /\ served[c] + (until[c] - (height + 1)) + Open(c)' <= bought[c]
    BY DEF Account
  <2>1. Open(c)' = 1 /\ Open(c) = 0
    BY DEF Open
  <2>2. served[c] \in Nat /\ bought[c] \in Nat /\ until[c] \in Nat
    BY DEF TypeOK
  <2> QED BY <1>1, <2>1, <2>2 DEF Account
<1>6. Epoch' /\ Recent'
  BY <1>1, <1>2, <1>3 DEF Epoch, Recent
<1>7. Enabled'
  <2> SUFFICES ASSUME NEW c \in enabled'
               PROVE  coin[c] # NoDenom /\ until[c] >= lastPrune'
    BY DEF Enabled
  <2>1. c \in enabled /\ c \in Contract /\ until[c] \in Nat /\ coin[c] # NoDenom
    BY <1>3 DEF Enabled, TypeOK
  <2>2. CASE lastPrune' = height /\ enabled' = enabled \ Expired
    BY <1>1, <2>1, <2>2 DEF Expired
  <2>3. CASE lastPrune' = lastPrune /\ lastPrune <= height
    BY <2>1, <2>3 DEF Enabled
  <2> QED BY <1>3, <2>2, <2>3
<1> QED BY <1>4, <1>5, <1>6, <1>7

\* Every step keeps the inductive invariant.
LEMMA StepInv ==
    ASSUME IInv, [Next]_vars
    PROVE  IInv'
<1>1. CASE \E ch \in Chain : dispatchSudoCallbacks(ch)
  BY <1>1, DispatchStep
<1>2. CASE \E ch \in Chain : RegisterChain(ch, "enabled") \/ RegisterChain(ch, "disabled")
  <2> USE DEF RegisterChain, records, coins, clock, history
  <2>1. TypeOK'
    BY <1>2 DEF IInv, TypeOK
  <2> QED BY <1>2, <2>1 DEF IInv, Account, Open, Epoch, Enabled, Recent
<1>3. CASE DeliverBlock
  <2> USE DEF DeliverBlock, records, coins, history
  <2>1. TypeOK'
    BY <1>3 DEF IInv, TypeOK
  <2>2. Account'
    <3> SUFFICES ASSUME NEW c \in Contract
                 PROVE  /\ served[c] <= bought[c]
                        /\ served[c] + (until[c] - height) + Open(c)' <= bought[c]
      BY <1>3 DEF Account
    <3>1. Open(c)' = 0 /\ Open(c) \in 0..1
      BY <1>3 DEF Open
    <3>2. served[c] \in Nat /\ bought[c] \in Nat /\ until[c] \in Nat /\ height \in Nat
      BY DEF IInv, TypeOK
    <3> QED BY <3>1, <3>2 DEF IInv, Account
  <2> QED BY <1>3, <2>1, <2>2 DEF IInv, Epoch, Enabled, Recent
<1>4. CASE \E p \in Param : UpdateParams(p)
  <2> USE DEF UpdateParams, records, coins, clock, history
  <2>1. TypeOK'
    BY <1>4 DEF IInv, TypeOK
  <2> QED BY <1>4, <2>1 DEF IInv, Account, Open, Epoch, Enabled, Recent
<1>5. CASE \E c \in Contract, amt \in 1..Funds, ch \in Chain : RegisterContract(c, ch, amt)
  <2>1. PICK c \in Contract, amt \in 1..Funds, ch \in Chain : RegisterContract(c, ch, amt)
    BY <1>5
  <2>2. amt \in Nat
    BY BoundAssumption
  <2> QED BY <2>1, <2>2, RegisterStep
<1>6. CASE \E c \in Contract, amt \in 1..Funds : RefillEscrow(c, amt)
  <2>1. PICK c \in Contract, amt \in 1..Funds : RefillEscrow(c, amt)
    BY <1>6
  <2>2. amt \in Nat
    BY BoundAssumption
  <2> QED BY <2>1, <2>2, RefillStep
<1>7. CASE EndBlocker
  BY <1>7, EndBlockStep
<1>8. CASE UNCHANGED vars
  BY <1>8 DEF vars, records, coins, clock, history, IInv, TypeOK, Account, Open, Epoch,
              Enabled, Recent
<1> QED BY <1>1, <1>2, <1>3, <1>4, <1>5, <1>6, <1>7, <1>8 DEF Next

\* The inductive invariant holds in every reachable state.
THEOREM Invariance == Spec => []IInv
<1>1. Init => IInv
  BY InitInv
<1>2. IInv /\ [Next]_vars => IInv'
  BY StepInv
<1> QED BY <1>1, <1>2, PTL DEF Spec

-----------------------------------------------------------------------------
(* The coins in the module account.  PoolCoversRecords is inductive relative to *)
(* the types: nothing takes coins out, and a record that is overwritten only    *)
(* lowers what is recorded.                                                     *)

\* Holders and what they hold, for any table of amounts and denominations.
HoldersIn(k, d) == {c \in Contract : k[c] = d}
Others(k, d, c) == HoldersIn(k, d) \ {c}

LEMMA HoldersFinite ==
    ASSUME NEW a \in [Contract -> Nat], NEW k, NEW d, NEW T \in SUBSET HoldersIn(k, d)
    PROVE  IsFiniteSet(T) /\ IntOn(a, T) /\ \A c \in T : a[c] \in Nat
<1>1. T \subseteq Contract
  BY DEF HoldersIn
<1> QED
  BY <1>1, FiniteAssumption, FS_Subset DEF IntOn

\* The other holders have no more than all of them.
LEMMA OthersHold ==
    ASSUME NEW a \in [Contract -> Nat], NEW k, NEW d, NEW c
    PROVE  /\ SumFunctionOnSet(a, Others(k, d, c)) \in Nat
           /\ SumFunctionOnSet(a, HoldersIn(k, d)) \in Nat
           /\ SumFunctionOnSet(a, Others(k, d, c)) <= SumFunctionOnSet(a, HoldersIn(k, d))
<1> DEFINE H == HoldersIn(k, d)
           T == Others(k, d, c)
<1>1. T \in SUBSET H /\ H \in SUBSET H
  BY DEF Others
<1>2. IsFiniteSet(H) /\ \A x \in H : a[x] \in Nat
  BY <1>1, HoldersFinite
<1> HIDE DEF H, T
<1>3. /\ SumFunctionOnSet(a, T) \in Nat /\ SumFunctionOnSet(a, H) \in Nat
      /\ SumFunctionOnSet(a, T) <= SumFunctionOnSet(a, H)
  BY <1>1, <1>2, SumMonotone
<1> QED
  BY <1>3 DEF H, T

\* Only the record of c changes: the others hold what they held.
LEMMA OthersKeep ==
    ASSUME NEW a \in [Contract -> Nat], NEW k, NEW b, NEW l, NEW c \in Contract, NEW d,
           \A e \in Contract : e # c => b[e] = a[e] /\ l[e] = k[e]
    PROVE  SumFunctionOnSet(b, Others(l, d, c)) = SumFunctionOnSet(a, Others(k, d, c))
<1> DEFINE T == Others(k, d, c)
<1>1. Others(l, d, c) = T
  BY DEF Others, HoldersIn
<1>2. T \in SUBSET HoldersIn(k, d) /\ \A e \in T : b[e] = a[e]
  BY DEF Others, HoldersIn
<1> HIDE DEF T
<1>3. SumFunctionOnSet(b, T) = SumFunctionOnSet(a, T)
  BY <1>2, HoldersFinite, SumEqual
<1> QED
  BY <1>1, <1>3 DEF T

\* What all hold is what the others hold and, in its denomination, the record of c.
LEMMA HolderAndOthers ==
    ASSUME NEW a \in [Contract -> Nat], NEW k, NEW c \in Contract, NEW d
    PROVE  SumFunctionOnSet(a, HoldersIn(k, d))
             = (IF k[c] = d THEN a[c] ELSE 0) + SumFunctionOnSet(a, Others(k, d, c))
<1>1. CASE k[c] = d
  <2> DEFINE H == HoldersIn(k, d)
  <2>1. c \in H /\ H \in SUBSET H
    BY <1>1 DEF HoldersIn
  <2>2. IsFiniteSet(H) /\ IntOn(a, H)
    BY <2>1, HoldersFinite
  <2> HIDE DEF H
  <2>3. SumFunctionOnSet(a, H) = a[c] + SumFunctionOnSet(a, H \ {c})
    BY <2>1, <2>2, SumRemove
  <2> QED
    BY <1>1, <2>3 DEF H, Others
<1>2. CASE k[c] # d
  <2>1. Others(k, d, c) = HoldersIn(k, d)
    BY <1>2 DEF HoldersIn, Others
  <2>2. SumFunctionOnSet(a, HoldersIn(k, d)) \in Nat
    BY OthersHold
  <2> QED
    BY <1>2, <2>1, <2>2
<1> QED
  BY <1>1, <1>2

\* A record of c that gains no more than the pool does is covered.
LEMMA StillCovered ==
    ASSUME TypeOK, TypeOK', PoolCoversRecords, NEW c \in Contract, NEW amt \in Nat,
           \A e \in Contract : e # c => amount'[e] = amount[e] /\ coin'[e] = coin[e],
           \A d \in Denom : pool'[d] = pool[d] + (IF d = params.denom THEN amt ELSE 0),
           coin'[c] = params.denom,
           amount'[c] = amt \/ (coin[c] = params.denom /\ amount'[c] = amount[c] + amt)
    PROVE  PoolCoversRecords'
<1> SUFFICES ASSUME NEW d \in Denom PROVE pool'[d] >= Recorded(d)'
  BY DEF PoolCoversRecords
<1> DEFINE rest == SumFunctionOnSet(amount, Others(coin, d, c))
           all  == SumFunctionOnSet(amount, HoldersIn(coin, d))
           new  == SumFunctionOnSet(amount', HoldersIn(coin', d))
<1>1. Recorded(d) = all /\ Recorded(d)' = new
  BY DEF Recorded, Holders, HoldersIn
<1>2. amount \in [Contract -> Nat] /\ amount' \in [Contract -> Nat]
  BY DEF TypeOK
<1>3. rest \in Nat /\ all \in Nat /\ rest <= all
  BY <1>2, OthersHold
<1>4. all = (IF coin[c] = d THEN amount[c] ELSE 0) + rest
  BY <1>2, HolderAndOthers
<1>5. SumFunctionOnSet(amount', Others(coin', d, c)) = rest
  BY <1>2, OthersKeep
<1>6. new = (IF coin'[c] = d THEN amount'[c] ELSE 0) + SumFunctionOnSet(amount', Others(coin', d, c))
  BY <1>2, HolderAndOthers
<1>7. new = (IF coin'[c] = d THEN amount'[c] ELSE 0) + rest
  BY <1>5, <1>6
<1> HIDE DEF rest, all, new
<1>8. pool[d] \in Nat /\ pool[d] >= all /\ amount[c] \in Nat
  BY <1>1 DEF PoolCoversRecords, TypeOK
<1>9. CASE d = params.denom
  <2>1. pool'[d] = pool[d] + amt /\ new = amount'[c] + rest
    BY <1>7, <1>9
  <2>2. CASE amount'[c] = amt
    BY <1>1, <1>3, <1>8, <2>1, <2>2
  <2>3. CASE coin[c] = params.denom /\ amount'[c] = amount[c] + amt
    <3>1. all = amount[c] + rest
      BY <1>4, <1>9, <2>3
    <3> QED
      BY <1>1, <1>3, <1>8, <2>1, <2>3, <3>1
  <2> QED
    BY <2>2, <2>3
<1>10. CASE d # params.denom
  <2>1. pool'[d] = pool[d] /\ new = rest
    BY <1>3, <1>7, <1>8, <1>10
  <2> QED
    BY <1>1, <1>3, <1>8, <2>1
<1> QED
  BY <1>9, <1>10

LEMMA CoverInit == ASSUME Init PROVE PoolCoversRecords
<1> SUFFICES ASSUME NEW d \in Denom PROVE pool[d] >= Recorded(d)
  BY DEF PoolCoversRecords
<1>1. Holders(d) = {}
  BY RowAssumption DEF Init, Holders
<1> QED
  BY <1>1, SumEmpty DEF Recorded, Init

LEMMA CoverStep ==
    ASSUME IInv, IInv', PoolCoversRecords, [Next]_vars
    PROVE  PoolCoversRecords'
<1>1. TypeOK /\ TypeOK' /\ params.denom \in Denom
  BY ParamAssumption DEF IInv, TypeOK
<1>2. ASSUME NEW amt \in Nat, sendEscrow(amt)
      PROVE  \A d \in Denom : pool'[d] = pool[d] + (IF d = params.denom THEN amt ELSE 0)
  BY <1>1, <1>2 DEF sendEscrow, TypeOK
<1>3. ASSUME NEW c \in Contract, NEW ch \in Chain, NEW amt \in 1..Funds, RegisterContract(c, ch, amt)
      PROVE  PoolCoversRecords'
  <2>1. amt \in Nat /\ sendEscrow(amt)
    BY <1>3, BoundAssumption DEF RegisterContract
  <2>2. /\ amount'[c] = amt /\ coin'[c] = params.denom
        /\ \A e \in Contract : e # c => amount'[e] = amount[e] /\ coin'[e] = coin[e]
    BY <1>1, <1>3 DEF RegisterContract, TypeOK
  <2> QED
    BY <1>1, <1>2, <2>1, <2>2, StillCovered
<1>4. ASSUME NEW c \in Contract, NEW amt \in 1..Funds, RefillEscrow(c, amt)
      PROVE  PoolCoversRecords'
  <2>1. amt \in Nat /\ sendEscrow(amt)
    BY <1>4, BoundAssumption DEF RefillEscrow
  <2>2. /\ amount'[c] = amount[c] + amt /\ coin'[c] = params.denom /\ coin[c] = params.denom
        /\ \A e \in Contract : e # c => amount'[e] = amount[e] /\ coin'[e] = coin[e]
    BY <1>1, <1>4 DEF RefillEscrow, TypeOK
  <2> QED
    BY <1>1, <1>2, <2>1, <2>2, StillCovered
<1>5. CASE UNCHANGED <<amount, coin, pool>>
  BY <1>5 DEF PoolCoversRecords, Recorded, Holders
<1>6. \/ UNCHANGED <<amount, coin, pool>>
      \/ \E c \in Contract, amt \in 1..Funds :
            (\E ch \in Chain : RegisterContract(c, ch, amt)) \/ RefillEscrow(c, amt)
  BY DEF Next, vars, records, coins, dispatchSudoCallbacks, RegisterChain, DeliverBlock,
         UpdateParams, EndBlocker
<1> QED
  BY <1>3, <1>4, <1>5, <1>6

-----------------------------------------------------------------------------
\* The state keeps its type: no registration or refill takes more coins than its
\* sender has.
THEOREM TypeCorrect == Spec => []TypeOK
<1>1. IInv => TypeOK
  BY DEF IInv
<1> QED BY <1>1, Invariance, PTL

\* Contracts are called in no more blocks than were paid for (dispatchSudoCallbacks,
\* RegisterContract, RefillEscrow), under all changes of price and interval.
THEOREM ServedIsPaid == Spec => []ServedWithinBought
<1>1. IInv => ServedWithinBought
  BY DEF IInv, Account, ServedWithinBought
<1> QED BY <1>1, Invariance, PTL

\* An expired contract is disabled within one prune interval (EndBlocker), whatever
\* prune epoch the chain started from.
THEOREM ExpiryInTime == Spec => []DisabledInTime
<1>1. IInv => DisabledInTime
  <2> SUFFICES ASSUME IInv, phase = "pre", height > 1, NEW c \in enabled
               PROVE  height - 1 < until[c] + params.interval
    BY DEF DisabledInTime
  <2>1. /\ height \in Nat /\ lastPrune \in Nat /\ until[c] \in Nat
        /\ params.interval \in Nat
    BY ParamAssumption DEF IInv, TypeOK
  <2>2. lastPrune <= height - 1 /\ height - 1 - lastPrune < params.interval
    BY DEF IInv, Recent
  <2>3. until[c] >= lastPrune
    BY <2>1, <2>2 DEF IInv, Enabled
  <2> QED BY <2>1, <2>2, <2>3
<1> QED BY <1>1, Invariance, PTL

\* The module account covers the escrow records in every denomination, through every
\* registration over an older record, refill and change of the parameters.
THEOREM RecordsCovered == Spec => []PoolCoversRecords
<1>1. Init => PoolCoversRecords
  BY CoverInit
<1>2. IInv /\ IInv' /\ PoolCoversRecords /\ [Next]_vars => PoolCoversRecords'
  BY CoverStep
<1> QED BY <1>1, <1>2, Invariance, PTL DEF Spec

-----------------------------------------------------------------------------
(* Sorting *)

\* The arrangement p of the first n elements of s puts them in the order R.
Arranges(p, s, n, R) ==
    /\ p \in Bijection(1..n, 1..n)
    /\ \A i, j \in 1..n : i < j => <<s[p[i]], s[p[j]]>> \in R

\* R orders X: any two elements are related, and the relation is transitive.
Orders(R, X) ==
    /\ \A x, y \in X : <<x, y>> \in R \/ <<y, x>> \in R
    /\ \A x, y, z \in X : <<x, y>> \in R /\ <<y, z>> \in R => <<x, z>> \in R

\* Element n is inserted into an arrangement of the elements before it.
LEMMA Inserted ==
    ASSUME NEW X, NEW R, Orders(R, X), NEW m \in Nat, NEW n \in Nat, n = m + 1,
           NEW s \in [1..n -> X], NEW q, Arranges(q, s, m, R)
    PROVE  \E p : Arranges(p, s, n, R)
<1> DEFINE K == {k \in 1..n : k = n \/ <<s[n], s[q[k]]>> \in R}
<1>1. PICK k \in K : \A j \in K : k <= j
  <2>1. K \subseteq Nat /\ n \in K
    OBVIOUS
  <2> HIDE DEF K
  <2> QED BY <2>1, LeastNatural
<1>2. k \in Nat /\ 1 <= k /\ k <= n /\ (k # n => <<s[n], s[q[k]]>> \in R)
  OBVIOUS
<1>3. \A i \in 1..n : i < k => <<s[n], s[q[i]]>> \notin R
  BY <1>1, <1>2
<1> HIDE DEF K
<1> DEFINE p == [i \in 1..n |-> IF i < k THEN q[i] ELSE IF i = k THEN n ELSE q[i - 1]]
<1>a. \A i \in 1..m : q[i] \in 1..m
  BY DEF Arranges, Bijection, Injection
<1>b. \A i, j \in 1..m : q[i] = q[j] => i = j
  BY DEF Arranges, Bijection, Injection, IsInjective
<1>c. \A t \in 1..m : \E i \in 1..m : q[i] = t
  BY DEF Arranges, Bijection, Surjection
<1>d. \A i, j \in 1..m : i < j => <<s[q[i]], s[q[j]]>> \in R
  BY DEF Arranges
<1>4. \A i \in 1..m : i \in 1..n /\ i # n /\ q[i] \in 1..m /\ q[i] \in 1..n /\ q[i] # n
  BY <1>a
<1>5. ASSUME NEW i \in 1..n
      PROVE  /\ i < k => i \in 1..m /\ p[i] = q[i]
             /\ i = k => p[i] = n
             /\ i > k => i - 1 \in 1..m /\ p[i] = q[i - 1]
  BY <1>2
<1>6. p \in [1..n -> 1..n]
  <2>1. ASSUME NEW i \in 1..n PROVE p[i] \in 1..n
    <3>1. i < k \/ i = k \/ i > k
      BY <1>2
    <3> HIDE DEF p
    <3>2. i < k => p[i] \in 1..n
      BY <1>4, <1>5
    <3>3. i > k => p[i] \in 1..n
      BY <1>4, <1>5
    <3>4. i = k => p[i] = n
      BY <1>5
    <3>5. n \in 1..n
      OBVIOUS
    <3> QED BY <3>1, <3>2, <3>3, <3>4, <3>5
  <2> QED BY <2>1
<1> HIDE DEF p
<1>7. ASSUME NEW i \in 1..n, NEW j \in 1..n, p[i] = p[j] PROVE i = j
  <2>1. i < k \/ i = k \/ i > k
    BY <1>2
  <2>2. j < k \/ j = k \/ j > k
    BY <1>2
  <2>3. CASE i < k
    <3>1. i \in 1..m /\ p[i] = q[i] /\ q[i] # n
      BY <1>4, <1>5, <2>3
    <3>2. CASE j < k
      BY <1>b, <1>5, <1>7, <3>1, <3>2
    <3>3. CASE j = k
      BY <1>5, <1>7, <3>1, <3>3
    <3>4. CASE j > k
      <4>1. j - 1 \in 1..m /\ p[j] = q[j - 1]
        BY <1>5, <3>4
      <4>2. i = j - 1
        BY <1>b, <1>7, <3>1, <4>1
      <4> QED BY <1>2, <2>3, <3>4, <4>2
    <3> QED BY <2>2, <3>2, <3>3, <3>4
  <2>4. CASE i = k
    <3>1. p[i] = n
      BY <1>5, <2>4
    <3>2. j < k => p[j] # n
      BY <1>4, <1>5
    <3>3. j > k => p[j] # n
      BY <1>4, <1>5
    <3> QED BY <1>7, <2>2, <2>4, <3>1, <3>2, <3>3
  <2>5. CASE i > k
    <3>1. i - 1 \in 1..m /\ p[i] = q[i - 1] /\ q[i - 1] # n
      BY <1>4, <1>5, <2>5
    <3>2. CASE j < k
      <4>1. j \in 1..m /\ p[j] = q[j]
        BY <1>5, <3>2
      <4>2. i - 1 = j
        BY <1>b, <1>7, <3>1, <4>1
      <4> QED BY <1>2, <2>5, <3>2, <4>2
    <3>3. CASE j = k
      BY <1>5, <1>7, <3>1, <3>3
    <3>4. CASE j > k
      <4>1. j - 1 \in 1..m /\ p[j] = q[j - 1]
        BY <1>5, <3>4
      <4>2. i - 1 = j - 1
        BY <1>b, <1>7, <3>1, <4>1
      <4> QED BY <4>2
    <3> QED BY <2>2, <3>2, <3>3, <3>4
  <2> QED BY <2>1, <2>3, <2>4, <2>5
<1>8. ASSUME NEW t \in 1..n PROVE \E i \in 1..n : p[i] = t
  <2>1. CASE t = n
    <3>1. k \in 1..n
      BY <1>2
    <3> QED BY <1>5, <2>1, <3>1
  <2>2. CASE t # n
    <3>0. t \in 1..m
      BY <2>2
    <3>1. PICK i \in 1..m : q[i] = t
      BY <1>c, <3>0
    <3>2. CASE i < k
      BY <1>4, <1>5, <3>1, <3>2
    <3>3. CASE i >= k
      <4>1. i + 1 \in 1..n /\ i + 1 > k /\ (i + 1) - 1 = i
        BY <1>2, <3>3
      <4>2. p[i + 1] = q[i]
        BY <1>5, <4>1
      <4> QED BY <3>1, <4>1, <4>2
    <3> QED BY <1>2, <3>2, <3>3
  <2> QED BY <2>1, <2>2
<1>9. p \in Bijection(1..n, 1..n)
  BY <1>6, <1>7, <1>8 DEF Bijection, Injection, Surjection, IsInjective
<1>10. ASSUME NEW i \in 1..n, NEW j \in 1..n, i < j PROVE <<s[p[i]], s[p[j]]>> \in R
  <2>0. n \in 1..n /\ \A l \in 1..m : s[q[l]] \in X
    BY <1>4
  <2>1. CASE j < k
    <3>1. i < k
      BY <1>2, <1>10, <2>1
    <3>2. i \in 1..m /\ j \in 1..m /\ p[i] = q[i] /\ p[j] = q[j]
      BY <1>5, <2>1, <3>1
    <3> QED BY <1>d, <1>10, <3>2
  <2>2. CASE j = k
    <3>1. i < k /\ i \in 1..m /\ p[i] = q[i] /\ p[j] = n
      BY <1>5, <1>10, <2>2
    <3>2. <<s[n], s[q[i]]>> \notin R
      BY <1>3, <3>1
    <3>3. s[n] \in X /\ s[q[i]] \in X
      BY <2>0, <3>1
    <3> QED BY <3>1, <3>2, <3>3 DEF Orders
  <2>3. CASE j > k /\ i < k
    <3>1. i \in 1..m /\ j - 1 \in 1..m /\ p[i] = q[i] /\ p[j] = q[j - 1]
      BY <1>5, <2>3
    <3>2. i < j - 1
      BY <1>2, <2>3
    <3> QED BY <1>d, <3>1, <3>2
  <2>4. CASE j > k /\ i = k
    <3>1. j - 1 \in 1..m /\ p[i] = n /\ p[j] = q[j - 1]
      BY <1>5, <2>4
    <3>2. k \in 1..m /\ k # n /\ k <= j - 1
      BY <1>2, <2>4
    <3>3. <<s[n], s[q[k]]>> \in R
      BY <1>2, <3>2
    <3>4. CASE k = j - 1
      BY <3>1, <3>3, <3>4
    <3>5. CASE k < j - 1
      <4>1. <<s[q[k]], s[q[j - 1]]>> \in R
        BY <1>d, <3>1, <3>2, <3>5
      <4>2. s[n] \in X /\ s[q[k]] \in X /\ s[q[j - 1]] \in X
        BY <2>0, <3>1, <3>2
      <4> QED BY <3>1, <3>3, <4>1, <4>2 DEF Orders
    <3> QED BY <1>2, <3>2, <3>4, <3>5
  <2>5. CASE i > k
    <3>1. j > k
      BY <1>2, <1>10, <2>5
    <3>2. i - 1 \in 1..m /\ j - 1 \in 1..m /\ p[i] = q[i - 1] /\ p[j] = q[j - 1]
      BY <1>5, <2>5, <3>1
    <3>3. i - 1 < j - 1
      BY <1>10
    <3> QED BY <1>d, <3>2, <3>3
  <2> QED BY <1>2, <2>1, <2>2, <2>3, <2>4, <2>5
<1> QED BY <1>9, <1>10 DEF Arranges

\* Every sequence can be arranged in an order of its elements.
LEMMA Arrangement ==
    ASSUME NEW X, NEW R, Orders(R, X), NEW m \in Nat, NEW s \in [1..m -> X]
    PROVE  \E p : Arranges(p, s, m, R)
<1> DEFINE Bad == {n \in 0..m : ~ \E p : Arranges(p, s, n, R)}
<1>1. ASSUME Bad # {} PROVE FALSE
  <2>1. PICK n \in Bad : \A k \in Bad : n <= k
    <3>1. Bad \subseteq Nat
      OBVIOUS
    <3> HIDE DEF Bad
    <3> QED BY <1>1, <3>1, LeastNatural
  <2>2. n \in 0..m /\ ~ \E p : Arranges(p, s, n, R)
    OBVIOUS
  <2>3. n # 0
    <3>1. Arranges([i \in 1..0 |-> i], s, 0, R)
      BY DEF Arranges, Bijection, Injection, Surjection, IsInjective
    <3> QED BY <2>2, <3>1
  <2>4. n \in Nat /\ n - 1 \in Nat /\ n = (n - 1) + 1 /\ n - 1 \in 0..m /\ n - 1 \notin Bad
    BY <2>1, <2>2, <2>3
  <2>5. PICK q : Arranges(q, s, n - 1, R)
    BY <2>4
  <2> DEFINE t == [i \in 1..n |-> s[i]]
  <2>6. t \in [1..n -> X] /\ \A i \in 1..n : t[i] = s[i]
    BY <2>2
  <2> HIDE DEF t, Bad
  <2>7. \A i \in 1..(n - 1) : q[i] \in 1..(n - 1) /\ q[i] \in 1..n
    BY <2>2, <2>5 DEF Arranges, Bijection, Injection
  <2>8. Arranges(q, t, n - 1, R)
    BY <2>5, <2>6, <2>7 DEF Arranges
  <2>9. PICK p : Arranges(p, t, n, R)
    BY <2>4, <2>6, <2>8, Inserted
  <2>10. \A i \in 1..n : p[i] \in 1..n
    BY <2>9 DEF Arranges, Bijection, Injection
  <2>11. Arranges(p, s, n, R)
    BY <2>6, <2>9, <2>10 DEF Arranges
  <2> QED BY <2>2, <2>11
<1> QED BY <1>1

\* The sequence u ascends in R.
Ascending(u, R) == \A i, j \in 1..Len(u) : i < j => <<u[i], u[j]>> \in R

Asymmetric(R, X) == \A x, y \in X : ~ (<<x, y>> \in R /\ <<y, x>> \in R)

\* Of two sequences with the same elements that both ascend, each extends the other.
LEMMA AscendingPrefix ==
    ASSUME NEW X, NEW R, Asymmetric(R, X), NEW u \in Seq(X), NEW w \in Seq(X),
           Ascending(u, R), Ascending(w, R), Range(u) = Range(w)
    PROVE  \A i \in 1..Len(u) : i \in 1..Len(w) /\ w[i] = u[i]
<1> DEFINE Bad == {i \in 1..Len(u) : ~ (i \in 1..Len(w) /\ w[i] = u[i])}
<1>l. Len(u) \in Nat /\ Len(w) \in Nat
  OBVIOUS
<1>0. /\ \A i \in 1..Len(u) : u[i] \in X /\ \E k \in 1..Len(w) : w[k] = u[i]
      /\ \A i \in 1..Len(w) : w[i] \in X /\ \E k \in 1..Len(u) : u[k] = w[i]
  <2>1. DOMAIN u = 1..Len(u) /\ DOMAIN w = 1..Len(w) /\ Len(u) \in Nat /\ Len(w) \in Nat
    OBVIOUS
  <2>2. /\ \A i \in 1..Len(u) : u[i] \in X
        /\ \A i \in 1..Len(w) : w[i] \in X
    OBVIOUS
  <2> QED BY <2>1, <2>2 DEF Range
<1>1. ASSUME Bad # {} PROVE FALSE
  <2>1. PICK i \in Bad : \A j \in Bad : i <= j
    <3>1. Bad \subseteq Nat
      OBVIOUS
    <3> HIDE DEF Bad
    <3> QED BY <1>1, <3>1, LeastNatural
  <2>2. i \in 1..Len(u) /\ ~ (i \in 1..Len(w) /\ w[i] = u[i])
    OBVIOUS
  <2>3. \A j \in 1..Len(u) : j < i => j \in 1..Len(w) /\ w[j] = u[j]
    BY <2>1, <2>2
  <2> HIDE DEF Bad
  <2>4. PICK k \in 1..Len(w) : w[k] = u[i]
    BY <1>0, <2>2
  <2>5. ASSUME k < i PROVE FALSE
    <3>1. k \in 1..Len(u) /\ w[k] = u[k]
      <4>1. k \in 1..Len(u)
        BY <1>l, <2>2, <2>5
      <4> QED BY <2>3, <2>5, <4>1
    <3>2. <<u[k], u[i]>> \in R
      BY <2>2, <2>5, <3>1 DEF Ascending
    <3>3. u[i] \in X /\ u[k] = u[i]
      BY <1>0, <2>2, <2>4, <3>1
    <3> QED BY <3>2, <3>3 DEF Asymmetric
  <2>6. i \in 1..Len(w) /\ i < k /\ w[i] # u[i]
    <3>1. i <= k /\ i \in 1..Len(w)
      BY <1>l, <2>2, <2>5
    <3>2. w[i] # u[i]
      BY <2>2, <3>1
    <3>3. i # k
      BY <2>4, <3>2
    <3> QED BY <1>l, <2>2, <3>1, <3>2, <3>3
  <2>7. <<w[i], u[i]>> \in R
    BY <2>4, <2>6 DEF Ascending
  <2>8. PICK l \in 1..Len(u) : u[l] = w[i]
    BY <1>0, <2>6
  <2>9. ASSUME l < i PROVE FALSE
    <3>1. l \in 1..Len(w) /\ w[l] = u[l]
      BY <2>3, <2>9
    <3>2. <<w[l], w[i]>> \in R
      BY <2>6, <2>9, <3>1 DEF Ascending
    <3>3. w[i] \in X /\ w[l] = w[i]
      BY <1>0, <2>6, <2>8, <3>1
    <3> QED BY <3>2, <3>3 DEF Asymmetric
  <2>10. i < l
    <3>1. l # i
      BY <2>6, <2>8
    <3> QED BY <1>l, <2>2, <2>9, <3>1
  <2>11. <<u[i], w[i]>> \in R
    BY <2>2, <2>8, <2>10 DEF Ascending
  <2> QED BY <1>0, <2>2, <2>6, <2>7, <2>11 DEF Asymmetric
<1> QED BY <1>1

\* Two sequences with the same elements that both ascend are equal.
LEMMA SameAscending ==
    ASSUME NEW X, NEW R, Asymmetric(R, X), NEW u \in Seq(X), NEW w \in Seq(X),
           Ascending(u, R), Ascending(w, R), Range(u) = Range(w)
    PROVE  u = w
<1>1. \A i \in 1..Len(u) : i \in 1..Len(w) /\ w[i] = u[i]
  BY AscendingPrefix
<1>2. \A i \in 1..Len(w) : i \in 1..Len(u) /\ w[i] = u[i]
  BY AscendingPrefix
<1>3. Len(u) \in Nat /\ Len(w) \in Nat
  OBVIOUS
<1>4. Len(u) = Len(w)
  <2>1. Len(u) <= Len(w)
    BY <1>1, <1>3
  <2>2. Len(w) <= Len(u)
    BY <1>2, <1>3
  <2> QED BY <1>3, <2>1, <2>2
<1> QED BY <1>1, <1>4

-----------------------------------------------------------------------------
(* Ranks *)

Rank(F, j) == Cardinality({k \in F : k <= j})

\* The member of F with a given rank, in ascending order.
Ranked(F) == [i \in 1..Cardinality(F) |-> CHOOSE j \in F : Rank(F, j) = i]

\* A larger member has a larger rank.
LEMMA RankIncreases ==
    ASSUME NEW F \in SUBSET Nat, IsFiniteSet(F), NEW i \in F, NEW j \in F, i < j
    PROVE  Rank(F, i) < Rank(F, j)
<1> DEFINE A == {k \in F : k <= i}
           B == {k \in F : k <= j}
<1>1. i \in Nat /\ j \in Nat /\ \A k \in F : k \in Nat
  OBVIOUS
<1>2. A \subseteq B /\ B \subseteq F /\ j \in B /\ j \notin A
  <2>1. ASSUME NEW k \in A PROVE k \in B
    BY <1>1
  <2>2. j \in B /\ j \notin A
    BY <1>1
  <2> QED BY <2>1, <2>2
<1> HIDE DEF A, B
<1>3. IsFiniteSet(B) /\ IsFiniteSet(A)
  BY <1>2, FS_Subset
<1>4. Cardinality(A) <= Cardinality(B) /\ Cardinality(A) # Cardinality(B)
  BY <1>2, <1>3, FS_Subset
<1>5. Cardinality(A) \in Nat /\ Cardinality(B) \in Nat
  BY <1>3, FS_CardinalityType
<1> QED BY <1>4, <1>5 DEF Rank, A, B

\* The ranks are the numbers up to the size of F.
LEMMA RankedType ==
    ASSUME NEW F \in SUBSET Nat, IsFiniteSet(F)
    PROVE  /\ Cardinality(F) \in Nat
           /\ \A j \in F : Rank(F, j) \in 1..Cardinality(F)
           /\ \A i \in 1..Cardinality(F) : \E j \in F : Rank(F, j) = i
<1> DEFINE m == Cardinality(F)
           f == [j \in F |-> Rank(F, j)]
<1>1. m \in Nat /\ \A j \in F : j \in Nat
  BY FS_CardinalityType
<1>2. ASSUME NEW j \in F PROVE Rank(F, j) \in 1..m
  <2> DEFINE A == {k \in F : k <= j}
  <2>1. A \subseteq F /\ j \in A
    BY <1>1
  <2> HIDE DEF A
  <2>2. IsFiniteSet(A) /\ Cardinality(A) <= m /\ Cardinality(A) \in Nat
    BY <1>1, <2>1, FS_Subset, FS_CardinalityType
  <2>3. Cardinality(A) # 0
    BY <2>1, <2>2, FS_EmptySet
  <2> QED BY <1>1, <2>2, <2>3 DEF A, Rank
<1>3. ASSUME NEW i \in F, NEW j \in F, Rank(F, i) = Rank(F, j) PROVE i = j
  <2>1. Rank(F, i) \in Nat
    BY <1>1, <1>2
  <2>2. ~ (i < j) /\ ~ (j < i)
    BY <1>3, <2>1, RankIncreases
  <2> QED BY <1>1, <2>2
<1> HIDE DEF m
<1>4. f \in Injection(F, 1..m)
  BY <1>2, <1>3 DEF Injection, IsInjective
<1>5. IsFiniteSet(1..m) /\ Cardinality(1..m) = m
  BY <1>1, FS_Interval
<1>6. f \in Surjection(F, 1..m)
  <2> HIDE DEF f
  <2> QED BY <1>1, <1>4, <1>5, FS_Injection DEF m
<1>7. ASSUME NEW i \in 1..m PROVE \E j \in F : Rank(F, j) = i
  BY <1>6 DEF Surjection
<1> QED BY <1>1, <1>2, <1>7 DEF m

\* Ranked lists the members of F, each once and in ascending order.
LEMMA RankedLists ==
    ASSUME NEW F \in SUBSET Nat, IsFiniteSet(F)
    PROVE  /\ \A i \in 1..Cardinality(F) : Ranked(F)[i] \in F
           /\ \A i, j \in 1..Cardinality(F) : i < j => Ranked(F)[i] < Ranked(F)[j]
           /\ \A j \in F : \E i \in 1..Cardinality(F) : Ranked(F)[i] = j
<1> DEFINE m == Cardinality(F)
           e == Ranked(F)
<1>1. ASSUME NEW i \in 1..m PROVE e[i] \in F /\ Rank(F, e[i]) = i
  <2>1. \E j \in F : Rank(F, j) = i
    BY RankedType
  <2>2. e[i] = CHOOSE j \in F : Rank(F, j) = i
    BY DEF Ranked
  <2> QED BY <2>1, <2>2
<1>2. m \in Nat /\ \A j \in F : Rank(F, j) \in 1..m
  BY RankedType
<1> HIDE DEF m, e
<1>3. ASSUME NEW i \in 1..m, NEW j \in 1..m, i < j PROVE e[i] < e[j]
  <2>1. e[i] \in F /\ e[j] \in F /\ Rank(F, e[i]) = i /\ Rank(F, e[j]) = j
    BY <1>1
  <2>2. e[i] \in Nat /\ e[j] \in Nat
    BY <2>1
  <2>3. e[i] # e[j]
    BY <1>2, <1>3, <2>1
  <2>4. ASSUME e[j] < e[i] PROVE FALSE
    <3>1. Rank(F, e[j]) < Rank(F, e[i])
      BY <2>1, <2>4, RankIncreases
    <3> QED BY <1>2, <1>3, <2>1, <3>1
  <2> QED BY <2>2, <2>3, <2>4
<1>4. ASSUME NEW j \in F PROVE \E i \in 1..m : e[i] = j
  <2> DEFINE i == Rank(F, j)
  <2>1. i \in 1..m
    BY <1>2
  <2>2. e[i] \in F /\ Rank(F, e[i]) = i
    BY <1>1, <2>1
  <2>3. Rank(F, j) \in Nat /\ e[i] \in Nat /\ j \in Nat
    <3>1. \A k \in 1..m : k \in Nat
      OBVIOUS
    <3> HIDE DEF i
    <3> QED BY <2>1, <2>2, <3>1 DEF i
  <2>4. ~ (e[i] < j) /\ ~ (j < e[i])
    BY <2>2, <2>3, RankIncreases
  <2>5. e[i] = j
    BY <2>3, <2>4
  <2> QED BY <2>1, <2>5
<1> QED BY <1>1, <1>3, <1>4 DEF m, e

-----------------------------------------------------------------------------
(* The root of a list of attestations *)

Att == Source \X Value

AttOrder == {z \in Att \X Att : ~ AttBefore(z[2], z[1])}

\* An attestation is a pair of numbers.
LEMMA AttType ==
    ASSUME NEW x \in Att
    PROVE  x[1] \in Nat /\ x[2] \in Nat /\ x = <<x[1], x[2]>>
<1>1. PICK a \in Source, b \in Value : x = <<a, b>>
  BY DEF Att
<1>2. a \in Nat /\ b \in Nat
  BY SourceAssumption
<1> QED BY <1>1, <1>2

\* The order in which attestations are sorted is total and transitive.
LEMMA AttOrdered == Orders(AttOrder, Att)
<1>1. ASSUME NEW x \in Att, NEW y \in Att PROVE <<x, y>> \in AttOrder <=> ~ AttBefore(y, x)
  BY DEF AttOrder
<1>2. ASSUME NEW x \in Att, NEW y \in Att PROVE <<x, y>> \in AttOrder \/ <<y, x>> \in AttOrder
  <2>1. x[1] \in Nat /\ x[2] \in Nat /\ y[1] \in Nat /\ y[2] \in Nat
    BY AttType
  <2>2. ~ (AttBefore(x, y) /\ AttBefore(y, x))
    BY <2>1 DEF AttBefore
  <2> QED BY <1>1, <2>2
<1>3. ASSUME NEW x \in Att, NEW y \in Att, NEW z \in Att,
             <<x, y>> \in AttOrder, <<y, z>> \in AttOrder
      PROVE  <<x, z>> \in AttOrder
  <2>1. x[1] \in Nat /\ x[2] \in Nat /\ y[1] \in Nat /\ y[2] \in Nat /\ z[1] \in Nat /\ z[2] \in Nat
    BY AttType
  <2>2. ~ AttBefore(y, x) /\ ~ AttBefore(z, y)
    BY <1>1, <1>3
  <2>3. ~ AttBefore(z, x)
    BY <2>1, <2>2 DEF AttBefore
  <2> QED BY <1>1, <2>3
<1> QED BY <1>2, <1>3 DEF Orders

\* t is a list of n attestations in ascending order.
InOrder(t, n) ==
    t \in [1..n -> Att] /\ \A i, j \in 1..n : i < j => ~ AttBefore(t[j], t[i])

\* sortOracleAttestations rearranges its argument into ascending order.
LEMMA AttsSorted ==
    ASSUME NEW atts \in Seq(Att)
    PROVE  /\ InOrder(sortOracleAttestations(atts), Len(atts))
           /\ Range(sortOracleAttestations(atts)) = Range(atts)
<1> DEFINE n == Len(atts)
           Good(p) == /\ p \in Bijection(1..n, 1..n)
                      /\ \A i, j \in 1..n : i < j => ~ AttBefore(atts[p[j]], atts[p[i]])
           p == CHOOSE p \in Bijection(1..n, 1..n) :
                   \A i, j \in 1..n : i < j => ~ AttBefore(atts[p[j]], atts[p[i]])
           t == [i \in 1..n |-> atts[p[i]]]
<1>1. n \in Nat /\ DOMAIN atts = 1..n /\ atts \in [1..n -> Att] /\ \A i \in 1..n : atts[i] \in Att
  OBVIOUS
<1>2. sortOracleAttestations(atts) = t
  BY <1>1 DEF sortOracleAttestations, Sorted
<1> HIDE DEF n
<1>3. Good(p)
  <2>1. PICK q : Arranges(q, atts, n, AttOrder)
    BY <1>1, AttOrdered, Arrangement
  <2>2. q \in Bijection(1..n, 1..n)
    BY <2>1 DEF Arranges
  <2>3. \A i \in 1..n : atts[q[i]] \in Att
    BY <1>1, <2>2 DEF Bijection, Injection
  <2>4. Good(q)
    BY <2>1, <2>2, <2>3 DEF Arranges, AttOrder
  <2> QED BY <2>2, <2>4
<1> HIDE DEF p
<1>4. /\ \A i \in 1..n : p[i] \in 1..n
      /\ \A k \in 1..n : \E i \in 1..n : p[i] = k
  BY <1>3 DEF Bijection, Injection, Surjection
<1>5. t \in [1..n -> Att] /\ \A i \in 1..n : t[i] = atts[p[i]]
  BY <1>1, <1>4
<1>6. Range(t) = Range(atts)
  <2>1. ASSUME NEW x \in Range(t) PROVE x \in Range(atts)
    <3>1. PICK i \in 1..n : x = t[i]
      BY DEF Range
    <3> HIDE DEF t
    <3> QED BY <1>1, <1>4, <1>5, <3>1 DEF Range
  <2>2. ASSUME NEW x \in Range(atts) PROVE x \in Range(t)
    <3>1. PICK k \in 1..n : x = atts[k]
      BY <1>1 DEF Range
    <3>2. PICK i \in 1..n : p[i] = k
      BY <1>4
    <3>3. x = t[i] /\ i \in DOMAIN t
      BY <3>1, <3>2
    <3> HIDE DEF t
    <3> QED BY <3>3 DEF Range
  <2> QED BY <2>1, <2>2
<1>7. \A i, j \in 1..n : i < j => ~ AttBefore(t[j], t[i])
  BY <1>3, <1>5
<1> HIDE DEF t
<1> QED BY <1>2, <1>5, <1>6, <1>7 DEF n, InOrder

FirstOf(t) == {i \in DOMAIN t : \A j \in 1..(i - 1) : t[j][1] # t[i][1]}

\* Of each source, the smallest value that is attested.
LeastAtts(A) == {x \in A : \A y \in A : y[1] = x[1] => x[2] <= y[2]}

SourceOrder == {z \in Att \X Att : z[1][1] < z[2][1]}

\* Without duplicates, a sorted list has the least attestation of each source, in
\* the order of the sources.
LEMMA Deduped ==
    ASSUME NEW n \in Nat, NEW t, InOrder(t, n)
    PROVE  /\ dedupeOracleAttestationsBySourceID(t) \in Seq(Att)
           /\ Ascending(dedupeOracleAttestationsBySourceID(t), SourceOrder)
           /\ Range(dedupeOracleAttestationsBySourceID(t)) = LeastAtts(Range(t))
<1> DEFINE F == FirstOf(t)
           m == Cardinality(F)
           e == Ranked(F)
           u == [i \in 1..m |-> t[e[i]]]
<1>0. t \in [1..n -> Att] /\ DOMAIN t = 1..n /\ \A i, j \in 1..n : i < j => ~ AttBefore(t[j], t[i])
  BY DEF InOrder
<1>1. F \in SUBSET (1..n) /\ \A i \in F : \A j \in 1..(i - 1) : t[j][1] # t[i][1]
  BY <1>0 DEF FirstOf
<1>2. F \in SUBSET Nat /\ IsFiniteSet(F)
  <2>1. IsFiniteSet(1..n)
    BY FS_Interval
  <2> HIDE DEF F
  <2>2. IsFiniteSet(F)
    BY <1>1, <2>1, FS_Subset
  <2>3. \A i \in 1..n : i \in Nat
    OBVIOUS
  <2> QED BY <1>1, <2>2, <2>3
<1>3. dedupeOracleAttestationsBySourceID(t) = u
  <2>1. \A i \in 1..m : e[i] = CHOOSE j \in F : Cardinality({k \in F : k <= j}) = i
    BY DEF Ranked, Rank
  <2>2. dedupeOracleAttestationsBySourceID(t) =
          [i \in 1..m |-> t[CHOOSE j \in F : Cardinality({k \in F : k <= j}) = i]]
    BY DEF dedupeOracleAttestationsBySourceID, FirstOf
  <2> HIDE DEF e, F
  <2> QED BY <2>1, <2>2
<1>4. m \in Nat
  <2> HIDE DEF F
  <2> QED BY <1>2, FS_CardinalityType
<1>5. /\ \A i \in 1..m : e[i] \in F
      /\ \A i, j \in 1..m : i < j => e[i] < e[j]
      /\ \A j \in F : \E i \in 1..m : e[i] = j
  <2> HIDE DEF F
  <2> QED BY <1>2, RankedLists
<1> HIDE DEF F, m, e
<1>6. \A i \in 1..m : u[i] = t[e[i]] /\ e[i] \in 1..n /\ u[i] \in Att
  BY <1>0, <1>1, <1>5
<1>7. u \in Seq(Att) /\ Len(u) = m /\ DOMAIN u = 1..m
  BY <1>4, <1>6
<1> HIDE DEF u
<1>8. ASSUME NEW i \in 1..m, NEW j \in 1..m, i < j PROVE <<u[i], u[j]>> \in SourceOrder
  <2>1. e[i] \in 1..n /\ e[j] \in 1..n /\ e[i] < e[j] /\ e[j] \in F
    BY <1>5, <1>6, <1>8
  <2>2. u[i] \in Att /\ u[j] \in Att /\ u[i] = t[e[i]] /\ u[j] = t[e[j]]
    BY <1>6
  <2>3. ~ AttBefore(u[j], u[i])
    BY <1>0, <2>1, <2>2
  <2>4. e[i] \in 1..(e[j] - 1)
    BY <2>1
  <2>5. u[i][1] # u[j][1]
    BY <1>1, <2>1, <2>2, <2>4
  <2>6. u[i][1] \in Nat /\ u[j][1] \in Nat
    BY <2>2, AttType
  <2>7. u[i][1] < u[j][1]
    BY <2>3, <2>5, <2>6 DEF AttBefore
  <2> QED BY <2>2, <2>7 DEF SourceOrder
<1>9. ASSUME NEW x \in Range(u) PROVE x \in LeastAtts(Range(t))
  <2>1. PICK i \in 1..m : x = u[i]
    BY <1>7 DEF Range
  <2>2. e[i] \in 1..n /\ x = t[e[i]] /\ e[i] \in F /\ x \in Att
    BY <1>5, <1>6, <2>1
  <2>3. x \in Range(t)
    BY <1>0, <2>2 DEF Range
  <2>4. ASSUME NEW y \in Range(t), y[1] = x[1] PROVE x[2] <= y[2]
    <3>1. PICK k \in 1..n : y = t[k]
      BY <1>0 DEF Range
    <3>2. x[2] \in Nat /\ y[2] \in Nat
      BY <1>0, <2>2, <3>1, AttType
    <3>3. ~ (k < e[i])
      <4>1. ASSUME k < e[i] PROVE FALSE
        <5>1. k \in 1..(e[i] - 1)
          BY <2>2, <4>1
        <5> QED BY <1>1, <2>2, <2>4, <3>1, <5>1
      <4> QED BY <4>1
    <3>4. CASE k = e[i]
      BY <2>2, <3>1, <3>2, <3>4
    <3>5. CASE e[i] < k
      <4>1. ~ AttBefore(y, x)
        BY <1>0, <2>2, <3>1, <3>5
      <4> QED BY <2>4, <3>2, <4>1 DEF AttBefore
    <3> QED BY <2>2, <3>3, <3>4, <3>5
  <2> QED BY <2>3, <2>4 DEF LeastAtts
<1>10. ASSUME NEW x \in LeastAtts(Range(t)) PROVE x \in Range(u)
  <2>1. x \in Range(t) /\ \A y \in Range(t) : y[1] = x[1] => x[2] <= y[2]
    BY DEF LeastAtts
  <2>2. PICK k \in 1..n : x = t[k]
    BY <1>0, <2>1 DEF Range
  <2> DEFINE J == {l \in 1..n : t[l][1] = x[1]}
  <2>3. PICK j \in J : \A l \in J : j <= l
    <3>1. J \subseteq Nat /\ k \in J
      BY <2>2
    <3> HIDE DEF J
    <3> QED BY <3>1, LeastNatural
  <2>4. j \in 1..n /\ t[j][1] = x[1] /\ j <= k
    BY <2>2, <2>3
  <2>5. j \in F
    <3>1. ASSUME NEW l \in 1..(j - 1), t[l][1] = t[j][1] PROVE FALSE
      <4>1. l \in 1..n /\ l < j
        BY <2>4
      <4>2. l \in J
        BY <2>4, <3>1, <4>1
      <4> HIDE DEF J
      <4> QED BY <2>3, <2>4, <4>1, <4>2
    <3> QED BY <1>0, <2>4, <3>1 DEF F, FirstOf
  <2> HIDE DEF J
  <2>6. t[j] \in Range(t)
    BY <1>0, <2>4 DEF Range
  <2>7. x[2] <= t[j][2]
    BY <2>1, <2>4, <2>6
  <2>8. x \in Att /\ t[j] \in Att
    BY <1>0, <2>2, <2>4
  <2>9. x[2] \in Nat /\ t[j][2] \in Nat /\ x = <<x[1], x[2]>> /\ t[j] = <<t[j][1], t[j][2]>>
    BY <2>8, AttType
  <2>10. t[j][2] <= x[2]
    <3>1. CASE j = k
      BY <2>2, <2>9, <3>1
    <3>2. CASE j < k
      <4>1. ~ AttBefore(x, t[j])
        BY <1>0, <2>2, <2>4, <3>2
      <4> QED BY <2>4, <2>9, <4>1 DEF AttBefore
    <3> QED BY <2>4, <3>1, <3>2
  <2>11. x = t[j]
    <3>1. x[2] = t[j][2]
      BY <2>7, <2>9, <2>10
    <3> QED BY <2>4, <2>9, <3>1
  <2>12. PICK i \in 1..m : e[i] = j
    BY <1>5, <2>5
  <2>13. x = u[i]
    BY <1>6, <2>11, <2>12
  <2> QED BY <1>7, <2>13 DEF Range
<1>11. Ascending(u, SourceOrder)
  BY <1>7, <1>8 DEF Ascending
<1>12. Range(u) = LeastAtts(Range(t))
  BY <1>9, <1>10
<1> QED BY <1>3, <1>7, <1>11, <1>12

\* No two sources come each before the other.
LEMMA SourcesAsymmetric == Asymmetric(SourceOrder, Att)
<1>1. ASSUME NEW x \in Att, NEW y \in Att, <<x, y>> \in SourceOrder, <<y, x>> \in SourceOrder
      PROVE  FALSE
  <2>1. x[1] \in Nat /\ y[1] \in Nat
    BY AttType
  <2>2. x[1] < y[1] /\ y[1] < x[1]
    BY <1>1 DEF SourceOrder
  <2> QED BY <2>1, <2>2
<1> QED BY <1>1 DEF Asymmetric

\* The root of a list depends only on the attestations in it.
LEMMA RootOfSet ==
    ASSUME NEW a \in Seq(Att), NEW b \in Seq(Att), Range(a) = Range(b)
    PROVE  aggregateAttestationRoot(a) = aggregateAttestationRoot(b)
<1> DEFINE s == sortOracleAttestations(a)
           t == sortOracleAttestations(b)
           u == dedupeOracleAttestationsBySourceID(s)
           w == dedupeOracleAttestationsBySourceID(t)
<1>1. a = <<>> <=> b = <<>>
  <2>1. \A c \in Seq(Att) : c = <<>> <=> Range(c) = {}
    <3>1. ASSUME NEW c \in Seq(Att) PROVE c = <<>> <=> Range(c) = {}
      <4>1. CASE c = <<>>
        BY <4>1 DEF Range
      <4>2. CASE c # <<>>
        <5>1. 1 \in DOMAIN c
          BY <4>2
        <5> QED BY <4>2, <5>1 DEF Range
      <4> QED BY <4>1, <4>2
    <3> QED BY <3>1
  <2> QED BY <2>1
<1>2. InOrder(s, Len(a)) /\ Range(s) = Range(a) /\ Len(a) \in Nat
  BY AttsSorted
<1>3. InOrder(t, Len(b)) /\ Range(t) = Range(b) /\ Len(b) \in Nat
  BY AttsSorted
<1> HIDE DEF s, t
<1>4. u \in Seq(Att) /\ Ascending(u, SourceOrder) /\ Range(u) = LeastAtts(Range(s))
  BY <1>2, Deduped
<1>5. w \in Seq(Att) /\ Ascending(w, SourceOrder) /\ Range(w) = LeastAtts(Range(t))
  BY <1>3, Deduped
<1> HIDE DEF u, w
<1>6. u = w
  BY <1>2, <1>3, <1>4, <1>5, SourcesAsymmetric, SameAscending
<1> QED BY <1>1, <1>6 DEF aggregateAttestationRoot, u, w, s, t

-----------------------------------------------------------------------------
(* The invariant of voting and of the tally *)

\* A vote carries nothing, a root of an older sidecar, or the attestations of a
\* report and their root.
Cast(v, x) ==
    \/ x = NoExt
    \/ v \in Legacy /\ x.root \in LegacyRoots
    \/ /\ v \notin Legacy
       /\ \E report \in Reports :
             /\ report.atts # <<>> /\ x.atts = report.atts
             /\ x.root = aggregateAttestationRoot(report.atts)

Casts(c) == \A v \in DOMAIN c : c[v] \in Exts /\ Cast(v, c[v])

VotesShape ==
    /\ enabledChains \subseteq ChainId /\ stage \in {"vote", "process"} /\ done \subseteq Replica
    /\ DOMAIN ext \subseteq Val /\ Casts(ext)
    /\ (commit = <<>> \/ DOMAIN commit = Val) /\ Casts(commit)
    /\ todo \in [Replica -> SUBSET (ChainId \X Nat)]
    /\ best \in [Replica -> [ChainId -> Best]]
    /\ winners \in [Replica -> Seq(ChainId)] /\ calls \in [Replica -> Seq(ChainId)]
    /\ rows \in [Replica -> [ChainId -> Row \cup {NoRoot}]]

\* While votes are collected, there is nothing to tally.
Idle ==
    stage = "vote" =>
        /\ commit = <<>> /\ done = {}
        /\ \A r \in Replica :
              /\ todo[r] = {} /\ winners[r] = <<>>
              /\ \A ch \in ChainId : best[r][ch] = NoBest

\* All votes of a commit but the proposer's were verified.
Verified ==
    stage = "process" =>
        \E p \in Val : \A v \in Extended(commit) \ {p} :
            commit[v].chain \in enabledChains /\ verifyOracleAttestations(commit[v].atts)

\* The votes of the commit c for the root x of a chain, and their power.
VotersOf(c, x) == {v \in Extended(c) : c[v].chain = x[1] /\ c[v].root = x[2]}

Weight(c, x) == PowerOf(VotersOf(c, x))

\* The roots of a chain with enough votes, when those in td are not yet visited.
Seen(c, td, ch) ==
    {x \in RootsIn(c) \ td : x[1] = ch /\ Weight(c, x) >= quorumThreshold}

\* The best root is one of them.
BestOf(c, td, ch, b) ==
    IF Seen(c, td, ch) = {} THEN b = NoBest
    ELSE \E x \in Seen(c, td, ch) : b = [root |-> x[2], power |-> Weight(c, x)]

\* A chain is a winner when all its roots are visited and one has enough votes.
Won(c, td, ch) == Seen(c, td, ch) # {} /\ \A y \in td : y[1] # ch

TalliedBy(c, td, bs, ws) ==
    /\ td \subseteq RootsIn(c)
    /\ \A ch \in ChainId : BestOf(c, td, ch, bs[ch]) /\ (ch \in Range(ws) <=> Won(c, td, ch))
    /\ IsInjective(ws)

Tallied == \A r \in Replica : TalliedBy(commit, todo[r], best[r], winners[r])

\* The row of a winner, and the rows after the winners are written.
RowOf(c, ch, b) == [root |-> b.root, count |-> Cardinality(VotersOf(c, <<ch, b.root>>))]

Outcome(c, bs, ws, old) ==
    [ch \in ChainId |-> IF ch \in Range(ws) THEN RowOf(c, ch, bs[ch]) ELSE old[ch]]

WrittenBy(c, td, bs, ws, cl, rw) ==
    /\ td = {} /\ cl = Sorted(ws, <)
    /\ \A ch \in Range(ws) : rw[ch] = RowOf(c, ch, bs[ch])

Written ==
    \A r \in done : WrittenBy(commit, todo[r], best[r], winners[r], calls[r], rows[r])

VotesInv == VotesShape /\ Idle /\ Verified /\ Tallied /\ Written

\* No empty root ties with another: no older sidecar sends one, or those that do are
\* too few for a quorum, or two roots cannot both have a quorum.
EmptyNeverTies ==
    \/ EmptyRoot \notin LegacyRoots
    \/ PowerOf(Legacy) < quorumThreshold
    \/ 2 * quorumThreshold > PowerOf(Val)

\* The best root has more votes than the others, or is the smallest of the best.
Picks(c, td, bs) ==
    \A ch \in ChainId : \A x \in Seen(c, td, ch) :
        \/ Weight(c, x) < bs[ch].power
        \/ Weight(c, x) = bs[ch].power /\ bs[ch].root <= x[2]

BestWins == \A r \in Replica : Picks(commit, todo[r], best[r])

\* Replicas that have not written hold the same rows, from which those that have
\* written got theirs.
SameRows ==
    /\ \A r, s \in Replica \ done : rows[r] = rows[s]
    /\ \A r \in done, s \in Replica \ done :
          rows[r] = Outcome(commit, best[r], winners[r], rows[s])
    /\ \A r, s \in done : rows[r] = rows[s]

AgreeInv == BestWins /\ SameRows

-----------------------------------------------------------------------------
(* Voting power *)

\* The power of some validators is a natural number, at most that of more.
LEMMA PowerMonotone ==
    ASSUME NEW U \in SUBSET Val, NEW T \in SUBSET U
    PROVE  PowerOf(T) \in Nat /\ PowerOf(U) \in Nat /\ PowerOf(T) <= PowerOf(U) /\ IsFiniteSet(T)
<1>1. IsFiniteSet(U) /\ IsFiniteSet(T)
  BY ValAssumption, FS_Subset
<1>2. \A v \in U : Power[v] \in Nat
  BY ValAssumption
<1>3. PowerOf(T) \in Nat /\ PowerOf(T) <= PowerOf(U)
  BY <1>1, <1>2, SumMonotone DEF PowerOf
<1>4. PowerOf(U) \in Nat
  BY <1>1, <1>2, SumMonotone DEF PowerOf
<1> QED BY <1>1, <1>3, <1>4

\* One more validator adds its power.
LEMMA PowerWith ==
    ASSUME NEW T \in SUBSET Val, NEW v \in Val, v \notin T
    PROVE  PowerOf(T \cup {v}) = PowerOf(T) + Power[v]
<1> DEFINE U == T \cup {v}
<1>1. U \in SUBSET Val /\ v \in U /\ U \ {v} = T
  OBVIOUS
<1> HIDE DEF U
<1>2. IsFiniteSet(U) /\ IntOn(Power, U) /\ Power[v] \in Nat
  BY <1>1, ValAssumption, FS_Subset DEF IntOn
<1>3. PowerOf(U) = Power[v] + PowerOf(U \ {v})
  BY <1>1, <1>2, SumRemove DEF PowerOf
<1>4. PowerOf(T) \in Nat
  BY PowerMonotone
<1>5. PowerOf(U) = PowerOf(T) + Power[v]
  <2>1. PowerOf(U) = Power[v] + PowerOf(T)
    BY <1>1, <1>3, Zenon
  <2> QED BY <1>2, <1>4, <2>1
<1> QED BY <1>5 DEF U

\* The power of one validator.
LEMMA PowerSingle ==
    ASSUME NEW v \in Val
    PROVE  PowerOf({v}) = Power[v]
<1>1. PowerOf({}) = 0
  BY SumEmpty DEF PowerOf
<1>2. PowerOf({} \cup {v}) = PowerOf({}) + Power[v]
  BY PowerWith
<1>3. {} \cup {v} = {v} /\ Power[v] \in Nat
  BY ValAssumption
<1> QED BY <1>1, <1>2, <1>3

\* The power of two sets without common members is the sum of their powers.
LEMMA PowerUnion ==
    ASSUME NEW A \in SUBSET Val, NEW B \in SUBSET Val, A \cap B = {}
    PROVE  PowerOf(A \cup B) = PowerOf(A) + PowerOf(B)
<1> DEFINE Bad == {S \in SUBSET B : PowerOf(A \cup S) # PowerOf(A) + PowerOf(S)}
<1>1. ASSUME Bad # {} PROVE FALSE
  <2>1. PICK S \in Bad : \A T \in Bad : T \subseteq S => T = S
    <3>1. Bad \subseteq SUBSET B
      OBVIOUS
    <3>2. IsFiniteSet(B)
      BY ValAssumption, FS_Subset
    <3> HIDE DEF Bad
    <3> QED BY <1>1, <3>1, <3>2, SmallestSubset
  <2>2. S \in SUBSET B /\ PowerOf(A \cup S) # PowerOf(A) + PowerOf(S)
    OBVIOUS
  <2>3. PowerOf(A) \in Nat
    BY PowerMonotone
  <2>4. CASE S = {}
    <3>1. A \cup S = A /\ PowerOf(S) = 0
      BY <2>4, SumEmpty DEF PowerOf
    <3> QED BY <2>2, <2>3, <3>1
  <2>5. CASE S # {}
    <3>1. PICK v \in S : TRUE
      BY <2>5
    <3> DEFINE T == S \ {v}
    <3>2. T \in SUBSET B /\ T \subseteq S /\ T # S /\ T \notin Bad
      BY <2>1, <2>2, <3>1
    <3>3. PowerOf(A \cup T) = PowerOf(A) + PowerOf(T)
      BY <3>2
    <3>4. /\ v \in Val /\ v \notin T /\ v \notin A \cup T
          /\ A \cup T \in SUBSET Val /\ T \in SUBSET Val
      BY <2>2, <3>1
    <3>5. S = T \cup {v} /\ A \cup S = (A \cup T) \cup {v}
      BY <3>1
    <3> HIDE DEF T, Bad
    <3>6. PowerOf(S) = PowerOf(T) + Power[v]
      BY <3>4, <3>5, PowerWith
    <3> DEFINE AT == A \cup T
    <3>7. PowerOf(A \cup S) = PowerOf(AT) + Power[v]
      <4>1. AT \in SUBSET Val /\ v \notin AT /\ A \cup S = AT \cup {v}
        BY <3>4, <3>5
      <4> HIDE DEF AT
      <4> QED BY <3>4, <4>1, PowerWith
    <3>8. PowerOf(T) \in Nat /\ Power[v] \in Nat
      BY <3>4, PowerMonotone, ValAssumption
    <3> QED BY <2>2, <2>3, <3>3, <3>6, <3>7, <3>8
  <2> QED BY <2>4, <2>5
<1>2. B \notin Bad
  BY <1>1
<1> QED BY <1>2

\* The quorum is a natural number.
LEMMA QuorumType == quorumThreshold \in Nat
<1>1. PowerOf(Val) \in Nat
  BY PowerMonotone
<1>2. Numerator * PowerOf(Val) \in Nat
  <2>1. \A a, b \in Nat : a * b \in Nat
    OBVIOUS
  <2> QED BY <1>1, <2>1, FractionAssumption
<1>3. \A a \in Nat, d \in Nat \ {0} : a \div d \in Nat
  OBVIOUS
<1> QED BY <1>2, <1>3, FractionAssumption DEF quorumThreshold

-----------------------------------------------------------------------------
(* The order of the winners *)

ChainOrder == {z \in ChainId \X ChainId : z[1] < z[2]}

\* No two chains come each before the other.
LEMMA ChainsAsymmetric == Asymmetric(ChainOrder, ChainId)
<1>1. ASSUME NEW x \in ChainId, NEW y \in ChainId, <<x, y>> \in ChainOrder, <<y, x>> \in ChainOrder
      PROVE  FALSE
  <2>1. x \in Nat /\ y \in Nat
    BY ChainAssumption
  <2>2. x < y /\ y < x
    BY <1>1 DEF ChainOrder
  <2> QED BY <2>1, <2>2
<1> QED BY <1>1 DEF Asymmetric

AtMost == {z \in ChainId \X ChainId : ~ (z[2] < z[1])}

\* The order of the chains is total and transitive.
LEMMA AtMostOrders == Orders(AtMost, ChainId)
<1>1. \A x \in ChainId : x \in Nat
  BY ChainAssumption
<1>2. ASSUME NEW x \in ChainId, NEW y \in ChainId PROVE <<x, y>> \in AtMost <=> ~ (y < x)
  BY DEF AtMost
<1>3. ASSUME NEW x \in ChainId, NEW y \in ChainId PROVE <<x, y>> \in AtMost \/ <<y, x>> \in AtMost
  BY <1>1, <1>2
<1>4. ASSUME NEW x \in ChainId, NEW y \in ChainId, NEW z \in ChainId,
             <<x, y>> \in AtMost, <<y, z>> \in AtMost
      PROVE  <<x, z>> \in AtMost
  <2>1. x \in Nat /\ y \in Nat /\ z \in Nat /\ ~ (y < x) /\ ~ (z < y)
    BY <1>1, <1>2, <1>4
  <2>2. ~ (z < x)
    BY <2>1
  <2> QED BY <1>2, <2>2
<1> QED BY <1>3, <1>4 DEF Orders

\* Sorting keeps the chains and, when there are no duplicates, makes them ascend.
LEMMA ChainsSorted ==
    ASSUME NEW w \in Seq(ChainId), IsInjective(w)
    PROVE  /\ Sorted(w, <) \in Seq(ChainId) /\ Range(Sorted(w, <)) = Range(w)
           /\ Ascending(Sorted(w, <), ChainOrder)
<1> DEFINE n == Len(w)
           Good(p) == /\ p \in Bijection(1..n, 1..n)
                      /\ \A i, j \in 1..n : i < j => ~ (w[p[j]] < w[p[i]])
           p == CHOOSE p \in Bijection(1..n, 1..n) :
                   \A i, j \in 1..n : i < j => ~ (w[p[j]] < w[p[i]])
           t == [i \in 1..n |-> w[p[i]]]
<1>1. n \in Nat /\ DOMAIN w = 1..n /\ w \in [1..n -> ChainId] /\ \A i \in 1..n : w[i] \in ChainId
  OBVIOUS
<1>2. Sorted(w, <) = t
  BY <1>1 DEF Sorted
<1> HIDE DEF n
<1>3. Good(p)
  <2>1. PICK q : Arranges(q, w, n, AtMost)
    BY <1>1, AtMostOrders, Arrangement
  <2>2. q \in Bijection(1..n, 1..n)
    BY <2>1 DEF Arranges
  <2>3. \A i \in 1..n : w[q[i]] \in ChainId
    BY <1>1, <2>2 DEF Bijection, Injection
  <2>4. Good(q)
    BY <2>1, <2>2, <2>3 DEF Arranges, AtMost
  <2> QED BY <2>2, <2>4
<1> HIDE DEF p
<1>4. \A i \in 1..n : p[i] \in 1..n
  BY <1>3 DEF Bijection, Injection
<1>5. \A i, j \in 1..n : p[i] = p[j] => i = j
  BY <1>3 DEF Bijection, Injection, IsInjective
<1>6. \A k \in 1..n : \E i \in 1..n : p[i] = k
  BY <1>3 DEF Bijection, Surjection
<1>7. \A i \in 1..n : t[i] = w[p[i]] /\ t[i] \in ChainId
  BY <1>1, <1>4
<1>8. t \in Seq(ChainId) /\ Len(t) = n /\ DOMAIN t = 1..n
  BY <1>1, <1>7
<1> HIDE DEF t
<1>9. Range(t) = Range(w)
  <2>1. ASSUME NEW x \in Range(t) PROVE x \in Range(w)
    <3>1. PICK i \in 1..n : x = t[i]
      BY <1>8 DEF Range
    <3> QED BY <1>1, <1>4, <1>7, <3>1 DEF Range
  <2>2. ASSUME NEW x \in Range(w) PROVE x \in Range(t)
    <3>1. PICK k \in 1..n : x = w[k]
      BY <1>1 DEF Range
    <3>2. PICK i \in 1..n : p[i] = k
      BY <1>6
    <3>3. x = t[i] /\ i \in DOMAIN t
      BY <1>7, <1>8, <3>1, <3>2
    <3> QED BY <3>3 DEF Range
  <2> QED BY <2>1, <2>2
<1>10. ASSUME NEW i \in 1..n, NEW j \in 1..n, i < j PROVE <<t[i], t[j]>> \in ChainOrder
  <2>1. t[i] \in ChainId /\ t[j] \in ChainId /\ ~ (t[j] < t[i])
    BY <1>3, <1>7, <1>10
  <2>2. p[i] # p[j]
    BY <1>5, <1>10
  <2>3. t[i] # t[j]
    <3>1. p[i] \in DOMAIN w /\ p[j] \in DOMAIN w
      BY <1>1, <1>4
    <3> QED BY <1>7, <2>2, <3>1 DEF IsInjective
  <2>4. t[i] < t[j]
    <3>1. t[i] \in Nat /\ t[j] \in Nat
      BY <2>1, ChainAssumption
    <3> QED BY <2>1, <2>3, <3>1
  <2> QED BY <2>1, <2>4 DEF ChainOrder
<1>11. Ascending(t, ChainOrder)
  BY <1>8, <1>10 DEF Ascending
<1> QED BY <1>2, <1>8, <1>9, <1>11

-----------------------------------------------------------------------------
(* The votes of a commit *)

CommitOk(c) == (c = <<>> \/ DOMAIN c = Val) /\ Casts(c)

\* The voters for a root are validators, and their power is a number.
LEMMA VotersType ==
    ASSUME NEW c, CommitOk(c), NEW x
    PROVE  VotersOf(c, x) \in SUBSET Val /\ Weight(c, x) \in Nat
<1>1. DOMAIN c \subseteq Val
  BY DEF CommitOk
<1>2. VotersOf(c, x) \in SUBSET Val
  BY <1>1 DEF VotersOf, Extended
<1> QED BY <1>2, PowerMonotone DEF Weight

\* A root in the commit has a chain, is a number and has a voter.
LEMMA RootType ==
    ASSUME NEW c, CommitOk(c), NEW x \in RootsIn(c)
    PROVE  /\ x[1] \in ChainId /\ x[2] \in Nat /\ x = <<x[1], x[2]>>
           /\ VotersOf(c, x) # {}
<1>1. PICK v \in Extended(c) : x = <<c[v].chain, c[v].root>>
  BY DEF RootsIn
<1>2. c[v] \in Exts /\ c[v] # NoExt
  BY <1>1 DEF Extended, CommitOk, Casts
<1>3. c[v].chain \in ChainId /\ c[v].root \in Nat
  BY <1>2 DEF Exts
<1>4. x[1] = c[v].chain /\ x[2] = c[v].root
  BY <1>1
<1>5. v \in VotersOf(c, x)
  BY <1>1, <1>4 DEF VotersOf
<1> QED BY <1>1, <1>3, <1>4, <1>5

\* Only older sidecars vote for the empty root.
LEMMA EmptyVoters ==
    ASSUME NEW c, CommitOk(c), NEW x, x[2] = EmptyRoot, NEW v \in VotersOf(c, x)
    PROVE  v \in Legacy /\ EmptyRoot \in LegacyRoots
<1>1. v \in DOMAIN c /\ c[v] # NoExt /\ c[v].root = EmptyRoot
  BY DEF VotersOf, Extended
<1>2. Cast(v, c[v])
  BY <1>1 DEF CommitOk, Casts
<1>3. ASSUME NEW report \in Reports, report.atts # <<>>,
             c[v].root = aggregateAttestationRoot(report.atts)
      PROVE  FALSE
  <2>1. aggregateAttestationRoot(report.atts) # EmptyRoot
    BY <1>3, DigestAssumption
  <2> QED BY <1>1, <1>3, <2>1
<1> QED BY <1>1, <1>2, <1>3 DEF Cast

\* An empty root with enough votes has no rival.
LEMMA NoTieWithEmpty ==
    ASSUME NEW c, CommitOk(c), EmptyNeverTies, NEW x \in RootsIn(c), NEW y \in RootsIn(c),
           x[2] = EmptyRoot,
           Weight(c, x) >= quorumThreshold, Weight(c, y) >= quorumThreshold
    PROVE  x = y
<1> DEFINE A == VotersOf(c, x)
           B == VotersOf(c, y)
<1>1. A \in SUBSET Val /\ B \in SUBSET Val /\ Weight(c, x) \in Nat /\ Weight(c, y) \in Nat
  BY VotersType
<1>2. A # {}
  BY RootType
<1>3. \A v \in A : v \in Legacy /\ EmptyRoot \in LegacyRoots
  BY EmptyVoters
<1>4. Weight(c, x) = PowerOf(A) /\ Weight(c, y) = PowerOf(B)
  BY DEF Weight
<1>5. ASSUME x # y PROVE A \cap B = {}
  <2>1. x = <<x[1], x[2]>> /\ y = <<y[1], y[2]>>
    BY RootType
  <2>2. ASSUME NEW v \in A, v \in B PROVE FALSE
    <3>1. x[1] = c[v].chain /\ x[2] = c[v].root /\ y[1] = c[v].chain /\ y[2] = c[v].root
      BY <2>2 DEF VotersOf
    <3>2. x[1] = y[1] /\ x[2] = y[2]
      BY <3>1
    <3> QED BY <1>5, <2>1, <3>2
  <2> QED BY <2>2
<1> HIDE DEF A, B
<1>6. quorumThreshold \in Nat
  BY QuorumType
<1>7. CASE EmptyRoot \notin LegacyRoots
  BY <1>2, <1>3, <1>7
<1>8. CASE PowerOf(Legacy) < quorumThreshold
  <2>1. A \in SUBSET Legacy /\ Legacy \in SUBSET Val
    BY <1>3, ValAssumption
  <2>2. PowerOf(A) <= PowerOf(Legacy) /\ PowerOf(Legacy) \in Nat
    BY <2>1, PowerMonotone
  <2> QED BY <1>1, <1>4, <1>6, <1>8, <2>2
<1>9. CASE 2 * quorumThreshold > PowerOf(Val)
  <2>1. ASSUME x # y PROVE FALSE
    <3>1. PowerOf(A \cup B) = PowerOf(A) + PowerOf(B)
      BY <1>1, <1>5, <2>1, PowerUnion
    <3>2. A \cup B \in SUBSET Val
      BY <1>1
    <3>3. PowerOf(A \cup B) <= PowerOf(Val) /\ PowerOf(Val) \in Nat
      BY <3>2, PowerMonotone
    <3> HIDE DEF EmptyRoot
    <3> QED BY <1>1, <1>4, <1>6, <1>9, <3>1, <3>3
  <2> QED BY <2>1
<1> QED BY <1>7, <1>8, <1>9 DEF EmptyNeverTies

-----------------------------------------------------------------------------
(* One turn of the tally *)

\* A root seen has a chain, is a number and has enough votes.
LEMMA SeenType ==
    ASSUME NEW c, CommitOk(c), NEW td, NEW ch, NEW x \in Seen(c, td, ch)
    PROVE  /\ x \in RootsIn(c) /\ x \notin td /\ x[1] = ch /\ x[2] \in Nat /\ x = <<ch, x[2]>>
           /\ Weight(c, x) \in Nat /\ Weight(c, x) >= quorumThreshold
<1>1. x \in RootsIn(c) /\ x \notin td /\ x[1] = ch /\ Weight(c, x) >= quorumThreshold
  BY DEF Seen
<1>2. x[2] \in Nat /\ x = <<x[1], x[2]>>
  BY <1>1, RootType
<1>3. Weight(c, x) \in Nat
  BY VotersType
<1> QED BY <1>1, <1>2, <1>3

\* The best root so far wins when there is one with enough votes.
LEMMA WinnerIsSeen ==
    ASSUME NEW c, CommitOk(c), NEW td, NEW ch, NEW b, BestOf(c, td, ch, b)
    PROVE  isWinner(b) <=> Seen(c, td, ch) # {}
<1>1. quorumThreshold \in Nat
  BY QuorumType
<1>2. CASE Seen(c, td, ch) = {}
  <2>1. b.power = -1
    BY <1>2 DEF BestOf, NoBest
  <2> QED BY <1>1, <1>2, <2>1 DEF isWinner
<1>3. CASE Seen(c, td, ch) # {}
  <2>1. PICK x \in Seen(c, td, ch) : b = [root |-> x[2], power |-> Weight(c, x)]
    BY <1>3 DEF BestOf
  <2>2. b.power >= quorumThreshold
    BY <2>1, SeenType
  <2> QED BY <1>3, <2>2 DEF isWinner
<1> QED BY <1>2, <1>3

\* What the visit of x adds to the roots seen.
LEMMA SeenAfter ==
    ASSUME NEW c, NEW td, td \subseteq RootsIn(c), NEW x \in td, NEW ch
    PROVE  Seen(c, td \ {x}, ch) =
             Seen(c, td, ch) \cup {y \in {x} : y[1] = ch /\ Weight(c, y) >= quorumThreshold}
BY DEF Seen

\* A chain that is new to a list is appended to it.
LEMMA AppendNew ==
    ASSUME NEW X, NEW s \in Seq(X), NEW e \in X
    PROVE  /\ Range(Append(s, e)) = Range(s) \cup {e}
           /\ IsInjective(s) /\ e \notin Range(s) => IsInjective(Append(s, e))
<1> DEFINE t == Append(s, e)
           n == Len(s)
<1>1. n \in Nat /\ DOMAIN s = 1..n /\ DOMAIN t = 1..(n + 1)
  OBVIOUS
<1>2. \A i \in 1..n : t[i] = s[i]
  OBVIOUS
<1>3. t[n + 1] = e
  OBVIOUS
<1> HIDE DEF t, n
<1>4. \A i \in 1..(n + 1) : i \in 1..n \/ i = n + 1
  BY <1>1
<1>5. \A i \in 1..n : i \in 1..(n + 1)
  BY <1>1
<1>6. n + 1 \in 1..(n + 1)
  BY <1>1
<1>7. Range(t) = Range(s) \cup {e}
  <2>1. ASSUME NEW y \in Range(t) PROVE y \in Range(s) \cup {e}
    <3>1. PICK i \in 1..(n + 1) : y = t[i]
      BY <1>1 DEF Range
    <3> QED BY <1>1, <1>2, <1>3, <1>4, <3>1 DEF Range
  <2>2. ASSUME NEW y \in Range(s) PROVE y \in Range(t)
    <3>1. PICK i \in 1..n : y = s[i]
      BY <1>1 DEF Range
    <3> QED BY <1>1, <1>2, <1>5, <3>1 DEF Range
  <2>3. e \in Range(t)
    BY <1>1, <1>3, <1>6 DEF Range
  <2> QED BY <2>1, <2>2, <2>3
<1>8. ASSUME IsInjective(s), e \notin Range(s) PROVE IsInjective(t)
  <2>1. \A i \in 1..n : s[i] # e
    BY <1>1, <1>8 DEF Range
  <2>2. ASSUME NEW i \in 1..(n + 1), NEW j \in 1..(n + 1), t[i] = t[j] PROVE i = j
    <3>1. CASE i \in 1..n /\ j \in 1..n
      BY <1>1, <1>2, <1>8, <2>2, <3>1 DEF IsInjective
    <3>2. CASE i \in 1..n /\ j = n + 1
      BY <1>2, <1>3, <2>1, <2>2, <3>2
    <3>3. CASE i = n + 1 /\ j \in 1..n
      BY <1>2, <1>3, <2>1, <2>2, <3>3
    <3>4. CASE i = n + 1 /\ j = n + 1
      BY <3>4
    <3> QED BY <1>4, <3>1, <3>2, <3>3, <3>4
  <2> QED BY <1>1, <2>2 DEF IsInjective
<1> QED BY <1>7, <1>8 DEF t

\* The best root after the visit of x.
NewBest(c, x, b) ==
    IF Weight(c, x) >= quorumThreshold /\ better(Weight(c, x), x[2], b)
    THEN [root |-> x[2], power |-> Weight(c, x)] ELSE b

\* The best root after a visit is one of the roots seen.
LEMMA BestAfter ==
    ASSUME NEW c, CommitOk(c), NEW td, td \subseteq RootsIn(c), NEW x \in td,
           NEW b, BestOf(c, td, x[1], b)
    PROVE  BestOf(c, td \ {x}, x[1], NewBest(c, x, b)) /\ NewBest(c, x, b) \in Best \cup {b}
<1> DEFINE S == Seen(c, td, x[1])
           T == Seen(c, td \ {x}, x[1])
           enough == Weight(c, x) >= quorumThreshold
<1>1. T = S \cup {y \in {x} : y[1] = x[1] /\ Weight(c, y) >= quorumThreshold}
  BY SeenAfter
<1>2. Weight(c, x) \in Nat /\ x[2] \in Nat
  BY VotersType, RootType
<1>3. S = {} => b = NoBest
  BY DEF BestOf
<1>4. S # {} => \E y \in S : b = [root |-> y[2], power |-> Weight(c, y)]
  BY DEF BestOf
<1> HIDE DEF S, T
<1>5. (enough => T = S \cup {x}) /\ (~ enough => T = S)
  BY <1>1
<1>6. CASE enough /\ better(Weight(c, x), x[2], b)
  <2>1. NewBest(c, x, b) = [root |-> x[2], power |-> Weight(c, x)] /\ x \in T
    BY <1>5, <1>6 DEF NewBest
  <2>2. NewBest(c, x, b) \in Best
    BY <1>2, <2>1 DEF Best
  <2> QED BY <2>1, <2>2 DEF BestOf, T
<1>7. CASE enough /\ ~ better(Weight(c, x), x[2], b)
  <2>1. NewBest(c, x, b) = b
    BY <1>7 DEF NewBest
  <2>2. b # NoBest
    BY <1>2, <1>7 DEF better, NoBest
  <2>3. PICK y \in S : b = [root |-> y[2], power |-> Weight(c, y)]
    BY <1>3, <1>4, <2>2
  <2>4. y \in T
    BY <1>5, <1>7, <2>3
  <2> QED BY <2>1, <2>3, <2>4 DEF BestOf, T
<1>8. CASE ~ enough
  <2>1. NewBest(c, x, b) = b /\ T = S
    BY <1>5, <1>8 DEF NewBest
  <2> QED BY <2>1 DEF BestOf, S, T
<1> QED BY <1>6, <1>7, <1>8

\* The winners after the visit of x.
NewWinners(c, td, x, b, ws) ==
    IF (\A y \in td \ {x} : y[1] # x[1]) /\ isWinner(b) THEN Append(ws, x[1]) ELSE ws

\* A visit keeps what the tally of a replica promises.
LEMMA TalliedAfter ==
    ASSUME NEW c, CommitOk(c), NEW td, NEW bs \in [ChainId -> Best], NEW ws \in Seq(ChainId),
           TalliedBy(c, td, bs, ws), NEW x \in td,
           NEW b, b = NewBest(c, x, bs[x[1]]), NEW ds, ds = [bs EXCEPT ![x[1]] = b]
    PROVE  /\ TalliedBy(c, td \ {x}, ds, NewWinners(c, td, x, b, ws))
           /\ ds \in [ChainId -> Best] /\ NewWinners(c, td, x, b, ws) \in Seq(ChainId)
<1> DEFINE left == td \ {x}
           last == \A y \in left : y[1] # x[1]
           wt == NewWinners(c, td, x, b, ws)
<1>1. td \subseteq RootsIn(c) /\ left \subseteq RootsIn(c) /\ IsInjective(ws)
  BY DEF TalliedBy
<1>2. x[1] \in ChainId
  BY <1>1, RootType
<1>3. BestOf(c, td, x[1], bs[x[1]])
  BY <1>2 DEF TalliedBy
<1>4. BestOf(c, left, x[1], b) /\ b \in Best
  <2>1. b \in Best \cup {bs[x[1]]} /\ bs[x[1]] \in Best
    BY <1>1, <1>2, <1>3, BestAfter
  <2> QED BY <1>1, <1>3, <2>1, BestAfter
<1>5. isWinner(b) <=> Seen(c, left, x[1]) # {}
  BY <1>4, WinnerIsSeen
<1>6. x[1] \notin Range(ws)
  BY <1>2 DEF TalliedBy, Won
<1>7. ds \in [ChainId -> Best] /\ ds[x[1]] = b /\ \A ch \in ChainId : ch # x[1] => ds[ch] = bs[ch]
  BY <1>2, <1>4
<1>8. wt = IF last /\ isWinner(b) THEN Append(ws, x[1]) ELSE ws
  BY DEF NewWinners
<1>9. wt \in Seq(ChainId) /\ IsInjective(wt)
  <2>1. Append(ws, x[1]) \in Seq(ChainId)
    BY <1>2
  <2>2. IsInjective(Append(ws, x[1]))
    BY <1>1, <1>2, <1>6, AppendNew
  <2> HIDE DEF wt, last
  <2> QED BY <1>1, <1>8, <2>1, <2>2
<1>10. Range(wt) = IF last /\ isWinner(b) THEN Range(ws) \cup {x[1]} ELSE Range(ws)
  <2>1. Range(Append(ws, x[1])) = Range(ws) \cup {x[1]}
    BY <1>2, AppendNew
  <2> HIDE DEF wt, last
  <2> QED BY <1>8, <2>1
<1> HIDE DEF wt
<1>11. ASSUME NEW ch \in ChainId
       PROVE  BestOf(c, left, ch, ds[ch]) /\ (ch \in Range(wt) <=> Won(c, left, ch))
  <2>1. CASE ch = x[1]
    <3>1. Won(c, left, ch) <=> last /\ isWinner(b)
      BY <1>5, <2>1 DEF Won
    <3>2. ch \in Range(wt) <=> last /\ isWinner(b)
      <4> HIDE DEF last
      <4> QED BY <1>6, <1>10, <2>1
    <3> QED BY <1>4, <1>7, <2>1, <3>1, <3>2
  <2>2. CASE ch # x[1]
    <3>1. Seen(c, left, ch) = Seen(c, td, ch)
      <4>1. Seen(c, left, ch) =
              Seen(c, td, ch) \cup {y \in {x} : y[1] = ch /\ Weight(c, y) >= quorumThreshold}
        BY <1>1, SeenAfter
      <4> QED BY <2>2, <4>1
    <3>2. BestOf(c, td, ch, bs[ch]) /\ (ch \in Range(ws) <=> Won(c, td, ch))
      BY DEF TalliedBy
    <3>3. BestOf(c, left, ch, ds[ch])
      BY <1>7, <2>2, <3>1, <3>2 DEF BestOf
    <3>4. Won(c, left, ch) <=> Won(c, td, ch)
      BY <2>2, <3>1 DEF Won
    <3>5. ch \in Range(wt) <=> ch \in Range(ws)
      <4> HIDE DEF last
      <4> QED BY <1>10, <2>2
    <3> QED BY <3>2, <3>3, <3>4, <3>5
  <2> QED BY <2>1, <2>2
<1> QED BY <1>1, <1>7, <1>9, <1>11 DEF TalliedBy, wt

\* ... and the best root beats all roots seen, where no empty root ties.
LEMMA PicksAfter ==
    ASSUME NEW c, CommitOk(c), EmptyNeverTies, NEW td, NEW bs \in [ChainId -> Best],
           td \subseteq RootsIn(c), \A ch \in ChainId : BestOf(c, td, ch, bs[ch]),
           Picks(c, td, bs), NEW x \in td,
           NEW b, b = NewBest(c, x, bs[x[1]]), NEW ds, ds = [bs EXCEPT ![x[1]] = b]
    PROVE  Picks(c, td \ {x}, ds)
<1> DEFINE left == td \ {x}
           S == Seen(c, td, x[1])
           a == bs[x[1]]
           enough == Weight(c, x) >= quorumThreshold
<1>1. x[1] \in ChainId /\ x[2] \in Nat /\ x \in RootsIn(c) /\ Weight(c, x) \in Nat
  BY RootType, VotersType
<1>2. ds[x[1]] = b /\ \A ch \in ChainId : ch # x[1] => ds[ch] = bs[ch]
  BY <1>1
<1>3. S # {} => \E z \in S : a = [root |-> z[2], power |-> Weight(c, z)]
  BY <1>1 DEF BestOf
<1>4. S = {} => a = NoBest
  BY <1>1 DEF BestOf
<1>5. a \in Best
  BY <1>1
<1>6. a.root \in Nat /\ a.power \in Int
  BY <1>5 DEF Best
<1>7. \A y \in S : Weight(c, y) < a.power \/ (Weight(c, y) = a.power /\ a.root <= y[2])
  BY <1>1 DEF Picks
<1>8. \A y \in S : y[2] \in Nat /\ Weight(c, y) \in Nat
  BY SeenType
<1> HIDE DEF a, S
<1>9. ASSUME NEW y \in Seen(c, left, x[1])
      PROVE  Weight(c, y) < b.power \/ (Weight(c, y) = b.power /\ b.root <= y[2])
  <2>1. y \in S \/ (y = x /\ enough)
    <3>1. Seen(c, left, x[1]) =
             S \cup {z \in {x} : z[1] = x[1] /\ Weight(c, z) >= quorumThreshold}
      BY SeenAfter DEF S
    <3> QED BY <3>1
  <2>2. CASE enough /\ better(Weight(c, x), x[2], a)
    <3>1. b.root = x[2] /\ b.power = Weight(c, x)
      BY <2>2 DEF NewBest, a
    <3>2. CASE y = x
      BY <1>1, <3>1, <3>2
    <3>3. CASE y \in S
      <4>1. PICK z \in S : a = [root |-> z[2], power |-> Weight(c, z)]
        BY <1>3, <3>3
      <4>2. a.root # EmptyRoot \/ a.power < Weight(c, x)
        <5>1. ASSUME z[2] = EmptyRoot PROVE FALSE
          <6>1. z \in RootsIn(c) /\ z \notin td /\ Weight(c, z) >= quorumThreshold
            BY SeenType DEF S
          <6>2. z = x
            BY <1>1, <2>2, <5>1, <6>1, NoTieWithEmpty
          <6> QED BY <6>1, <6>2
        <5> QED BY <4>1, <5>1
      <4>3. a.power < Weight(c, x) \/ (a.power = Weight(c, x) /\ x[2] < a.root)
        BY <1>1, <1>6, <2>2, <4>2 DEF better
      <4>4. Weight(c, y) < a.power \/ (Weight(c, y) = a.power /\ a.root <= y[2])
        BY <1>7, <3>3
      <4>5. y[2] \in Nat /\ Weight(c, y) \in Nat
        BY <1>8, <3>3
      <4> QED BY <1>1, <1>6, <3>1, <4>3, <4>4, <4>5
    <3> QED BY <2>1, <3>2, <3>3
  <2>3. CASE ~ (enough /\ better(Weight(c, x), x[2], a))
    <3>1. b = a
      BY <2>3 DEF NewBest, a
    <3>2. CASE y \in S
      BY <1>7, <3>1, <3>2
    <3>3. CASE y = x /\ enough
      <4>1. ~ better(Weight(c, x), x[2], a)
        BY <2>3, <3>3
      <4>2. Weight(c, x) < a.power \/ (Weight(c, x) = a.power /\ a.root <= x[2])
        BY <1>1, <1>6, <4>1 DEF better
      <4> QED BY <3>1, <3>3, <4>2
    <3> QED BY <2>1, <3>2, <3>3
  <2> QED BY <2>2, <2>3
<1>10. ASSUME NEW ch \in ChainId, NEW y \in Seen(c, left, ch)
       PROVE  Weight(c, y) < ds[ch].power \/ (Weight(c, y) = ds[ch].power /\ ds[ch].root <= y[2])
  <2>1. CASE ch = x[1]
    BY <1>2, <1>9, <2>1
  <2>2. CASE ch # x[1]
    <3>1. y \in Seen(c, td, ch)
      <4>1. Seen(c, left, ch) =
              Seen(c, td, ch) \cup {z \in {x} : z[1] = ch /\ Weight(c, z) >= quorumThreshold}
        BY SeenAfter
      <4> QED BY <2>2, <4>1
    <3> QED BY <1>2, <2>2, <3>1 DEF Picks
  <2> QED BY <2>1, <2>2
<1> QED BY <1>10 DEF Picks

\* Before the first visit no root is seen.
LEMMA NothingSeen ==
    ASSUME NEW c, NEW td, RootsIn(c) \subseteq td, NEW ch
    PROVE  Seen(c, td, ch) = {}
BY DEF Seen

\* A tally starts with no best root and no winner.
LEMMA NothingTallied ==
    ASSUME NEW c, NEW bs, \A ch \in ChainId : bs[ch] = NoBest, NEW ws, ws = <<>>,
           NEW td, td = RootsIn(c)
    PROVE  TalliedBy(c, td, bs, ws) /\ Picks(c, td, bs)
<1>1. \A ch \in ChainId : Seen(c, td, ch) = {}
  BY NothingSeen
<1>2. Range(ws) = {} /\ IsInjective(ws)
  BY DEF Range, IsInjective
<1> QED BY <1>1, <1>2 DEF TalliedBy, Picks, BestOf, Won

\* An empty commit has no roots.
LEMMA NoRoots ==
    ASSUME NEW c, Extended(c) = {}
    PROVE  RootsIn(c) = {} /\ RootsIn(<<>>) = {}
<1>1. Extended(<<>>) = {}
  BY DEF Extended
<1> QED BY <1>1 DEF RootsIn

-----------------------------------------------------------------------------
(* Every step keeps the invariant *)

\* The invariant holds at the start.
LEMMA VotesInitInv ==
    ASSUME VotesInit
    PROVE  VotesInv /\ AgreeInv
<1>1. /\ enabledChains \in SUBSET ChainId
      /\ ext = <<>> /\ commit = <<>> /\ stage = "vote" /\ done = {}
      /\ todo = [r \in Replica |-> {}] /\ winners = [r \in Replica |-> <<>>]
      /\ calls = [r \in Replica |-> <<>>]
      /\ best = [r \in Replica |-> [ch \in ChainId |-> NoBest]]
      /\ rows = [r \in Replica |-> [ch \in ChainId |-> NoRoot]]
  BY DEF VotesInit, EachReplica
<1>2. RootsIn(<<>>) = {}
  BY NoRoots DEF Extended
<1>3. Casts(<<>>)
  BY DEF Casts
<1>4. VotesShape
  <2>1. NoBest \in Best
    BY DEF NoBest, Best, EmptyRoot
  <2> HIDE DEF NoBest
  <2> QED BY <1>1, <1>3, <2>1 DEF VotesShape
<1>5. Idle
  BY <1>1 DEF Idle
<1>6. Verified
  BY <1>1 DEF Verified
<1>7. ASSUME NEW r \in Replica
      PROVE  TalliedBy(commit, todo[r], best[r], winners[r]) /\ Picks(commit, todo[r], best[r])
  BY <1>1, <1>2, NothingTallied
<1>8. Written /\ SameRows
  BY <1>1 DEF Written, SameRows
<1> QED BY <1>4, <1>5, <1>6, <1>7, <1>8 DEF VotesInv, AgreeInv, Tallied, BestWins

\* Votes do not touch the tally.
LEMMA VotingKeeps ==
    ASSUME VotesInv, UNCHANGED <<enabledChains, commit, stage, tally, store>>,
           DOMAIN ext' \subseteq Val, Casts(ext')
    PROVE  VotesInv' /\ (AgreeInv => AgreeInv')
<1>1. /\ enabledChains' = enabledChains /\ commit' = commit /\ stage' = stage
      /\ todo' = todo /\ best' = best /\ winners' = winners
      /\ rows' = rows /\ calls' = calls /\ done' = done
  BY DEF tally, store
<1>2. VotesShape'
  BY <1>1 DEF VotesInv, VotesShape
<1>3. Idle' /\ Verified'
  BY <1>1 DEF VotesInv, Idle, Verified
<1>4. Tallied' /\ Written'
  BY <1>1 DEF VotesInv, Tallied, Written
<1>5. AgreeInv => AgreeInv'
  BY <1>1 DEF AgreeInv, BestWins, SameRows
<1> QED BY <1>2, <1>3, <1>4, <1>5 DEF VotesInv

\* A vote keeps the invariant.
LEMMA VoteKeeps ==
    ASSUME VotesInv, NEW v \in Val, NEW x \in Exts, Cast(v, x), Vote(v, x)
    PROVE  VotesInv' /\ (AgreeInv => AgreeInv')
<1>1. DOMAIN ext \subseteq Val /\ Casts(ext)
  BY DEF VotesInv, VotesShape
<1>2. ext' = [w \in DOMAIN ext \cup {v} |-> IF w = v THEN x ELSE ext[w]]
  BY DEF Vote
<1>3. DOMAIN ext' \subseteq Val
  BY <1>1, <1>2
<1>4. Casts(ext')
  BY <1>1, <1>2 DEF Casts
<1> QED BY <1>3, <1>4, VotingKeeps DEF Vote

\* Each kind of vote casts what its validator may cast.
LEMMA ExtensionsKeep ==
    ASSUME VotesInv, NEW v \in Val,
           \/ ExtendVoteEmpty(v)
           \/ \E report \in Reports : ExtendVote(v, report)
           \/ \E ch \in ChainId, root \in LegacyRoots : ExtendLegacyVote(v, ch, root)
    PROVE  VotesInv' /\ (AgreeInv => AgreeInv')
<1>1. NoExt \in Exts /\ Cast(v, NoExt)
  BY DEF Exts, Cast
<1>2. CASE ExtendVoteEmpty(v)
  BY <1>1, <1>2, VoteKeeps DEF ExtendVoteEmpty
<1>3. ASSUME NEW report \in Reports, ExtendVote(v, report)
      PROVE  VotesInv' /\ (AgreeInv => AgreeInv')
  <2> DEFINE root == aggregateAttestationRoot(report.atts)
             x == [chain |-> report.chain, root |-> root, atts |-> report.atts]
  <2>1. v \notin Legacy /\ Vote(v, fetchSidecar(report))
    BY <1>3 DEF ExtendVote
  <2>2. CASE report.atts = <<>> \/ report.root \notin {EmptyRoot, root}
    <3>1. fetchSidecar(report) = NoExt
      BY <2>2 DEF fetchSidecar
    <3> QED BY <1>1, <2>1, <3>1, VoteKeeps
  <2>3. CASE ~ (report.atts = <<>> \/ report.root \notin {EmptyRoot, root})
    <3>1. fetchSidecar(report) = x
      BY <2>3 DEF fetchSidecar
    <3>2. report.chain \in ChainId /\ root \in Nat
      BY <2>3, ReportAssumption, DigestAssumption
    <3>3. report.atts # <<>>
      BY <2>3
    <3> HIDE DEF root
    <3>4. x \in Exts
      BY <3>2 DEF Exts
    <3>5. x.root = root /\ x.atts = report.atts
      OBVIOUS
    <3> HIDE DEF x
    <3>6. Cast(v, x)
      BY <2>1, <3>3, <3>5 DEF Cast, root
    <3> QED BY <2>1, <3>1, <3>4, <3>6, VoteKeeps
  <2> QED BY <2>2, <2>3
<1>4. ASSUME NEW ch \in ChainId, NEW root \in LegacyRoots, ExtendLegacyVote(v, ch, root)
      PROVE  VotesInv' /\ (AgreeInv => AgreeInv')
  <2> DEFINE x == [chain |-> ch, root |-> root, atts |-> <<>>]
  <2>1. v \in Legacy /\ Vote(v, x)
    BY <1>4 DEF ExtendLegacyVote
  <2>2. root \in Nat
    BY ChainAssumption
  <2>3. x \in Exts
    BY <2>2 DEF Exts
  <2>4. x.root = root
    OBVIOUS
  <2> HIDE DEF x
  <2>5. Cast(v, x)
    BY <2>1, <2>4 DEF Cast
  <2> QED BY <2>1, <2>3, <2>5, VoteKeeps
<1> QED BY <1>2, <1>3, <1>4

\* A new round drops the votes.
LEMMA NewRoundKeeps ==
    ASSUME VotesInv, NewRound
    PROVE  VotesInv' /\ (AgreeInv => AgreeInv')
<1>1. ext' = <<>> /\ UNCHANGED <<enabledChains, commit, stage, tally, store>>
  BY DEF NewRound
<1>2. DOMAIN ext' \subseteq Val /\ Casts(ext')
  BY <1>1 DEF Casts
<1> QED BY <1>1, <1>2, VotingKeeps

\* The next commit.
LEMMA ProposalKeeps ==
    ASSUME VotesInv, NEW p \in Val, NEW S \in SUBSET Val, PrepareProposal(p, S)
    PROVE  VotesInv' /\ (AgreeInv => AgreeInv')
<1> DEFINE c == LocalLastCommit(S)
<1>1. /\ stage = "vote" /\ S \subseteq DOMAIN ext
      /\ \A v \in S \ {p} : VerifyVoteExtension(ext[v])
      /\ commit' = IF Extended(c) = {} THEN <<>> ELSE c
      /\ stage' = "process" /\ todo' = [r \in Replica |-> RootsIn(c)]
      /\ enabledChains' = enabledChains /\ ext' = ext /\ best' = best /\ winners' = winners
      /\ rows' = rows /\ calls' = calls /\ done' = done
  BY DEF PrepareProposal, EachReplica, store
<1>2. Casts(ext) /\ DOMAIN ext \subseteq Val
  BY DEF VotesInv, VotesShape
<1>3. /\ done = {}
      /\ \A r \in Replica : winners[r] = <<>> /\ \A ch \in ChainId : best[r][ch] = NoBest
  BY <1>1 DEF VotesInv, Idle
<1>4. DOMAIN c = Val /\ \A v \in Val : c[v] = IF v \in S THEN ext[v] ELSE NoExt
  BY DEF LocalLastCommit
<1> HIDE DEF c
<1>5. CommitOk(c)
  <2>1. ASSUME NEW v \in Val PROVE c[v] \in Exts /\ Cast(v, c[v])
    <3>1. CASE v \in S
      BY <1>1, <1>2, <1>4, <3>1 DEF Casts
    <3>2. CASE v \notin S
      BY <1>4, <3>2 DEF Cast, Exts
    <3> QED BY <3>1, <3>2
  <2> QED BY <1>4, <2>1 DEF CommitOk, Casts
<1>6. CommitOk(commit')
  BY <1>1, <1>5 DEF CommitOk, Casts
<1>7. RootsIn(c) = RootsIn(commit')
  <2>1. CASE Extended(c) = {}
    BY <1>1, <2>1, NoRoots
  <2>2. CASE Extended(c) # {}
    BY <1>1, <2>2
  <2> QED BY <2>1, <2>2
<1>8. RootsIn(c) \subseteq ChainId \X Nat
  BY <1>5, RootType
<1>9. VotesShape'
  <2>1. todo' \in [Replica -> SUBSET (ChainId \X Nat)]
    BY <1>1, <1>8
  <2> QED BY <1>1, <1>6, <2>1 DEF VotesInv, VotesShape, CommitOk
<1>10. Idle'
  BY <1>1 DEF Idle
<1>11. Verified'
  <2>1. ASSUME NEW v \in Extended(commit') \ {p}
        PROVE  commit'[v].chain \in enabledChains /\ verifyOracleAttestations(commit'[v].atts)
    <3>1. commit' = c /\ v \in Val /\ c[v] # NoExt
      <4>1. Extended(<<>>) = {}
        BY DEF Extended
      <4>2. commit' = c
        BY <1>1, <4>1
      <4> QED BY <1>4, <4>2 DEF Extended
    <3>2. v \in S /\ c[v] = ext[v]
      BY <1>4, <3>1
    <3>3. VerifyVoteExtension(ext[v])
      BY <1>1, <3>2
    <3> QED BY <3>1, <3>2, <3>3 DEF VerifyVoteExtension
  <2> QED BY <1>1, <2>1 DEF Verified
<1>12. ASSUME NEW r \in Replica
       PROVE  /\ TalliedBy(commit', todo'[r], best'[r], winners'[r])
              /\ Picks(commit', todo'[r], best'[r])
  <2>1. todo'[r] = RootsIn(commit')
    BY <1>1, <1>7
  <2> QED BY <1>1, <1>3, <2>1, NothingTallied
<1>13. Written'
  BY <1>1, <1>3 DEF Written
<1>14. ASSUME AgreeInv PROVE AgreeInv'
  <2>1. \A r, s \in Replica : rows[r] = rows[s]
    BY <1>3, <1>14 DEF AgreeInv, SameRows
  <2>2. SameRows'
    BY <1>1, <1>3, <2>1 DEF SameRows
  <2> QED BY <1>12, <2>2 DEF AgreeInv, BestWins
<1> QED BY <1>9, <1>10, <1>11, <1>12, <1>13, <1>14 DEF VotesInv, Tallied

\* The commit of a block is well formed.
LEMMA CommitIsOk ==
    ASSUME VotesInv
    PROVE  CommitOk(commit)
BY DEF VotesInv, VotesShape, CommitOk

\* A visit changes the tally of one replica, which has not written its roots.
LEMMA VisitKeeps ==
    ASSUME VotesInv, NEW r \in Replica, NEW x \in todo[r], VisitRoot(r, x[1], x[2])
    PROVE  VotesInv' /\ (EmptyNeverTies /\ AgreeInv => AgreeInv')
<1> DEFINE b == NewBest(commit, x, best[r][x[1]])
           ds == [best[r] EXCEPT ![x[1]] = b]
           wt == NewWinners(commit, todo[r], x, b, winners[r])
<1>1. /\ todo \in [Replica -> SUBSET (ChainId \X Nat)] /\ best \in [Replica -> [ChainId -> Best]]
      /\ winners \in [Replica -> Seq(ChainId)]
  BY DEF VotesInv, VotesShape
<1>2. CommitOk(commit)
  BY CommitIsOk
<1>3. TalliedBy(commit, todo[r], best[r], winners[r])
  BY DEF VotesInv, Tallied
<1>4. x \in RootsIn(commit) /\ x = <<x[1], x[2]>> /\ x[1] \in ChainId
  <2>1. x \in RootsIn(commit)
    BY <1>3 DEF TalliedBy
  <2> QED BY <1>2, <2>1, RootType
<1>5. PowerOf(VotesFor(x[1], x[2])) = Weight(commit, x)
  BY DEF VotesFor, Weight, VotersOf
<1>6. /\ stage = "process"
      /\ enabledChains' = enabledChains /\ ext' = ext /\ commit' = commit /\ stage' = stage
      /\ rows' = rows /\ calls' = calls /\ done' = done
  BY DEF VisitRoot, store
<1>7. todo' = [todo EXCEPT ![r] = todo[r] \ {x}]
  BY <1>4 DEF VisitRoot
<1>8. best' = [best EXCEPT ![r] = ds]
  <2>1. best' = [best EXCEPT ![r][x[1]] = b]
    BY <1>5 DEF VisitRoot, NewBest
  <2> HIDE DEF b
  <2> QED BY <1>1, <1>4, <2>1
<1>9. winners' = [winners EXCEPT ![r] = wt]
  <2> DEFINE last == \A y \in todo[r] \ {x} : y[1] # x[1]
  <2>1. winners' = IF last /\ isWinner(b)
                   THEN [winners EXCEPT ![r] = Append(winners[r], x[1])] ELSE winners
    BY <1>4, <1>5 DEF VisitRoot, NewBest
  <2>2. wt = IF last /\ isWinner(b) THEN Append(winners[r], x[1]) ELSE winners[r]
    BY DEF NewWinners
  <2> HIDE DEF wt, last, b
  <2>3. CASE last /\ isWinner(b)
    BY <2>1, <2>2, <2>3
  <2>4. CASE ~ (last /\ isWinner(b))
    BY <1>1, <2>1, <2>2, <2>4
  <2> QED BY <2>3, <2>4
<1>10. best[r] \in [ChainId -> Best] /\ winners[r] \in Seq(ChainId)
  BY <1>1
<1> HIDE DEF b
<1>11. /\ TalliedBy(commit, todo[r] \ {x}, ds, wt)
       /\ ds \in [ChainId -> Best] /\ wt \in Seq(ChainId)
  <2> HIDE DEF wt, ds
  <2> QED BY <1>2, <1>3, <1>10, TalliedAfter DEF wt, ds, b
<1>12. ASSUME EmptyNeverTies, AgreeInv PROVE Picks(commit, todo[r] \ {x}, ds)
  <2>1. Picks(commit, todo[r], best[r])
    BY <1>12 DEF AgreeInv, BestWins
  <2>2. /\ todo[r] \subseteq RootsIn(commit)
        /\ \A ch \in ChainId : BestOf(commit, todo[r], ch, best[r][ch])
    BY <1>3 DEF TalliedBy
  <2> HIDE DEF ds
  <2> QED BY <1>2, <1>10, <1>12, <2>1, <2>2, PicksAfter DEF ds, b
<1> HIDE DEF ds, wt
<1>13. /\ todo'[r] = todo[r] \ {x} /\ best'[r] = ds /\ winners'[r] = wt
       /\ \A s \in Replica \ {r} :
             todo'[s] = todo[s] /\ best'[s] = best[s] /\ winners'[s] = winners[s]
  BY <1>1, <1>7, <1>8, <1>9
<1>14. VotesShape'
  <2>1. todo' \in [Replica -> SUBSET (ChainId \X Nat)]
    BY <1>1, <1>7
  <2>2. best' \in [Replica -> [ChainId -> Best]] /\ winners' \in [Replica -> Seq(ChainId)]
    BY <1>1, <1>8, <1>9, <1>11
  <2> QED BY <1>6, <2>1, <2>2 DEF VotesInv, VotesShape
<1>15. Idle' /\ Verified'
  BY <1>6 DEF VotesInv, Idle, Verified
<1>16. Tallied'
  <2>1. ASSUME NEW s \in Replica PROVE TalliedBy(commit', todo'[s], best'[s], winners'[s])
    <3>1. CASE s = r
      BY <1>6, <1>11, <1>13, <3>1
    <3>2. CASE s # r
      BY <1>6, <1>13, <3>2 DEF VotesInv, Tallied
    <3> QED BY <3>1, <3>2
  <2> QED BY <2>1 DEF Tallied
<1>17. r \notin done /\ done \subseteq Replica
  BY DEF VotesInv, VotesShape, Written, WrittenBy
<1>18. Written'
  <2>1. ASSUME NEW s \in done
        PROVE  WrittenBy(commit', todo'[s], best'[s], winners'[s], calls'[s], rows'[s])
    BY <1>6, <1>13, <1>17 DEF VotesInv, Written
  <2> QED BY <1>6, <2>1 DEF Written
<1>19. ASSUME EmptyNeverTies, AgreeInv PROVE AgreeInv'
  <2>1. ASSUME NEW s \in Replica PROVE Picks(commit', todo'[s], best'[s])
    <3>1. CASE s = r
      BY <1>6, <1>12, <1>13, <1>19, <3>1
    <3>2. CASE s # r
      BY <1>6, <1>13, <1>19, <3>2 DEF AgreeInv, BestWins
    <3> QED BY <3>1, <3>2
  <2>2. SameRows'
    <3>1. \A s \in done : best'[s] = best[s] /\ winners'[s] = winners[s]
      BY <1>13, <1>17
    <3> QED BY <1>6, <1>19, <3>1 DEF AgreeInv, SameRows
  <2> QED BY <2>1, <2>2 DEF AgreeInv, BestWins
<1> QED BY <1>14, <1>15, <1>16, <1>18, <1>19 DEF VotesInv

-----------------------------------------------------------------------------
(* The outcome of a tally *)

\* A winner has a best root, with voters.
LEMMA WinnerRow ==
    ASSUME NEW c, CommitOk(c), NEW td, NEW bs, NEW ws \in Seq(ChainId), TalliedBy(c, td, bs, ws),
           NEW ch \in Range(ws)
    PROVE  /\ ch \in ChainId /\ RowOf(c, ch, bs[ch]) \in Row
           /\ <<ch, bs[ch].root>> \in Seen(c, td, ch)
           /\ bs[ch].power = Weight(c, <<ch, bs[ch].root>>)
<1>1. ch \in ChainId
  BY DEF Range
<1>2. Seen(c, td, ch) # {} /\ BestOf(c, td, ch, bs[ch])
  BY <1>1 DEF TalliedBy, Won
<1>3. PICK x \in Seen(c, td, ch) : bs[ch] = [root |-> x[2], power |-> Weight(c, x)]
  BY <1>2 DEF BestOf
<1>4. x \in RootsIn(c) /\ x = <<ch, x[2]>> /\ x[2] \in Nat
  BY SeenType
<1>5. bs[ch].root = x[2] /\ bs[ch].power = Weight(c, x) /\ x = <<ch, bs[ch].root>>
  BY <1>3, <1>4
<1> DEFINE A == VotersOf(c, x)
<1>6. A \in SUBSET Val /\ A # {}
  BY <1>4, VotersType, RootType
<1> HIDE DEF A
<1>7. Cardinality(A) \in 1..Cardinality(Val)
  <2>1. IsFiniteSet(A) /\ Cardinality(A) <= Cardinality(Val)
    BY <1>6, ValAssumption, FS_Subset
  <2>2. Cardinality(A) \in Nat /\ Cardinality(A) # 0 /\ Cardinality(Val) \in Nat
    BY <1>6, <2>1, ValAssumption, FS_CardinalityType, FS_EmptySet
  <2> QED BY <2>1, <2>2
<1>8. RowOf(c, ch, bs[ch]) = [root |-> x[2], count |-> Cardinality(A)]
  BY <1>5 DEF RowOf, A
<1>9. RowOf(c, ch, bs[ch]) \in Row
  BY <1>4, <1>7, <1>8 DEF Row
<1> QED BY <1>1, <1>5, <1>9

\* A tally that is over has one outcome, whatever the order of the walk.
LEMMA SameOutcome ==
    ASSUME NEW c, CommitOk(c),
           NEW bs, NEW ws \in Seq(ChainId), TalliedBy(c, {}, bs, ws), Picks(c, {}, bs),
           NEW cs, NEW vs \in Seq(ChainId), TalliedBy(c, {}, cs, vs), Picks(c, {}, cs)
    PROVE  Range(ws) = Range(vs) /\ \A old : Outcome(c, bs, ws, old) = Outcome(c, cs, vs, old)
<1>1. Range(ws) \subseteq ChainId /\ Range(vs) \subseteq ChainId
  BY DEF Range
<1>2. Range(ws) = Range(vs)
  <2>1. \A ch \in ChainId : ch \in Range(ws) <=> ch \in Range(vs)
    BY DEF TalliedBy
  <2> QED BY <1>1, <2>1
<1>3. ASSUME NEW ch \in Range(ws) PROVE bs[ch].root = cs[ch].root
  <2> DEFINE x == <<ch, bs[ch].root>>
             y == <<ch, cs[ch].root>>
  <2>1. ch \in ChainId /\ x \in Seen(c, {}, ch) /\ bs[ch].power = Weight(c, x)
    BY WinnerRow
  <2>2. y \in Seen(c, {}, ch) /\ cs[ch].power = Weight(c, y)
    BY <1>2, WinnerRow
  <2>3. x[2] = bs[ch].root /\ y[2] = cs[ch].root
    OBVIOUS
  <2> HIDE DEF x, y
  <2>4. x[2] \in Nat /\ y[2] \in Nat /\ Weight(c, x) \in Nat /\ Weight(c, y) \in Nat
    BY <2>1, <2>2, SeenType
  <2>5. Weight(c, y) < Weight(c, x) \/ (Weight(c, y) = Weight(c, x) /\ x[2] <= y[2])
    BY <2>1, <2>2, <2>3 DEF Picks
  <2>6. Weight(c, x) < Weight(c, y) \/ (Weight(c, x) = Weight(c, y) /\ y[2] <= x[2])
    BY <2>1, <2>2, <2>3 DEF Picks
  <2>7. x[2] = y[2]
    BY <2>4, <2>5, <2>6
  <2> QED BY <2>3, <2>7
<1>4. \A ch \in Range(ws) : RowOf(c, ch, bs[ch]) = RowOf(c, ch, cs[ch])
  BY <1>3 DEF RowOf
<1> QED BY <1>2, <1>4 DEF Outcome

\* A replica writes its winners.
LEMMA WriteKeeps ==
    ASSUME VotesInv, NEW r \in Replica, WriteRoots(r)
    PROVE  VotesInv' /\ (AgreeInv => AgreeInv')
<1> DEFINE out == Outcome(commit, best[r], winners[r], rows[r])
<1>1. /\ winners \in [Replica -> Seq(ChainId)] /\ calls \in [Replica -> Seq(ChainId)]
      /\ rows \in [Replica -> [ChainId -> Row \cup {NoRoot}]] /\ done \subseteq Replica
  BY DEF VotesInv, VotesShape
<1>2. CommitOk(commit)
  BY CommitIsOk
<1>3. \A s \in Replica : TalliedBy(commit, todo[s], best[s], winners[s])
  BY DEF VotesInv, Tallied
<1>4. /\ stage = "process" /\ r \notin done /\ todo[r] = {}
      /\ enabledChains' = enabledChains /\ ext' = ext /\ commit' = commit /\ stage' = stage
      /\ todo' = todo /\ best' = best /\ winners' = winners /\ done' = done \cup {r}
  BY DEF WriteRoots, tally
<1>5. rows' = [rows EXCEPT ![r] = out]
  <2>1. \A ch \in ChainId :
           VotesFor(ch, best[r][ch].root) = VotersOf(commit, <<ch, best[r][ch].root>>)
    BY DEF VotesFor, VotersOf
  <2> QED BY <1>1, <2>1 DEF WriteRoots, Outcome, RowOf
<1>6. calls' = [calls EXCEPT ![r] = Sorted(winners[r], <)]
  BY DEF WriteRoots, sortedWinners
<1>7. winners[r] \in Seq(ChainId) /\ IsInjective(winners[r])
  BY <1>1, <1>3 DEF TalliedBy
<1>8. Sorted(winners[r], <) \in Seq(ChainId)
  BY <1>7, ChainsSorted
<1>9. /\ out \in [ChainId -> Row \cup {NoRoot}]
      /\ \A ch \in Range(winners[r]) : out[ch] = RowOf(commit, ch, best[r][ch])
  <2>1. \A ch \in Range(winners[r]) : ch \in ChainId /\ RowOf(commit, ch, best[r][ch]) \in Row
    BY <1>2, <1>3, <1>7, WinnerRow
  <2>2. rows[r] \in [ChainId -> Row \cup {NoRoot}]
    BY <1>1
  <2> QED BY <2>1, <2>2 DEF Outcome
<1>10. /\ rows'[r] = out /\ calls'[r] = Sorted(winners[r], <)
       /\ \A s \in Replica \ {r} : rows'[s] = rows[s] /\ calls'[s] = calls[s]
  BY <1>1, <1>5, <1>6
<1>11. VotesShape'
  <2> HIDE DEF out
  <2>1. /\ rows' \in [Replica -> [ChainId -> Row \cup {NoRoot}]]
        /\ calls' \in [Replica -> Seq(ChainId)]
    BY <1>1, <1>5, <1>6, <1>8, <1>9
  <2> QED BY <1>4, <2>1 DEF VotesInv, VotesShape
<1>12. Idle' /\ Verified' /\ Tallied'
  BY <1>4 DEF VotesInv, Idle, Verified, Tallied
<1>13. Written'
  <2> HIDE DEF out
  <2>1. ASSUME NEW s \in done \cup {r}
        PROVE  WrittenBy(commit', todo'[s], best'[s], winners'[s], calls'[s], rows'[s])
    <3>1. CASE s = r
      BY <1>4, <1>9, <1>10, <3>1 DEF WrittenBy
    <3>2. CASE s # r
      BY <1>1, <1>4, <1>10, <2>1, <3>2 DEF VotesInv, Written
    <3> QED BY <3>1, <3>2
  <2> QED BY <1>4, <2>1 DEF Written
<1>14. ASSUME AgreeInv PROVE AgreeInv'
  <2>1. BestWins'
    BY <1>4, <1>14 DEF AgreeInv, BestWins
  <2>2. ASSUME NEW s \in Replica \ done PROVE rows[s] = rows[r]
    BY <1>4, <1>14 DEF AgreeInv, SameRows
  <2>3. ASSUME NEW s \in done
        PROVE  rows[s] = Outcome(commit, best[s], winners[s], rows[r]) /\ rows[s] = out
    <3>1. rows[s] = Outcome(commit, best[s], winners[s], rows[r])
      BY <1>4, <1>14 DEF AgreeInv, SameRows
    <3>2. s \in Replica /\ todo[s] = {} /\ winners[s] \in Seq(ChainId)
      BY <1>1 DEF VotesInv, Written, WrittenBy
    <3>3. /\ TalliedBy(commit, {}, best[s], winners[s]) /\ Picks(commit, {}, best[s])
          /\ TalliedBy(commit, {}, best[r], winners[r]) /\ Picks(commit, {}, best[r])
      <4>1. Picks(commit, todo[s], best[s]) /\ Picks(commit, todo[r], best[r])
        BY <1>14, <3>2 DEF AgreeInv, BestWins
      <4>2. /\ TalliedBy(commit, todo[s], best[s], winners[s])
            /\ TalliedBy(commit, todo[r], best[r], winners[r])
        BY <1>3, <3>2
      <4> QED BY <1>4, <3>2, <4>1, <4>2
    <3>4. Outcome(commit, best[s], winners[s], rows[r]) = out
      <4> DEFINE bs == best[s]
                 ws == winners[s]
                 cs == best[r]
                 vs == winners[r]
      <4>1. /\ CommitOk(commit) /\ ws \in Seq(ChainId) /\ vs \in Seq(ChainId)
            /\ TalliedBy(commit, {}, bs, ws) /\ Picks(commit, {}, bs)
            /\ TalliedBy(commit, {}, cs, vs) /\ Picks(commit, {}, cs)
        BY <1>2, <1>7, <3>2, <3>3
      <4> HIDE DEF bs, ws, cs, vs
      <4>2. Outcome(commit, bs, ws, rows[r]) = Outcome(commit, cs, vs, rows[r])
        BY <4>1, SameOutcome
      <4> QED BY <4>2 DEF bs, ws, cs, vs
    <3> QED BY <3>1, <3>4
  <2> HIDE DEF out
  <2>4. ASSUME NEW s \in Replica \ done', NEW t \in Replica \ done' PROVE rows'[s] = rows'[t]
    BY <1>4, <1>10, <2>2
  <2>5. ASSUME NEW s \in done', NEW t \in Replica \ done'
        PROVE  rows'[s] = Outcome(commit', best'[s], winners'[s], rows'[t])
    <3>1. rows'[t] = rows[r] /\ t # r
      BY <1>4, <1>10, <2>2
    <3>2. CASE s = r
      BY <1>4, <1>10, <3>1, <3>2 DEF out
    <3>3. CASE s # r
      BY <1>1, <1>4, <1>10, <2>3, <3>1, <3>3
    <3> QED BY <3>2, <3>3
  <2>6. ASSUME NEW s \in done' PROVE rows'[s] = out
    BY <1>1, <1>4, <1>10, <2>3
  <2>7. SameRows'
    BY <2>4, <2>5, <2>6 DEF SameRows
  <2> QED BY <2>1, <2>7 DEF AgreeInv
<1> QED BY <1>11, <1>12, <1>13, <1>14 DEF VotesInv

\* The next height starts from equal rows.
LEMMA HeightKeeps ==
    ASSUME VotesInv, NEW new \in SUBSET ChainId, NextHeight(new)
    PROVE  VotesInv' /\ (AgreeInv => AgreeInv')
<1>1. /\ done = Replica /\ enabledChains' = new
      /\ ext' = <<>> /\ commit' = <<>> /\ stage' = "vote" /\ done' = {}
      /\ winners' = [r \in Replica |-> <<>>] /\ calls' = [r \in Replica |-> <<>>]
      /\ best' = [r \in Replica |-> [ch \in ChainId |-> NoBest]]
      /\ todo' = todo /\ rows' = rows
  BY DEF NextHeight, EachReplica
<1>2. \A r \in Replica : todo[r] = {}
  BY <1>1 DEF VotesInv, Written, WrittenBy
<1>3. RootsIn(<<>>) = {}
  BY NoRoots DEF Extended
<1>4. VotesShape'
  <2>1. NoBest \in Best
    BY DEF NoBest, Best, EmptyRoot
  <2>2. Casts(<<>>)
    BY DEF Casts
  <2> HIDE DEF NoBest
  <2> QED BY <1>1, <2>1, <2>2 DEF VotesInv, VotesShape
<1>5. Idle'
  BY <1>1, <1>2 DEF Idle
<1>6. Verified' /\ Written'
  BY <1>1 DEF Verified, Written
<1>7. ASSUME NEW r \in Replica
      PROVE  /\ TalliedBy(commit', todo'[r], best'[r], winners'[r])
             /\ Picks(commit', todo'[r], best'[r])
  BY <1>1, <1>2, <1>3, NothingTallied
<1>8. ASSUME AgreeInv PROVE AgreeInv'
  <2>1. \A r, s \in Replica : rows[r] = rows[s]
    BY <1>1, <1>8 DEF AgreeInv, SameRows
  <2>2. SameRows'
    BY <1>1, <2>1 DEF SameRows
  <2> QED BY <1>7, <2>2 DEF AgreeInv, BestWins
<1> QED BY <1>4, <1>5, <1>6, <1>7, <1>8 DEF VotesInv, Tallied

\* Every step keeps the invariant.
LEMMA VotesStep ==
    ASSUME VotesInv, [VotesNext]_voteVars
    PROVE  VotesInv' /\ (EmptyNeverTies /\ AgreeInv => AgreeInv')
<1>1. CASE UNCHANGED voteVars
  <2>1. UNCHANGED <<enabledChains, commit, stage, tally, store>> /\ ext' = ext
    BY <1>1 DEF voteVars
  <2>2. DOMAIN ext' \subseteq Val /\ Casts(ext')
    BY <2>1 DEF VotesInv, VotesShape
  <2> QED BY <2>1, <2>2, VotingKeeps
<1>2. ASSUME NEW v \in Val,
             \/ ExtendVoteEmpty(v)
             \/ \E report \in Reports : ExtendVote(v, report)
             \/ \E ch \in ChainId, root \in LegacyRoots : ExtendLegacyVote(v, ch, root)
      PROVE  VotesInv' /\ (AgreeInv => AgreeInv')
  BY <1>2, ExtensionsKeep
<1>3. ASSUME NEW p \in Val, NEW S \in SUBSET Val, PrepareProposal(p, S)
      PROVE  VotesInv' /\ (AgreeInv => AgreeInv')
  BY <1>3, ProposalKeeps
<1>4. CASE NewRound
  BY <1>4, NewRoundKeeps
<1>5. ASSUME NEW r \in Replica, NEW x \in todo[r], VisitRoot(r, x[1], x[2])
      PROVE  VotesInv' /\ (EmptyNeverTies /\ AgreeInv => AgreeInv')
  BY <1>5, VisitKeeps
<1>6. ASSUME NEW r \in Replica, WriteRoots(r)
      PROVE  VotesInv' /\ (AgreeInv => AgreeInv')
  BY <1>6, WriteKeeps
<1>7. ASSUME NEW new \in SUBSET ChainId, NextHeight(new)
      PROVE  VotesInv' /\ (AgreeInv => AgreeInv')
  BY <1>7, HeightKeeps
<1> QED BY <1>1, <1>2, <1>3, <1>4, <1>5, <1>6, <1>7 DEF VotesNext

\* The invariant holds for every set of validators, powers, reports and sidecars.
THEOREM VotesInvariant == VotesSpec => []VotesInv
<1>1. VotesInit => VotesInv
  BY VotesInitInv
<1>2. VotesInv /\ [VotesNext]_voteVars => VotesInv'
  BY VotesStep
<1> QED BY <1>1, <1>2, PTL DEF VotesSpec

\* ... and, where no empty root ties, replicas pick the same roots.
THEOREM AgreeInvariant == EmptyNeverTies => (VotesSpec => [](VotesInv /\ AgreeInv))
<1> SUFFICES ASSUME EmptyNeverTies PROVE VotesSpec => [](VotesInv /\ AgreeInv)
  OBVIOUS
<1>1. VotesInit => VotesInv /\ AgreeInv
  BY VotesInitInv
<1>2. (VotesInv /\ AgreeInv) /\ [VotesNext]_voteVars => (VotesInv /\ AgreeInv)'
  BY VotesStep
<1> QED BY <1>1, <1>2, PTL DEF VotesSpec

-----------------------------------------------------------------------------
(* What the invariant implies *)

\* The invariant implies that equal attestations have equal roots.
LEMMA SameRoots ==
    ASSUME VotesInv
    PROVE  SameSourcesSameRoot
<1>1. ASSUME NEW v \in Extended(ext) \ Legacy
      PROVE  ext[v].atts \in Seq(Att) /\ ext[v].root = aggregateAttestationRoot(ext[v].atts)
  <2>1. v \notin Legacy /\ ext[v] # NoExt /\ Cast(v, ext[v])
    BY DEF Extended, VotesInv, VotesShape, Casts
  <2>2. PICK report \in Reports :
           ext[v].atts = report.atts /\ ext[v].root = aggregateAttestationRoot(report.atts)
    BY <2>1 DEF Cast
  <2> QED BY <2>2, ReportAssumption DEF Att
<1>2. ASSUME NEW v \in Extended(ext) \ Legacy, NEW w \in Extended(ext) \ Legacy,
             Range(ext[v].atts) = Range(ext[w].atts)
      PROVE  ext[v].root = ext[w].root
  <2>1. aggregateAttestationRoot(ext[v].atts) = aggregateAttestationRoot(ext[w].atts)
    BY <1>1, <1>2, RootOfSet
  <2> QED BY <1>1, <2>1
<1> QED BY <1>2 DEF SameSourcesSameRoot

\* Validators whose sidecars report the same attestations vote for the same root, in
\* whatever order and however often each is listed (aggregateAttestationRoot).
THEOREM SourceOrderIrrelevant == VotesSpec => []SameSourcesSameRoot
<1>1. VotesInv => SameSourcesSameRoot
  BY SameRoots
<1> QED BY <1>1, VotesInvariant, PTL

\* The winners of a replica that has written, and their rows.
LEMMA WrittenRows ==
    ASSUME VotesInv, NEW r \in done
    PROVE  /\ r \in Replica /\ todo[r] = {} /\ winners[r] \in Seq(ChainId)
           /\ TalliedBy(commit, {}, best[r], winners[r])
           /\ calls[r] \in Seq(ChainId) /\ Range(calls[r]) = Range(winners[r])
           /\ Ascending(calls[r], ChainOrder)
           /\ \A ch \in Range(winners[r]) : rows[r][ch].root = best[r][ch].root
<1>1. r \in Replica /\ winners[r] \in Seq(ChainId)
  BY DEF VotesInv, VotesShape
<1>2. /\ todo[r] = {} /\ calls[r] = Sorted(winners[r], <)
      /\ \A ch \in Range(winners[r]) : rows[r][ch] = RowOf(commit, ch, best[r][ch])
  BY DEF VotesInv, Written, WrittenBy
<1>3. TalliedBy(commit, {}, best[r], winners[r])
  <2>1. TalliedBy(commit, todo[r], best[r], winners[r])
    BY <1>1 DEF VotesInv, Tallied
  <2> QED BY <1>2, <2>1
<1>4. IsInjective(winners[r])
  BY <1>3 DEF TalliedBy
<1>5. /\ Sorted(winners[r], <) \in Seq(ChainId) /\ Range(Sorted(winners[r], <)) = Range(winners[r])
      /\ Ascending(Sorted(winners[r], <), ChainOrder)
  BY <1>1, <1>4, ChainsSorted
<1>6. \A ch \in Range(winners[r]) : rows[r][ch].root = best[r][ch].root
  <2>1. ASSUME NEW ch \in Range(winners[r]) PROVE rows[r][ch].root = best[r][ch].root
    <3>1. rows[r][ch] = RowOf(commit, ch, best[r][ch])
      BY <1>2
    <3>2. RowOf(commit, ch, best[r][ch]).root = best[r][ch].root
      BY DEF RowOf
    <3> QED BY <3>1, <3>2
  <2> QED BY <2>1
<1> QED BY <1>1, <1>2, <1>3, <1>5, <1>6

\* The invariant implies the types.
LEMMA TypedVotes ==
    ASSUME VotesInv
    PROVE  VotesTyped
<1>1. VotesShape
  BY DEF VotesInv
<1>2. \A v \in DOMAIN ext : ext[v] \in Exts
  BY <1>1 DEF VotesShape, Casts
<1>3. commit = <<>> \/ (DOMAIN commit = Val /\ \A v \in Val : commit[v] \in Exts)
  BY <1>1 DEF VotesShape, Casts
<1>4. ASSUME NEW r \in Replica
      PROVE  /\ todo[r] \subseteq ChainId \X Nat
             /\ winners[r] \in Seq(ChainId) /\ calls[r] \in Seq(ChainId)
             /\ \A ch \in ChainId : best[r][ch] \in Best /\ rows[r][ch] \in Row \cup {NoRoot}
  BY <1>1 DEF VotesShape
<1>5. /\ enabledChains \subseteq ChainId /\ DOMAIN ext \subseteq Val
      /\ stage \in {"vote", "process"} /\ done \subseteq Replica
  BY <1>1 DEF VotesShape
<1> QED BY <1>2, <1>3, <1>4, <1>5 DEF VotesTyped

\* A confirmed root has a vote that some other validator verified.
LEMMA VerifiedVote ==
    ASSUME VotesInv, \A v \in Val : Power[v] < quorumThreshold,
           NEW r \in done, NEW ch \in Range(calls[r])
    PROVE  /\ ch \in enabledChains
           /\ \E v \in VotesFor(ch, rows[r][ch].root) :
                 \A j \in DOMAIN commit[v].atts : commit[v].atts[j][1] \in Registered
<1> DEFINE x == <<ch, best[r][ch].root>>
           A == VotersOf(commit, x)
<1>1. CommitOk(commit)
  BY CommitIsOk
<1>2. /\ winners[r] \in Seq(ChainId) /\ TalliedBy(commit, {}, best[r], winners[r])
      /\ ch \in Range(winners[r]) /\ rows[r][ch].root = best[r][ch].root
  BY WrittenRows
<1>3. x \in Seen(commit, {}, ch)
  BY <1>1, <1>2, WinnerRow
<1>4. x \in RootsIn(commit) /\ Weight(commit, x) >= quorumThreshold /\ Weight(commit, x) \in Nat
  BY <1>1, <1>3, SeenType
<1>5. A \in SUBSET Val /\ A # {}
  BY <1>1, <1>4, VotersType, RootType
<1>6. VotesFor(ch, rows[r][ch].root) = A
  BY <1>2 DEF VotesFor, VotersOf
<1>7. stage = "process"
  BY DEF VotesInv, VotesShape, Idle
<1>8. PICK p \in Val : \A v \in Extended(commit) \ {p} :
         commit[v].chain \in enabledChains /\ verifyOracleAttestations(commit[v].atts)
  BY <1>7 DEF VotesInv, Verified
<1>9. \E v \in A : v # p
  <2>1. ASSUME \A v \in A : v = p PROVE FALSE
    <3>1. A = {p}
      BY <1>5, <2>1
    <3>2. Weight(commit, x) = Power[p]
      BY <3>1, PowerSingle DEF Weight, A
    <3>3. Power[p] \in Nat /\ quorumThreshold \in Nat /\ Power[p] < quorumThreshold
      BY ValAssumption, QuorumType
    <3> QED BY <1>4, <3>2, <3>3
  <2> QED BY <2>1
<1>10. PICK v \in A : v # p
  BY <1>9
<1>11. v \in Extended(commit) /\ commit[v].chain = ch
  BY <1>10 DEF VotersOf
<1>12. ch \in enabledChains /\ verifyOracleAttestations(commit[v].atts)
  BY <1>8, <1>10, <1>11
<1> HIDE DEF A
<1> QED BY <1>6, <1>10, <1>12 DEF verifyOracleAttestations

\* The state has its type, and a root is confirmed only for an enabled chain and with
\* a vote whose sources are registered, although the proposer's own extension is
\* never verified (VerifyVoteExtensionHandler).
THEOREM ConfirmedAreVerified == VotesSpec => []ConfirmedVerified
<1>1. VotesInv => ConfirmedVerified
  <2> SUFFICES ASSUME VotesInv PROVE ConfirmedVerified
    OBVIOUS
  <2>1. VotesTyped
    BY TypedVotes
  <2>2. ASSUME \A v \in Val : Power[v] < quorumThreshold, NEW r \in done, NEW i \in DOMAIN calls[r]
        PROVE  /\ calls[r][i] \in enabledChains
               /\ \E v \in VotesFor(calls[r][i], rows[r][calls[r][i]].root) :
                     \A j \in DOMAIN commit[v].atts : commit[v].atts[j][1] \in Registered
    <3>1. calls[r][i] \in Range(calls[r])
      BY DEF Range
    <3> QED BY <2>2, <3>1, VerifiedVote
  <2> QED BY <2>1, <2>2 DEF ConfirmedVerified
<1> QED BY <1>1, VotesInvariant, PTL

\* Replicas that have processed a block hold the same rows and have called the same
\* contracts in the same order, whatever order they walked their maps in, where no
\* empty root ties with another (ProcessVoteExtensions).
THEOREM TalliesAgree == EmptyNeverTies => (VotesSpec => []ReplicasAgree)
<1> SUFFICES ASSUME EmptyNeverTies PROVE VotesSpec => []ReplicasAgree
  OBVIOUS
<1>1. VotesInv /\ AgreeInv => ReplicasAgree
  <2> SUFFICES ASSUME VotesInv, AgreeInv, NEW r \in done, NEW s \in done
               PROVE  rows[r] = rows[s] /\ calls[r] = calls[s]
    BY DEF ReplicasAgree
  <2>1. rows[r] = rows[s]
    BY DEF AgreeInv, SameRows
  <2>2. /\ winners[r] \in Seq(ChainId) /\ TalliedBy(commit, {}, best[r], winners[r])
        /\ winners[s] \in Seq(ChainId) /\ TalliedBy(commit, {}, best[s], winners[s])
        /\ r \in Replica /\ s \in Replica /\ todo[r] = {} /\ todo[s] = {}
    BY WrittenRows
  <2>3. Picks(commit, {}, best[r]) /\ Picks(commit, {}, best[s])
    <3>1. Picks(commit, todo[r], best[r]) /\ Picks(commit, todo[s], best[s])
      BY <2>2 DEF AgreeInv, BestWins
    <3> QED BY <2>2, <3>1
  <2>4. Range(winners[r]) = Range(winners[s])
    BY <2>2, <2>3, CommitIsOk, SameOutcome
  <2>5. /\ calls[r] \in Seq(ChainId) /\ Ascending(calls[r], ChainOrder)
        /\ calls[s] \in Seq(ChainId) /\ Ascending(calls[s], ChainOrder)
        /\ Range(calls[r]) = Range(calls[s])
    BY <2>4, WrittenRows
  <2>6. calls[r] = calls[s]
    BY <2>5, ChainsAsymmetric, SameAscending
  <2> QED BY <2>1, <2>6
<1> QED BY <1>1, AgreeInvariant, PTL

\* A chain gets a root exactly when votes worth the quorum agree on one, and it is the
\* root with the most power and, among those, the smallest (ProcessVoteExtensions).
THEOREM WinnersFollowRule == EmptyNeverTies => (VotesSpec => []WinnerRule)
<1> SUFFICES ASSUME EmptyNeverTies PROVE VotesSpec => []WinnerRule
  OBVIOUS
<1>1. VotesInv /\ AgreeInv => WinnerRule
  <2> SUFFICES ASSUME VotesInv, AgreeInv PROVE WinnerRule
    OBVIOUS
  <2> DEFINE quorate == {x \in RootsIn(commit) : Weight(commit, x) >= quorumThreshold}
  <2>1. CommitOk(commit)
    BY CommitIsOk
  <2>2. \A x : PowerOf(VotesFor(x[1], x[2])) = Weight(commit, x)
    BY DEF VotesFor, Weight, VotersOf
  <2>3. ASSUME NEW x \in quorate PROVE x \in Seen(commit, {}, x[1]) /\ x[1] \in ChainId
    BY <2>1, RootType DEF Seen
  <2>4. ASSUME NEW r \in done PROVE Range(calls[r]) = {x[1] : x \in quorate}
    <3>1. /\ winners[r] \in Seq(ChainId) /\ TalliedBy(commit, {}, best[r], winners[r])
          /\ Range(calls[r]) = Range(winners[r])
      BY WrittenRows
    <3>2. ASSUME NEW ch \in Range(winners[r]) PROVE ch \in {x[1] : x \in quorate}
      <4> DEFINE x == <<ch, best[r][ch].root>>
      <4>1. x \in Seen(commit, {}, ch)
        BY <2>1, <3>1, WinnerRow
      <4>2. x \in quorate /\ x[1] = ch
        BY <4>1 DEF Seen
      <4> HIDE DEF x, quorate
      <4> QED BY <4>2
    <3>3. ASSUME NEW x \in quorate PROVE x[1] \in Range(winners[r])
      <4>1. x[1] \in ChainId /\ Won(commit, {}, x[1])
        BY <2>3 DEF Won
      <4> QED BY <3>1, <4>1 DEF TalliedBy
    <3> HIDE DEF quorate
    <3> QED BY <3>1, <3>2, <3>3
  <2>5. ASSUME NEW r \in done, NEW x \in quorate
        PROVE  LET root == rows[r][x[1]].root IN
               \/ Weight(commit, <<x[1], root>>) > Weight(commit, x)
               \/ Weight(commit, <<x[1], root>>) = Weight(commit, x) /\ root <= x[2]
    <3> DEFINE ch == x[1]
               z == <<ch, best[r][ch].root>>
    <3>1. /\ winners[r] \in Seq(ChainId) /\ TalliedBy(commit, {}, best[r], winners[r])
          /\ Range(calls[r]) = Range(winners[r]) /\ r \in Replica /\ todo[r] = {}
          /\ \A k \in Range(winners[r]) : rows[r][k].root = best[r][k].root
      BY WrittenRows
    <3>2. x \in Seen(commit, {}, ch) /\ ch \in ChainId
      BY <2>3
    <3>3. ch \in Range(winners[r])
      BY <3>1, <3>2 DEF TalliedBy, Won
    <3>4. rows[r][ch].root = best[r][ch].root
      BY <3>1, <3>3
    <3>5. best[r][ch].power = Weight(commit, z)
      BY <2>1, <3>1, <3>3, WinnerRow
    <3>6. Picks(commit, {}, best[r])
      BY <3>1 DEF AgreeInv, BestWins
    <3>7. \/ Weight(commit, x) < best[r][ch].power
          \/ Weight(commit, x) = best[r][ch].power /\ best[r][ch].root <= x[2]
      BY <3>2, <3>6 DEF Picks
    <3>8. Weight(commit, x) \in Nat /\ Weight(commit, z) \in Nat
      BY <2>1, VotersType
    <3>9. \/ Weight(commit, z) > Weight(commit, x)
          \/ Weight(commit, z) = Weight(commit, x) /\ best[r][ch].root <= x[2]
      BY <3>5, <3>7, <3>8
    <3> QED BY <3>4, <3>9
  <2>6. quorate = {x \in RootsIn(commit) :
                      PowerOf(VotesFor(x[1], x[2])) >= (Numerator * PowerOf(Val)) \div Denominator}
    BY <2>2 DEF quorumThreshold
  <2>7. \A r \in done : \A x \in quorate :
           LET root == rows[r][x[1]].root
               z    == <<x[1], root>>
           IN  \/ PowerOf(VotesFor(z[1], z[2])) > PowerOf(VotesFor(x[1], x[2]))
               \/ /\ PowerOf(VotesFor(z[1], z[2])) = PowerOf(VotesFor(x[1], x[2]))
                  /\ root <= x[2]
    <3> HIDE DEF quorate
    <3> QED BY <2>2, <2>5
  <2>8. \A r \in done : Range(calls[r]) = {x[1] : x \in quorate}
    <3> HIDE DEF quorate
    <3> QED BY <2>4
  <2> HIDE DEF quorate
  <2> QED BY <2>6, <2>7, <2>8, Zenon DEF WinnerRule
<1> QED BY <1>1, AgreeInvariant, PTL
=============================================================================
