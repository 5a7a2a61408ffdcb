--------------------------- MODULE CircuitRunway ---------------------------
(***************************************************************************)
(* Where the circuit runway payments go (x/wasm/keeper).                   *)
(*                                                                         *)
(* A payment is split in two: one half accrues in circuit_val_pool, the    *)
(* other goes to circuit_dev_pool or to the destination the parameters     *)
(* name.  TickCircuitEpoch runs at the end of every block; when an epoch   *)
(* is over it pays the validator pool out to the bonded operators.         *)
(*                                                                         *)
(* The payout loop of settleCircuitValPool is unrolled, one operator per   *)
(* step.  Block time enters only as the time since the epoch started.      *)
(* The app sets no circuitWeight hook, so a weight is 0 or 1.              *)
(***************************************************************************)
EXTENDS Integers, FiniteSets, Functions

CONSTANTS
    Payer,      \* accounts that buy runway
    Val,        \* validators
    Refusing,   \* operators the bank refuses to send to
    Yearly,     \* circuitDepositYearly
    MaxYears,   \* CircuitDepositMaxYears
    Duration,   \* DurationSeconds of the epoch
    Funds,      \* bound: what every payer owns at the start
    MaxEpoch    \* bound: epochs counted before the number is left alone

ASSUME SetAssumption == IsFiniteSet(Payer) /\ IsFiniteSet(Val) /\ Refusing \subseteq Val
ASSUME AmountAssumption == Yearly \in Nat \ {0} /\ MaxYears \in Nat /\ Funds \in Nat
ASSUME EpochAssumption == Duration \in Nat \ {0} /\ MaxEpoch \in Nat

VARIABLES
    balance,      \* what the payers own
    valPool,      \* circuit_val_pool
    devPool,      \* circuit_dev_pool
    dao,          \* what the configured destination received
    toDao,        \* is CircuitDevDestination set
    earned,       \* operator accounts
    bonded, jailed,   \* what staking says of the validators
    started,      \* is there an epoch row
    elapsed,      \* seconds since CurrentEpochStartUnix, counted up to Duration
    epoch,        \* CurrentEpoch
    phase,        \* "deliver", "settle" (in the payout loop) or "ticked"
    each,         \* the share of one operator in this settlement
    left,         \* operators the payout loop has still to visit
    paid          \* operators this settlement has paid

coins   == <<balance, valPool, devPool, dao, earned>>
staking == <<bonded, jailed>>
clock   == <<started, elapsed, epoch>>
payout  == <<each, left, paid>>
vars    == <<coins, toDao, staking, clock, phase, payout>>

TypeOK ==
    /\ balance \in [Payer -> Nat] /\ earned \in [Val -> Nat]
    /\ valPool \in Nat /\ devPool \in Nat /\ dao \in Nat
    /\ toDao \in BOOLEAN
    /\ bonded \subseteq Val /\ jailed \subseteq Val
    /\ started \in BOOLEAN /\ elapsed \in 0..Duration /\ epoch \in 0..MaxEpoch
    /\ phase \in {"deliver", "settle", "ticked"}
    /\ each \in Nat /\ left \subseteq Val /\ paid \subseteq Val

Init ==
    /\ balance = [p \in Payer |-> Funds] /\ earned = [v \in Val |-> 0]
    /\ valPool = 0 /\ devPool = 0 /\ dao = 0 /\ toDao \in BOOLEAN
    /\ bonded = Val /\ jailed = {}
    /\ started = FALSE /\ elapsed = 0 /\ epoch = 0
    /\ phase = "deliver" /\ each = 0 /\ left = {} /\ paid = {}

-----------------------------------------------------------------------------
(* Messages *)

\* SplitCircuitRunway: the odd coin goes to the maintenance half.
ValHalf(amt) == amt \div 2

\* Fault: the odd coin is lost.
RoundedHalf(amt) == amt \div 2

DevHalf(amt) == amt - ValHalf(amt)

\* A payer without the coins makes the message fail, which undoes both sends.
receiveCircuitRunwayPayment(p, years) ==
    LET amt == Yearly * years IN
    /\ phase = "deliver"
    /\ balance[p] >= amt
    /\ balance' = [balance EXCEPT ![p] = @ - amt]
    /\ valPool' = valPool + ValHalf(amt)
    /\ IF toDao THEN dao' = dao + DevHalf(amt) /\ UNCHANGED devPool
                ELSE devPool' = devPool + DevHalf(amt) /\ UNCHANGED dao
    /\ UNCHANGED <<earned, toDao, staking, clock, phase, payout>>

\* Governance sets or clears CircuitDevDestination.
SetDevDestination ==
    /\ phase = "deliver"
    /\ toDao' = ~ toDao
    /\ UNCHANGED <<coins, staking, clock, phase, payout>>

Toggle(S, v) == (S \ {v}) \cup ({v} \ S)

\* Staking and slashing: a validator is bonded or unbonded, jailed or released.
ValidatorChanges(v) ==
    /\ phase = "deliver"
    /\ \/ bonded' = Toggle(bonded, v) /\ UNCHANGED jailed
       \/ jailed' = Toggle(jailed, v) /\ UNCHANGED bonded
    /\ UNCHANGED <<coins, toDao, clock, phase, payout>>

-----------------------------------------------------------------------------
(* TickCircuitEpoch, at the end of the block *)

operatorWeight(v) == IF v \in jailed THEN 0 ELSE 1

Eligible == {v \in bonded : operatorWeight(v) # 0}

\* The first block writes the epoch row.
StartEpoch ==
    /\ phase = "deliver" /\ ~ started
    /\ started' = TRUE /\ elapsed' = 0 /\ epoch' = 0
    /\ phase' = "ticked"
    /\ UNCHANGED <<coins, toDao, staking, payout>>

EpochRuns ==
    /\ phase = "deliver" /\ started /\ elapsed < Duration
    /\ phase' = "ticked"
    /\ UNCHANGED <<coins, toDao, staking, clock, payout>>

NewEpoch ==
    /\ epoch' = (IF epoch < MaxEpoch THEN epoch + 1 ELSE epoch)
    /\ elapsed' = 0
    /\ UNCHANGED started

\* settleCircuitValPool returns early: nobody to pay or nothing to pay.
EpochEndsUnpaid ==
    /\ phase = "deliver" /\ started /\ elapsed = Duration
    /\ Eligible = {} \/ valPool = 0
    /\ NewEpoch
    /\ phase' = "ticked"
    /\ UNCHANGED <<coins, toDao, staking, payout>>

\* Fault: the share is rounded up.
BeginSettleRoundsUp ==
    /\ phase = "deliver" /\ started /\ elapsed = Duration
    /\ Eligible # {} /\ valPool > 0
    /\ each' = (valPool + Cardinality(Eligible) - 1) \div Cardinality(Eligible)
    /\ left' = Eligible /\ paid' = {}
    /\ phase' = "settle"
    /\ UNCHANGED <<coins, toDao, staking, clock>>

\* Fault: the pool is divided among all bonded operators, jailed ones included.
BeginSettleCountsJailed ==
    /\ phase = "deliver" /\ started /\ elapsed = Duration
    /\ Eligible # {} /\ valPool > 0
    /\ each' = valPool \div Cardinality(bonded)
    /\ left' = Eligible /\ paid' = {}
    /\ phase' = "settle"
    /\ UNCHANGED <<coins, toDao, staking, clock>>

\* The balance is read once and every share computed from it.
BeginSettle ==
    /\ phase = "deliver" /\ started /\ elapsed = Duration
    /\ Eligible # {} /\ valPool > 0
    /\ each' = valPool \div Cardinality(Eligible)
    /\ left' = Eligible /\ paid' = {}
    /\ phase' = "settle"
    /\ UNCHANGED <<coins, toDao, staking, clock>>

\* Fault: a refused send ends the loop.
PayOperatorOrStop(v) ==
    /\ phase = "settle" /\ v \in left
    /\ IF each = 0 \/ v \in Refusing
       THEN left' = {} /\ UNCHANGED <<valPool, earned, paid>>
       ELSE /\ left' = left \ {v}
            /\ valPool' = valPool - each
            /\ earned' = [earned EXCEPT ![v] = @ + each]
            /\ paid' = paid \cup {v}
    /\ UNCHANGED <<balance, devPool, dao, toDao, staking, clock, phase, each>>

\* One operator of the loop; a refused send is logged and skipped.
PayOperator(v) ==
    /\ phase = "settle" /\ v \in left
    /\ left' = left \ {v}
    /\ IF each = 0 \/ v \in Refusing
       THEN UNCHANGED <<valPool, earned, paid>>
       ELSE /\ valPool' = valPool - each
            /\ earned' = [earned EXCEPT ![v] = @ + each]
            /\ paid' = paid \cup {v}
    /\ UNCHANGED <<balance, devPool, dao, toDao, staking, clock, phase, each>>

EndSettle ==
    /\ phase = "settle" /\ left = {}
    /\ NewEpoch
    /\ each' = 0 /\ paid' = {}
    /\ phase' = "ticked"
    /\ UNCHANGED <<coins, toDao, staking, left>>

\* The next block, dt seconds later.
NextBlock(dt) ==
    /\ phase = "ticked"
    /\ elapsed' = IF elapsed + dt < Duration THEN elapsed + dt ELSE Duration
    /\ phase' = "deliver"
    /\ UNCHANGED <<coins, toDao, staking, started, epoch, payout>>

EndBlock ==
    \/ StartEpoch \/ EpochRuns \/ EpochEndsUnpaid
    \/ BeginSettle \/ (\E v \in Val : PayOperator(v)) \/ EndSettle

Next ==
    \/ \E p \in Payer, years \in 1..MaxYears : receiveCircuitRunwayPayment(p, years)
    \/ SetDevDestination
    \/ \E v \in Val : ValidatorChanges(v)
    \/ EndBlock
    \/ \E dt \in 0..Duration : NextBlock(dt)

Spec == Init /\ [][Next]_vars

\* Blocks keep coming, the EndBlocker runs to its end, and block time passes.
FairSpec ==
    /\ Spec
    /\ WF_vars(EndBlock \/ \E dt \in 0..Duration : NextBlock(dt))
    /\ SF_vars(\E dt \in 1..Duration : NextBlock(dt))

-----------------------------------------------------------------------------
(* Properties *)

\* No coin is made or lost on its way from a payer through the pools to the
\* operators, in the middle of a settlement either.
CoinsConserved ==
    SumFunctionOnSet(balance, Payer) + valPool + devPool + dao
      + SumFunctionOnSet(earned, Val)
      = Funds * Cardinality(Payer)

\* The pool always covers the operators the loop has still to pay, so no send of
\* a settlement fails for want of coins, whichever sends were refused before.
PoolCoversRest == phase = "settle" => valPool >= each * Cardinality(left)

\* A settlement leaves less than one coin per eligible operator in the pool, plus
\* the shares of the operators whose send was refused.
OnlyDustStays ==
    [][EndSettle => valPool < Cardinality(Eligible)
                              + each * Cardinality(Eligible \ paid)]_vars

\* As long as some operator can be paid in every epoch from some time on, the pool
\* is paid out down to the dust, again and again.
PoolDrains ==
    (<>[](bonded \ (jailed \cup Refusing) # {})) => []<>(valPool < Cardinality(Val))
=============================================================================
