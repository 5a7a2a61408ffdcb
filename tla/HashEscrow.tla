----------------------------- MODULE HashEscrow -----------------------------
(***************************************************************************)
(* Who receives the roots that hashmerchant confirms (x/hashmerchant).     *)
(*                                                                         *)
(* A contract is registered for a chain against an escrow; every           *)
(* MinEscrowAmount of it buys PruneInterval blocks of callbacks.  Roots    *)
(* are confirmed and contracts called before the messages of a block, and  *)
(* at its end, once per PruneInterval, contracts whose time is over are    *)
(* disabled.                                                               *)
(*                                                                         *)
(* A call that fails or runs out of gas changes nothing here.  Messages    *)
(* that a called contract sends to this module are left out.               *)
(***************************************************************************)
EXTENDS Integers, FiniteSets, Functions

CONSTANTS
    Chain,        \* foreign chains
    Contract,     \* contracts
    Denom,        \* denominations
    NoChain,      \* "no row" in the table of contracts
    NoDenom,      \* "no row" in the table of escrows
    Param,        \* parameters that pass Params.Validate
    Word,         \* 2^64, where heights wrap around
    Funds,        \* bound: coins of each denomination outside the module
    MaxHeight,    \* bound: last block
    MaxUntil,     \* bound: the latest height an escrow is paid to
    MaxEpoch      \* bound: prune epoch of the genesis file

ASSUME RowAssumption == NoChain \notin Chain /\ NoDenom \notin Denom
ASSUME FiniteAssumption == IsFiniteSet(Contract)
ASSUME ParamAssumption ==
    \A p \in Param : p.price \in Nat /\ p.interval \in Nat \ {0} /\ p.denom \in Denom
ASSUME BoundAssumption ==
    /\ Funds \in Nat /\ MaxHeight \in Nat \ {0} /\ MaxUntil \in Nat /\ MaxEpoch \in Nat
    /\ Word \in Nat /\ MaxHeight < Word
ASSUME WordAssumption == \A p \in Param : MaxEpoch + p.interval <= Word

VARIABLES
    params,       \* MinEscrowAmount, PruneInterval and EscrowDenom
    chains,       \* RegisteredChain rows: "none", "enabled" or "disabled"
    chainOf,      \* RegisteredContract rows
    enabled,      \* contracts whose row says Enabled
    amount, coin, \* EscrowRecord rows: Amount
    until,        \* ... and PaidUntilHeight
    purse, pool,  \* coins outside, and in the module account
    height,       \* of the current block
    lastPrune,    \* prune epoch
    phase,        \* "pre" before the messages of the block, then "deliver"
    called,       \* contracts called in this block
    bought,       \* blocks a contract has paid for, ever
    served        \* blocks in which a contract was called, ever

records == <<amount, coin, until>>
coins   == <<purse, pool>>
clock   == <<height, lastPrune, phase>>
history == <<called, bought, served>>
vars    == <<params, chains, chainOf, enabled, records, coins, clock, history>>

TypeOK ==
    /\ params \in Param
    /\ chains \in [Chain -> {"none", "enabled", "disabled"}]
    /\ chainOf \in [Contract -> Chain \cup {NoChain}] /\ enabled \subseteq Contract
    /\ amount \in [Contract -> Nat] /\ coin \in [Contract -> Denom \cup {NoDenom}]
    /\ until \in [Contract -> Nat]
    /\ purse \in [Denom -> Nat] /\ pool \in [Denom -> Nat]
    /\ height \in 1..MaxHeight /\ lastPrune \in Nat /\ phase \in {"pre", "deliver"}
    /\ called \subseteq Contract
    /\ bought \in [Contract -> Nat] /\ served \in [Contract -> Nat]

Init ==
    /\ params \in Param
    /\ chains = [ch \in Chain |-> "none"]
    /\ chainOf = [c \in Contract |-> NoChain] /\ enabled = {}
    /\ amount = [c \in Contract |-> 0] /\ coin = [c \in Contract |-> NoDenom]
    /\ until = [c \in Contract |-> 0]
    /\ purse = [d \in Denom |-> Funds] /\ pool = [d \in Denom |-> 0]
    /\ height = 1 /\ lastPrune \in 0..MaxEpoch /\ phase = "pre"
    /\ called = {}
    /\ bought = [c \in Contract |-> 0] /\ served = [c \in Contract |-> 0]

-----------------------------------------------------------------------------
(* Before the messages of the block: a root of chain ch is confirmed *)

\* Fault: the block after the last one paid for is still served.
ActiveOneMore(c) == height <= until[c] + 1

\* The escrow record says the contract has paid for this block.
Active(c) == coin[c] # NoDenom /\ until[c] >= height

Subscribers(ch) == {c \in enabled : chainOf[c] = ch /\ Active(c)}

dispatchSudoCallbacks(ch) ==
    /\ phase = "pre" /\ chains[ch] # "none"
    /\ called' = called \cup Subscribers(ch)
    /\ served' = [c \in Contract |->
          IF c \in Subscribers(ch) \ called THEN served[c] + 1 ELSE served[c]]
    /\ UNCHANGED <<params, chains, chainOf, enabled, records, coins, clock, bought>>

DeliverBlock ==
    /\ phase = "pre" /\ phase' = "deliver"
    /\ UNCHANGED <<params, chains, chainOf, enabled, records, coins, height, lastPrune,
                   history>>

-----------------------------------------------------------------------------
(* Messages *)

\* Governance adds a chain, enabled or not.
RegisterChain(ch, status) ==
    /\ phase = "deliver" /\ chains[ch] = "none"
    /\ chains' = [chains EXCEPT ![ch] = status]
    /\ UNCHANGED <<params, chainOf, enabled, records, coins, clock, history>>

UpdateParams(p) ==
    /\ phase = "deliver"
    /\ params' = p
    /\ UNCHANGED <<chains, chainOf, enabled, records, coins, clock, history>>

\* Quo panics on a price of zero, which fails the message.
Blocks(amt) == (amt \div params.price) * params.interval

\* Fault: the coins are booked and not sent.
escrowUnsent(amt) == UNCHANGED <<purse, pool>>

\* The message's coins of the denomination in force go to the module account.
sendEscrow(amt) ==
    /\ amt <= purse[params.denom]
    /\ purse' = [purse EXCEPT ![params.denom] = @ - amt]
    /\ pool' = [pool EXCEPT ![params.denom] = @ + amt]

\* Any sender; a row that is there already is overwritten.
RegisterContract(c, ch, amt) ==
    /\ phase = "deliver"
    /\ chains[ch] = "enabled"
    /\ amt >= params.price /\ params.price # 0
    /\ sendEscrow(amt)
    /\ height + Blocks(amt) <= MaxUntil
    /\ chainOf' = [chainOf EXCEPT ![c] = ch]
    /\ enabled' = enabled \cup {c}
    /\ amount' = [amount EXCEPT ![c] = amt]
    /\ coin' = [coin EXCEPT ![c] = params.denom]
    /\ until' = [until EXCEPT ![c] = height + Blocks(amt)]
    /\ bought' = [bought EXCEPT ![c] = @ + Blocks(amt)]
    /\ UNCHANGED <<params, chains, clock, called, served>>

\* A record kept in another denomination cannot be added to: Coin.Add panics.
RefillEscrow(c, amt) ==
    /\ phase = "deliver"
    /\ coin[c] = params.denom /\ params.price # 0
    /\ sendEscrow(amt)
    /\ until[c] + Blocks(amt) <= MaxUntil
    /\ amount' = [amount EXCEPT ![c] = @ + amt]
    /\ until' = [until EXCEPT ![c] = @ + Blocks(amt)]
    /\ bought' = [bought EXCEPT ![c] = @ + Blocks(amt)]
    /\ UNCHANGED <<params, chains, chainOf, enabled, coin, clock, called, served>>

-----------------------------------------------------------------------------
(* EndBlocker *)

\* Unsigned subtraction.
SincePrune == (height - lastPrune) % Word

\* Fault: a contract is given one more interval.
ExpiredLate == {c \in Contract : coin[c] # NoDenom /\ until[c] + params.interval < height}

Expired == {c \in Contract : coin[c] # NoDenom /\ until[c] < height}

\* pruneExpiredEscrows disables; rows and coins stay.
pruneExpiredEscrows ==
    IF SincePrune >= params.interval
    THEN enabled' = enabled \ Expired /\ lastPrune' = height
    ELSE UNCHANGED <<enabled, lastPrune>>

EndBlocker ==
    /\ phase = "deliver" /\ height < MaxHeight
    /\ pruneExpiredEscrows
    /\ height' = height + 1 /\ phase' = "pre" /\ called' = {}
    /\ UNCHANGED <<params, chains, chainOf, records, coins, bought, served>>

Next ==
    \/ \E ch \in Chain :
          \/ dispatchSudoCallbacks(ch)
          \/ RegisterChain(ch, "enabled") \/ RegisterChain(ch, "disabled")
    \/ DeliverBlock
    \/ \E p \in Param : UpdateParams(p)
    \/ \E c \in Contract, amt \in 1..Funds :
          (\E ch \in Chain : RegisterContract(c, ch, amt)) \/ RefillEscrow(c, amt)
    \/ EndBlocker

Spec == Init /\ [][Next]_vars

-----------------------------------------------------------------------------
(* Properties *)

\* A contract is called in no more blocks than were paid for, whatever mixture of
\* registrations, refills before and after the end and new parameters: the block of
\* the registration and the last paid one make no extra block.
ServedWithinBought == \A c \in Contract : served[c] <= bought[c]

\* When a block starts, no enabled contract is a whole prune interval past its paid
\* time, from the second block on, even if the genesis file came with a prune epoch
\* ahead of the height.
DisabledInTime ==
    phase = "pre" /\ height > 1 =>
        \A c \in enabled : height - 1 < until[c] + params.interval

Holders(d) == {c \in Contract : coin[c] = d}

Recorded(d) == SumFunctionOnSet(amount, Holders(d))

\* The module account holds what the escrow records say, in each denomination.
PoolCoversRecords == \A d \in Denom : pool[d] >= Recorded(d)

\* "As long as the current block height is below `paid_until_height`, the contract
\* receives sudo callbacks" (x/hashmerchant/spec/01_concepts.md).
PaidIsServed == \A c \in Contract : coin[c] # NoDenom /\ height < until[c] => c \in enabled
=============================================================================
