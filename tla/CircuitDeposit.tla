--------------------------- MODULE CircuitDeposit ---------------------------
(***************************************************************************)
(* Paid runway for zk circuits (x/wasm/keeper).                            *)
(*                                                                         *)
(* An account that is not on the circuit upload list buys upload rights    *)
(* by the year (PayCircuitDeposit).  Four store indexes have to agree:     *)
(* the depositee row (0x1A), the expiry index ordered by time (0x1B), the  *)
(* "circuits still to be pruned" flag (0x1C) and the creator index (0x1D)  *)
(* of the circuits themselves (0x16).  At the end of every block           *)
(* PruneExpiredCircuitDeposits drops expired rows and removes their        *)
(* circuits, a bounded number per block.                                   *)
(*                                                                         *)
(* The loops of PruneExpiredCircuitDeposits are unrolled: `phase' is the   *)
(* program counter, one action is one iteration, and no message is         *)
(* delivered until the handler has returned.                               *)
(***************************************************************************)
EXTENDS Integers, FiniteSets

CONSTANTS
    Addr,             \* accounts; their order as numbers is the store's byte order
    Authority,        \* the governance account, which always may upload
    NoOne,            \* "no such row" in the circuit table
    Year,             \* CircuitDepositSecondsPerYear
    MaxYears,         \* CircuitDepositMaxYears
    MaxGCCircuits,    \* MaxCircuitDepositGCCircuits
    MaxGCDepositees,  \* MaxCircuitDepositGCDepositees
    MaxTime,          \* bound: last block time
    MaxUntil,         \* bound: the latest end a deposit is stacked to
    MaxZk,            \* bound: circuits ever stored
    MaxParam          \* bound: vk params ever stored

ASSUME AddrAssumption == Addr \subseteq Nat /\ Authority \in Addr /\ NoOne \notin Addr
ASSUME YearAssumption == Year \in Nat \ {0} /\ MaxYears \in Nat
ASSUME BudgetAssumption == MaxGCCircuits \in Nat \ {0} /\ MaxGCDepositees \in Nat \ {0}
ASSUME BoundAssumption == MaxTime \in Nat /\ MaxUntil \in Nat /\ MaxZk \in Nat /\ MaxParam \in Nat

VARIABLES
    now,             \* block time, unix seconds
    allowed,         \* accounts getCircuitUploadAccessConfig(ctx).Allowed accepts
    paidUntil,       \* depositee rows; 0 is "no row"
    expiry,          \* expiry index rows <<until, addr>>
    gc,              \* accounts flagged for circuit pruning
    nextParam,       \* KeySequenceVkParamID
    nextZk,          \* KeySequenceCircuitID
    circuits,        \* CircuitInfo rows: zk id -> creator, or NoOne
    paramRef,        \* circuit -> vk param rows; 0 is "no row"
    byCreator,       \* creator index rows <<addr, zk id>>
    phase,           \* where the block is: delivering, or in one of the two prune loops
    circuitsLeft, depositeesLeft,   \* the budgets of this block's prune
    pending,         \* flagged accounts the first loop has still to visit
    hits             \* expired index rows the second loop has still to visit

params == <<nextParam, paramRef>>
store  == <<nextZk, circuits, byCreator>>
rows   == <<paidUntil, expiry, gc>>
loop   == <<phase, circuitsLeft, depositeesLeft, pending, hits>>
vars   == <<now, allowed, params, store, rows, loop>>

ZkIds == 1..MaxZk

TypeOK ==
    /\ now \in 0..MaxTime
    /\ allowed \subseteq Addr
    /\ paidUntil \in [Addr -> Nat]
    /\ expiry \subseteq (Nat \ {0}) \X Addr
    /\ gc \subseteq Addr
    /\ nextParam \in 1..(MaxParam + 1)
    /\ nextZk \in 1..(MaxZk + 1)
    /\ circuits \in [ZkIds -> Addr \cup {NoOne}]
    /\ paramRef \in [ZkIds -> 0..MaxParam]
    /\ byCreator \subseteq Addr \X ZkIds
    /\ phase \in {"deliver", "pending", "expired"}
    /\ circuitsLeft \in 0..MaxGCCircuits
    /\ depositeesLeft \in 0..MaxGCDepositees
    /\ pending \subseteq Addr
    /\ hits \subseteq (Nat \ {0}) \X Addr

Init ==
    /\ now = 0
    /\ allowed \in SUBSET Addr
    /\ paidUntil = [a \in Addr |-> 0] /\ expiry = {} /\ gc = {}
    /\ nextParam = 1 /\ nextZk = 1
    /\ circuits = [z \in ZkIds |-> NoOne]
    /\ paramRef = [z \in ZkIds |-> 0]
    /\ byCreator = {}
    /\ phase = "deliver" /\ circuitsLeft = 0 /\ depositeesLeft = 0
    /\ pending = {} /\ hits = {}

-----------------------------------------------------------------------------
(* Messages *)

HasCircuitDeposit(a) == paidUntil[a] > now

\* The upload list, governance, or an unexpired depositee row.
authorizeCircuitUpload(a) == a = Authority \/ a \in allowed \/ HasCircuitDeposit(a)

\* Fault: a renewal restarts the runway instead of stacking on it.
LaterRestarts(s, t) == s

Later(s, t) == IF s > t THEN s ELSE t

\* Fault: the old expiry row stays behind.
PayKeepsOldRow(a, years) ==
    LET until == Later(now, paidUntil[a]) + years * Year IN
    /\ phase = "deliver"
    /\ years \in 1..MaxYears /\ until <= MaxUntil
    /\ paidUntil' = [paidUntil EXCEPT ![a] = until]
    /\ expiry' = expiry \cup {<<until, a>>}
    /\ gc' = gc \ {a}
    /\ UNCHANGED <<now, allowed, params, store, loop>>

\* Fault: paying does not cancel the pruning that is under way.
PayKeepsFlag(a, years) ==
    LET until == Later(now, paidUntil[a]) + years * Year IN
    /\ phase = "deliver"
    /\ years \in 1..MaxYears /\ until <= MaxUntil
    /\ paidUntil' = [paidUntil EXCEPT ![a] = until]
    /\ expiry' = (expiry \ {<<paidUntil[a], a>>}) \cup {<<until, a>>}
    /\ UNCHANGED <<now, allowed, params, store, gc, loop>>

\* The payment itself is CircuitRunway's; when it fails the message changes nothing.
PayCircuitDeposit(a, years) ==
    LET until == Later(now, paidUntil[a]) + years * Year IN
    /\ phase = "deliver"
    /\ years \in 1..MaxYears /\ until <= MaxUntil
    /\ paidUntil' = [paidUntil EXCEPT ![a] = until]
    /\ expiry' = (expiry \ {<<paidUntil[a], a>>}) \cup {<<until, a>>}
    /\ gc' = gc \ {a}
    /\ UNCHANGED <<now, allowed, params, store, loop>>

StoreVkParam(a) ==
    /\ phase = "deliver"
    /\ authorizeCircuitUpload(a)
    /\ nextParam <= MaxParam
    /\ nextParam' = nextParam + 1
    /\ UNCHANGED <<now, allowed, paramRef, store, rows, loop>>

StoreCircuit(a, param) ==
    /\ phase = "deliver"
    /\ authorizeCircuitUpload(a)
    /\ param \in 1..(nextParam - 1)
    /\ nextZk <= MaxZk
    /\ nextZk' = nextZk + 1
    /\ circuits' = [circuits EXCEPT ![nextZk] = a]
    /\ paramRef' = [paramRef EXCEPT ![nextZk] = param]
    /\ byCreator' = byCreator \cup {<<a, nextZk>>}
    /\ UNCHANGED <<now, allowed, nextParam, rows, loop>>

\* StoreVkParam followed by StoreCircuit with the new param, in one message.
StoreFullCircuit(a) ==
    /\ phase = "deliver"
    /\ authorizeCircuitUpload(a)
    /\ nextParam <= MaxParam
    /\ nextParam' = nextParam + 1
    /\ nextZk <= MaxZk
    /\ nextZk' = nextZk + 1
    /\ circuits' = [circuits EXCEPT ![nextZk] = a]
    /\ paramRef' = [paramRef EXCEPT ![nextZk] = nextParam]
    /\ byCreator' = byCreator \cup {<<a, nextZk>>}
    /\ UNCHANGED <<now, allowed, rows, loop>>

\* Governance sets the upload access parameters.
SetUploadAccess(list) ==
    /\ phase = "deliver"
    /\ allowed' = list
    /\ UNCHANGED <<now, params, store, rows, loop>>

-----------------------------------------------------------------------------
(* PruneExpiredCircuitDeposits *)

CircuitsOf(a) == {z \in ZkIds : <<a, z>> \in byCreator}

\* Fault: the limit is tested after the append.
FirstIdsOneMore(ids, max) == {z \in ids : Cardinality({y \in ids : y < z}) <= max}

\* The first `max' members of a set of ids, in key order.
FirstIds(ids, max) == {z \in ids : Cardinality({y \in ids : y < z}) < max}

\* Key order of the expiry index: big-endian time, then address.
Before(r, s) == r[1] < s[1] \/ (r[1] = s[1] /\ r[2] < s[2])
FirstRows(rs, max) == {r \in rs : Cardinality({s \in rs : Before(s, r)}) < max}

\* removeCircuit for every id in zs.  A row whose CircuitInfo is gone only
\* loses its entry in the index that named it, the one of creator a.
removeCircuits(a, zs) ==
    /\ circuits' = [z \in ZkIds |-> IF z \in zs THEN NoOne ELSE circuits[z]]
    /\ paramRef' = [z \in ZkIds |->
                      IF z \in zs /\ circuits[z] # NoOne THEN 0 ELSE paramRef[z]]
    /\ byCreator' = {r \in byCreator :
                       ~ (/\ r[2] \in zs
                          /\ r[1] = IF circuits[r[2]] = NoOne THEN a ELSE circuits[r[2]])}
    /\ UNCHANGED <<nextParam, nextZk>>

\* Fault: the flag is set whether or not circuits are left.
pruneAlwaysFlags(a) ==
    LET victims == FirstIds(CircuitsOf(a), circuitsLeft) IN
    /\ removeCircuits(a, victims)
    /\ circuitsLeft' = circuitsLeft - Cardinality(victims)
    /\ gc' = gc \cup {a}

\* Prunes at most circuitsLeft circuits of a and flags a if some are left.
pruneCreatorCircuits(a) ==
    LET victims == FirstIds(CircuitsOf(a), circuitsLeft) IN
    /\ removeCircuits(a, victims)
    /\ circuitsLeft' = circuitsLeft - Cardinality(victims)
    /\ gc' = IF CircuitsOf(a) \ victims # {} THEN gc \cup {a} ELSE gc \ {a}

\* Fault: the loop goes on when no circuit may be removed any more.
BudgetOfDepositees == depositeesLeft > 0

BudgetLeft == depositeesLeft > 0 /\ circuitsLeft > 0

\* Fault: accounts whose pruning was interrupted are not visited again.
BeginPruneForgets ==
    /\ phase = "deliver"
    /\ phase' = "pending"
    /\ circuitsLeft' = MaxGCCircuits /\ depositeesLeft' = MaxGCDepositees
    /\ pending' = {}
    /\ UNCHANGED <<now, allowed, params, store, rows, hits>>

BeginPrune ==
    /\ phase = "deliver"
    /\ phase' = "pending"
    /\ circuitsLeft' = MaxGCCircuits /\ depositeesLeft' = MaxGCDepositees
    /\ pending' = gc
    /\ UNCHANGED <<now, allowed, params, store, rows, hits>>

\* One iteration over the flagged accounts.
PrunePending ==
    /\ phase = "pending" /\ BudgetLeft
    /\ \E a \in pending :
        /\ \A b \in pending : a <= b
        /\ pruneCreatorCircuits(a)
        /\ pending' = pending \ {a}
    /\ depositeesLeft' = depositeesLeft - 1
    /\ UNCHANGED <<now, allowed, paidUntil, expiry, phase, hits>>

\* Fault: a row that ends exactly now is not collected.
CollectStrictlyExpired ==
    /\ phase = "pending" /\ pending = {}
    /\ phase' = "expired"
    /\ hits' = FirstRows({r \in expiry : r[1] < now}, depositeesLeft)
    /\ UNCHANGED <<now, allowed, params, store, rows, circuitsLeft, depositeesLeft, pending>>

\* The flagged accounts are done: collect the expired index rows.
CollectExpired ==
    /\ phase = "pending" /\ pending = {}
    /\ phase' = "expired"
    /\ hits' = FirstRows({r \in expiry : r[1] <= now}, depositeesLeft)
    /\ UNCHANGED <<now, allowed, params, store, rows, circuitsLeft, depositeesLeft, pending>>

\* A collected row that no longer says when the deposit ends is just deleted.
DropStaleRow(r) ==
    /\ expiry' = expiry \ {r}
    /\ UNCHANGED <<paidUntil, gc, params, store, circuitsLeft, depositeesLeft>>

\* The deposit is over: both its rows go, at the price of one depositee.
DropDeposit(r) ==
    /\ paidUntil' = [paidUntil EXCEPT ![r[2]] = 0]
    /\ expiry' = expiry \ {r}
    /\ depositeesLeft' = depositeesLeft - 1

\* An account on the upload list keeps its circuits.
ExpireAllowed(r) ==
    /\ DropDeposit(r)
    /\ gc' = gc \ {r[2]}
    /\ UNCHANGED <<params, store, circuitsLeft>>

\* The account has no other right to its circuits.
ExpireDeposit(r) == DropDeposit(r) /\ pruneCreatorCircuits(r[2])

\* One iteration over the collected rows.
PruneExpired ==
    /\ phase = "expired" /\ BudgetLeft
    /\ \E r \in hits :
        /\ \A s \in hits : s # r => Before(r, s)
        /\ IF paidUntil[r[2]] # r[1] \/ r[1] > now THEN DropStaleRow(r)
           ELSE IF r[2] \in allowed THEN ExpireAllowed(r)
           ELSE ExpireDeposit(r)
        /\ hits' = hits \ {r}
    /\ UNCHANGED <<now, allowed, phase, pending>>

\* The handler returns, early when a budget is spent, and the next block starts.
NextBlock(dt) ==
    /\ \/ phase = "pending" /\ pending # {} /\ ~ BudgetLeft
       \/ phase = "expired" /\ (hits = {} \/ ~ BudgetLeft)
    /\ now + dt <= MaxTime
    /\ now' = now + dt
    /\ phase' = "deliver" /\ circuitsLeft' = 0 /\ depositeesLeft' = 0
    /\ pending' = {} /\ hits' = {}
    /\ UNCHANGED <<allowed, params, store, rows>>

EndBlock == BeginPrune \/ PrunePending \/ CollectExpired \/ PruneExpired

Deliver ==
    \/ \E a \in Addr : \/ \E years \in 1..MaxYears : PayCircuitDeposit(a, years)
                       \/ StoreVkParam(a)
                       \/ \E param \in 1..MaxParam : StoreCircuit(a, param)
                       \/ StoreFullCircuit(a)
    \/ \E list \in SUBSET Addr : SetUploadAccess(list)

Next == Deliver \/ EndBlock \/ \E dt \in 0..MaxTime : NextBlock(dt)

Spec == Init /\ [][Next]_vars

\* Blocks keep coming and every EndBlocker runs to its end: consensus liveness.
\* Nothing is assumed of the messages, of the upload list or of how time passes.
FairSpec == Spec /\ WF_vars(EndBlock \/ \E dt \in 0..MaxTime : NextBlock(dt))

-----------------------------------------------------------------------------
(* Properties *)

Removed(z) == circuits[z] # NoOne /\ circuits'[z] = NoOne

\* The expiry index holds exactly one row per depositee, with the time of the
\* depositee row: renewals move it, pruning removes both together.
ExpiryIndexExact ==
    expiry = {<<paidUntil[a], a>> : a \in {b \in Addr : paidUntil[b] # 0}}

\* An account that holds a deposit is never flagged for pruning: paying cancels
\* the flag, and only an account whose row was dropped is flagged.
FlaggedWithoutDeposit == \A a \in gc : paidUntil[a] = 0

\* A flag is never left behind: a flagged account still has circuits to prune.
FlaggedOwnsCircuits == \A a \in gc : CircuitsOf(a) # {}

\* At most one account is in the middle of its pruning: an account is flagged only
\* when it has used up the circuits of the block, which ends both loops.  So the
\* flagged accounts alone never use up the budget of depositees of a block.
OneInterrupted == \A a, b \in gc : a = b

\* The creator index the pruner walks names exactly the stored circuits.
CreatorIndexExact ==
    byCreator = {<<circuits[z], z>> : z \in {y \in ZkIds : circuits[y] # NoOne}}

\* Every stored circuit refers to a stored vk param, and no removed circuit does.
ParamRefsResolve ==
    \A z \in ZkIds : IF circuits[z] = NoOne THEN paramRef[z] = 0
                                            ELSE paramRef[z] \in 1..(nextParam - 1)

\* All three: no renewal, upload or prune, finished or not, leaves a row behind that
\* the other tables do not have.
IndexesExact == ExpiryIndexExact /\ CreatorIndexExact /\ ParamRefsResolve

\* Time that was paid for is never taken away: a deposit ends or is replaced by
\* an earlier one only after it has run out.
PaidTimeKept ==
    [][\A a \in Addr : paidUntil'[a] < paidUntil[a] => paidUntil[a] <= now]_vars

\* No step removes a circuit whose creator holds an unexpired deposit.
CoveredCircuitsKept ==
    [][\A z \in ZkIds : Removed(z) => ~ HasCircuitDeposit(circuits[z])]_vars

\* An expired deposit does not keep its row for ever, whatever else the pruner
\* has to do: its row is dropped or the account pays again.
ExpiredDropped ==
    \A a \in Addr : (paidUntil[a] # 0 /\ ~ HasCircuitDeposit(a))
                      ~> (paidUntil[a] = 0 \/ HasCircuitDeposit(a))

\* Pruning that did not fit in one block's budget is finished in later blocks.
FlagCleared == \A a \in Addr : (a \in gc) ~> (a \notin gc)
=============================================================================
