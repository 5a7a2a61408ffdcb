--------------------------- MODULE SmartAccounts ---------------------------
(***************************************************************************)
(* Transactions of accounts with authenticators (x/smart-account): the     *)
(* circuit breaker that chooses the ante handlers, authentication of every *)
(* message by the authenticator the transaction selects, fees, Track, the  *)
(* messages, and ConfirmExecution after them.                              *)
(*                                                                         *)
(* An authenticator is a tree: AllOf and AnyOf over sub-authenticators,    *)
(* down to leaves (signatures, filters, contracts) that answer yes or no   *)
(* each time they are asked.  A leaf is named by its path, as by the       *)
(* composite ids of the code.                                              *)
(***************************************************************************)
EXTENDS Naturals, Sequences, FiniteSets

CONSTANTS
    Account,
    Tree,                  \* the authenticators, and the sub-authenticators in them
    Size,                  \* how many authenticators a tree is made of: trees are finite
    Message,               \* the messages: [signer, do] and the fields of do
    GenesisRows,           \* the authenticators at genesis
    Controllers,           \* who may switch the module off,
    Governor,              \* and on: a module account, that signs no transaction
    MaxMsgs, MaxId, MaxSeq \* bounds: messages of a transaction, authenticators
                           \* ever added, transactions of an account

Path == Seq(Nat)

ASSUME TreeAssumption ==
    \A t \in Tree : t.op \in {"leaf", "AllOf", "AnyOf"} /\
        (t.op # "leaf" => t.subs \in Seq(Tree) /\ Len(t.subs) > 1)
ASSUME SizeAssumption ==
    /\ Size \in [Tree -> Nat]
    /\ \A t \in Tree : t.op # "leaf" =>
          \A i \in DOMAIN t.subs : Size[t.subs[i]] + Len(t.subs) <= Size[t]
ASSUME GovernorAssumption == Governor \notin Account
ASSUME MessageAssumption ==
    \A m \in Message : /\ m.signer \in Account
                       /\ m.do \in {"other", "add", "remove", "active"}
                       /\ m.do = "add" => m.tree \in Tree
                       /\ m.do = "remove" => m.id \in Nat
                       /\ m.do = "active" => m.to \in BOOLEAN

Row == [account : Account, id : Nat, tree : Tree]

ASSUME GenesisAssumption ==
    /\ GenesisRows \subseteq Row /\ IsFiniteSet(GenesisRows)
    /\ \A row \in GenesisRows : row.id <= Cardinality(GenesisRows)
    /\ \A r1, r2 \in GenesisRows : r1.id = r2.id => r1 = r2
ASSUME BoundsAssumption == MaxMsgs \in Nat /\ MaxId \in Nat /\ MaxSeq \in Nat

VARIABLES
    chain,     \* the committed state
    cache,     \* the state of the ante handlers, then that of the messages
    tx,        \* the transaction: its messages, selected ids and sequences
    phase,     \* where it is
    at,        \* the message that is next
    tracks,    \* the authenticators asked so far, with the answers of their leaves
    votes,     \* the same for ConfirmExecution
    failed,    \* a message or a confirmation failed
    used       \* the sequence numbers of the transactions that took effect

vars == <<chain, cache, tx, phase, at, tracks, votes, failed, used>>

\* The state has the rows and parameters of the module and the sequence
\* numbers, and what the current transaction did to it: fees paid, leaves
\* tracked, messages executed, and the leaves that wrote when confirming.
State == [rows : SUBSET Row, nextId : Nat, active : BOOLEAN, seq : [Account -> Nat],
          fee : Nat, tracked : SUBSET Path, done : SUBSET Nat, confirmed : SUBSET Path]

Answer == [tree : Tree, ok : SUBSET Path]

Count == Len(tx.msgs)
Signer(i) == tx.msgs[i].signer
Signers == {Signer(i) : i \in 1 .. Count}
NoTx == [msgs |-> <<>>, sel |-> <<>>, seq |-> <<>>]
-----------------------------------------------------------------------------
(***************************************************************************)
(* Authenticators.                                                         *)
(***************************************************************************)

\* The paths of the leaves of a tree, and those of sub-tree i in ok.
Leaves[t \in Tree] ==
    IF t.op = "leaf" THEN {<<>>}
    ELSE UNION {{<<i>> \o p : p \in Leaves[t.subs[i]]} : i \in DOMAIN t.subs}
Under(i, ok) == {Tail(p) : p \in {q \in ok : q # <<>> /\ Head(q) = i}}

\* AllOf asks in order until one fails, AnyOf until one succeeds.  As many of
\* the leaves as are in ok would succeed.  Tree t is asked from its
\* sub-authenticator i on.
Authenticates[x \in Tree \X (SUBSET Path) \X (Nat \ {0})] ==
    LET t == x[1]  ok == x[2]  i == x[3] IN
    IF t.op = "leaf" THEN <<>> \in ok
    ELSE IF i > Len(t.subs) THEN t.op = "AllOf"
    ELSE LET sub == Authenticates[<<t.subs[i], Under(i, ok), 1>>]
         IN IF t.op = "AllOf" THEN sub /\ Authenticates[<<t, ok, i + 1>>]
                              ELSE sub \/ Authenticates[<<t, ok, i + 1>>]

\* Fault: sub-authenticators of AnyOf confirm without a cache of their own.
ConfirmsUncached[x \in Tree \X (SUBSET Path) \X (Nat \ {0}) \X Path \X (SUBSET Path)] ==
    LET t == x[1]  ok == x[2]  i == x[3]  p == x[4]  w == x[5] IN
    IF t.op = "leaf" THEN [ok |-> <<>> \in ok, writes |-> w \cup {p}]
    ELSE IF i > Len(t.subs) THEN [ok |-> t.op = "AllOf", writes |-> w]
    ELSE LET sub == ConfirmsUncached[<<t.subs[i], Under(i, ok), 1, Append(p, i), w>>]
         IN IF sub.ok = (t.op = "AnyOf") THEN sub
            ELSE ConfirmsUncached[<<t, ok, i + 1, p, sub.writes>>]

\* ConfirmExecution of tree t at path p, from its sub-authenticator i on: its
\* answer and, with what was written before (w), the leaves that wrote.  A leaf
\* may write before it fails.
Confirms[x \in Tree \X (SUBSET Path) \X (Nat \ {0}) \X Path \X (SUBSET Path)] ==
    LET t == x[1]  ok == x[2]  i == x[3]  p == x[4]  w == x[5] IN
    IF t.op = "leaf" THEN [ok |-> <<>> \in ok, writes |-> w \cup {p}]
    ELSE IF i > Len(t.subs) THEN [ok |-> t.op = "AllOf", writes |-> w]
    ELSE LET sub == Confirms[<<t.subs[i], Under(i, ok), 1, Append(p, i), w>>]
         IN IF t.op = "AllOf"
            THEN IF sub.ok THEN Confirms[<<t, ok, i + 1, p, sub.writes>>] ELSE sub
            ELSE IF sub.ok THEN sub ELSE Confirms[<<t, ok, i + 1, p, w>>]

\* Fault: see ConfirmsUncached.
ConfirmExecutionUncached(t, ok, i, w) == ConfirmsUncached[<<t, ok, 1, <<i>>, w>>]

Authenticate(t, ok) == Authenticates[<<t, ok, 1>>]
ConfirmExecution(t, ok, i, w) == Confirms[<<t, ok, 1, <<i>>, w>>]

\* GetInitializedAuthenticatorForAccount
Selected(s, i) ==
    {row \in s.rows : i <= Len(tx.sel) /\ row.account = Signer(i) /\ row.id = tx.sel[i]}

\* IsCircuitBreakActive
BreakActive(s) == ~s.active \/ tx.sel = <<>>

\* Fault: Authenticate is called with NoReplayProtection.
SequenceMatchSkipped(s, i) == TRUE

\* SequenceMatch, in GenerateAuthenticationRequest
SequenceMatch(s, i) == tx.seq[Signer(i)] = s.seq[Signer(i)]

\* The ante decorators DeductFee and IncrementSequence
DeductFee(s) == [s EXCEPT !.fee = @ + 1]
IncrementSequence(s) ==
    [s EXCEPT !.seq = [a \in Account |-> IF a \in Signers THEN @[a] + 1 ELSE @[a]]]

\* MsgSetActiveState: the states it may lead to, none if it fails.
SetActiveState(s, a, to) ==
    IF (to /\ a = Governor) \/ (~to /\ a \in Controllers) THEN {[s EXCEPT !.active = to]}
    ELSE {}

NewTx(s) == [rows |-> s.rows, nextId |-> s.nextId, active |-> s.active, seq |-> s.seq,
             fee |-> 0, tracked |-> {}, done |-> {}, confirmed |-> {}]
-----------------------------------------------------------------------------
\* InitGenesis
Init ==
    /\ chain = [rows |-> GenesisRows, nextId |-> Cardinality(GenesisRows) + 1,
                active |-> TRUE, seq |-> [a \in Account |-> 0],
                fee |-> 0, tracked |-> {}, done |-> {}, confirmed |-> {}]
    /\ cache = chain
    /\ tx = NoTx
    /\ phase = "idle"
    /\ at = 0
    /\ tracks = <<>> /\ votes = <<>>
    /\ failed = FALSE
    /\ used = {}

\* A proposal switches the module on again, between transactions.
Activate ==
    /\ phase = "idle" /\ ~chain.active
    /\ chain' \in SetActiveState(chain, Governor, TRUE)
    /\ cache' = chain'
    /\ UNCHANGED <<tx, phase, at, tracks, votes, failed, used>>

\* A transaction arrives: with ids selected for some of its messages or none,
\* and with sequence numbers that may be old.  CircuitBreakerDecorator chooses
\* the ante handlers.
BeginTx ==
    /\ phase = "idle"
    /\ \E k \in 1 .. MaxMsgs :
       \E msgs \in [1 .. k -> Message], j \in 0 .. k :
       \E sel \in [1 .. j -> 1 .. MaxId],
          seq \in [{msgs[i].signer : i \in 1 .. k} -> 0 .. MaxSeq] :
          /\ \A a \in DOMAIN seq : seq[a] <= chain.seq[a]
          /\ tx' = [msgs |-> msgs, sel |-> sel, seq |-> seq]
    /\ UNCHANGED <<chain, tracks, votes, failed, used>>
    /\ cache' = chain
    /\ phase' = IF BreakActive(chain)' THEN "classic" ELSE "ante"
    /\ at' = 1

\* The ante handlers return an error: nothing more of them is written.
Reject ==
    /\ phase \in {"classic", "ante"}
    /\ phase' = "over"
    /\ UNCHANGED <<chain, cache, tx, at, tracks, votes, failed, used>>

\* The ante handlers for plain accounts succeed: fee, signatures, sequences.
ClassicAnte ==
    /\ phase = "classic"
    /\ \A i \in 1 .. Count : SequenceMatch(cache, i) /\ cache.seq[Signer(i)] < MaxSeq
    /\ cache' = IncrementSequence(DeductFee(cache))
    /\ chain' = cache'
    /\ phase' = "messages"
    /\ UNCHANGED <<tx, at, tracks, votes, failed, used>>

\* Fault: the fee is deducted for every message of the fee payer.
PaysFeeEachTime(s, i) == Signer(i) = Signer(1)

\* The first signer pays, once (feesPaid).
PaysFee(s, i) == s.fee = 0 /\ Signer(i) = Signer(1)

AllLeaves(answers) ==
    UNION {{<<i>> \o p : p \in Leaves[answers[i].tree]} : i \in DOMAIN answers}

\* Fault: Track is called as soon as a message is authenticated.
AuthenticateMessageTracks ==
    /\ phase = "ante" /\ at <= Count /\ Len(tx.sel) = Count
    /\ SequenceMatch(cache, at)
    /\ \E row \in Selected(cache, at) : \E ok \in SUBSET Leaves[row.tree] :
          /\ Authenticate(row.tree, ok)
          /\ tracks' = Append(tracks, [tree |-> row.tree, ok |-> ok])
    /\ LET tracked == [cache EXCEPT !.tracked = AllLeaves(tracks')]
       IN IF PaysFee(cache, at) THEN cache' = DeductFee(tracked) /\ chain' = cache'
                                ELSE cache' = tracked /\ chain' = chain
    /\ at' = at + 1
    /\ UNCHANGED <<tx, phase, votes, failed, used>>

\* A message is authenticated.  What its authenticator writes is dropped.  The
\* fee is deducted when the fee payer is first authenticated, and written at
\* once: it is paid even if the transaction is rejected later.
AuthenticateMessage ==
    /\ phase = "ante" /\ at <= Count /\ Len(tx.sel) = Count
    /\ SequenceMatch(cache, at)
    /\ \E row \in Selected(cache, at) : \E ok \in SUBSET Leaves[row.tree] :
          /\ Authenticate(row.tree, ok)
          /\ tracks' = Append(tracks, [tree |-> row.tree, ok |-> ok])
    /\ IF PaysFee(cache, at) THEN cache' = DeductFee(cache) /\ chain' = cache'
                             ELSE UNCHANGED <<chain, cache>>
    /\ at' = at + 1
    /\ UNCHANGED <<tx, phase, votes, failed, used>>

\* All messages are authenticated: Track is called on every leaf, the sequence
\* numbers are incremented and the ante handlers' state is written.
Track ==
    /\ phase = "ante" /\ at > Count
    /\ \A a \in Signers : cache.seq[a] < MaxSeq
    /\ cache' = IncrementSequence([cache EXCEPT !.tracked = AllLeaves(tracks)])
    /\ chain' = cache'
    /\ phase' = "messages"
    /\ at' = 1
    /\ UNCHANGED <<tx, tracks, votes, failed, used>>
-----------------------------------------------------------------------------
(***************************************************************************)
(* The messages of the module: the states they may lead to, none if they   *)
(* fail.                                                                   *)
(***************************************************************************)

\* Fault: the id is the number of authenticators, and one.
AddAuthenticatorCounted(s, a, t) ==
    IF ~s.active \/ s.nextId > MaxId THEN {}
    ELSE {[s EXCEPT !.rows = @ \cup {[account |-> a, id |-> Cardinality(@) + 1, tree |-> t]},
                    !.nextId = Cardinality(s.rows) + 2]}

AddAuthenticator(s, a, t) ==
    IF ~s.active \/ s.nextId > MaxId THEN {}
    ELSE {[s EXCEPT !.rows = @ \cup {[account |-> a, id |-> s.nextId, tree |-> t]},
                    !.nextId = @ + 1]}

RemoveAuthenticator(s, a, id) ==
    {[s EXCEPT !.rows = @ \ {row}] :
        row \in {r \in s.rows : s.active /\ r.account = a /\ r.id = id}}

Handle(s, m) ==
    CASE m.do = "other" -> {s}
      [] m.do = "add" -> AddAuthenticator(s, m.signer, m.tree)
      [] m.do = "remove" -> RemoveAuthenticator(s, m.signer, m.id)
      [] m.do = "active" -> SetActiveState(s, m.signer, m.to)

RunMessage ==
    /\ phase = "messages"
    /\ \E s \in Handle(cache, tx.msgs[at]) : cache' = [s EXCEPT !.done = @ \cup {at}]
    /\ phase' = IF at = Count THEN "post" ELSE phase
    /\ at' = IF at = Count THEN 1 ELSE at + 1
    /\ UNCHANGED <<chain, tx, tracks, votes, failed, used>>

\* A message fails: the post handlers still run, but nothing will last.
MessageFails ==
    /\ phase = "messages"
    /\ failed' = TRUE
    /\ phase' = "post"
    /\ at' = 1
    /\ UNCHANGED <<chain, cache, tx, tracks, votes, used>>

\* PostHandle does nothing when the breaker is active after the messages.
SkipPost ==
    /\ phase = "post" /\ BreakActive(cache)
    /\ phase' = "end"
    /\ UNCHANGED <<chain, cache, tx, at, tracks, votes, failed, used>>

\* Fault: the error of one message's authenticator is forgotten at the next.
ConfirmMessageForgets ==
    /\ phase = "post" /\ ~BreakActive(cache)
    /\ \E row \in Selected(cache, at) : \E ok \in SUBSET Leaves[row.tree] :
          LET result == ConfirmExecution(row.tree, ok, at, cache.confirmed)
          IN /\ votes' = Append(votes, [tree |-> row.tree, ok |-> ok])
             /\ cache' = [cache EXCEPT !.confirmed = result.writes]
             /\ failed' = (failed \/ (at = Count /\ ~result.ok))
             /\ phase' = IF at < Count THEN phase ELSE "end"
             /\ at' = at + 1
    /\ UNCHANGED <<chain, tx, tracks, used>>

\* The authenticator selected for the next message confirms the execution or
\* blocks it.  It is looked up again, in the state after the messages.
ConfirmMessage ==
    /\ phase = "post" /\ ~BreakActive(cache)
    /\ \E row \in Selected(cache, at) : \E ok \in SUBSET Leaves[row.tree] :
          LET result == ConfirmExecution(row.tree, ok, at, cache.confirmed)
          IN /\ votes' = Append(votes, [tree |-> row.tree, ok |-> ok])
             /\ cache' = [cache EXCEPT !.confirmed = result.writes]
             /\ failed' = (failed \/ ~result.ok)
             /\ phase' = IF result.ok /\ at < Count THEN phase ELSE "end"
             /\ at' = at + 1
    /\ UNCHANGED <<chain, tx, tracks, used>>

\* The authenticator was removed by the messages.
ConfirmMissing ==
    /\ phase = "post" /\ ~BreakActive(cache)
    /\ Selected(cache, at) = {}
    /\ failed' = TRUE
    /\ phase' = "end"
    /\ UNCHANGED <<chain, cache, tx, at, tracks, votes, used>>

\* The messages' state is written if nothing failed.
EndTx ==
    /\ phase = "end"
    /\ chain' = IF failed THEN chain ELSE cache
    /\ used' = IF failed THEN used ELSE used \cup {<<a, tx.seq[a]>> : a \in Signers}
    /\ phase' = "over"
    /\ UNCHANGED <<cache, tx, at, tracks, votes, failed>>

\* What the transaction did is no longer told apart.
NextTx ==
    /\ phase = "over"
    /\ chain' = NewTx(chain)
    /\ cache' = chain'
    /\ tx' = NoTx
    /\ phase' = "idle"
    /\ at' = 0
    /\ tracks' = <<>> /\ votes' = <<>>
    /\ failed' = FALSE
    /\ UNCHANGED used

Next ==
    \/ Activate \/ BeginTx \/ Reject \/ ClassicAnte \/ AuthenticateMessage \/ Track
    \/ RunMessage \/ MessageFails \/ SkipPost \/ ConfirmMessage \/ ConfirmMissing
    \/ EndTx \/ NextTx

Spec == Init /\ [][Next]_vars
-----------------------------------------------------------------------------
\* What a tree answers, and the leaves that may keep what they wrote when they
\* confirmed: those that agreed, in sub-authenticators that agreed.
Holds[x \in Tree \X (SUBSET Path)] ==
    LET t == x[1]  ok == x[2] IN
    IF t.op = "leaf" THEN <<>> \in ok
    ELSE IF t.op = "AllOf" THEN \A i \in DOMAIN t.subs : Holds[<<t.subs[i], Under(i, ok)>>]
    ELSE \E i \in DOMAIN t.subs : Holds[<<t.subs[i], Under(i, ok)>>]
Agreeing[x \in Tree \X (SUBSET Path)] ==
    LET t == x[1]  ok == x[2] IN
    IF ~Holds[<<t, ok>>] THEN {}
    ELSE IF t.op = "leaf" THEN {<<>>}
    ELSE UNION {{<<i>> \o p : p \in Agreeing[<<t.subs[i], Under(i, ok)>>]} : i \in DOMAIN t.subs}
AllHold(answers) ==
    Len(answers) = Count /\ \A i \in DOMAIN answers : Holds[<<answers[i].tree, answers[i].ok>>]

TypeOK ==
    /\ chain \in State /\ cache \in State
    /\ phase \in {"idle", "classic", "ante", "messages", "post", "end", "over"}
    /\ at \in 0 .. Count + 1
    /\ tracks \in Seq(Answer) /\ votes \in Seq(Answer)
    /\ Len(tracks) <= Count /\ Len(votes) <= Count
    /\ failed \in BOOLEAN
    /\ used \subseteq Account \X Nat

\* Messages take effect together, and only if the authenticators selected for
\* them agreed before and after, each as its AllOf and AnyOf say.  A transaction
\* that leaves the breaker active is not asked after (AnteHandle, PostHandle).
ExecutedIfApproved ==
    chain.done # {} =>
        /\ chain.done = 1 .. Count
        /\ tracks = <<>> \/ AllHold(tracks)
        /\ BreakActive(chain) \/ AllHold(votes)

\* What sub-authenticators wrote on confirming lasts only if they agreed, and so
\* did every AllOf and AnyOf they are part of, whoever else agreed in their
\* place (the cache in AnyOf.ConfirmExecution).
OnlyAgreeingWrote ==
    chain.confirmed \subseteq
        UNION {{<<i>> \o p : p \in Agreeing[<<votes[i].tree, votes[i].ok>>]} : i \in DOMAIN votes}

\* Track is called for all messages or for none, only when all of them are
\* authenticated, and stays although the messages fail.
TrackedTogether ==
    /\ chain.tracked # {} => AllHold(tracks) /\ chain.tracked = AllLeaves(tracks)
    /\ failed \/ chain.done # {} => chain.tracked = AllLeaves(tracks)

\* The state has its type, and the fee is paid at most once, by every transaction
\* that leaves a trace, and by every one whose fee payer was authenticated.
FeePaidOnce ==
    /\ TypeOK
    /\ chain.fee <= 1
    /\ chain.tracked # {} \/ chain.done # {} => chain.fee = 1
    /\ phase = "over" /\ tracks # <<>> => chain.fee = 1

\* No sequence number lets a transaction take effect twice, authenticated
\* either way (SequenceMatch, IncrementSequence).
NoReplay ==
    [][chain.done = {} /\ chain'.done # {} =>
          \A a \in Signers : <<a, tx.seq[a]>> \notin used]_vars

\* The id of an authenticator is never given to another, even when it is
\* removed or the transaction that added another one is undone.
IdsNotReused ==
    [][/\ chain'.nextId >= chain.nextId
       /\ \A row \in chain'.rows \ chain.rows : row.id \in chain.nextId .. chain'.nextId - 1
       /\ \A r1, r2 \in chain'.rows : r1.id = r2.id => r1 = r2]_vars
=============================================================================
