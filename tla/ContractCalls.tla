--------------------------- MODULE ContractCalls ---------------------------
(***************************************************************************)
(* How a transaction runs contracts: the calls the wasm keeper makes, the  *)
(* sub-messages and replies its dispatcher runs, the sudo calls cw-hooks   *)
(* makes on staking and governance events, and the packets the IBC module  *)
(* hands to a contract and the contract acknowledges now or later.         *)
(*                                                                         *)
(* The Go call stack is the variable stack.  A store context is a copy of  *)
(* the state (a cached multistore) with the events emitted in it; ctxs[1]  *)
(* is the committed state, the last one is the one being written.  Every   *)
(* call costs one unit of gas.  A call that fails may have written before  *)
(* it fails: what undoes its writes is the cache of whoever made it.       *)
(***************************************************************************)
EXTENDS Naturals, Sequences, FiniteSets, Functions

CONSTANTS
    Packet,      \* the packets that counterparties may send
    TxGas,       \* the gas limit of a transaction
    HookGas,     \* cw-hooks' ContractGasLimit
    SubGas,      \* the gas limits a contract may set on a sub-message
    MaxDepth,    \* the wasm keeper's maxCallDepth
    Hooked       \* how many contracts are registered for the hook

NoLimit == TxGas + 1    \* a sub-message without a gas limit

ASSUME GasAssumption ==
    /\ TxGas \in Nat /\ HookGas \in Nat /\ MaxDepth \in Nat /\ Hooked \in Nat
    /\ SubGas \subseteq Nat

VARIABLES
    stack,    \* the functions that are running, innermost last
    ctxs,     \* the store contexts that are open
    meters,   \* the gas meters that are open
    ret,      \* what the innermost function returns: "none" while it runs
    log       \* the calls of this transaction, in the order they began

vars == <<stack, ctxs, meters, ret, log>>

ReplyOn == {"never", "success", "error", "always"}

\* How a function was called, and what it runs: a contract, the handler of
\* another module, or the handler that writes an acknowledgement.
How == {"tx", "msg", "sub", "reply", "hook", "recv"}
Runs == {"tx", "contract", "native", "ack"}

Frame == [how : How, runs : Runs, id : Nat, replyOn : ReplyOn,
          ctx : Nat,             \* the context it runs in
          metered : BOOLEAN,     \* it has a gas meter of its own
          hooks : Nat,           \* the hooked contracts still to be called
          reply : BOOLEAN,       \* a reply is due
          data : BOOLEAN,        \* its response carries data
          packets : SUBSET Packet]

Store == [writes : SUBSET Nat, receipts : SUBSET Packet,
          pending : SUBSET Packet, acks : SUBSET Packet]

\* The innermost of the stacked frames, contexts or meters, and the others.
Last(s) == s[Len(s)]
Front(s) == SubSeq(s, 1, Len(s) - 1)

Top == Last(stack)
Ctx == Last(ctxs)
Running(how) == stack # <<>> /\ ret = "none" /\ Top.how = how
Returning(how) == stack # <<>> /\ ret # "none" /\ Top.how = how

-----------------------------------------------------------------------------
\* CacheContext: a copy of the state to write to, with its own events.
Branch(cs) == Append(cs, [store |-> Last(cs).store, events |-> <<>>])

\* Fault: the events of the cache are emitted once by commit and once more.
WriteBackTwice(cs) ==
    LET parent == cs[Len(cs) - 1]
    IN Append(SubSeq(cs, 1, Len(cs) - 2),
              [store |-> Last(cs).store,
               events |-> parent.events \o Last(cs).events \o Last(cs).events])

\* The cache is written back and its events are passed on.
WriteBack(cs) ==
    LET parent == cs[Len(cs) - 1]
    IN Append(SubSeq(cs, 1, Len(cs) - 2),
              [store |-> Last(cs).store, events |-> parent.events \o Last(cs).events])

\* The cache is dropped with all that was written and emitted in it.
Discard(cs) == Front(cs)

\* GasMeter.ConsumeGas: the meter is charged before it is found exceeded.
ConsumeGas(ms, amount) == [ms EXCEPT ![Len(ms)].used = @ + amount]
OutOfGas(ms) == Last(ms).used > Last(ms).limit
Remaining(ms) == Last(ms).limit - Last(ms).used

\* Fault: nothing is charged for a call that hits its own limit.
BillUnlessOut(ms) ==
    LET spent == IF OutOfGas(ms) THEN 0 ELSE Last(ms).used
    IN ConsumeGas(Front(ms), spent)

\* An inner meter is closed and what it spent is charged to the outer one.
Bill(ms) ==
    LET spent == IF OutOfGas(ms) THEN Last(ms).limit ELSE Last(ms).used
    IN ConsumeGas(Front(ms), spent)

NewMeter(limit) == [used |-> 0, limit |-> limit]

\* Number of contract calls on the stack: the call depth in the context.
Depth(frames) == Len(SelectSeq(frames, LAMBDA f : f.runs = "contract"))

\* The result of a call is optional to its caller when a reply is told of the
\* error, when it is a hook, and when it is turned into an acknowledgement.
Optional(f) ==
    \/ f.how \in {"hook", "recv"}
    \/ f.how = "sub" /\ f.replyOn \in {"error", "always"}

NewFrame(how, runs, replyOn, metered, packets) ==
    [how |-> how, runs |-> runs, id |-> Len(log) + 1, replyOn |-> replyOn,
     ctx |-> 0, metered |-> metered, hooks |-> IF runs = "native" THEN Hooked ELSE 0,
     reply |-> FALSE, data |-> FALSE, packets |-> packets]
-----------------------------------------------------------------------------
\* Init: no transaction is running and no packet was received.
Init ==
    /\ stack = <<>>
    /\ ctxs = <<[store |-> [writes |-> {}, receipts |-> {}, pending |-> {}, acks |-> {}],
                 events |-> <<>>]>>
    /\ meters = <<>>
    /\ ret = "none"
    /\ log = <<>>

\* What a call may return by itself.  The VM error of a received packet is
\* raised as a panic; a module's handler may panic too.
Outcomes(f) ==
    CASE f.runs = "ack" -> {"ok"}
      [] f.runs = "native" \/ f.how = "recv" -> {"ok", "err", "panic"}
      [] OTHER -> {"ok", "err"}

\* Fault: the stored packet is not deleted.
AcknowledgedKept(store, packets) == [store EXCEPT !.acks = @ \cup packets]

\* WriteAcknowledgement loads the stored packet, writes and then deletes it.
CanAck(store, packets) == packets \subseteq store.pending \ store.acks
Acknowledged(store, packets) ==
    [store EXCEPT !.acks = @ \cup packets, !.pending = @ \ packets]

\* Run call f on frames fs, in contexts cs, with meters ms.  Gas is consumed
\* first.  The store is written whatever the outcome, an event is emitted only
\* by a call that did not fail at once; the depth is checked after the VM ran.
Invoke(f, fs, cs, ms) ==
    LET charged == ConsumeGas(ms, 1)
        at == Len(cs)
        written == [cs EXCEPT ![at].store.writes = @ \cup {f.id}]
    IN /\ meters' = charged
       /\ log' = Append(log, [caller |-> Last(fs).id, optional |-> Optional(f),
                              status |-> "open", ran |-> ~OutOfGas(charged),
                              nested |-> f.how = "hook" /\ Len(ms) > 2])
       /\ \/ /\ OutOfGas(charged)
             /\ stack' = Append(fs, [f EXCEPT !.ctx = at])
             /\ ctxs' = cs
             /\ ret' = "oog"
          \/ /\ ~OutOfGas(charged)
             /\ \E outcome \in Outcomes(f), data \in BOOLEAN :
                   /\ data => f.how \in {"recv", "reply"}
                   /\ stack' = Append(fs, [f EXCEPT !.ctx = at, !.data = data])
                   /\ \/ /\ outcome # "ok"
                         /\ ~data
                         /\ ctxs' = written
                         /\ ret' = outcome
                      \/ /\ outcome = "ok"
                         /\ f.runs = "contract" /\ Depth(fs) >= MaxDepth
                         /\ ctxs' = written
                         /\ ret' = "err"
                      \/ /\ outcome = "ok"
                         /\ f.runs = "ack" /\ ~CanAck(Last(cs).store, f.packets)
                         /\ ctxs' = written
                         /\ ret' = "err"
                      \/ /\ outcome = "ok"
                         /\ f.runs = "contract" => Depth(fs) < MaxDepth
                         /\ f.runs = "ack" => CanAck(Last(cs).store, f.packets)
                         /\ ctxs' = [written EXCEPT
                                ![at].events = Append(@, f.id),
                                ![at].store = IF f.runs = "ack"
                                              THEN Acknowledged(@, f.packets) ELSE @]
                         /\ ret' = "none"

-----------------------------------------------------------------------------
(***************************************************************************)
(* Transactions and their messages.                                        *)
(***************************************************************************)

\* The writes of the previous transaction are no longer told apart.
BeginTx ==
    /\ stack = <<>>
    /\ stack' = <<[how |-> "tx", runs |-> "tx", id |-> 0, replyOn |-> "never",
                   ctx |-> 2, metered |-> TRUE, hooks |-> 0, reply |-> FALSE,
                   data |-> FALSE, packets |-> {}]>>
    /\ ctxs' = Branch(<<[store |-> [ctxs[1].store EXCEPT !.writes = {}], events |-> <<>>]>>)
    /\ meters' = <<NewMeter(TxGas)>>
    /\ log' = <<>>
    /\ UNCHANGED ret

\* A message for a contract (execute, an IBC handshake, acknowledgement or
\* timeout) or for another module: it runs in the transaction's context.
Message ==
    /\ Running("tx")
    /\ \E runs \in {"contract", "native"} :
          Invoke(NewFrame("msg", runs, "never", FALSE, {}), stack, ctxs, meters)

\* MsgRecvPacket: the receipt is written in the transaction's context, the
\* contract runs in a cache of it.
RecvPacket ==
    /\ Running("tx")
    /\ \E p \in Packet \ Ctx.store.receipts :
          LET received == [ctxs EXCEPT ![Len(ctxs)].store.receipts = @ \cup {p}]
          IN Invoke(NewFrame("recv", "contract", "never", FALSE, {p}), stack,
                    Branch(received), meters)

\* The transaction ends well, or is undone by the first failing message.
EndTx ==
    /\ stack # <<>> /\ Top.how = "tx"
    /\ ret = "none" => log # <<>>
    /\ stack' = <<>>
    /\ meters' = <<>>
    /\ ctxs' = IF ret = "none" THEN WriteBack(ctxs) ELSE Discard(ctxs)
    /\ ret' = "none"
    /\ UNCHANGED log

-----------------------------------------------------------------------------
(***************************************************************************)
(* Calls made by a running call.                                           *)
(***************************************************************************)

CanCall ==
    /\ stack # <<>> /\ ret = "none"
    /\ Top.runs \in {"contract", "native", "ack"} /\ ~Top.reply

\* DispatchSubmessages: each sub-message has a cache of its own, and a meter of
\* its own when its gas limit is below what is left.
SubMessage ==
    /\ CanCall /\ Top.runs = "contract"
    /\ \E runs \in {"contract", "native", "ack"}, replyOn \in ReplyOn,
          limit \in SubGas \cup {NoLimit}, packets \in {{}} \cup {{p} : p \in Packet} :
          LET limitGas == limit < Remaining(meters)
          IN /\ runs = "ack" <=> packets # {}
             /\ limitGas \/ limit = NoLimit
             /\ Invoke(NewFrame("sub", runs, replyOn, limitGas, packets), stack, Branch(ctxs),
                       IF limitGas THEN Append(meters, NewMeter(limit)) ELSE meters)

\* reply: the contract is told of the result, in its own context.
Reply ==
    /\ stack # <<>> /\ ret = "none"
    /\ Top.runs = "contract" /\ Top.reply
    /\ Invoke(NewFrame("reply", "contract", "never", FALSE, {}),
              [stack EXCEPT ![Len(stack)].reply = FALSE], ctxs, meters)

\* sudoContract: a hooked contract is called with a cache and a meter of its own.
Hook ==
    /\ CanCall /\ Top.hooks > 0
    /\ Invoke(NewFrame("hook", "contract", "never", TRUE, {}),
              [stack EXCEPT ![Len(stack)].hooks = @ - 1],
              Branch(ctxs), Append(meters, NewMeter(HookGas)))

\* The innermost call is done; a module's handler may still fail.
Finish ==
    /\ CanCall /\ Top.hooks = 0
    /\ \E outcome \in IF Top.runs = "native" THEN {"ok", "err"} ELSE {"ok"} :
          ret' = outcome
    /\ UNCHANGED <<stack, ctxs, meters, log>>

-----------------------------------------------------------------------------
(***************************************************************************)
(* Returns.                                                                *)
(***************************************************************************)
Settled(status) == [log EXCEPT ![Top.id].status = status]

\* Fault: a message that runs out of gas is tried again for ever.
ReturnMsgRetries ==
    /\ Returning("msg")
    /\ stack' = IF ret = "oog" THEN stack ELSE Front(stack)
    /\ ret' = IF ret = "ok" THEN "none" ELSE ret
    /\ log' = IF ret = "oog" THEN log ELSE Settled(IF ret = "ok" THEN "ok" ELSE "failed")
    /\ UNCHANGED <<ctxs, meters>>

\* A message returns what it returns to the transaction.
ReturnMsg ==
    /\ Returning("msg")
    /\ stack' = Front(stack)
    /\ ret' = IF ret = "ok" THEN "none" ELSE ret
    /\ log' = Settled(IF ret = "ok" THEN "ok" ELSE "failed")
    /\ UNCHANGED <<ctxs, meters>>

\* The data of a reply, if any, replaces the data of the call.
ReturnReply ==
    /\ Returning("reply")
    /\ stack' = [Front(stack) EXCEPT ![Len(stack) - 1].data = @ \/ (ret = "ok" /\ Top.data)]
    /\ ret' = IF ret = "ok" THEN "none" ELSE ret
    /\ log' = Settled(IF ret = "ok" THEN "ok" ELSE "failed")
    /\ UNCHANGED <<ctxs, meters>>

\* Fault: the error of a sub-message that wants no reply is dropped.
ReturnSubNoAbort ==
    /\ Returning("sub")
    /\ LET caught == ret = "oog" /\ Top.metered
           failed == ret = "err" \/ caught
           wantsReply == \/ ret = "ok" /\ Top.replyOn \in {"success", "always"}
                         \/ failed /\ Top.replyOn \in {"error", "always"}
       IN /\ ctxs' = IF ret = "ok" THEN WriteBack(ctxs) ELSE Discard(ctxs)
          /\ meters' = IF Top.metered THEN Bill(meters) ELSE meters
          /\ stack' = [Front(stack) EXCEPT ![Len(stack) - 1].reply = wantsReply]
          /\ ret' = IF ret = "ok" \/ failed THEN "none" ELSE ret
    /\ log' = Settled(IF ret = "ok" THEN "ok" ELSE "failed")

\* A sub-message returns to the dispatcher.  Only a sub-message with a meter of
\* its own turns running out of gas into an error.
ReturnSub ==
    /\ Returning("sub")
    /\ LET caught == ret = "oog" /\ Top.metered
           failed == ret = "err" \/ caught
           wantsReply == \/ ret = "ok" /\ Top.replyOn \in {"success", "always"}
                         \/ failed /\ Top.replyOn \in {"error", "always"}
       IN /\ ctxs' = IF ret = "ok" THEN WriteBack(ctxs) ELSE Discard(ctxs)
          /\ meters' = IF Top.metered THEN Bill(meters) ELSE meters
          /\ stack' = [Front(stack) EXCEPT ![Len(stack) - 1].reply = wantsReply]
          /\ ret' = IF ret = "ok" \/ wantsReply THEN "none"
                    ELSE IF failed THEN "err" ELSE ret
    /\ log' = Settled(IF ret = "ok" THEN "ok" ELSE "failed")

\* sudoContract returns: errors and running out of gas are dropped, a panic is
\* not.  The caller is charged for what was spent and may run out of gas.
ReturnHook ==
    /\ Returning("hook")
    /\ stack' = Front(stack)
    /\ ctxs' = IF ret = "ok" THEN WriteBack(ctxs) ELSE Discard(ctxs)
    /\ meters' = IF ret = "panic" THEN Front(meters) ELSE Bill(meters)
    /\ ret' = IF ret = "panic" THEN ret
              ELSE IF OutOfGas(Bill(meters)) THEN "oog" ELSE "none"
    /\ log' = Settled(IF ret = "ok" THEN "ok" ELSE "failed")

\* The packet is acknowledged with the data of the response or with the error;
\* without data it is stored, to be acknowledged later.
ReturnRecv ==
    /\ Returning("recv")
    /\ stack' = Front(stack)
    /\ LET base == IF ret = "ok" THEN WriteBack(ctxs) ELSE Discard(ctxs)
       IN ctxs' = [base EXCEPT
              ![Len(base)].store.acks =
                  IF ret = "err" \/ (ret = "ok" /\ Top.data) THEN @ \cup Top.packets ELSE @,
              ![Len(base)].store.pending =
                  IF ret = "ok" /\ ~Top.data THEN @ \cup Top.packets ELSE @]
    /\ ret' = IF ret \in {"ok", "err"} THEN "none" ELSE ret
    /\ log' = Settled(IF ret = "ok" THEN "ok" ELSE "failed")
    /\ UNCHANGED meters

Step ==
    \/ Message \/ RecvPacket \/ EndTx
    \/ SubMessage \/ Reply \/ Hook \/ Finish
    \/ ReturnMsg \/ ReturnReply \/ ReturnSub \/ ReturnHook \/ ReturnRecv

Next == BeginTx \/ Step

\* Once begun, a transaction is executed to its end: the code never waits.
Spec == Init /\ [][Next]_vars /\ WF_vars(Step)

-----------------------------------------------------------------------------
(***************************************************************************)
(* Properties.                                                             *)
(***************************************************************************)

\* Type invariant.
TypeOK ==
    /\ stack \in Seq(Frame)
    /\ ctxs \in Seq([store : Store, events : Seq(Nat)])
    /\ meters \in Seq([used : Nat, limit : Nat])
    /\ ret \in {"none", "ok", "err", "oog", "panic"}
    /\ log \in Seq([caller : Nat, optional : BOOLEAN, status : {"open", "ok", "failed"},
                    ran : BOOLEAN, nested : BOOLEAN])

\* The promise of AtomicCalls, kept by caches, gas meters and replies.
Atomic == INSTANCE AtomicCalls WITH
    chain <- ctxs[1].store.writes,
    calls <- [c \in DOMAIN log |-> [caller |-> log[c].caller, optional |-> log[c].optional,
                                    status |-> log[c].status]]

\* Whoever makes a call, a failing call leaves no trace in the state and a
\* succeeding one none is lost of, unless one of its callers fails
\* (DispatchSubmessages, sudoContract, OnRecvPacket).
CallsAreAtomic == Atomic!Spec

\* The state has its type, and the events a transaction emits are those of the
\* calls whose writes it keeps, each emitted once: in every open context the
\* events account for exactly the writes made in it (em.Events, commit and
\* EmitEvents in DispatchSubmessages).
EventsFollowWrites ==
    /\ TypeOK
    /\ \A i \in 2 .. Len(ctxs) :
           /\ IsInjective(ctxs[i].events)
           /\ Range(ctxs[i].events) \subseteq ctxs[i].store.writes \ ctxs[i - 1].store.writes
           /\ ret = "none" =>
                Range(ctxs[i].events) = ctxs[i].store.writes \ ctxs[i - 1].store.writes

\* Gas is neither given away nor charged twice: what the open meters were
\* charged is the number of calls that ran, reverted or not.  (A call made by a
\* hook inside a limited call may be charged less: see README.)
GasIsCharged ==
    (\A c \in DOMAIN log : ~log[c].nested) =>
        LET used == SumFunction([i \in DOMAIN meters |-> meters[i].used])
            ran == Cardinality({c \in DOMAIN log : log[c].ran})
        IN stack # <<>> /\ ret = "none" => used = ran

\* In the committed state a received packet is acknowledged or waits to be,
\* never both, and no other packet is either (StoreAsyncAckPacket,
\* DeleteAsyncAckPacket).
PacketsAnswered ==
    LET chain == ctxs[1].store
    IN /\ chain.receipts = chain.pending \cup chain.acks
       /\ chain.pending \cap chain.acks = {}

\* Every transaction ends: there is gas for finitely many calls only, and every
\* error, reply and out-of-gas panic finds its way back.
TxEnds == stack # <<>> ~> stack = <<>>
=============================================================================
