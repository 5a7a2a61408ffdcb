------------------------ MODULE ContractCallsProofs ------------------------
(***************************************************************************)
(* The theorems about ContractCalls, for every number of packets, hooks    *)
(* and gas.                                                                *)
(***************************************************************************)
EXTENDS ContractCallsSteps, InductionLemmas

\* The provers of each step, in this order: preparing a step for SMT takes long
\* in a module of this size, and most steps need no arithmetic.
USE ZenonT(3), SMTT(30), ZenonT(30)

\* In the committed state every received packet is acknowledged or stored for
\* its contract to acknowledge, never both, whatever calls, errors, replies,
\* hooks and out-of-gas panics a transaction is made of.
THEOREM PacketsAlwaysAnswered == Spec => []PacketsAnswered
<1>1. IInv => PacketsAnswered
    BY DEF IInv, AllAnswered, Answered, PacketsAnswered
<1> QED
    BY <1>1, InitIInv, NextKeepsIInv, PTL DEF Spec

\* Contexts and calls stay in step: between transactions only the committed
\* context is open, and a running call writes the context it was started in.
THEOREM ContextsFollowCalls == Spec => []Aligned(stack, ctxs)
<1>1. IInv => Aligned(stack, ctxs)
    BY DEF IInv
<1> QED
    BY <1>1, InitIInv, NextKeepsIInv, PTL DEF Spec

LEMMA Shapes ==
    ASSUME IInv, MetersOpen, [Next]_vars
    PROVE  \/ BeginTx \/ EndTx \/ Finish \/ UNCHANGED vars
           \/ \E g \in Frame : Called(g)
           \/ Returned
    BY MessageCalls, RecvPacketCalls, SubMessageCalls, ReplyCalls, HookCalls,
       ReturnMsgReturns, ReturnReplyReturns, ReturnSubReturns, ReturnHookReturns,
       ReturnRecvReturns, Zenon DEF Next, Step

-----------------------------------------------------------------------------
(***************************************************************************)
(* Gas meters.                                                             *)
(***************************************************************************)

\* The number of the meter that frame j is charged to.
MeterOf(fs, j) == Cardinality({i \in 1 .. j : fs[i].metered})

\* One meter is open for the transaction and one for every call with its own.
MeterFrames(fs, ms) ==
    /\ ms \in Seq(Meter)
    /\ Len(ms) = MeterOf(fs, Len(fs))
    /\ fs # <<>> => fs[1].metered
    /\ \A j \in 2 .. Len(fs) :
          /\ fs[j].metered => fs[j].how \in {"sub", "hook"}
          /\ fs[j].how = "hook" => fs[j].metered

LEMMA MeterOfZero == ASSUME NEW fs PROVE MeterOf(fs, 0) = 0
<1>1. {i \in 1 .. 0 : fs[i].metered} = {}
    OBVIOUS
<1> QED
    BY <1>1, FS_EmptySet DEF MeterOf

LEMMA MeterOfOne == ASSUME NEW fs, fs[1].metered PROVE MeterOf(fs, 1) = 1
<1>1. {i \in 1 .. 1 : fs[i].metered} = {1}
    OBVIOUS
<1> QED
    BY <1>1, FS_Singleton DEF MeterOf

LEMMA MeterOfNext ==
    ASSUME NEW fs, NEW j \in Nat
    PROVE  /\ MeterOf(fs, j) \in Nat
           /\ fs[j + 1].metered => MeterOf(fs, j + 1) = MeterOf(fs, j) + 1
           /\ ~fs[j + 1].metered => MeterOf(fs, j + 1) = MeterOf(fs, j)
<1> DEFINE S(k) == {i \in 1 .. k : fs[i].metered}
<1>1. IsFiniteSet(S(j)) /\ Cardinality(S(j)) \in Nat
  <2>1. IsFiniteSet(1 .. j) /\ S(j) \subseteq 1 .. j
      BY FS_Interval
  <2> QED
      BY <2>1, FS_Subset, FS_CardinalityType
<1>2. CASE fs[j + 1].metered
  <2>1. S(j + 1) = S(j) \cup {j + 1} /\ j + 1 \notin S(j)
      BY <1>2
  <2> HIDE DEF S
  <2>2. Cardinality(S(j + 1)) = Cardinality(S(j)) + 1
      BY <1>1, <2>1, FS_AddElement
  <2> QED
      BY <1>1, <1>2, <2>2 DEF MeterOf, S
<1>3. CASE ~fs[j + 1].metered
  <2>1. S(j + 1) = S(j)
      BY <1>3
  <2> QED
      BY <1>1, <1>3, <2>1 DEF MeterOf
<1> QED
    BY <1>2, <1>3

LEMMA MeterOfGrows ==
    ASSUME NEW fs, NEW k \in Nat, NEW j \in 0 .. k
    PROVE  MeterOf(fs, j) <= MeterOf(fs, k) /\ MeterOf(fs, j) \in Nat /\ MeterOf(fs, k) \in Nat
<1> DEFINE S(n) == {i \in 1 .. n : fs[i].metered}
<1>1. IsFiniteSet(1 .. k) /\ S(k) \subseteq 1 .. k
    BY FS_Interval
<1>2. IsFiniteSet(S(k))
  <2> HIDE DEF S
  <2> QED
      BY <1>1, FS_Subset
<1>3. S(j) \subseteq S(k)
    OBVIOUS
<1> HIDE DEF S
<1>4. IsFiniteSet(S(j)) /\ Cardinality(S(j)) <= Cardinality(S(k))
    BY <1>2, <1>3, FS_Subset
<1> QED
    BY <1>2, <1>4, FS_CardinalityType DEF MeterOf, S

LEMMA MeterOfSame ==
    ASSUME NEW fs, NEW gs, NEW j, AllSame(fs, gs, j)
    PROVE  MeterOf(gs, j) = MeterOf(fs, j)
<1>1. \A i \in 1 .. j : gs[i].metered = fs[i].metered
    BY DEF AllSame, Same
<1>2. {i \in 1 .. j : gs[i].metered} = {i \in 1 .. j : fs[i].metered}
    BY <1>1
<1> QED
    BY <1>2 DEF MeterOf

LEMMA ShorterSame ==
    ASSUME NEW fs, NEW gs, NEW k \in Nat, AllSame(fs, gs, k), NEW j \in 0 .. k
    PROVE  AllSame(fs, gs, j)
    BY DEF AllSame

LEMMA MetersAreOpen ==
    ASSUME IInv, MeterFrames(stack, meters)
    PROVE  MetersOpen
<1>1. meters \in Seq(Meter)
    BY DEF MeterFrames
<1> SUFFICES ASSUME stack # <<>> PROVE MetersOpen
    BY <1>1 DEF MetersOpen
<1> DEFINE n == Len(stack)
<1>2. /\ n \in Nat \ {0} /\ Top = stack[n] /\ (Top.how = "tx" => n = 1)
      /\ n = 1 => Top.how = "tx"
    BY TopFrame
<1>3. MeterOf(stack, 1) = 1
    BY MeterOfOne DEF MeterFrames
<1>4. Len(meters) >= 1
    BY <1>2, <1>3, MeterOfGrows, 1 \in 0 .. n DEF MeterFrames
<1>5. ASSUME Top.how # "tx", Top.metered PROVE Len(meters) >= 2
  <2>1. n - 1 \in Nat /\ 1 \in 0 .. n - 1 /\ (n - 1) + 1 = n
    <3>1. n # 1 /\ n \in Nat \ {0}
        BY <1>2, <1>5
    <3> HIDE DEF n
    <3> QED
        BY <3>1
  <2>2. MeterOf(stack, n - 1) >= 1 /\ MeterOf(stack, n - 1) \in Nat
      BY <1>3, <2>1, MeterOfGrows
  <2>3. MeterOf(stack, n) = MeterOf(stack, n - 1) + 1
      BY <1>2, <1>5, <2>1, MeterOfNext
  <2> QED
      BY <2>2, <2>3 DEF MeterFrames
<1>6. n = 1 \/ n \in 2 .. Len(stack)
    BY <1>2
<1>7. Top.metered => Top.how \in {"tx", "sub", "hook"}
    BY <1>2, <1>6 DEF MeterFrames
<1>8. Top.how = "hook" => Top.metered
    BY <1>2, <1>6 DEF MeterFrames
<1> QED
    BY <1>1, <1>4, <1>5, <1>7, <1>8 DEF MetersOpen

LEMMA CallMeterFrames ==
    ASSUME NEW fs \in Seq(Frame), fs # <<>>, NEW gs, NEW g \in Frame, AddsFrame(g, fs, gs),
           NEW ms, NEW ns, NEW r, MeterFrames(fs, ms), AddsGas(g, ms, ns, r)
    PROVE  MeterFrames(gs, ns)
<1> DEFINE n == Len(fs)
<1>1. /\ n \in Nat \ {0} /\ n \in Nat /\ Len(gs) = n + 1 /\ gs[n + 1] = g
      /\ AllSame(fs, gs, n)
    BY SeqEmpty, SeqLen DEF AddsFrame
<1>2. /\ g.metered => MeterOf(gs, n + 1) = MeterOf(fs, n) + 1
      /\ ~g.metered => MeterOf(gs, n + 1) = MeterOf(fs, n)
    BY <1>1, MeterOfNext, MeterOfSame
<1>3. ns \in Seq(Meter) /\ Len(ns) = MeterOf(gs, Len(gs))
    BY <1>1, <1>2 DEF MeterFrames, AddsGas
<1>4. gs[1].metered
    BY <1>1 DEF MeterFrames, AllSame, Same
<1>5. ASSUME NEW j \in 2 .. Len(gs)
      PROVE  /\ gs[j].metered => gs[j].how \in {"sub", "hook"}
             /\ gs[j].how = "hook" => gs[j].metered
  <2>1. CASE j = n + 1
      BY <2>1, <1>1 DEF AddsFrame
  <2>2. CASE j # n + 1
    <3>1. j \in 2 .. n /\ j \in 1 .. n
        BY <2>2, <1>1
    <3> QED
        BY <3>1, <1>1 DEF MeterFrames, AllSame, Same
  <2> QED
      BY <2>1, <2>2
<1> QED
    BY <1>3, <1>4, <1>5 DEF MeterFrames

LEMMA ReturnMeterFrames ==
    ASSUME NEW fs \in Seq(Frame), Len(fs) >= 2, NEW gs, DropsFrame(fs, gs),
           NEW ms, NEW ns, NEW r, MeterFrames(fs, ms), DropsGas(fs[Len(fs)], ms, ns, r)
    PROVE  MeterFrames(gs, ns)
<1> DEFINE n == Len(fs)
           k == n - 1
<1>1. n \in Nat /\ k \in Nat /\ k + 1 = n /\ 1 \in 1 .. k
    BY SeqLen
<1>2. Len(gs) = k /\ AllSame(fs, gs, k)
    BY DEF DropsFrame
<1>3. /\ MeterOf(gs, k) = MeterOf(fs, k) /\ MeterOf(fs, k) \in Nat
      /\ fs[n].metered => MeterOf(fs, n) = MeterOf(fs, k) + 1
      /\ ~fs[n].metered => MeterOf(fs, n) = MeterOf(fs, k)
    BY <1>1, <1>2, MeterOfNext, MeterOfSame
<1>4. ns \in Seq(Meter) /\ Len(ns) = MeterOf(gs, k)
    BY <1>3 DEF MeterFrames, DropsGas
<1> HIDE DEF k
<1>5. gs[1].metered
    BY <1>1, <1>2, SeqEmpty DEF MeterFrames, AllSame, Same
<1>6. ASSUME NEW j \in 2 .. k
      PROVE  /\ gs[j].metered => gs[j].how \in {"sub", "hook"}
             /\ gs[j].how = "hook" => gs[j].metered
  <2>1. j \in 2 .. n /\ j \in 1 .. k
      BY <1>1
  <2> QED
      BY <2>1, <1>2 DEF MeterFrames, AllSame, Same
<1> QED
    BY <1>2, <1>4, <1>5, <1>6 DEF MeterFrames

LEMMA MeterFramesKept ==
    ASSUME IInv, MeterFrames(stack, meters), [Next]_vars
    PROVE  MeterFrames(stack', meters')
<1>1. MetersOpen /\ stack \in Seq(Frame)
    BY MetersAreOpen DEF IInv, Typed
<1>2. CASE BeginTx
  <2>1. /\ Len(stack') = 1 /\ stack'[1].metered /\ stack' # <<>>
        /\ meters' = <<NewMeter(TxGas)>>
      BY <1>2 DEF BeginTx
  <2>2. NewMeter(TxGas) \in Meter
      BY GasAssumption DEF NewMeter, Meter
  <2>3. meters' \in Seq(Meter) /\ Len(meters') = 1
      BY <2>1, <2>2
  <2>4. MeterOf(stack', 1) = 1
      BY <2>1, MeterOfOne
  <2> QED
      BY <2>1, <2>3, <2>4 DEF MeterFrames
<1>3. CASE EndTx
  <2>1. stack' = <<>> /\ meters' = <<>> /\ Len(stack') = 0 /\ Len(meters') = 0
      BY <1>3 DEF EndTx
  <2>2. meters' \in Seq(Meter) /\ MeterOf(stack', Len(stack')) = 0
      BY <2>1, MeterOfZero
  <2> QED
      BY <2>1, <2>2 DEF MeterFrames
<1>4. CASE Finish \/ UNCHANGED vars
    BY <1>4 DEF Finish, vars
<1>5. CASE \E g \in Frame : Called(g)
  <2>1. PICK g \in Frame : Called(g)
      BY <1>5
  <2> QED
      BY <1>1, <2>1, CallMeterFrames DEF Called
<1>6. CASE Returned
  <2>1. Len(stack) >= 2 /\ Top = stack[Len(stack)]
      BY <1>1, <1>6, ReturnBasics DEF Returned, Top, Last
  <2> QED
      BY <1>1, <1>6, <2>1, ReturnMeterFrames DEF Returned
<1> QED
    BY <1>1, <1>2, <1>3, <1>4, <1>5, <1>6, Shapes

-----------------------------------------------------------------------------
(***************************************************************************)
(* The inductive invariant of the calls, and what follows from it.         *)
(***************************************************************************)
Recorded(fs, cs, lg, r) ==
    /\ Emitted(cs, r, Len(lg))
    /\ Tree(fs, lg)
    /\ Needed(fs, lg, r)
    /\ Effects(fs, cs, lg, r)

CallInv ==
    /\ IInv
    /\ MeterFrames(stack, meters)
    /\ Recorded(stack, ctxs, log, ret)

LEMMA InitCallInv == Init => CallInv
<1> SUFFICES ASSUME Init PROVE CallInv
    OBVIOUS
<1>1. stack = <<>> /\ meters = <<>> /\ log = <<>> /\ Len(ctxs) = 1
    BY DEF Init
<1>2. Len(stack) = 0 /\ Len(meters) = 0 /\ Len(log) = 0 /\ meters \in Seq(Meter)
    BY <1>1
<1>3. MeterFrames(stack, meters)
    BY <1>1, <1>2, MeterOfZero DEF MeterFrames
<1>4. Recorded(stack, ctxs, log, ret)
    BY <1>1, <1>2 DEF Recorded, Emitted, Tree, Needed, Effects
<1> QED
    BY <1>3, <1>4, InitIInv DEF CallInv

LEMMA BeginTxRecorded == ASSUME CallInv, BeginTx PROVE Recorded(stack', ctxs', log', ret')
<1> DEFINE c == [store |-> [ctxs[1].store EXCEPT !.writes = {}], events |-> <<>>]
           f == [how |-> "tx", runs |-> "tx", id |-> 0, replyOn |-> "never",
                 ctx |-> 2, metered |-> TRUE, hooks |-> 0, reply |-> FALSE,
                 data |-> FALSE, packets |-> {}]
<1>1. stack' = <<f>> /\ ctxs' = Branch(<<c>>) /\ log' = <<>> /\ f.id = 0
    BY DEF BeginTx
<1>2. Len(stack') = 1 /\ stack'[1] = f /\ Len(log') = 0
    BY <1>1
<1>3. c.store.writes = {}
  <2>1. ctxs \in Seq(Context) /\ 1 \in 1 .. Len(ctxs)
      BY SeqEmpty, SeqLen DEF CallInv, IInv, Typed
  <2>2. ctxs[1] \in Context
      BY <2>1, SeqElement
  <2> QED
      BY <2>2 DEF Context, Store
<1> HIDE DEF c
<1>4. /\ Len(ctxs') = 2 /\ ctxs'[1] = c /\ ctxs'[2].store = c.store
      /\ ctxs'[2].events = <<>>
    BY <1>1 DEF Branch, Last
<1>5. Level({}, {}, <<>>, 0) /\ Told({}, {}, <<>>)
    BY LevelBegins
<1>6. Emitted(ctxs', ret', Len(log'))
  <2> SUFFICES ASSUME NEW i \in 2 .. 2
               PROVE  /\ Level(ctxs'[i - 1].store.writes, ctxs'[i].store.writes,
                               ctxs'[i].events, 0)
                      /\ Told(ctxs'[i - 1].store.writes, ctxs'[i].store.writes,
                              ctxs'[i].events)
      BY <1>2, <1>4 DEF Emitted
  <2>1. i = 2 /\ i - 1 = 1
      OBVIOUS
  <2> QED
      BY <1>3, <1>4, <1>5, <2>1
<1>7. Tree(stack', log')
    BY <1>1, <1>2 DEF Tree
<1>8. Needed(stack', log', ret')
    BY <1>2 DEF Needed
<1>9. Effects(stack', ctxs', log', ret')
    BY <1>2, <1>3, <1>4 DEF Effects, Lives, Held
<1> QED
    BY <1>6, <1>7, <1>8, <1>9 DEF Recorded

LEMMA EndTxRecorded == ASSUME CallInv, EndTx PROVE Recorded(stack', ctxs', log', ret')
<1>1. IInv /\ stack # <<>> /\ Top.how = "tx" /\ stack' = <<>> /\ log' = log
    BY DEF EndTx, CallInv
<1>2. Len(stack) = 1 /\ Len(stack') = 0
    BY <1>1, TopFrame
<1>3. Len(ctxs') = 1
    BY <1>1, EndTxKeeps DEF IInv, Aligned
<1>4. Tree(stack', log')
    BY <1>1, <1>2 DEF CallInv, Recorded, Tree
<1> QED
    BY <1>1, <1>3, <1>4 DEF Recorded, Emitted, Needed, Effects

LEMMA FinishRecorded == ASSUME CallInv, Finish PROVE Recorded(stack', ctxs', log', ret')
<1>1. ret = "none" /\ stack' = stack /\ ctxs' = ctxs /\ log' = log
    BY DEF Finish, CanCall
<1>2. Clean(ret)
    BY <1>1 DEF Clean
<1> QED
    BY <1>1, <1>2 DEF CallInv, Recorded, Emitted, Needed, Effects

LEMMA CallRecorded ==
    ASSUME CallInv, IInv', NEW g \in Frame, Called(g)
    PROVE  Recorded(stack', ctxs', log', ret')
<1>1. /\ IInv /\ stack \in Seq(Frame) /\ log \in Seq(Entry) /\ ctxs \in Seq(Context)
      /\ Tree(stack, log) /\ Emitted(ctxs, "none", Len(log)) /\ Needed(stack, log, "none")
      /\ Effects(stack, ctxs, log, "none") /\ Len(log) \in Nat
    BY SeqLen DEF CallInv, Recorded, IInv, Typed, Called
<1>2. /\ stack # <<>> /\ AddsFrame(g, stack, stack') /\ g.id = Len(log) + 1
      /\ AddsWrite(g, ctxs, ctxs', ret')
    BY DEF Called
<1>3. AddsEntry(g, stack[Len(stack)].id, meters', log, log', ret')
    BY DEF Called, Top, Last
<1>4. Len(ctxs) = stack[Len(stack)].ctx /\ Len(ctxs) >= 2 /\ Len(ctxs) \in Nat
    BY <1>1, <1>2, TopFrame, SeqLen
<1>5. g.ctx = Len(ctxs')
  <2>1. Len(stack') = Len(stack) + 1 /\ stack'[Len(stack')] = g
      BY <1>2 DEF AddsFrame
  <2>2. stack' \in Seq(Frame) /\ Aligned(stack', ctxs')
      BY DEF IInv, Typed
  <2>3. stack' # <<>>
      BY <1>1, <2>1, SeqLen
  <2> QED
      BY <2>1, <2>2, <2>3 DEF Aligned
<1>6. stack[Len(stack)].ctx <= g.ctx
  <2>1. Len(ctxs') \in {Len(ctxs), Len(ctxs) + 1}
      BY <1>2 DEF AddsWrite
  <2> QED
      BY <1>4, <1>5, <2>1
<1>7. Tree(stack', log')
    BY <1>1, <1>2, <1>3, <1>6, CallTree
<1>8. Needed(stack', log', ret')
    BY <1>1, <1>2, <1>3, CallNeeds
<1>9. Emitted(ctxs', ret', Len(log'))
  <2>1. Len(log') = Len(log) + 1
      BY <1>1, <1>3, EntryAdded
  <2>2. Emitted(ctxs', ret', Len(log) + 1)
      BY <1>1, <1>2, <1>4, CallEmits
  <2> QED
      BY <2>1, <2>2
<1>10. Effects(stack', ctxs', log', ret')
    BY <1>1, <1>2, <1>3, <1>4, <1>5, CallEffects
<1> QED
    BY <1>7, <1>8, <1>9, <1>10 DEF Recorded

LEMMA ReturnRecorded ==
    ASSUME CallInv, Returned
    PROVE  Recorded(stack', ctxs', log', ret')
<1> DEFINE n == Len(stack)
           status == IF ret = "ok" THEN "ok" ELSE "failed"
<1>1. /\ IInv /\ stack \in Seq(Frame) /\ log \in Seq(Entry) /\ ctxs \in Seq(Context)
      /\ Tree(stack, log) /\ Emitted(ctxs, ret, Len(log)) /\ Needed(stack, log, ret)
      /\ Effects(stack, ctxs, log, ret) /\ Len(log) \in Nat
    BY SeqLen DEF CallInv, Recorded, IInv, Typed
<1>2. /\ stack # <<>> /\ Top.how # "tx" /\ ret # "none" /\ DropsFrame(stack, stack')
      /\ log' = Settled(status) /\ DropsWrite(Top, ctxs, ctxs', ret)
      /\ Resumes(Top, ret, ret', meters')
    BY DEF Returned
<1>3. /\ n \in Nat /\ n >= 2 /\ Top = stack[n] /\ Len(ctxs) = Top.ctx /\ Len(ctxs) >= 2
      /\ Frames(stack)
  <2>1. n \in Nat \ {0} /\ n # 1
      BY <1>1, <1>2, TopFrame
  <2> QED
      BY <1>1, <1>2, <2>1, TopFrame, NotOne
<1>4. Top.id \in 1 .. Len(log)
    BY <1>1, <1>3 DEF Tree
<1>5. status \in {"ok", "failed"}
    OBVIOUS
<1>6. Settles(log, stack[n].id, status, log')
  <2> HIDE DEF status
  <2> QED
      BY <1>1, <1>2, <1>3, <1>4, <1>5, SettledIs DEF Settled
<1>7. Tree(stack', log')
  <2> HIDE DEF status
  <2> QED
      BY <1>1, <1>2, <1>3, <1>5, <1>6, ReturnTree
<1>8. Needed(stack', log', ret')
    BY <1>1, <1>2, <1>3, <1>6, ReturnNeeds
<1>9. Emitted(ctxs', ret', Len(log'))
  <2>1. Len(log') = Len(log)
      BY <1>6 DEF Settles
  <2>2. Boxed(Top) => Len(ctxs) >= 3
    <3> SUFFICES ASSUME Boxed(Top) PROVE Len(ctxs) >= 3
        OBVIOUS
    <3>1. n \in 2 .. n /\ n - 1 \in 1 .. n
        BY <1>3
    <3>2. stack[n - 1].ctx >= 2 /\ Top.ctx = stack[n - 1].ctx + 1
        BY <1>3, <3>1 DEF Frames
    <3>3. stack[n - 1].ctx \in Nat
        BY <1>1, <3>1, FrameNumbers
    <3> QED
        BY <1>3, <3>2, <3>3
  <2>3. ~Boxed(Top) /\ Clean(ret') => Clean(ret)
      BY <1>2 DEF Resumes, Optional, Boxed, Clean
  <2>4. Emitted(ctxs', ret', Len(log))
      BY <1>1, <1>2, <1>3, <2>2, <2>3, ReturnEmits
  <2> QED
      BY <2>1, <2>4
<1>10. Effects(stack', ctxs', log', ret')
    BY <1>1, <1>2, <1>3, <1>6, ReturnEffects
<1> QED
    BY <1>7, <1>8, <1>9, <1>10 DEF Recorded

LEMMA CallSteps ==
    ASSUME CallInv, [Next]_vars
    PROVE  \/ BeginTx \/ EndTx \/ Finish \/ UNCHANGED vars
           \/ \E g \in Frame : Called(g)
           \/ Returned
<1>1. IInv /\ MetersOpen
    BY MetersAreOpen DEF CallInv
<1> QED
    BY <1>1, Shapes

LEMMA NextKeepsCallInv == CallInv /\ [Next]_vars => CallInv'
<1> SUFFICES ASSUME CallInv, [Next]_vars PROVE CallInv'
    OBVIOUS
<1>1. IInv' /\ MeterFrames(stack', meters')
    BY NextKeepsIInv, MeterFramesKept DEF CallInv
<1>2. Recorded(stack', ctxs', log', ret')
  <2>1. CASE BeginTx BY <2>1, BeginTxRecorded
  <2>2. CASE EndTx BY <2>2, EndTxRecorded
  <2>3. CASE Finish BY <2>3, FinishRecorded
  <2>4. CASE UNCHANGED vars BY <2>4 DEF vars, CallInv
  <2>5. CASE \E g \in Frame : Called(g) BY <1>1, <2>5, CallRecorded
  <2>6. CASE Returned BY <2>6, ReturnRecorded
  <2> QED
      BY <2>1, <2>2, <2>3, <2>4, <2>5, <2>6, CallSteps
<1> QED
    BY <1>1, <1>2 DEF CallInv

\* In every open context the events are those of the writes made in it, each
\* once, whatever fails, is replied to or runs out of gas: the state has its
\* type, and the dispatcher passes on the events of exactly the caches it
\* writes back.
THEOREM EventsAccounted == Spec => []EventsFollowWrites
<1>1. CallInv => EventsFollowWrites
  <2> SUFFICES ASSUME CallInv PROVE EventsFollowWrites
      OBVIOUS
  <2>1. TypeOK
      BY DEF CallInv, IInv, Typed, MeterFrames, TypeOK, Context, Entry, Meter
  <2>2. ASSUME NEW i \in 2 .. Len(ctxs)
        PROVE  /\ IsInjective(ctxs[i].events)
               /\ Range(ctxs[i].events) \subseteq ctxs[i].store.writes \ ctxs[i - 1].store.writes
               /\ ret = "none" =>
                    Range(ctxs[i].events) = ctxs[i].store.writes \ ctxs[i - 1].store.writes
    <3>1. Level(ctxs[i - 1].store.writes, ctxs[i].store.writes, ctxs[i].events, Len(log))
        BY DEF CallInv, Recorded, Emitted
    <3>2. ret = "none" =>
            Told(ctxs[i - 1].store.writes, ctxs[i].store.writes, ctxs[i].events)
        BY DEF CallInv, Recorded, Emitted, Clean
    <3> QED
        BY <3>1, <3>2 DEF Level, Told
  <2> QED
      BY <2>1, <2>2 DEF EventsFollowWrites
<1> QED
    BY <1>1, InitCallInv, NextKeepsCallInv, PTL DEF Spec

-----------------------------------------------------------------------------
(***************************************************************************)
(* ContractCalls implements AtomicCalls.                                   *)
(***************************************************************************)

\* The refinement mapping.
CallOf(e) == [caller |-> e.caller, optional |-> e.optional, status |-> e.status]
CallsOf(lg) == [c \in DOMAIN lg |-> CallOf(lg[c])]

LEMMA CallsOfSeq ==
    ASSUME NEW lg \in Seq(Entry)
    PROVE  /\ DOMAIN CallsOf(lg) = 1 .. Len(lg) /\ Len(CallsOf(lg)) = Len(lg)
           /\ \A c \in 1 .. Len(lg) :
                 /\ CallsOf(lg)[c] = CallOf(lg[c])
                 /\ CallsOf(lg)[c].caller = lg[c].caller
                 /\ CallsOf(lg)[c].optional = lg[c].optional
                 /\ CallsOf(lg)[c].status = lg[c].status
<1>1. DOMAIN lg = 1 .. Len(lg) /\ Len(lg) \in Nat
    BY SeqLen
<1>2. DOMAIN CallsOf(lg) = 1 .. Len(lg)
    BY <1>1 DEF CallsOf
<1>3. Len(CallsOf(lg)) = Len(lg)
    BY <1>1, <1>2 DEF CallsOf
<1>4. \A c \in 1 .. Len(lg) : CallsOf(lg)[c] = CallOf(lg[c])
    BY <1>1 DEF CallsOf
<1> QED
    BY <1>2, <1>3, <1>4 DEF CallOf

\* The work that must last is the set W in which a call is exactly when it
\* succeeded and its caller is.
LEMMA LastingIs ==
    ASSUME NEW n \in Nat, NEW cs, DOMAIN cs = 1 .. n,
           \A c \in 1 .. n : cs[c].caller \in Nat /\ cs[c].caller < c,
           NEW W \in SUBSET (1 .. n),
           \A c \in 1 .. n : c \in W <=> /\ cs[c].status = "ok"
                                         /\ cs[c].caller # 0 => cs[c].caller \in W
    PROVE  Atomic!Lasting(cs) = W
<1> DEFINE Equation(f) ==
               f = [c \in DOMAIN cs |-> /\ cs[c].status = "ok"
                                        /\ cs[c].caller # 0 => f[cs[c].caller]]
           lasts == CHOOSE f : Equation(f)
<1>1. \E f : Equation(f)
  <2> DEFINE B(c) == /\ cs[c].status = "ok"
                     /\ cs[c].caller # 0 => cs[c].caller \in W
             w == [c \in 1 .. n |-> B(c)]
             D(c) == /\ cs[c].status = "ok"
                     /\ cs[c].caller # 0 => w[cs[c].caller]
  <2>1. ASSUME NEW c \in 1 .. n PROVE w[c] <=> c \in W
      OBVIOUS
  <2>2. ASSUME NEW c \in 1 .. n PROVE cs[c].caller # 0 => cs[c].caller \in 1 .. n
      OBVIOUS
  <2> HIDE DEF w
  <2>3. ASSUME NEW c \in 1 .. n PROVE B(c) <=> D(c)
      BY <2>1, <2>2
  <2>4. ASSUME NEW c \in 1 .. n PROVE B(c) = D(c)
      BY <2>3
  <2> HIDE DEF B, D
  <2>5. w = [c \in 1 .. n |-> D(c)]
      BY <2>4 DEF w
  <2> QED
      BY <2>5 DEF D
<1>2. Equation(lasts)
    BY <1>1
<1>3. Atomic!Lasting(cs) = {c \in DOMAIN cs : lasts[c]}
    BY DEF Atomic!Lasting
<1> HIDE DEF lasts
<1>4. \A c \in 1 .. n : lasts[c] <=> /\ cs[c].status = "ok"
                                     /\ cs[c].caller # 0 => lasts[cs[c].caller]
    BY <1>2
<1> DEFINE Bad == {c \in 1 .. n : ~(lasts[c] <=> c \in W)}
<1>5. Bad = {}
  <2> SUFFICES ASSUME Bad # {} PROVE FALSE
      OBVIOUS
  <2>1. Bad \in SUBSET Nat
      OBVIOUS
  <2>2. \E x \in Bad : \A y \in Bad : x <= y
    <3> HIDE DEF Bad
    <3> QED
        BY <2>1, LeastNatural
  <2>3. PICK x \in Bad : \A y \in Bad : x <= y
      BY <2>2
  <2>4. x \in 1 .. n /\ ~(lasts[x] <=> x \in W)
      OBVIOUS
  <2>5. cs[x].caller # 0 => cs[x].caller \in 1 .. n /\ cs[x].caller \notin Bad
      BY <2>3, <2>4
  <2>6. cs[x].caller # 0 => (lasts[cs[x].caller] <=> cs[x].caller \in W)
      BY <2>5
  <2> QED
      BY <1>4, <2>4, <2>6
<1>6. \A c \in 1 .. n : lasts[c] <=> c \in W
    BY <1>5
<1> QED
    BY <1>3, <1>6

\* A call returns well, and a transaction ends well, only if nothing it needed
\* failed or still runs.
LEMMA NeededCarried ==
    ASSUME NEW fs \in Seq(Frame), fs # <<>>, NEW lg \in Seq(Entry), Tree(fs, lg),
           NEW r, Clean(r), Needed(fs, lg, r),
           NEW d \in 1 .. Len(lg), lg[d].caller = fs[Len(fs)].id
    PROVE  lg[d].status = "ok" \/ (lg[d].status = "failed" /\ lg[d].optional)
<1> DEFINE n == Len(fs)
<1>1. n \in Nat \ {0} /\ n \in Nat /\ n \in 1 .. n
    BY SeqEmpty, SeqLen
<1>2. lg[d].status \in {"open", "ok", "failed"}
  <2>1. lg[d] \in Entry
      BY SeqElement
  <2> QED
      BY <2>1 DEF Entry
<1>3. lg[d].status # "open"
  <2> SUFFICES ASSUME lg[d].status = "open" PROVE FALSE
      OBVIOUS
  <2>1. PICK j \in 2 .. n : fs[j].id = d
      BY DEF Tree
  <2>2. fs[n].id = fs[j - 1].id
      BY <2>1 DEF Tree
  <2>3. j - 1 \in 1 .. n
      BY <1>1
  <2>4. n = j - 1
      BY <1>1, <2>2, <2>3, OneFrame
  <2> QED
      BY <1>1, <2>4
<1>4. ASSUME lg[d].status = "failed", ~lg[d].optional PROVE FALSE
  <2>1. lg[d].caller # 0 /\ lg[lg[d].caller].status = "failed"
      BY <1>4 DEF Needed
  <2>2. n # 1
      BY <2>1 DEF Tree
  <2>3. n \in 2 .. n
      BY <1>1, <2>2, NotOne
  <2>4. lg[fs[n].id].status = "open"
      BY <2>3 DEF Tree
  <2> QED
      BY <2>1, <2>4
<1> QED
    BY <1>2, <1>3, <1>4

LEMMA BeginTxAtomic == ASSUME CallInv, BeginTx PROVE Atomic!Begin
<1>1. stack = <<>> /\ log' = <<>> /\ stack' # <<>> /\ Len(stack) = 0 /\ log \in Seq(Entry)
    BY DEF BeginTx, CallInv, IInv, Typed
<1>2. ctxs'[1].store.writes = {}
    BY <1>1, BeginTxRecorded DEF Recorded, Effects
<1>3. CallsOf(log') = <<>>
    BY <1>1 DEF CallsOf
<1>4. \A c \in 1 .. Len(log) : log[c].status # "open"
    BY <1>1 DEF CallInv, Recorded, Tree
<1>5. \A c \in DOMAIN CallsOf(log) : CallsOf(log)[c].status # "open"
    BY <1>1, <1>4, CallsOfSeq
<1> QED
    BY <1>2, <1>3, <1>5 DEF Atomic!Begin, CallsOf, CallOf

LEMMA CallAtomic ==
    ASSUME CallInv, IInv', NEW g \in Frame, Called(g)
    PROVE  Atomic!Open
<1> DEFINE n == Len(stack)
           k == Len(log)
           c == stack[n].id
           opt == log'[k + 1].optional
<1>1. /\ stack \in Seq(Frame) /\ log \in Seq(Entry) /\ log' \in Seq(Entry) /\ stack # <<>>
      /\ Tree(stack, log) /\ Effects(stack, ctxs, log, ret)
      /\ Len(stack') = n + 1
    BY DEF CallInv, Recorded, IInv, Typed, Called, AddsFrame
<1>2. n \in Nat \ {0} /\ n \in Nat /\ k \in Nat /\ n \in 1 .. n
    BY <1>1, SeqEmpty, SeqLen
<1>3. AddsEntry(g, c, meters', log, log', ret')
    BY DEF Called, Top, Last
<1>4. /\ Len(log') = k + 1 /\ \A d \in 1 .. k : log'[d] = log[d]
      /\ log'[k + 1].caller = c /\ log'[k + 1].status = "open"
    BY <1>1, <1>3, EntryAdded
<1>5. opt \in BOOLEAN
  <2>1. k + 1 \in 1 .. Len(log')
      BY <1>2, <1>4
  <2>2. log'[k + 1] \in Entry
      BY <1>1, <2>1, SeqElement
  <2> QED
      BY <2>2 DEF Entry
<1>6. c \in 0 .. k /\ (c # 0 => c \in 1 .. k /\ log[c].status = "open")
  <2>1. CASE n = 1
      BY <1>1, <1>2, <2>1 DEF Tree
  <2>2. CASE n # 1
    <3>1. n \in 2 .. n
        BY <1>2, <2>2, NotOne
    <3>2. c \in 1 .. k /\ log[c].status = "open"
        BY <1>1, <3>1 DEF Tree
    <3> QED
        BY <1>2, <3>2
  <2> QED
      BY <2>1, <2>2
<1>7. ctxs[1].store.writes = {} /\ ctxs'[1].store.writes = {}
  <2>1. stack' # <<>>
      BY <1>1, <1>2
  <2>2. Effects(stack', ctxs', log', ret')
      BY CallRecorded DEF Recorded
  <2> QED
      BY <1>1, <2>1, <2>2 DEF Effects
<1>8. CallsOf(log') = Append(CallsOf(log), [caller |-> c, optional |-> opt, status |-> "open"])
  <2> DEFINE e == [caller |-> c, optional |-> opt, status |-> "open"]
             s == CallsOf(log)
             T == [caller : Nat, optional : BOOLEAN, status : {"open", "ok", "failed"}]
  <2>1. s \in Seq(T)
    <3>1. \A d \in 1 .. k : log[d] \in Entry
        BY <1>1, SeqElement
    <3>2. \A d \in 1 .. k : CallOf(log[d]) \in T
        BY <3>1 DEF CallOf, Entry
    <3>3. s = [d \in 1 .. k |-> CallOf(log[d])]
        BY <1>1, SeqLen DEF CallsOf
    <3> QED
        BY <1>2, <3>2, <3>3
  <2>2. e \in T
      BY <1>5, <1>6, <1>2
  <2>3. Len(s) = k /\ \A d \in 1 .. k : s[d] = CallOf(log[d])
      BY <1>1, CallsOfSeq
  <2> HIDE DEF s, e
  <2>4. /\ Append(s, e) \in Seq(T) /\ Len(Append(s, e)) = k + 1
        /\ \A d \in 1 .. k : Append(s, e)[d] = s[d]
        /\ Append(s, e)[k + 1] = e
      BY <2>1, <2>2, <2>3, SeqAppend
  <2>5. DOMAIN Append(s, e) = 1 .. k + 1
      BY <2>4, SeqLen
  <2>6. /\ DOMAIN CallsOf(log') = 1 .. k + 1
        /\ \A d \in 1 .. k + 1 : CallsOf(log')[d] = CallOf(log'[d])
      BY <1>1, <1>4, CallsOfSeq
  <2>7. \A d \in 1 .. k + 1 : CallsOf(log')[d] = Append(s, e)[d]
    <3> SUFFICES ASSUME NEW d \in 1 .. k + 1 PROVE CallsOf(log')[d] = Append(s, e)[d]
        OBVIOUS
    <3>1. CASE d = k + 1
        BY <1>4, <2>4, <2>6, <3>1 DEF CallOf, e
    <3>2. CASE d # k + 1
      <4>1. d \in 1 .. k
          BY <1>2, <3>2
      <4> QED
          BY <1>4, <2>3, <2>4, <2>6, <4>1
    <3> QED
        BY <3>1, <3>2
  <2>8. CallsOf(log') = [d \in 1 .. k + 1 |-> CallsOf(log')[d]]
      BY <2>6 DEF CallsOf
  <2>9. Append(s, e) = [d \in 1 .. k + 1 |-> Append(s, e)[d]]
      BY <2>4, <2>5, SeqLen
  <2>10. CallsOf(log') = Append(s, e)
      BY <2>7, <2>8, <2>9
  <2> QED
      BY <2>10 DEF s, e
<1>9. Len(CallsOf(log)) = k /\ (c # 0 => CallsOf(log)[c].status = "open")
    BY <1>1, <1>6, CallsOfSeq
<1> HIDE DEF c, opt, k
<1>10. \E b \in 0 .. Len(CallsOf(log)), o \in BOOLEAN :
          /\ b # 0 => CallsOf(log)[b].status = "open"
          /\ CallsOf(log') = Append(CallsOf(log), [caller |-> b, optional |-> o, status |-> "open"])
    BY <1>5, <1>6, <1>8, <1>9
<1> QED
    BY <1>7, <1>10 DEF Atomic!Open, CallsOf, CallOf

LEMMA ReturnAtomic == ASSUME CallInv, Returned PROVE Atomic!Settle
<1> DEFINE n == Len(stack)
           k == Len(log)
           c == stack[n].id
           status == IF ret = "ok" THEN "ok" ELSE "failed"
<1>1. /\ IInv /\ stack \in Seq(Frame) /\ log \in Seq(Entry) /\ stack # <<>> /\ Top.how # "tx"
      /\ Tree(stack, log) /\ Effects(stack, ctxs, log, ret) /\ Needed(stack, log, ret)
      /\ log' = Settled(status) /\ Len(stack') = n - 1
    BY DEF CallInv, Recorded, IInv, Typed, Returned, DropsFrame
<1>2. n \in 2 .. n /\ n \in Nat /\ n >= 2 /\ Top = stack[n] /\ k \in Nat
  <2>1. n \in Nat \ {0} /\ n # 1 /\ Top = stack[n]
      BY <1>1, TopFrame
  <2> QED
      BY <1>1, <2>1, NotOne, SeqLen
<1>3. c \in 1 .. k /\ log[c].status = "open"
    BY <1>1, <1>2 DEF Tree
<1>4. status \in {"ok", "failed"} /\ (status = "ok" => Clean(ret))
    BY DEF Clean
<1> HIDE DEF status
<1>5. /\ log' \in Seq(Entry) /\ Len(log') = k
      /\ \A d \in 1 .. k : d # c => log'[d] = log[d]
      /\ log'[c].status = status /\ log'[c].caller = log[c].caller
      /\ log'[c].optional = log[c].optional
  <2>1. log' = [log EXCEPT ![c].status = status]
      BY <1>1, <1>2 DEF Settled
  <2> HIDE DEF c
  <2>2. /\ [log EXCEPT ![c].status = status] \in Seq(Entry)
        /\ Settles(log, c, status, [log EXCEPT ![c].status = status])
      BY <1>1, <1>3, <1>4, SettledIs
  <2>3. log' \in Seq(Entry) /\ Settles(log, c, status, log')
      BY <2>1, <2>2
  <2> QED
      BY <2>3 DEF Settles
<1>6. CallsOf(log') = [CallsOf(log) EXCEPT ![c].status = status]
  <2> DEFINE s == CallsOf(log)
  <2>1. /\ DOMAIN s = 1 .. k /\ s = [d \in 1 .. k |-> CallOf(log[d])]
        /\ CallsOf(log') = [d \in 1 .. k |-> CallOf(log'[d])]
      BY <1>1, <1>5, SeqLen DEF CallsOf
  <2>2. ASSUME NEW d \in 1 .. k
        PROVE  CallOf(log'[d]) = IF d = c THEN [s[c] EXCEPT !.status = status] ELSE s[d]
    <3>1. CASE d = c
      <4>1. s[c] = CallOf(log[c])
          BY <1>3, <2>1
      <4> QED
          BY <1>5, <3>1, <4>1 DEF CallOf
    <3>2. CASE d # c
        BY <1>5, <2>1, <3>2
    <3> QED
        BY <3>1, <3>2
  <2> HIDE DEF s
  <2>3. [s EXCEPT ![c].status = status]
          = [d \in 1 .. k |-> IF d = c THEN [s[c] EXCEPT !.status = status] ELSE s[d]]
      BY <2>1
  <2>4. CallsOf(log') = [s EXCEPT ![c].status = status]
      BY <2>1, <2>2, <2>3
  <2> QED
      BY <2>4 DEF s
<1>7. c \in DOMAIN CallsOf(log) /\ CallsOf(log)[c].status = "open"
    BY <1>1, <1>3, CallsOfSeq
<1>8. status = "ok" => Atomic!Carried(c)
  <2> SUFFICES ASSUME status = "ok" PROVE Atomic!Carried(c)
      OBVIOUS
  <2>1. \A d \in 1 .. k : log[d].caller = c =>
            log[d].status = "ok" \/ (log[d].status = "failed" /\ log[d].optional)
      BY <1>1, <1>4, NeededCarried
  <2>2. \A d \in DOMAIN CallsOf(log) : CallsOf(log)[d].caller = c =>
            \/ CallsOf(log)[d].status = "ok"
            \/ CallsOf(log)[d].status = "failed" /\ CallsOf(log)[d].optional
      BY <1>1, <2>1, CallsOfSeq
  <2> QED
      BY <2>2 DEF Atomic!Carried, CallsOf, CallOf
<1>9. ctxs[1].store.writes = {} /\ ctxs'[1].store.writes = {}
  <2>1. stack' # <<>>
      BY <1>1, <1>2
  <2>2. Effects(stack', ctxs', log', ret')
      BY ReturnRecorded DEF Recorded
  <2> QED
      BY <1>1, <2>1, <2>2 DEF Effects
<1> HIDE DEF c
<1>10. \E b \in DOMAIN CallsOf(log), st \in {"ok", "failed"} :
          /\ CallsOf(log)[b].status = "open"
          /\ st = "ok" => Atomic!Carried(b)
          /\ CallsOf(log') = [CallsOf(log) EXCEPT ![b].status = st]
    BY <1>4, <1>6, <1>7, <1>8
<1> QED
    BY <1>9, <1>10 DEF Atomic!Settle, CallsOf, CallOf

LEMMA EndTxAtomic == ASSUME CallInv, EndTx PROVE Atomic!Commit \/ UNCHANGED Atomic!vars
<1> DEFINE k == Len(log)
           W == ctxs[2].store.writes
<1>1. /\ IInv /\ stack \in Seq(Frame) /\ log \in Seq(Entry) /\ stack # <<>> /\ Top.how = "tx"
      /\ Tree(stack, log) /\ Effects(stack, ctxs, log, ret) /\ Needed(stack, log, ret)
      /\ Emitted(ctxs, ret, k) /\ log' = log /\ ctxs \in Seq(Context)
    BY DEF CallInv, Recorded, IInv, Typed, EndTx
<1>2. Len(stack) = 1 /\ stack[1].id = 0 /\ Len(ctxs) = 2 /\ k \in Nat
  <2>1. Len(stack) = 1 /\ Len(ctxs) = stack[1].ctx /\ Frames(stack)
      BY <1>1, TopFrame
  <2> QED
      BY <1>1, <2>1, SeqLen DEF Tree, Frames
<1>3. CASE ret # "none"
  <2>1. ctxs' = Discard(ctxs)
      BY <1>3 DEF EndTx
  <2>2. 1 \in 1 .. Len(ctxs) - 1 /\ Len(ctxs) >= 2
      BY <1>2
  <2>3. ctxs'[1] = ctxs[1]
      BY <1>1, <2>1, <2>2, DiscardEffect
  <2> QED
      BY <1>1, <2>3 DEF Atomic!vars
<1>4. CASE ret = "none"
  <2>1. ctxs'[1].store.writes = W
    <3>1. ctxs' = WriteBack(ctxs) /\ Len(ctxs) - 1 = 1 /\ Len(ctxs) >= 2
        BY <1>2, <1>4 DEF EndTx
    <3>2. WriteBack(ctxs)[Len(ctxs) - 1].store = ctxs[Len(ctxs)].store
        BY <1>1, <3>1, WriteBackEffect
    <3> QED
        BY <1>2, <3>1, <3>2
  <2>2. Lives(stack, W, log, 2) /\ W \in SUBSET (1 .. k)
    <3>1. 2 \in 2 .. Len(ctxs) /\ Clean(ret)
        BY <1>2, <1>4 DEF Clean
    <3> QED
        BY <1>1, <3>1 DEF Effects, Emitted, Level
  <2>3. \A c \in 1 .. k : ~Within(stack, c, 2)
      BY <1>2 DEF Within
  <2>4. \A c \in 1 .. k : c \in W <=> /\ log[c].status = "ok"
                                      /\ log[c].caller # 0 => log[c].caller \in W
      BY <2>2, <2>3 DEF Lives
  <2>5. \A c \in 1 .. k : log[c].caller \in Nat /\ log[c].caller < c
      BY <1>1, CallerNumber DEF Tree
  <2> DEFINE s == CallsOf(log)
  <2>6. /\ DOMAIN s = 1 .. k
        /\ \A c \in 1 .. k : s[c].caller = log[c].caller /\ s[c].status = log[c].status
                             /\ s[c].optional = log[c].optional
      BY <1>1, CallsOfSeq
  <2> HIDE DEF s, W
  <2>7. Atomic!Lasting(s) = W
    <3>1. \A c \in 1 .. k : s[c].caller \in Nat /\ s[c].caller < c
        BY <2>5, <2>6
    <3>2. \A c \in 1 .. k : c \in W <=> /\ s[c].status = "ok"
                                        /\ s[c].caller # 0 => s[c].caller \in W
        BY <2>4, <2>6
    <3> HIDE DEF k
    <3> QED
        BY <1>2, <2>2, <2>6, <3>1, <3>2, LastingIs
  <2>8. \A d \in DOMAIN s : s[d].caller = 0 =>
            s[d].status = "ok" \/ (s[d].status = "failed" /\ s[d].optional)
    <3>1. \A d \in 1 .. k : log[d].caller = 0 =>
              log[d].status = "ok" \/ (log[d].status = "failed" /\ log[d].optional)
      <4>1. Clean(ret) /\ stack[Len(stack)].id = 0
          BY <1>2, <1>4 DEF Clean
      <4> QED
          BY <1>1, <4>1, NeededCarried
    <3> QED
        BY <2>6, <3>1
  <2>9. Atomic!Carried(0)
      BY <2>8 DEF Atomic!Carried, s, CallsOf, CallOf
  <2>10. ctxs'[1].store.writes = Atomic!Lasting(CallsOf(log))
      BY <2>1, <2>7 DEF s
  <2> QED
      BY <1>1, <2>9, <2>10 DEF Atomic!Commit, CallsOf, CallOf
<1> QED
    BY <1>3, <1>4

LEMMA StepAtomic == CallInv /\ [Next]_vars => [Atomic!Next]_(Atomic!vars)
<1> SUFFICES ASSUME CallInv, [Next]_vars PROVE Atomic!Next \/ UNCHANGED Atomic!vars
    OBVIOUS
<1>1. CASE BeginTx BY <1>1, BeginTxAtomic DEF Atomic!Next
<1>2. CASE EndTx BY <1>2, EndTxAtomic DEF Atomic!Next
<1>3. CASE Finish BY <1>3 DEF Finish, Atomic!vars
<1>4. CASE UNCHANGED vars BY <1>4 DEF vars, Atomic!vars
<1>5. CASE \E g \in Frame : Called(g)
  <2>1. IInv'
      BY NextKeepsIInv DEF CallInv
  <2> QED
      BY <1>5, <2>1, CallAtomic DEF Atomic!Next
<1>6. CASE Returned BY <1>6, ReturnAtomic DEF Atomic!Next
<1> QED
    BY <1>1, <1>2, <1>3, <1>4, <1>5, <1>6, CallSteps

\* The keeper, its dispatcher, cw-hooks and the IBC module implement
\* AtomicCalls, for any number of calls, hooks and packets and any gas limits:
\* what a transaction commits is the work of exactly the calls that succeeded
\* and none of whose callers failed, and no call succeeds on top of a failed
\* call that its caller needed.
THEOREM CallsImplementAtomicCalls == Spec => CallsAreAtomic
<1>1. Init => Atomic!Init
  <2> SUFFICES ASSUME Init PROVE Atomic!Init
      OBVIOUS
  <2>1. log = <<>> /\ ctxs[1].store.writes = {}
      BY DEF Init
  <2>2. CallsOf(log) = <<>>
      BY <2>1 DEF CallsOf
  <2> QED
      BY <2>1, <2>2 DEF Atomic!Init, CallsOf, CallOf
<1> QED
    BY <1>1, InitCallInv, NextKeepsCallInv, StepAtomic, PTL
    DEF Spec, CallsAreAtomic, Atomic!Spec

-----------------------------------------------------------------------------
(***************************************************************************)
(* Gas.                                                                    *)
(***************************************************************************)
Charges(ms) == SumFunctionOnSet([i \in 1 .. Len(ms) |-> ms[i].used], 1 .. Len(ms))
Ran(lg) == Cardinality({c \in 1 .. Len(lg) : lg[c].ran})
NoneNested(lg) == \A c \in 1 .. Len(lg) : ~lg[c].nested

\* A sub-message with a meter of its own was given no more than its caller has
\* left; a hook is called from a call without a limit.
Limit(f, ms, k) ==
    /\ f.metered /\ f.how = "sub" => ms[k].limit + ms[k - 1].used <= ms[k - 1].limit
    /\ f.how = "hook" => k = 2

Limited(fs, ms) == \A j \in 2 .. Len(fs) : Limit(fs[j], ms, MeterOf(fs, j))

\* The charges are those of the calls that ran, and of the one that ran out of
\* gas until its own limit, one unit lower, is charged to the caller.
Balanced(ms, lg, r) ==
    /\ r \in {"none", "ok", "err"} /\ Len(ms) >= 1 =>
          Charges(ms) = Ran(lg) /\ ms[Len(ms)].used <= ms[Len(ms)].limit
    /\ r = "oog" /\ Len(ms) >= 2 =>
          Charges(ms) = Ran(lg) + 1 /\ ms[Len(ms)].used = ms[Len(ms)].limit + 1

Charged(fs, ms, lg, r) == NoneNested(lg) => Limited(fs, ms) /\ Balanced(ms, lg, r)

LEMMA MeterNumbers ==
    ASSUME NEW ms \in Seq(Meter), NEW i \in 1 .. Len(ms)
    PROVE  ms[i].used \in Nat /\ ms[i].limit \in Nat
<1>1. ms[i] \in Meter
    BY SeqElement
<1> QED
    BY <1>1 DEF Meter

LEMMA UsedNumbers ==
    ASSUME NEW ms \in Seq(Meter)
    PROVE  /\ IsFiniteSet(1 .. Len(ms))
           /\ IntOn([i \in 1 .. Len(ms) |-> ms[i].used], 1 .. Len(ms))
<1>1. Len(ms) \in Int
    BY SeqLen
<1>2. IsFiniteSet(1 .. Len(ms))
    BY <1>1, FS_Interval
<1>3. \A i \in 1 .. Len(ms) : ms[i].used \in Nat
    BY MeterNumbers
<1> QED
    BY <1>2, <1>3 DEF IntOn

LEMMA ChargesType ==
    ASSUME NEW ms \in Seq(Meter)
    PROVE  Charges(ms) \in Int
<1> DEFINE f == [i \in 1 .. Len(ms) |-> ms[i].used]
           S == 1 .. Len(ms)
<1>1. IsFiniteSet(S) /\ IntOn(f, S)
    BY UsedNumbers
<1> HIDE DEF f, S
<1>2. SumFunctionOnSet(f, S) \in Int
    BY <1>1, SumType
<1> QED
    BY <1>2 DEF Charges, f, S

LEMMA ChargesNone == ASSUME NEW ms, Len(ms) = 0 PROVE Charges(ms) = 0
<1>1. 1 .. Len(ms) = {}
    OBVIOUS
<1> QED
    BY <1>1, SumEmpty DEF Charges

LEMMA ChargesNew ==
    ASSUME NEW ms \in Seq(Meter), NEW ns \in Seq(Meter), Len(ns) = Len(ms) + 1,
           \A i \in 1 .. Len(ms) : ns[i] = ms[i]
    PROVE  Charges(ns) = Charges(ms) + ns[Len(ms) + 1].used
<1> DEFINE k == Len(ms)
           f == [i \in 1 .. Len(ms) |-> ms[i].used]
           g == [i \in 1 .. Len(ns) |-> ns[i].used]
           S == 1 .. k
           T == 1 .. k + 1
<1>1. k \in Nat
    BY SeqLen
<1>2. IsFiniteSet(S) /\ IsFiniteSet(T) /\ IntOn(g, T)
    BY UsedNumbers
<1>3. T \ {k + 1} = S /\ k + 1 \in T
    BY <1>1
<1>4. \A i \in S : g[i] = f[i]
    BY <1>1
<1>5. g[k + 1] = ns[k + 1].used /\ ns[k + 1].used \in Nat
    BY <1>1, MeterNumbers
<1>6. Charges(ms) = SumFunctionOnSet(f, S) /\ Charges(ns) = SumFunctionOnSet(g, T)
    BY DEF Charges
<1>7. SumFunctionOnSet(f, S) \in Int
    BY <1>6, ChargesType
<1> HIDE DEF f, g, S, T, k
<1>8. SumFunctionOnSet(g, T) = g[k + 1] + SumFunctionOnSet(g, S)
    BY <1>2, <1>3, SumRemove
<1>9. SumFunctionOnSet(g, S) = SumFunctionOnSet(f, S)
    BY <1>2, <1>4, SumEqual
<1> QED
    BY <1>5, <1>6, <1>7, <1>8, <1>9 DEF k

\* Functions f and g on S differ at most at x.
Elsewhere(f, g, S, x) == \A y \in S : y # x => g[y] = f[y]

LEMMA SumElsewhere ==
    ASSUME NEW S, IsFiniteSet(S), NEW f, NEW g, IntOn(f, S), IntOn(g, S), NEW x \in S,
           Elsewhere(f, g, S, x)
    PROVE  SumFunctionOnSet(g, S) = SumFunctionOnSet(f, S) + g[x] - f[x]
    BY SumUpdate DEF Elsewhere

LEMMA ChargesUpdate ==
    ASSUME NEW ms \in Seq(Meter), NEW ns \in Seq(Meter), Len(ns) = Len(ms),
           NEW k \in 1 .. Len(ms), \A i \in 1 .. Len(ms) : i # k => ns[i] = ms[i]
    PROVE  Charges(ns) = Charges(ms) + ns[k].used - ms[k].used
<1> DEFINE f == [i \in 1 .. Len(ms) |-> ms[i].used]
           g == [i \in 1 .. Len(ns) |-> ns[i].used]
           S == 1 .. Len(ms)
<1>1. IsFiniteSet(S) /\ IntOn(f, S) /\ IntOn(g, S) /\ k \in S
    BY UsedNumbers
<1>2. \A i \in S : i # k => g[i] = f[i]
    OBVIOUS
<1>3. g[k] = ns[k].used /\ f[k] = ms[k].used
    OBVIOUS
<1>4. Charges(ms) = SumFunctionOnSet(f, S) /\ Charges(ns) = SumFunctionOnSet(g, S)
    BY DEF Charges
<1> HIDE DEF f, g, S
<1>5. SumFunctionOnSet(g, S) = SumFunctionOnSet(f, S) + g[k] - f[k]
  <2>1. Elsewhere(f, g, S, k)
      BY <1>2 DEF Elsewhere
  <2> QED
      BY <1>1, <2>1, SumElsewhere
<1> QED
    BY <1>3, <1>4, <1>5

LEMMA RanType ==
    ASSUME NEW lg \in Seq(Entry)
    PROVE  IsFiniteSet({c \in 1 .. Len(lg) : lg[c].ran}) /\ Ran(lg) \in Nat
<1> DEFINE S == {c \in 1 .. Len(lg) : lg[c].ran}
<1>1. S \subseteq 1 .. Len(lg) /\ IsFiniteSet(1 .. Len(lg))
    BY SeqLen, FS_Interval
<1> HIDE DEF S
<1>2. IsFiniteSet(S) /\ Cardinality(S) \in Nat
    BY <1>1, FS_Subset, FS_CardinalityType
<1> QED
    BY <1>2 DEF S, Ran

LEMMA RanCall ==
    ASSUME NEW lg \in Seq(Entry), NEW g, NEW k, NEW ns, NEW lh, NEW r,
           AddsEntry(g, k, ns, lg, lh, r)
    PROVE  Ran(lh) = IF r = "oog" THEN Ran(lg) ELSE Ran(lg) + 1
<1> DEFINE n == Len(lg)
           S == {c \in 1 .. n : lg[c].ran}
           T == {c \in 1 .. n + 1 : lh[c].ran}
<1>1. /\ n \in Nat /\ Len(lh) = n + 1 /\ \A d \in 1 .. n : lh[d] = lg[d]
      /\ lh[n + 1].ran <=> r # "oog"
    BY SeqLen, EntryAdded
<1>2. IsFiniteSet(S) /\ n + 1 \notin S
  <2>1. IsFiniteSet(S)
      BY RanType
  <2> QED
      BY <1>1, <2>1
<1>3. T = IF r = "oog" THEN S ELSE S \cup {n + 1}
  <2>1. ASSUME NEW c PROVE c \in T <=> c \in S \/ (c = n + 1 /\ r # "oog")
    <3>1. CASE c = n + 1
        BY <1>1, <1>2, <3>1
    <3>2. CASE c # n + 1
      <4>1. c \in 1 .. n + 1 <=> c \in 1 .. n
          BY <1>1, <3>2
      <4> QED
          BY <1>1, <3>2, <4>1
    <3> QED
        BY <3>1, <3>2
  <2> HIDE DEF S, T
  <2> QED
      BY <2>1
<1>4. Ran(lg) = Cardinality(S) /\ Ran(lh) = Cardinality(T)
    BY <1>1 DEF Ran
<1> HIDE DEF S, T
<1> QED
    BY <1>2, <1>3, <1>4, FS_AddElement

LEMMA RanReturn ==
    ASSUME NEW lg, NEW c, NEW status, NEW lh, Settles(lg, c, status, lh)
    PROVE  Ran(lh) = Ran(lg) /\ (NoneNested(lh) => NoneNested(lg))
<1>1. \A d \in 1 .. Len(lg) : lh[d].ran = lg[d].ran /\ lh[d].nested = lg[d].nested
    BY DEF Settles
<1>2. Len(lh) = Len(lg)
    BY DEF Settles
<1>3. {d \in 1 .. Len(lh) : lh[d].ran} = {d \in 1 .. Len(lg) : lg[d].ran}
    BY <1>1, <1>2
<1> QED
    BY <1>1, <1>2, <1>3 DEF Ran, NoneNested

\* Meters ns are the first k of ms, but for what the last one was charged.
Upto(ms, ns, k) ==
    /\ \A i \in 1 .. k - 1 : ns[i] = ms[i]
    /\ \A i \in 1 .. k : ns[i].limit = ms[i].limit

LEMMA LimitKept ==
    ASSUME NEW fs, NEW gs, NEW n \in Nat, AllSame(fs, gs, n), fs[1].metered,
           NEW ms, NEW ns, Upto(ms, ns, MeterOf(fs, n)),
           NEW j \in 2 .. n, Limit(fs[j], ms, MeterOf(fs, j))
    PROVE  Limit(gs[j], ns, MeterOf(gs, j))
<1> DEFINE k == MeterOf(fs, j)
           K == MeterOf(fs, n)
<1>1. j \in 0 .. n /\ j \in 1 .. n /\ j - 1 \in Nat /\ (j - 1) + 1 = j /\ 1 \in 0 .. j - 1
    OBVIOUS
<1>2. MeterOf(gs, j) = k
    BY <1>1, ShorterSame, MeterOfSame
<1>3. gs[j].how = fs[j].how /\ gs[j].metered = fs[j].metered
    BY <1>1 DEF AllSame, Same
<1>4. k <= K /\ k \in Nat /\ K \in Nat
    BY <1>1, MeterOfGrows
<1>5. ASSUME fs[j].metered PROVE k >= 2
  <2>1. MeterOf(fs, 1) = 1
      BY MeterOfOne
  <2>2. MeterOf(fs, j - 1) \in Nat /\ MeterOf(fs, 1) <= MeterOf(fs, j - 1)
      BY <1>1, MeterOfGrows
  <2>3. k = MeterOf(fs, j - 1) + 1
      BY <1>1, <1>5, MeterOfNext
  <2> QED
      BY <2>1, <2>2, <2>3
<1> HIDE DEF k, K
<1>6. ASSUME fs[j].metered PROVE ns[k].limit = ms[k].limit /\ ns[k - 1] = ms[k - 1]
  <2>1. k \in 1 .. K /\ k - 1 \in 1 .. K - 1
      BY <1>4, <1>5, <1>6
  <2> QED
      BY <2>1 DEF Upto, K
<1> QED
    BY <1>2, <1>3, <1>6 DEF Limit, k

LEMMA CallLimited ==
    ASSUME NEW fs \in Seq(Frame), fs # <<>>, NEW gs, NEW g \in Frame, AddsFrame(g, fs, gs),
           NEW ms, NEW ns, NEW r, MeterFrames(fs, ms), AddsGas(g, ms, ns, r),
           Limited(fs, ms), Len(ms) >= 1, g.how = "hook" => Len(ns) <= 2
    PROVE  Limited(gs, ns)
<1> DEFINE n == Len(fs)
           k == Len(ms)
<1>1. /\ n \in Nat \ {0} /\ n \in Nat /\ Len(gs) = n + 1 /\ gs[n + 1] = g
      /\ AllSame(fs, gs, n) /\ fs[1].metered
      /\ k \in Nat /\ k >= 1 /\ k = MeterOf(fs, n) /\ ms \in Seq(Meter)
    BY SeqEmpty, SeqLen DEF AddsFrame, MeterFrames
<1>2. Upto(ms, ns, k)
  <2>1. \A i \in 1 .. k - 1 : ns[i] = ms[i]
    <3>1. \A i \in 1 .. k - 1 : i \in 1 .. k
        BY <1>1
    <3> QED
        BY <3>1 DEF AddsGas
  <2>2. ns[k].limit = ms[k].limit
    <3>1. k \in 1 .. k
        BY <1>1
    <3> QED
        BY <3>1 DEF AddsGas
  <2>3. \A i \in 1 .. k : i \in 1 .. k - 1 \/ i = k
      BY <1>1
  <2> QED
      BY <2>1, <2>2, <2>3 DEF Upto
<1>3. Limit(g, ns, MeterOf(gs, n + 1))
  <2>1. MeterFrames(gs, ns)
      BY CallMeterFrames
  <2>2. MeterOf(gs, n + 1) = Len(ns)
      BY <1>1, <2>1 DEF MeterFrames
  <2>3. CASE g.metered
    <3>1. Len(ns) = k + 1 /\ Len(ns) - 1 = k /\ k \in 1 .. k /\ ns[k] = ms[k]
        BY <1>1, <2>3 DEF AddsGas
    <3>2. g.how = "sub" => ns[Len(ns)].limit + ms[k].used <= ms[k].limit
        BY <2>3 DEF AddsGas
    <3>3. g.how = "hook" => Len(ns) = 2
        BY <1>1, <3>1
    <3> QED
        BY <2>2, <3>1, <3>2, <3>3 DEF Limit
  <2>4. CASE ~g.metered
      BY <2>4 DEF Limit, AddsFrame
  <2> QED
      BY <2>3, <2>4
<1>4. ASSUME NEW j \in 2 .. n + 1 PROVE Limit(gs[j], ns, MeterOf(gs, j))
  <2>1. CASE j = n + 1
      BY <1>1, <1>3, <2>1
  <2>2. CASE j # n + 1
    <3>1. j \in 2 .. n
        BY <1>1, <2>2
    <3>2. Limit(fs[j], ms, MeterOf(fs, j)) /\ Upto(ms, ns, MeterOf(fs, n))
        BY <1>1, <1>2, <3>1 DEF Limited
    <3> QED
        BY <1>1, <3>1, <3>2, LimitKept
  <2> QED
      BY <2>1, <2>2
<1> QED
    BY <1>1, <1>4 DEF Limited

LEMMA CallBalanced ==
    ASSUME NEW ms \in Seq(Meter), Len(ms) >= 1, NEW lg \in Seq(Entry), Balanced(ms, lg, "none"),
           NEW g, NEW k, NEW ns, NEW lh, NEW r, AddsEntry(g, k, ns, lg, lh, r),
           AddsGas(g, ms, ns, r)
    PROVE  Balanced(ns, lh, r)
<1> DEFINE n == Len(ms)
           m == Len(ns)
<1>1. n \in Nat /\ n >= 1 /\ n \in 1 .. n /\ ns \in Seq(Meter)
    BY SeqLen DEF AddsGas
<1>2. /\ ms[n].used \in Nat /\ ms[n].limit \in Nat /\ ms[n].used <= ms[n].limit
      /\ Charges(ms) = Ran(lg) /\ Ran(lg) \in Nat
    BY <1>1, MeterNumbers, RanType DEF Balanced
<1>3. Charges(ns) = Charges(ms) + 1 /\ m >= 1 /\ m \in Nat
  <2>1. CASE g.metered
    <3>1. /\ m = n + 1 /\ ns[n + 1].used = 1 /\ \A i \in 1 .. n : ns[i] = ms[i]
        BY <2>1 DEF AddsGas
    <3> QED
        BY <1>1, <3>1, ChargesNew
  <2>2. CASE ~g.metered
    <3>1. /\ m = n /\ ns[n].used = ms[n].used + 1 /\ \A i \in 1 .. n - 1 : ns[i] = ms[i]
        BY <2>2 DEF AddsGas
    <3>2. \A i \in 1 .. n : i # n => ns[i] = ms[i]
        BY <1>1, <3>1
    <3>3. Charges(ns) = Charges(ms) + ns[n].used - ms[n].used
        BY <1>1, <3>1, <3>2, ChargesUpdate
    <3> QED
        BY <1>1, <1>2, <3>1, <3>3
  <2> QED
      BY <2>1, <2>2
<1>4. /\ r = "oog" <=> ns[m].used > ns[m].limit
      /\ ns[m].used \in Nat /\ ns[m].limit \in Nat
      /\ ns[m].used <= ns[m].limit + 1
  <2>1. m \in 1 .. m
      BY <1>3
  <2>2. ns[m].used \in Nat /\ ns[m].limit \in Nat
      BY <1>1, <2>1, MeterNumbers
  <2>3. CASE g.metered
      BY <2>2, <2>3 DEF AddsGas
  <2>4. CASE ~g.metered
    <3>1. m = n /\ ns[m].used = ms[n].used + 1 /\ ns[m].limit = ms[n].limit
        BY <2>4 DEF AddsGas
    <3> QED
        BY <1>2, <2>2, <3>1 DEF AddsGas
  <2> QED
      BY <2>3, <2>4
<1>5. Ran(lh) = IF r = "oog" THEN Ran(lg) ELSE Ran(lg) + 1
    BY RanCall
<1> QED
    BY <1>2, <1>3, <1>4, <1>5 DEF Balanced

LEMMA ReturnLimited ==
    ASSUME NEW fs \in Seq(Frame), Len(fs) >= 2, NEW gs, DropsFrame(fs, gs),
           NEW ms, NEW ns, NEW r, MeterFrames(fs, ms), DropsGas(fs[Len(fs)], ms, ns, r),
           Limited(fs, ms)
    PROVE  Limited(gs, ns)
<1> DEFINE n == Len(fs)
           h == n - 1
           k == MeterOf(fs, h)
<1>1. n \in Nat /\ h \in Nat /\ h + 1 = n /\ h >= 1 /\ fs # <<>>
    BY SeqLen, SeqEmpty
<1>2. Len(gs) = h /\ AllSame(fs, gs, h) /\ fs[1].metered
    BY <1>1 DEF DropsFrame, MeterFrames
<1>3. /\ k \in Nat
      /\ fs[n].metered => Len(ms) = k + 1
      /\ ~fs[n].metered => Len(ms) = k
    BY <1>1, MeterOfNext DEF MeterFrames
<1>4. Upto(ms, ns, k)
  <2>1. CASE fs[n].metered
    <3>1. Len(ms) - 1 = k /\ Len(ms) - 2 = k - 1
        BY <1>3, <2>1
    <3>2. (\A i \in 1 .. k - 1 : ns[i] = ms[i]) /\ ns[k].limit = ms[k].limit
        BY <2>1, <3>1 DEF DropsGas
    <3>3. \A i \in 1 .. k : i \in 1 .. k - 1 \/ i = k
        BY <1>3
    <3> QED
        BY <3>2, <3>3 DEF Upto
  <2>2. CASE ~fs[n].metered
      BY <2>2 DEF DropsGas, Upto
  <2> QED
      BY <2>1, <2>2
<1>5. ASSUME NEW j \in 2 .. h PROVE Limit(gs[j], ns, MeterOf(gs, j))
  <2>1. j \in 2 .. n
      BY <1>1
  <2>2. Limit(fs[j], ms, MeterOf(fs, j))
      BY <2>1 DEF Limited
  <2> HIDE DEF h
  <2> QED
      BY <1>1, <1>2, <1>4, <2>2, LimitKept
<1> QED
    BY <1>2, <1>5 DEF Limited

LEMMA ChargesOne ==
    ASSUME NEW ms \in Seq(Meter), Len(ms) = 1
    PROVE  Charges(ms) = ms[1].used
<1> DEFINE e == <<>>
<1>1. e \in Seq(Meter) /\ Len(e) = 0 /\ Len(ms) = Len(e) + 1 /\ 1 \in 1 .. Len(ms)
    OBVIOUS
<1> HIDE DEF e
<1>2. \A i \in 1 .. Len(e) : ms[i] = e[i]
    BY <1>1
<1>3. Charges(ms) = Charges(e) + ms[Len(e) + 1].used
    BY <1>1, <1>2, ChargesNew
<1>4. Charges(e) = 0 /\ Len(e) + 1 = 1 /\ ms[1].used \in Nat
    BY <1>1, ChargesNone, MeterNumbers
<1> QED
    BY <1>3, <1>4

\* The charges once the innermost meter is closed.
LEMMA ChargesClosed ==
    ASSUME NEW ms \in Seq(Meter), NEW ns \in Seq(Meter), Len(ms) >= 2, Len(ns) = Len(ms) - 1,
           \A i \in 1 .. Len(ms) - 2 : ns[i] = ms[i]
    PROVE  Charges(ns) = Charges(ms) - ms[Len(ms)].used
                         + ns[Len(ms) - 1].used - ms[Len(ms) - 1].used
<1> DEFINE n == Len(ms)
           k == n - 1
           base == [i \in 1 .. k |-> ms[i]]
<1>1. n \in Nat /\ k \in Nat /\ k >= 1 /\ n = k + 1 /\ k \in 1 .. k /\ n \in 1 .. n /\ k \in 1 .. n
    BY SeqLen
<1>2. base \in Seq(Meter) /\ Len(base) = k /\ \A i \in 1 .. k : base[i] = ms[i]
  <2>1. \A i \in 1 .. k : ms[i] \in Meter
      BY <1>1, SeqElement
  <2> QED
      BY <1>1, <2>1
<1>3. /\ Charges(ms) \in Int /\ Charges(ns) \in Int /\ Charges(base) \in Int
      /\ ms[n].used \in Nat /\ ms[k].used \in Nat /\ ns[k].used \in Nat
    BY <1>1, <1>2, ChargesType, MeterNumbers
<1> HIDE DEF base
<1>4. Charges(ms) = Charges(base) + ms[k + 1].used
  <2>1. Len(ms) = Len(base) + 1 /\ \A i \in 1 .. Len(base) : ms[i] = base[i]
      BY <1>1, <1>2
  <2>2. Charges(ms) = Charges(base) + ms[Len(base) + 1].used
      BY <1>2, <2>1, ChargesNew
  <2> QED
      BY <1>2, <2>2
<1>5. Charges(ns) = Charges(base) + ns[k].used - ms[k].used
  <2>1. \A i \in 1 .. k : i # k => ns[i] = base[i]
    <3>1. \A i \in 1 .. k : i # k => i \in 1 .. n - 2
        BY <1>1
    <3> QED
        BY <1>2, <3>1
  <2>2. Charges(ns) = Charges(base) + ns[k].used - base[k].used
    <3>1. /\ Len(ns) = Len(base) /\ k \in 1 .. Len(base)
          /\ \A i \in 1 .. Len(base) : i # k => ns[i] = base[i]
        BY <1>1, <1>2, <2>1
    <3> HIDE DEF k
    <3> QED
        BY <1>2, <3>1, ChargesUpdate
  <2> QED
      BY <1>1, <1>2, <2>2
<1> QED
    BY <1>1, <1>3, <1>4, <1>5

LEMMA ReturnBalanced ==
    ASSUME NEW fs \in Seq(Frame), Len(fs) >= 2, NEW ms, MeterFrames(fs, ms), Limited(fs, ms),
           NEW lg \in Seq(Entry), NEW r \in {"ok", "err", "oog", "panic"}, Balanced(ms, lg, r),
           NEW lh, Ran(lh) = Ran(lg), NEW ns, DropsGas(fs[Len(fs)], ms, ns, r),
           NEW s, Resumes(fs[Len(fs)], r, s, ns), Len(ms) >= 1,
           fs[Len(fs)].metered => Len(ms) >= 2
    PROVE  Balanced(ns, lh, s)
<1> DEFINE n == Len(fs)
           f == fs[n]
           m == Len(ms)
           k == m - 1
<1>1. n \in Nat /\ n \in 2 .. n /\ m \in Nat /\ ms \in Seq(Meter) /\ ns \in Seq(Meter)
    BY SeqLen DEF MeterFrames, DropsGas
<1>2. CASE ~f.metered
  <2>1. ns = ms /\ f.how # "hook"
      BY <1>1, <1>2 DEF DropsGas, MeterFrames
  <2>2. s \in {"none", "ok", "err"} => r \in {"ok", "err"}
      BY <1>2, <2>1 DEF Resumes
  <2>3. s = "oog" => r = "oog"
      BY <2>1 DEF Resumes
  <2> QED
      BY <2>1, <2>2, <2>3 DEF Balanced
<1>3. CASE f.metered
  <2>1. /\ k \in Nat /\ k >= 1 /\ m \in 1 .. m /\ k \in 1 .. m /\ k = m - 1 /\ m >= 2
        /\ f.how \in {"sub", "hook"} /\ m = MeterOf(fs, n)
      BY <1>1, <1>3 DEF MeterFrames
  <2>2. /\ Len(ns) = k /\ ns[k].limit = ms[k].limit /\ \A i \in 1 .. m - 2 : ns[i] = ms[i]
        /\ r # "panic" => ns[k].used = ms[k].used + Spent(ms[m])
      BY <1>3 DEF DropsGas
  <2>3. /\ ms[m].used \in Nat /\ ms[m].limit \in Nat /\ ms[k].used \in Nat /\ ms[k].limit \in Nat
        /\ Charges(ms) \in Int /\ Ran(lg) \in Nat
      BY <1>1, <2>1, MeterNumbers, ChargesType, RanType
  <2>4. Charges(ns) = Charges(ms) - ms[m].used + ns[k].used - ms[k].used
      BY <1>1, <2>1, <2>2, ChargesClosed
  <2>5. r # "panic" => Charges(ns) = Ran(lg) /\ Spent(ms[m]) <= ms[m].limit
                       /\ Spent(ms[m]) \in Nat
    <3> SUFFICES ASSUME r # "panic"
                 PROVE  Charges(ns) = Ran(lg) /\ Spent(ms[m]) <= ms[m].limit
                        /\ Spent(ms[m]) \in Nat
        OBVIOUS
    <3>1. CASE r = "oog"
      <4>1. Charges(ms) = Ran(lg) + 1 /\ ms[m].used = ms[m].limit + 1
          BY <2>1, <3>1 DEF Balanced
      <4>2. Spent(ms[m]) = ms[m].limit
          BY <2>3, <4>1 DEF Spent
      <4>3. ns[k].used = ms[k].used + ms[m].limit
          BY <2>2, <4>2
      <4>4. Charges(ns) = (Ran(lg) + 1) - (ms[m].limit + 1) + (ms[k].used + ms[m].limit) - ms[k].used
          BY <2>4, <4>1, <4>3
      <4>5. Charges(ns) = Ran(lg)
        <5>1. \A a, b, c \in Int : (a + 1) - (b + 1) + (c + b) - c = a
            OBVIOUS
        <5>2. Ran(lg) \in Int /\ ms[m].limit \in Int /\ ms[k].used \in Int
            BY <2>3
        <5> QED
            BY <4>4, <5>1, <5>2
      <4> QED
          BY <2>3, <4>2, <4>5
    <3>2. CASE r \in {"ok", "err"}
      <4>1. Charges(ms) = Ran(lg) /\ ms[m].used <= ms[m].limit
          BY <3>2 DEF Balanced
      <4>2. Spent(ms[m]) = ms[m].used
          BY <2>3, <4>1 DEF Spent
      <4> QED
          BY <2>2, <2>3, <2>4, <4>1, <4>2
    <3> QED
        BY <3>1, <3>2
  <2>6. Limit(f, ms, m)
      BY <1>1, <2>1 DEF Limited
  <2>7. CASE f.how = "sub"
    <3>1. ms[m].limit + ms[k].used <= ms[k].limit
        BY <1>3, <2>6, <2>7 DEF Limit
    <3>2. r # "panic" => ns[k].used <= ns[k].limit
        BY <2>2, <2>3, <2>5, <3>1
    <3>3. s \in {"none", "ok", "err"} => r # "panic"
        BY DEF Resumes
    <3>4. s # "oog"
        BY <1>3, <2>7 DEF Resumes
    <3> QED
        BY <2>2, <2>5, <3>2, <3>3, <3>4 DEF Balanced
  <2>8. CASE f.how = "hook"
    <3>1. k = 1
        BY <2>1, <2>6, <2>8 DEF Limit
    <3>2. s \in {"none", "ok", "err"} => s = "none" /\ r # "panic" /\ ns[k].used <= ns[k].limit
        BY <2>2, <2>8 DEF Resumes
    <3>3. s \in {"none", "ok", "err"} => Charges(ns) = Ran(lh)
        BY <2>5, <3>2
    <3>4. Len(ns) = 1 /\ Len(ns) = k
        BY <2>2, <3>1
    <3> HIDE DEF k
    <3> QED
        BY <3>2, <3>3, <3>4 DEF Balanced
  <2> QED
      BY <2>1, <2>7, <2>8
<1> QED
    BY <1>2, <1>3

LEMMA CallCharged ==
    ASSUME CallInv, Charged(stack, meters, log, ret), NEW g \in Frame, Called(g)
    PROVE  Charged(stack', meters', log', ret')
<1> SUFFICES ASSUME NoneNested(log') PROVE Limited(stack', meters') /\ Balanced(meters', log', ret')
    BY DEF Charged
<1>1. /\ IInv /\ stack \in Seq(Frame) /\ log \in Seq(Entry) /\ stack # <<>>
      /\ MeterFrames(stack, meters) /\ meters \in Seq(Meter) /\ ret = "none"
      /\ AddsFrame(g, stack, stack') /\ AddsGas(g, meters, meters', ret')
      /\ AddsEntry(g, Top.id, meters', log, log', ret')
    BY DEF CallInv, IInv, Typed, Called, MeterFrames
<1>2. Len(meters) >= 1
    BY <1>1, MetersAreOpen DEF MetersOpen
<1>3. /\ Len(log) \in Nat /\ Len(log') = Len(log) + 1 /\ \A d \in 1 .. Len(log) : log'[d] = log[d]
      /\ log'[Len(log) + 1].nested <=> g.how = "hook" /\ Len(meters') > 2
    BY <1>1, EntryAdded, SeqLen
<1>4. NoneNested(log) /\ (g.how = "hook" => ~(Len(meters') > 2))
  <2>1. Len(log) + 1 \in 1 .. Len(log') /\ \A d \in 1 .. Len(log) : d \in 1 .. Len(log')
      BY <1>3
  <2> QED
      BY <1>3, <2>1 DEF NoneNested
<1>5. Limited(stack, meters) /\ Balanced(meters, log, "none")
    BY <1>1, <1>4 DEF Charged
<1>6. g.how = "hook" => Len(meters') <= 2
  <2>1. meters' \in Seq(Meter)
      BY <1>1 DEF AddsGas
  <2> QED
      BY <1>4, <2>1, SeqLen
<1>7. Limited(stack', meters')
    BY <1>1, <1>2, <1>5, <1>6, CallLimited
<1>8. Balanced(meters', log', ret')
    BY <1>1, <1>2, <1>5, CallBalanced
<1> QED
    BY <1>7, <1>8

LEMMA ReturnCharged ==
    ASSUME CallInv, Charged(stack, meters, log, ret), Returned
    PROVE  Charged(stack', meters', log', ret')
<1> DEFINE n == Len(stack)
           status == IF ret = "ok" THEN "ok" ELSE "failed"
<1> SUFFICES ASSUME NoneNested(log') PROVE Limited(stack', meters') /\ Balanced(meters', log', ret')
    BY DEF Charged
<1>1. /\ IInv /\ stack \in Seq(Frame) /\ log \in Seq(Entry) /\ stack # <<>> /\ Top.how # "tx"
      /\ MeterFrames(stack, meters) /\ Tree(stack, log) /\ log' = Settled(status)
      /\ DropsFrame(stack, stack') /\ DropsGas(Top, meters, meters', ret)
      /\ Resumes(Top, ret, ret', meters') /\ ret \in {"ok", "err", "oog", "panic"}
    BY DEF CallInv, Recorded, IInv, Typed, Returned
<1>2. MetersOpen
    BY <1>1, MetersAreOpen
<1>3. n >= 2 /\ n \in 2 .. n /\ Top = stack[n]
  <2>1. n \in Nat /\ n >= 2 /\ Top = stack[n]
      BY <1>1, <1>2, ReturnBasics, TopFrame
  <2> QED
      BY <2>1
<1>4. Len(meters) >= 1 /\ (stack[n].metered => Len(meters) >= 2)
    BY <1>1, <1>2, <1>3 DEF MetersOpen
<1>5. Top.id \in 1 .. Len(log) /\ status \in {"ok", "failed"}
    BY <1>1, <1>3 DEF Tree
<1> HIDE DEF status
<1>6. Settles(log, Top.id, status, log')
    BY <1>1, <1>5, SettledIs DEF Settled
<1>7. Ran(log') = Ran(log) /\ NoneNested(log)
    BY <1>6, RanReturn
<1>8. Limited(stack, meters) /\ Balanced(meters, log, ret)
    BY <1>7 DEF Charged
<1>9. Limited(stack', meters')
    BY <1>1, <1>3, <1>8, ReturnLimited
<1>10. Balanced(meters', log', ret')
    BY <1>1, <1>3, <1>4, <1>7, <1>8, ReturnBalanced
<1> QED
    BY <1>9, <1>10

\* The inductive invariant of gas: GasIsCharged alone says nothing of a call
\* that failed, whose meter is about to be closed.
GasInv == CallInv /\ Charged(stack, meters, log, ret)

LEMMA NextKeepsGasInv == GasInv /\ [Next]_vars => GasInv'
<1> SUFFICES ASSUME GasInv, [Next]_vars PROVE GasInv'
    OBVIOUS
<1>1. CallInv /\ CallInv' /\ Charged(stack, meters, log, ret)
    BY NextKeepsCallInv DEF GasInv
<1>2. CASE BeginTx
  <2>1. Len(stack') = 1 /\ log' = <<>> /\ meters' = <<NewMeter(TxGas)>> /\ Len(log') = 0
      BY <1>2 DEF BeginTx
  <2>2. /\ Len(meters') = 1 /\ meters'[1].used = 0 /\ meters'[1].limit = TxGas
        /\ meters' \in Seq(Meter)
      BY <2>1, GasAssumption DEF NewMeter, Meter
  <2>3. Charges(meters') = 0
      BY <2>2, ChargesOne
  <2>4. Ran(log') = 0
    <3>1. {c \in 1 .. Len(log') : log'[c].ran} = {}
        BY <2>1
    <3> QED
        BY <3>1, FS_EmptySet DEF Ran
  <2>5. Limited(stack', meters') /\ Balanced(meters', log', ret')
      BY <2>1, <2>2, <2>3, <2>4, GasAssumption DEF Limited, Balanced
  <2> QED
      BY <1>1, <2>5 DEF GasInv, Charged
<1>3. CASE EndTx
  <2>1. Len(stack') = 0 /\ Len(meters') = 0
      BY <1>3 DEF EndTx
  <2> QED
      BY <1>1, <2>1 DEF GasInv, Charged, Limited, Balanced
<1>4. CASE Finish
  <2>1. ret = "none" /\ ret' \in {"ok", "err"} /\ UNCHANGED <<stack, meters, log>>
      BY <1>4 DEF Finish, CanCall
  <2> QED
      BY <1>1, <2>1 DEF GasInv, Charged, Balanced
<1>5. CASE UNCHANGED vars
    BY <1>1, <1>5 DEF vars, GasInv
<1>6. CASE \E g \in Frame : Called(g)
    BY <1>1, <1>6, CallCharged DEF GasInv
<1>7. CASE Returned
    BY <1>1, <1>7, ReturnCharged DEF GasInv
<1> QED
    BY <1>1, <1>2, <1>3, <1>4, <1>5, <1>6, <1>7, CallSteps

\* Gas is neither given away nor charged twice, whatever the limits: while no
\* hook runs inside a limited call, the open meters were charged one unit for
\* every call that ran, and a call that hits its own limit costs its caller that
\* limit and no more (ConsumeGas in dispatchMsgWithGasLimit and sudoContract).
THEOREM GasAccounted == Spec => []GasIsCharged
<1>1. Init => GasInv
  <2> SUFFICES ASSUME Init PROVE GasInv
      OBVIOUS
  <2>1. Len(stack) = 0 /\ Len(meters) = 0
      BY DEF Init
  <2> QED
      BY <2>1, InitCallInv DEF GasInv, Charged, Limited, Balanced
<1>2. GasInv => GasIsCharged
  <2> SUFFICES ASSUME GasInv, \A c \in DOMAIN log : ~log[c].nested, stack # <<>>, ret = "none"
               PROVE  SumFunction([i \in DOMAIN meters |-> meters[i].used])
                        = Cardinality({c \in DOMAIN log : log[c].ran})
      BY DEF GasIsCharged
  <2>1. /\ log \in Seq(Entry) /\ meters \in Seq(Meter) /\ Len(meters) >= 1
        /\ Charged(stack, meters, log, ret)
      BY MetersAreOpen DEF GasInv, CallInv, IInv, Typed, MetersOpen
  <2>2. DOMAIN log = 1 .. Len(log) /\ DOMAIN meters = 1 .. Len(meters)
      BY <2>1, SeqLen
  <2>3. Charges(meters) = Ran(log)
      BY <2>1, <2>2 DEF Charged, NoneNested, Balanced
  <2>4. Charges(meters) = SumFunction([i \in DOMAIN meters |-> meters[i].used])
      BY <2>2 DEF Charges, SumFunction
  <2> QED
      BY <2>2, <2>3, <2>4 DEF Ran
<1> QED
    BY <1>1, <1>2, NextKeepsGasInv, PTL DEF Spec
=============================================================================
