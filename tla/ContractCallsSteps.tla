------------------------- MODULE ContractCallsSteps -------------------------
(***************************************************************************)
(* What the steps of ContractCalls do, for every number of packets, hooks  *)
(* and gas: the invariant of frames, contexts and packets, every call and  *)
(* every return reduced to one shape, and what that shape does to events,  *)
(* to the tree of calls and to the writes.                                 *)
(***************************************************************************)
EXTENDS ContractCalls, Integers, TLAPS

\* The provers of each step, in this order: preparing a step for SMT takes long
\* in a module of this size, and most steps need no arithmetic.
USE ZenonT(3), SMTT(30), ZenonT(30)

-----------------------------------------------------------------------------
(* Sequences: the few facts that these proofs need *)

\* The empty sequence, and no other, has no elements.
LEMMA SeqEmpty ==
    ASSUME NEW S
    PROVE  <<>> \in Seq(S) /\ Len(<<>>) = 0 /\ \A s \in Seq(S) : s # <<>> => Len(s) \in Nat \ {0}
OBVIOUS

\* A sequence is a function on the numbers up to its length.
LEMMA SeqLen ==
    ASSUME NEW S, NEW s \in Seq(S)
    PROVE  Len(s) \in Nat /\ s \in [1 .. Len(s) -> S] /\ DOMAIN s = 1 .. Len(s)
OBVIOUS

\* Its elements are in the set it is over.
LEMMA SeqElement ==
    ASSUME NEW S, NEW s \in Seq(S), NEW i \in 1 .. Len(s)
    PROVE  s[i] \in S
OBVIOUS

\* Append adds one element at the end.
LEMMA SeqAppend ==
    ASSUME NEW S, NEW s \in Seq(S), NEW e \in S
    PROVE  /\ Append(s, e) \in Seq(S) /\ Append(s, e) # <<>> /\ Len(Append(s, e)) = Len(s) + 1
           /\ \A i \in 1 .. Len(s) : Append(s, e)[i] = s[i]
           /\ Append(s, e)[Len(s) + 1] = e
OBVIOUS

\* A concatenation has the elements of the first and then those of the second.
LEMMA SeqConcat ==
    ASSUME NEW S, NEW s \in Seq(S), NEW t \in Seq(S)
    PROVE  /\ s \o t \in Seq(S) /\ Len(s \o t) = Len(s) + Len(t)
           /\ \A i \in 1 .. Len(s) + Len(t) :
                 (s \o t)[i] = IF i <= Len(s) THEN s[i] ELSE t[i - Len(s)]
OBVIOUS

\* A part of a sequence has its elements, counted from one.
LEMMA SeqPart ==
    ASSUME NEW S, NEW s, NEW a \in Int, NEW b \in Int, \A i \in a .. b : s[i] \in S
    PROVE  /\ SubSeq(s, a, b) \in Seq(S)
           /\ Len(SubSeq(s, a, b)) = IF a <= b THEN b - a + 1 ELSE 0
           /\ \A i \in 1 .. b - a + 1 : SubSeq(s, a, b)[i] = s[a + i - 1]
OBVIOUS

\* Changing an element changes no other and not the length.
LEMMA SeqExcept ==
    ASSUME NEW S, NEW s \in Seq(S), NEW i \in 1 .. Len(s), NEW e \in S
    PROVE  /\ [s EXCEPT ![i] = e] \in Seq(S) /\ Len([s EXCEPT ![i] = e]) = Len(s)
           /\ \A j \in 1 .. Len(s) : [s EXCEPT ![i] = e][j] = IF j = i THEN e ELSE s[j]
OBVIOUS

-----------------------------------------------------------------------------
(* The invariant of frames, contexts and packets *)

Context == [store : Store, events : Seq(Nat)]
Entry == [caller : Nat, optional : BOOLEAN, status : {"open", "ok", "failed"},
          ran : BOOLEAN, nested : BOOLEAN]

\* Store s, but for the packets in w that are just being received, holds an
\* acknowledgement or a stored packet for exactly the packets received.
Answered(s, w) ==
    /\ s.pending \cap s.acks = {}
    /\ s.receipts = s.pending \cup s.acks \cup w
    /\ w \cap (s.pending \cup s.acks) = {}

\* A call the transaction makes itself, and one with a cache of its own.
Entered(f) == f.how \in {"msg", "recv"}
Boxed(f) == f.how \in {"sub", "hook", "recv"}

\* Frames and contexts go together: the transaction runs in context 2, and a
\* call in the context of its caller, or in the next one if it is boxed.
Frames(fs) ==
    /\ fs # <<>> => fs[1].how = "tx" /\ fs[1].runs = "tx" /\ fs[1].ctx = 2
    /\ \A i \in 1 .. Len(fs) : fs[i].ctx >= 2
    /\ \A i \in 2 .. Len(fs) :
          /\ fs[i].how # "tx"
          /\ i = 2 => Entered(fs[i])
          /\ Entered(fs[i]) => i = 2
          /\ fs[i].ctx = fs[i - 1].ctx + IF Boxed(fs[i]) THEN 1 ELSE 0

Aligned(fs, cs) ==
    /\ Frames(fs)
    /\ Len(cs) = IF fs = <<>> THEN 1 ELSE fs[Len(fs)].ctx

\* The packet that is being received, if one is.
Awaited(fs) ==
    IF Len(fs) >= 2 /\ fs[2].how = "recv" THEN fs[2].packets ELSE {}

\* Only a transaction that is about to be undone, r telling so, may hold a
\* packet that was received and not answered.
AllAnswered(fs, cs, r) ==
    /\ Answered(cs[1].store, {})
    /\ (Len(fs) = 1 => r = "none") =>
          \A i \in 2 .. Len(cs) : Answered(cs[i].store, Awaited(fs))

\* The types of all but the gas meters, of which the argument is independent.
Typed ==
    /\ stack \in Seq(Frame)
    /\ ctxs \in Seq(Context)
    /\ ret \in {"none", "ok", "err", "oog", "panic"}
    /\ log \in Seq(Entry)

\* PacketsAnswered is not inductive: it is about the committed context only,
\* which takes over the one above it when the transaction ends.
IInv ==
    /\ Typed
    /\ ctxs # <<>>
    /\ Aligned(stack, ctxs)
    /\ AllAnswered(stack, ctxs, ret)

LEMMA InitIInv == Init => IInv
<1> SUFFICES ASSUME Init PROVE IInv
    OBVIOUS
<1>1. Typed
    BY DEF Init, Typed, Context, Store
<1>2. Aligned(stack, ctxs)
    BY DEF Init, Aligned, Frames
<1>3. AllAnswered(stack, ctxs, ret)
    BY DEF Init, AllAnswered, Answered, Awaited
<1>4. ctxs # <<>>
    BY DEF Init
<1> QED
    BY <1>1, <1>2, <1>3, <1>4 DEF IInv

LEMMA SuccTwo ==
    ASSUME NEW n \in Nat, NEW i, i = n + 1
    PROVE  (i = 2 => n = 1) /\ (n = 1 => i = 2)
    OBVIOUS

LEMMA NotOne ==
    ASSUME NEW n \in Nat \ {0}, n # 1
    PROVE  n \in 2 .. n /\ n \in Nat /\ n >= 2
    OBVIOUS

LEMMA FrameCtx ==
    ASSUME NEW f \in Frame, NEW n \in Nat
    PROVE  /\ [f EXCEPT !.ctx = n] \in Frame
           /\ [f EXCEPT !.ctx = n].ctx = n
           /\ [f EXCEPT !.ctx = n].how = f.how
           /\ [f EXCEPT !.ctx = n].packets = f.packets
    BY DEF Frame

LEMMA FrameData ==
    ASSUME NEW f \in Frame, NEW n \in Nat, NEW data \in BOOLEAN
    PROVE  /\ [f EXCEPT !.ctx = n, !.data = data] \in Frame
           /\ [f EXCEPT !.ctx = n, !.data = data].ctx = n
           /\ [f EXCEPT !.ctx = n, !.data = data].how = f.how
           /\ [f EXCEPT !.ctx = n, !.data = data].packets = f.packets
    BY DEF Frame

\* Contexts ds are cs, but for the innermost one, where stored packets may have
\* been acknowledged.
Touched(cs, ds) ==
    \E c \in Context, P \in SUBSET Packet :
        /\ ds = [cs EXCEPT ![Len(cs)] = c]
        /\ P \subseteq cs[Len(cs)].store.pending
        /\ c.store.receipts = cs[Len(cs)].store.receipts
        /\ c.store.pending = cs[Len(cs)].store.pending \ P
        /\ c.store.acks = cs[Len(cs)].store.acks \cup P

\* Frames gs are fs and one for call f, in context n.
Pushed(fs, f, n, gs) ==
    \E g \in Frame : /\ gs = Append(fs, g) /\ g.ctx = n
                    /\ g.how = f.how /\ g.packets = f.packets

\* What a call changes: it adds its frame, charges the innermost meter and
\* writes the innermost context.
LEMMA InvokeEffect ==
    ASSUME Typed,
           NEW f \in Frame, NEW fs \in Seq(Frame), fs # <<>>,
           NEW cs \in Seq(Context), cs # <<>>,
           NEW ms,
           Invoke(f, fs, cs, ms)
    PROVE  /\ Typed'
           /\ Pushed(fs, f, Len(cs), stack')
           /\ Touched(cs, ctxs')
<1> DEFINE n == Len(cs)
           st == cs[n].store
           written == [cs EXCEPT ![n].store.writes = @ \cup {f.id}]
<1>1. n \in 1 .. Len(cs) /\ cs[n] \in Context /\ st \in Store /\ Last(cs) = cs[n]
  <2>1. n \in 1 .. Len(cs)
      BY SeqEmpty, SeqLen
  <2>2. cs[n] \in Context
      BY <2>1, SeqElement
  <2>3. st \in Store
      BY <2>2 DEF Context
  <2> QED
      BY <2>1, <2>2, <2>3 DEF Last
<1>2. log' \in Seq(Entry)
  <2> DEFINE e == [caller |-> Last(fs).id, optional |-> Optional(f), status |-> "open",
                   ran |-> ~OutOfGas(ConsumeGas(ms, 1)),
                   nested |-> f.how = "hook" /\ Len(ms) > 2]
  <2>1. Last(fs) \in Frame
      BY SeqEmpty, SeqLen, SeqElement DEF Last
  <2>2. e \in Entry
      BY <2>1 DEF Frame, Optional, Entry
  <2>3. log' = Append(log, e)
      BY Zenon DEF Invoke
  <2> HIDE DEF e
  <2> QED
      BY <2>2, <2>3, SeqAppend DEF Typed
<1>3. ret' \in {"none", "ok", "err", "oog", "panic"}
    BY Zenon DEF Invoke, Outcomes
<1>4. \E g \in Frame : /\ stack' = Append(fs, g)
                       /\ g.ctx = Len(cs)
                       /\ g.how = f.how
                       /\ g.packets = f.packets
  <2>1. n \in Nat
      BY <1>1
  <2>2. \/ stack' = Append(fs, [f EXCEPT !.ctx = n])
        \/ \E data \in BOOLEAN : stack' = Append(fs, [f EXCEPT !.ctx = n, !.data = data])
      BY Zenon DEF Invoke
  <2>3. CASE stack' = Append(fs, [f EXCEPT !.ctx = n])
      BY <2>1, <2>3, FrameCtx
  <2>4. CASE \E data \in BOOLEAN : stack' = Append(fs, [f EXCEPT !.ctx = n, !.data = data])
    <3>1. PICK data \in BOOLEAN : stack' = Append(fs, [f EXCEPT !.ctx = n, !.data = data])
        BY Zenon, <2>4
    <3> DEFINE g0 == [f EXCEPT !.ctx = n, !.data = data]
    <3>2. g0 \in Frame /\ g0.ctx = n /\ g0.how = f.how /\ g0.packets = f.packets
        BY Zenon, <2>1, FrameData
    <3>3. stack' = Append(fs, g0)
        BY <3>1
    <3> HIDE DEF g0
    <3> QED
        BY <3>2, <3>3
  <2> QED
      BY Zenon, <2>2, <2>3, <2>4
<1>5. \E c \in Context, P \in SUBSET Packet :
         /\ ctxs' = [cs EXCEPT ![n] = c]
         /\ P \subseteq st.pending
         /\ c.store.receipts = st.receipts
         /\ c.store.pending = st.pending \ P
         /\ c.store.acks = st.acks \cup P
  <2> DEFINE c0 == cs[n]
             c1 == [c0 EXCEPT !.store.writes = @ \cup {f.id}]
             c2 == [c1 EXCEPT !.events = Append(@, f.id)]
             c3 == [c2 EXCEPT !.store = Acknowledged(@, f.packets)]
  <2>1. /\ c1 \in Context
        /\ c1.store.receipts = st.receipts
        /\ c1.store.pending = st.pending
        /\ c1.store.acks = st.acks
      BY <1>1 DEF Context, Store, Frame
  <2>2. c2 \in Context /\ c2.store = c1.store
    <3>1. f.id \in Nat
        BY DEF Frame
    <3> HIDE DEF c1
    <3>2. Append(c1.events, f.id) \in Seq(Nat)
        BY <2>1, <3>1, SeqAppend DEF Context
    <3> QED
        BY <2>1, <3>2 DEF Context
  <2>3. /\ c3 \in Context
        /\ c3.store.receipts = st.receipts
        /\ c3.store.pending = st.pending \ f.packets
        /\ c3.store.acks = st.acks \cup f.packets
      BY Zenon, <2>1, <2>2 DEF Context, Store, Frame, Acknowledged
  <2>4. written = [cs EXCEPT ![n] = c1]
      BY <1>1
  <2>5. \/ ctxs' = cs
        \/ ctxs' = written
        \/ ctxs' = [written EXCEPT ![n].events = Append(@, f.id),
                                   ![n].store = IF f.runs = "ack"
                                                THEN Acknowledged(@, f.packets) ELSE @]
           /\ (f.runs = "ack" => CanAck(st, f.packets))
      BY Zenon, <1>1 DEF Invoke
  <2>6. CASE ctxs' = cs
    <3>1. ctxs' = [cs EXCEPT ![n] = c0]
        BY <2>6, <1>1
    <3> USE <1>1
    <3> WITNESS c0 \in Context, {} \in SUBSET Packet
    <3> QED
        BY <3>1, <1>1 DEF Store
  <2>7. CASE ctxs' = written
    <3> USE <2>1
    <3> WITNESS c1 \in Context, {} \in SUBSET Packet
    <3> QED
        BY <2>7, <2>4, <2>1 DEF Store
  <2>8. CASE /\ ctxs' = [written EXCEPT ![n].events = Append(@, f.id),
                                       ![n].store = IF f.runs = "ack"
                                                    THEN Acknowledged(@, f.packets) ELSE @]
             /\ f.runs = "ack" => CanAck(st, f.packets)
    <3>1. CASE f.runs = "ack"
      <4>1. ctxs' = [cs EXCEPT ![n] = c3]
          BY <2>8, <3>1, <2>4, <2>2, <1>1
      <4>2. f.packets \subseteq st.pending
          BY <2>8, <3>1 DEF CanAck
      <4>3. f.packets \in SUBSET Packet
          BY DEF Frame
      <4> USE <2>3, <4>3
      <4> WITNESS c3 \in Context, f.packets \in SUBSET Packet
      <4> QED
          BY <4>1, <4>2, <2>3
    <3>2. CASE f.runs # "ack"
      <4>1. ctxs' = [cs EXCEPT ![n] = c2]
          BY <2>8, <3>2, <2>4, <2>2, <1>1
      <4> USE <2>2
      <4> WITNESS c2 \in Context, {} \in SUBSET Packet
      <4> QED
          BY <4>1, <2>1, <2>2
    <3> QED
        BY <3>1, <3>2
  <2> QED
      BY <2>5, <2>6, <2>7, <2>8
<1>6. Touched(cs, ctxs')
    BY <1>5 DEF Touched
<1>7. stack' \in Seq(Frame)
    BY <1>4
<1>8. ctxs' \in Seq(Context)
    BY <1>5, <1>1
<1>9. Pushed(fs, f, Len(cs), stack')
    BY <1>4 DEF Pushed
<1> QED
    BY <1>2, <1>3, <1>6, <1>7, <1>8, <1>9 DEF Typed

\* A call keeps the invariant if it is given frames, contexts and packets that
\* agree with it.
LEMMA InvokeKeeps ==
    ASSUME Typed,
           NEW f \in Frame, NEW fs \in Seq(Frame), fs # <<>>,
           NEW cs \in Seq(Context), NEW ms,
           Frames(fs),
           Len(cs) = fs[Len(fs)].ctx + IF Boxed(f) THEN 1 ELSE 0,
           f.how # "tx",
           Len(fs) = 1 => Entered(f), Entered(f) => Len(fs) = 1,
           NEW w,
           w = IF Len(fs) >= 2 THEN Awaited(fs)
               ELSE IF f.how = "recv" THEN f.packets ELSE {},
           Answered(cs[1].store, {}),
           \A i \in 2 .. Len(cs) : Answered(cs[i].store, w),
           Invoke(f, fs, cs, ms)
    PROVE  IInv'
<1>1. Len(fs) \in Nat \ {0} /\ fs[Len(fs)] \in Frame
    BY SeqEmpty, SeqElement
<1>2. Len(cs) \in Nat /\ Len(cs) >= 2 /\ cs # <<>>
  <2>1. fs[Len(fs)].ctx \in Nat
      BY <1>1 DEF Frame
  <2>2. fs[Len(fs)].ctx >= 2
      BY <1>1 DEF Frames
  <2>3. Len(cs) >= 2
      BY <2>1, <2>2
  <2> QED
      BY <2>3, SeqLen, SeqEmpty
<1>3. PICK g \in Frame : /\ stack' = Append(fs, g) /\ g.ctx = Len(cs)
                         /\ g.how = f.how /\ g.packets = f.packets
  <2>1. Pushed(fs, f, Len(cs), stack')
      BY <1>2, InvokeEffect
  <2> QED
      BY <2>1 DEF Pushed
<1>4. PICK c \in Context, P \in SUBSET Packet :
         /\ ctxs' = [cs EXCEPT ![Len(cs)] = c]
         /\ P \subseteq cs[Len(cs)].store.pending
         /\ c.store.receipts = cs[Len(cs)].store.receipts
         /\ c.store.pending = cs[Len(cs)].store.pending \ P
         /\ c.store.acks = cs[Len(cs)].store.acks \cup P
  <2>1. Touched(cs, ctxs')
      BY <1>2, InvokeEffect
  <2> QED
      BY <2>1 DEF Touched
<1>5. Typed'
    BY <1>2, InvokeEffect
<1>6. /\ Len(stack') = Len(fs) + 1
      /\ stack'[Len(fs) + 1] = g
      /\ \A i \in 1 .. Len(fs) : stack'[i] = fs[i]
    BY <1>1, <1>3
<1>7. /\ Len(ctxs') = Len(cs)
      /\ ctxs'[Len(cs)] = c
      /\ \A i \in 1 .. Len(cs) - 1 : ctxs'[i] = cs[i]
    BY <1>2, <1>4, SeqExcept
<1>8. Frames(stack')
  <2>1. stack'[1].how = "tx" /\ stack'[1].runs = "tx" /\ stack'[1].ctx = 2
      BY <1>1, <1>6 DEF Frames
  <2>2. ASSUME NEW i \in 1 .. Len(stack') PROVE stack'[i].ctx >= 2
      BY <1>1, <1>2, <1>3, <1>6 DEF Frames
  <2>3. ASSUME NEW i \in 2 .. Len(stack')
        PROVE  /\ stack'[i].how # "tx"
               /\ i = 2 => Entered(stack'[i])
               /\ Entered(stack'[i]) => i = 2
               /\ stack'[i].ctx = stack'[i - 1].ctx + IF Boxed(stack'[i]) THEN 1 ELSE 0
    <3>1. CASE i = Len(fs) + 1
      <4>1. stack'[i] = g /\ stack'[i - 1] = fs[Len(fs)]
          BY <3>1, <1>1, <1>6
      <4>2. Boxed(g) <=> Boxed(f)
          BY <1>3 DEF Boxed
      <4>3. (i = 2 => Entered(g)) /\ (Entered(g) => i = 2)
        <5>1. (i = 2 => Len(fs) = 1) /\ (Len(fs) = 1 => i = 2)
            BY <3>1, <1>1, SuccTwo
        <5> QED
            BY <5>1, <1>3 DEF Entered
      <4>4. g.ctx = fs[Len(fs)].ctx + IF Boxed(g) THEN 1 ELSE 0
          BY <1>3, <4>2
      <4> QED
          BY <4>1, <4>3, <4>4, <1>3
    <3>2. CASE i # Len(fs) + 1
      <4>1. i \in 2 .. Len(fs) /\ i - 1 \in 1 .. Len(fs)
          BY <3>2, <1>1, <1>6
      <4> QED
          BY <4>1, <1>6 DEF Frames
    <3> QED
        BY <3>1, <3>2
  <2> QED
      BY <2>1, <2>2, <2>3 DEF Frames
<1>9. Aligned(stack', ctxs')
    BY <1>1, <1>3, <1>6, <1>7, <1>8 DEF Aligned
<1>10. Awaited(stack') = w
  <2>1. CASE Len(fs) = 1
    <3>1. Len(stack') = 2 /\ stack'[2] = g
        BY <2>1, <1>6
    <3> QED
        BY <2>1, <3>1, <1>3 DEF Awaited
  <2>2. CASE Len(fs) # 1
    <3>1. Len(fs) \in Nat /\ Len(fs) >= 2
        BY <2>2, <1>1, NotOne
    <3> DEFINE k == Len(fs)
    <3>2. 2 \in 1 .. k /\ k + 1 >= 2
        BY <3>1
    <3> HIDE DEF k
    <3>3. stack'[2] = fs[2] /\ Len(stack') >= 2
        BY <3>2, <1>6 DEF k
    <3> QED
        BY <3>1, <3>3 DEF Awaited
  <2> QED
      BY <2>1, <2>2
<1>11. Answered(c.store, w)
  <2>1. Answered(cs[Len(cs)].store, w)
      BY <1>2
  <2> QED
      BY <2>1, <1>4 DEF Answered
<1>12. AllAnswered(stack', ctxs', ret')
  <2>1. Answered(ctxs'[1].store, {})
      BY <1>2, <1>7
  <2>2. ASSUME NEW i \in 2 .. Len(ctxs') PROVE Answered(ctxs'[i].store, w)
    <3>1. CASE i = Len(cs)
        BY <3>1, <1>7, <1>11
    <3>2. CASE i # Len(cs)
      <4>1. i \in 1 .. Len(cs) - 1 /\ i \in 2 .. Len(cs)
          BY <3>2, <1>2, <1>7
      <4> QED
          BY <4>1, <1>7
    <3> QED
        BY <3>1, <3>2
  <2> QED
      BY <2>1, <2>2, <1>10 DEF AllAnswered
<1> QED
    BY <1>2, <1>5, <1>7, <1>9, <1>12, SeqEmpty DEF IInv

\* A cache of the innermost context adds a context like it.
LEMMA BranchEffect ==
    ASSUME NEW cs \in Seq(Context), cs # <<>>
    PROVE  /\ Branch(cs) \in Seq(Context)
           /\ Len(Branch(cs)) = Len(cs) + 1
           /\ Branch(cs)[Len(cs) + 1].store = cs[Len(cs)].store
           /\ \A i \in 1 .. Len(cs) : Branch(cs)[i] = cs[i]
<1> DEFINE c == [store |-> Last(cs).store, events |-> <<>>]
<1>1. Last(cs) \in Context /\ Last(cs) = cs[Len(cs)]
    BY SeqEmpty, SeqLen, SeqElement DEF Last
<1>2. c \in Context /\ c.store = cs[Len(cs)].store
    BY <1>1 DEF Context
<1>3. Branch(cs) = Append(cs, c)
    BY DEF Branch
<1> HIDE DEF c
<1> QED
    BY <1>2, <1>3, SeqAppend, SeqLen

\* The innermost frame, and what the invariant says of it.
LEMMA TopFrame ==
    ASSUME IInv, stack # <<>>
    PROVE  /\ Len(stack) \in Nat \ {0}
           /\ Top = stack[Len(stack)] /\ Top \in Frame
           /\ Len(ctxs) = Top.ctx
           /\ Len(ctxs) >= 2
           /\ Ctx = ctxs[Len(ctxs)] /\ Ctx \in Context
           /\ Top.how = "tx" => Len(stack) = 1
           /\ Len(stack) = 1 => Top.how = "tx" /\ Top.runs = "tx"
           /\ Frames(stack)
<1>1. Len(stack) \in Nat \ {0} /\ Frames(stack) /\ stack \in Seq(Frame) /\ ctxs \in Seq(Context)
    BY SeqEmpty DEF IInv, Typed, Aligned
<1>2. Top = stack[Len(stack)] /\ Top \in Frame
    BY <1>1, SeqElement DEF Top, Last
<1>3. Len(ctxs) = Top.ctx
    BY <1>2 DEF IInv, Aligned
<1>4. Len(ctxs) >= 2
    BY <1>1, <1>2, <1>3 DEF Frames
<1>5. Ctx = ctxs[Len(ctxs)]
    BY DEF Ctx, Last
<1>6. Ctx \in Context
    BY <1>1, <1>4, <1>5, SeqLen, SeqElement
<1>7. ASSUME Len(stack) # 1 PROVE Top.how # "tx"
  <2>1. Len(stack) \in 2 .. Len(stack)
      BY <1>1, <1>7, NotOne
  <2> QED
      BY <2>1, <1>1, <1>2 DEF Frames
<1>8. Len(stack) = 1 => Top.how = "tx" /\ Top.runs = "tx"
    BY <1>1, <1>2 DEF Frames
<1> QED
    BY <1>1, <1>2, <1>3, <1>4, <1>5, <1>6, <1>7, <1>8

LEMMA NewFrameFacts ==
    ASSUME Typed, NEW runs
    PROVE  /\ Len(log) + 1 \in Nat
           /\ (IF runs = "native" THEN Hooked ELSE 0) \in Nat
    BY GasAssumption, SeqLen DEF Typed

\* Contexts other than the committed one agree on the packet awaited.
LEMMA OpenAnswered ==
    ASSUME IInv, stack # <<>>, ret = "none"
    PROVE  /\ Answered(ctxs[1].store, {})
           /\ \A i \in 2 .. Len(ctxs) : Answered(ctxs[i].store, Awaited(stack))
    BY DEF IInv, AllAnswered

LEMMA MessageKeeps == ASSUME IInv, Message PROVE IInv'
<1>1. stack # <<>> /\ ret = "none" /\ Top.how = "tx"
    BY DEF Message, Running
<1>2. Len(stack) = 1 /\ Len(ctxs) = stack[Len(stack)].ctx /\ Frames(stack)
    BY <1>1, TopFrame
<1>3. PICK runs \in {"contract", "native"} :
         Invoke(NewFrame("msg", runs, "never", FALSE, {}), stack, ctxs, meters)
    BY DEF Message
<1> DEFINE f == NewFrame("msg", runs, "never", FALSE, {})
<1>4. Typed /\ stack \in Seq(Frame) /\ ctxs \in Seq(Context)
    BY DEF IInv, Typed
<1>5. f \in Frame /\ f.how = "msg"
    BY <1>4, NewFrameFacts DEF NewFrame, Frame, How, Runs, ReplyOn
<1>6. Awaited(stack) = {}
    BY <1>2 DEF Awaited
<1>7. ~Boxed(f)
    BY <1>5 DEF Boxed
<1>8. Entered(f)
    BY <1>5 DEF Entered
<1>9. Len(ctxs) = stack[Len(stack)].ctx + IF Boxed(f) THEN 1 ELSE 0
    BY <1>2, <1>7, <1>4, SeqLen
<1>10. {} = IF Len(stack) >= 2 THEN Awaited(stack)
           ELSE IF f.how = "recv" THEN f.packets ELSE {}
  <2>1. ~(Len(stack) >= 2)
      BY <1>2
  <2> QED
      BY <2>1, <1>5
<1> HIDE DEF f
<1> QED
    BY <1>1, <1>2, <1>3, <1>5, <1>6, <1>4, <1>9, <1>10, <1>8, OpenAnswered, InvokeKeeps DEF f

LEMMA RecvPacketKeeps == ASSUME IInv, RecvPacket PROVE IInv'
<1>1. stack # <<>> /\ ret = "none" /\ Top.how = "tx"
    BY DEF RecvPacket, Running
<1>2. /\ Len(stack) = 1 /\ Len(ctxs) = stack[Len(stack)].ctx /\ Frames(stack)
      /\ Len(ctxs) >= 2 /\ Ctx = ctxs[Len(ctxs)] /\ Ctx \in Context
    BY <1>1, TopFrame
<1>3. Typed /\ stack \in Seq(Frame) /\ ctxs \in Seq(Context) /\ Len(ctxs) \in Nat
    BY SeqLen DEF IInv, Typed
<1>4. PICK p \in Packet \ Ctx.store.receipts :
         Invoke(NewFrame("recv", "contract", "never", FALSE, {p}), stack,
                Branch([ctxs EXCEPT ![Len(ctxs)].store.receipts = @ \cup {p}]), meters)
    BY DEF RecvPacket
<1> DEFINE f == NewFrame("recv", "contract", "never", FALSE, {p})
           n == Len(ctxs)
           c == [ctxs[n] EXCEPT !.store.receipts = @ \cup {p}]
           received == [ctxs EXCEPT ![n].store.receipts = @ \cup {p}]
           cs == Branch(received)
<1>5. f \in Frame /\ f.how = "recv" /\ f.packets = {p}
    BY <1>3, NewFrameFacts DEF NewFrame, Frame, How, Runs, ReplyOn
<1>6. /\ c \in Context
      /\ c.store.pending = ctxs[n].store.pending
      /\ c.store.acks = ctxs[n].store.acks
      /\ c.store.receipts = ctxs[n].store.receipts \cup {p}
    BY <1>2 DEF Context, Store
<1>7. received = [ctxs EXCEPT ![n] = c]
    BY <1>2, <1>3
<1>8. /\ received \in Seq(Context) /\ Len(received) = n /\ received # <<>>
      /\ received[n] = c
      /\ \A i \in 1 .. n - 1 : received[i] = ctxs[i]
  <2>1. n \in 1 .. Len(ctxs)
      BY <1>2, <1>3
  <2> HIDE DEF received, c
  <2>2. /\ received \in Seq(Context) /\ Len(received) = n
        /\ received[n] = c
        /\ \A i \in 1 .. n - 1 : received[i] = ctxs[i]
      BY <2>1, <1>3, <1>6, <1>7, SeqExcept
  <2> QED
      BY <2>2, <1>2, SeqEmpty
<1>9. n = 2 /\ Awaited(stack) = {}
    BY <1>1, <1>2 DEF Frames, Awaited
<1>10. /\ cs \in Seq(Context) /\ Len(cs) = 3
       /\ cs[1] = ctxs[1] /\ cs[2] = c /\ cs[3].store = c.store
  <2> HIDE DEF received, c
  <2>1. /\ cs \in Seq(Context) /\ Len(cs) = n + 1 /\ cs[n + 1].store = received[n].store
        /\ \A i \in 1 .. n : cs[i] = received[i]
      BY <1>8, BranchEffect
  <2> QED
      BY <2>1, <1>8, <1>9
<1>11. Answered(ctxs[1].store, {}) /\ Answered(ctxs[2].store, {})
    BY <1>1, <1>2, <1>9, OpenAnswered
<1>12. p \notin ctxs[2].store.receipts
    BY <1>2, <1>9
<1>13. Answered(c.store, {p})
    BY <1>6, <1>9, <1>11, <1>12 DEF Answered
<1>14. ASSUME NEW i \in 2 .. Len(cs) PROVE Answered(cs[i].store, {p})
  <2> HIDE DEF c, cs
  <2>1. i = 2 \/ i = 3
      BY <1>10
  <2> QED
      BY <2>1, <1>10, <1>13
<1>15. Boxed(f) /\ Entered(f)
    BY <1>5 DEF Boxed, Entered
<1>16. Len(cs) = stack[Len(stack)].ctx + IF Boxed(f) THEN 1 ELSE 0
    BY <1>2, <1>9, <1>10, <1>15
<1>17. {p} = IF Len(stack) >= 2 THEN Awaited(stack)
             ELSE IF f.how = "recv" THEN f.packets ELSE {}
  <2>1. ~(Len(stack) >= 2)
      BY <1>2
  <2> QED
      BY <2>1, <1>5
<1>18. Invoke(f, stack, cs, meters)
    BY <1>4
<1>19. Answered(cs[1].store, {})
    BY <1>10, <1>11
<1>20. f.how # "tx"
    BY <1>5
<1> HIDE DEF f, cs
<1> QED
    BY <1>1, <1>2, <1>3, <1>5, <1>10, <1>14, <1>15, <1>16, <1>17, <1>18, <1>19, <1>20,
       InvokeKeeps

\* Frames that differ in nothing the invariant speaks of.
LEMMA SameFrames ==
    ASSUME NEW fs \in Seq(Frame), NEW gs \in Seq(Frame), Len(gs) = Len(fs), fs # <<>>,
           \A i \in 1 .. Len(fs) : /\ gs[i].how = fs[i].how
                                   /\ gs[i].runs = fs[i].runs
                                   /\ gs[i].ctx = fs[i].ctx
                                   /\ gs[i].packets = fs[i].packets,
           Frames(fs)
    PROVE  /\ gs # <<>>
           /\ Frames(gs)
           /\ Awaited(gs) = Awaited(fs)
           /\ gs[Len(gs)].ctx = fs[Len(fs)].ctx
<1>1. Len(fs) \in Nat \ {0} /\ gs # <<>>
    BY SeqEmpty
<1>2. gs[1].how = "tx" /\ gs[1].runs = "tx" /\ gs[1].ctx = 2
    BY <1>1 DEF Frames
<1>3. ASSUME NEW i \in 1 .. Len(gs) PROVE gs[i].ctx >= 2
    BY DEF Frames
<1>4. ASSUME NEW i \in 2 .. Len(gs)
      PROVE  /\ gs[i].how # "tx"
             /\ i = 2 => Entered(gs[i])
             /\ Entered(gs[i]) => i = 2
             /\ gs[i].ctx = gs[i - 1].ctx + IF Boxed(gs[i]) THEN 1 ELSE 0
  <2>1. i \in 2 .. Len(fs) /\ i \in 1 .. Len(fs) /\ i - 1 \in 1 .. Len(fs)
      BY <1>1
  <2>2. (Entered(gs[i]) <=> Entered(fs[i])) /\ (Boxed(gs[i]) <=> Boxed(fs[i]))
      BY <2>1 DEF Entered, Boxed
  <2> QED
      BY <2>1, <2>2 DEF Frames
<1>5. Frames(gs)
    BY <1>2, <1>3, <1>4 DEF Frames
<1>6. Awaited(gs) = Awaited(fs)
  <2>1. CASE Len(fs) >= 2
    <3>1. gs[2].how = fs[2].how /\ gs[2].packets = fs[2].packets
        BY <2>1, <1>1
    <3> QED
        BY <3>1 DEF Awaited
  <2>2. CASE ~(Len(fs) >= 2)
      BY <2>2 DEF Awaited
  <2> QED
      BY <2>1, <2>2
<1> QED
    BY <1>1, <1>5, <1>6

LEMMA FrontFrames ==
    ASSUME NEW fs \in Seq(Frame), Len(fs) >= 2, Frames(fs)
    PROVE  /\ Front(fs) \in Seq(Frame)
           /\ Front(fs) # <<>>
           /\ Len(Front(fs)) = Len(fs) - 1
           /\ \A i \in 1 .. Len(fs) - 1 : Front(fs)[i] = fs[i]
           /\ Frames(Front(fs))
           /\ Len(fs) >= 3 => Awaited(Front(fs)) = Awaited(fs)
           /\ Len(fs) = 2 => Awaited(Front(fs)) = {}
<1> DEFINE n == Len(fs)
           gs == Front(fs)
<1>1. n \in Nat /\ n - 1 \in Nat /\ 1 \in Int
    BY SeqLen
<1>2. \A i \in 1 .. n - 1 : fs[i] \in Frame
    BY <1>1, SeqElement
<1>3. /\ gs \in Seq(Frame) /\ Len(gs) = n - 1
      /\ \A i \in 1 .. n - 1 : gs[i] = fs[i]
  <2>1. gs = SubSeq(fs, 1, n - 1)
      BY DEF Front
  <2> QED
      BY <2>1, <1>1, <1>2, SeqPart
<1>4. gs # <<>>
    BY <1>1, <1>3, SeqEmpty
<1> HIDE DEF gs
<1>5. Frames(gs)
  <2>1. gs[1].how = "tx" /\ gs[1].runs = "tx" /\ gs[1].ctx = 2
      BY <1>1, <1>3, SeqEmpty DEF Frames
  <2>2. ASSUME NEW i \in 1 .. Len(gs) PROVE gs[i].ctx >= 2
      BY <1>1, <1>3 DEF Frames
  <2>3. ASSUME NEW i \in 2 .. Len(gs)
        PROVE  /\ gs[i].how # "tx"
               /\ i = 2 => Entered(gs[i])
               /\ Entered(gs[i]) => i = 2
               /\ gs[i].ctx = gs[i - 1].ctx + IF Boxed(gs[i]) THEN 1 ELSE 0
    <3>1. i \in 2 .. n /\ i \in 1 .. n - 1 /\ i - 1 \in 1 .. n - 1
        BY <1>1, <1>3
    <3> QED
        BY <3>1, <1>3 DEF Frames
  <2> QED
      BY <2>1, <2>2, <2>3 DEF Frames
<1>6. n >= 3 => Awaited(gs) = Awaited(fs)
    BY <1>1, <1>3 DEF Awaited
<1>7. n = 2 => Awaited(gs) = {}
    BY <1>1, <1>3 DEF Awaited
<1> QED
    BY <1>3, <1>4, <1>5, <1>6, <1>7 DEF gs

LEMMA DiscardEffect ==
    ASSUME NEW cs \in Seq(Context), Len(cs) >= 2
    PROVE  /\ Discard(cs) \in Seq(Context)
           /\ Len(Discard(cs)) = Len(cs) - 1
           /\ \A i \in 1 .. Len(cs) - 1 : Discard(cs)[i] = cs[i]
<1>1. Len(cs) \in Nat /\ Len(cs) - 1 \in Nat /\ 1 \in Int
    BY SeqLen
<1>2. \A i \in 1 .. Len(cs) - 1 : cs[i] \in Context
    BY <1>1, SeqElement
<1>3. Discard(cs) = SubSeq(cs, 1, Len(cs) - 1)
    BY DEF Discard, Front
<1> QED
    BY <1>1, <1>2, <1>3, SeqPart

LEMMA WriteBackEffect ==
    ASSUME NEW cs \in Seq(Context), Len(cs) >= 2
    PROVE  /\ WriteBack(cs) \in Seq(Context)
           /\ Len(WriteBack(cs)) = Len(cs) - 1
           /\ WriteBack(cs)[Len(cs) - 1].store = cs[Len(cs)].store
           /\ \A i \in 1 .. Len(cs) - 2 : WriteBack(cs)[i] = cs[i]
<1> DEFINE n == Len(cs)
           base == SubSeq(cs, 1, n - 2)
           c == [store |-> Last(cs).store, events |-> cs[n - 1].events \o Last(cs).events]
<1>1. n \in Nat /\ n - 2 \in Nat /\ n - 2 \in Int /\ 1 \in Int
    BY SeqLen
<1>2. Last(cs) = cs[n] /\ cs[n] \in Context /\ cs[n - 1] \in Context
    BY <1>1, SeqElement DEF Last
<1>3. c \in Context /\ c.store = cs[n].store
  <2>1. cs[n - 1].events \o Last(cs).events \in Seq(Nat)
      BY <1>2, SeqConcat DEF Context
  <2> QED
      BY <2>1, <1>2 DEF Context
<1>4. \A i \in 1 .. n - 2 : cs[i] \in Context
    BY <1>1, SeqElement
<1>5. /\ base \in Seq(Context) /\ Len(base) = n - 2
      /\ \A i \in 1 .. n - 2 : base[i] = cs[i]
  <2> DEFINE k == n - 2
  <2>1. k \in Nat /\ k \in Int /\ \A i \in 1 .. k : cs[i] \in Context
      BY <1>1, <1>4
  <2>2. base = SubSeq(cs, 1, k)
      OBVIOUS
  <2> HIDE DEF k, base
  <2>3. /\ base \in Seq(Context) /\ Len(base) = k
        /\ \A i \in 1 .. k : base[i] = cs[i]
      BY <2>1, <2>2, SeqPart
  <2> QED
      BY <2>3 DEF k
<1>6. WriteBack(cs) = Append(base, c)
    BY DEF WriteBack
<1> HIDE DEF c, base
<1>7. /\ Append(base, c) \in Seq(Context) /\ Len(Append(base, c)) = n - 1
      /\ Append(base, c)[n - 1] = c
      /\ \A i \in 1 .. n - 2 : Append(base, c)[i] = base[i]
    BY <1>1, <1>3, <1>5, SeqAppend
<1> QED
    BY <1>3, <1>5, <1>6, <1>7

\* A call made by a call, with a cache of its own or in the caller's context.
LEMMA InnerCallKeeps ==
    ASSUME IInv, stack # <<>>, ret = "none", Top.runs # "tx",
           NEW f \in Frame, f.how \in {"sub", "reply", "hook"},
           NEW fs \in Seq(Frame), Len(fs) = Len(stack),
           \A i \in 1 .. Len(stack) : /\ fs[i].how = stack[i].how
                                      /\ fs[i].runs = stack[i].runs
                                      /\ fs[i].ctx = stack[i].ctx
                                      /\ fs[i].packets = stack[i].packets,
           NEW cs, cs = IF f.how = "reply" THEN ctxs ELSE Branch(ctxs),
           NEW ms, Invoke(f, fs, cs, ms)
    PROVE  IInv'
<1>1. /\ Len(stack) \in Nat \ {0} /\ Len(stack) # 1 /\ Frames(stack)
      /\ Len(ctxs) = stack[Len(stack)].ctx /\ Len(ctxs) >= 2
    BY TopFrame
<1>2. Typed /\ stack \in Seq(Frame) /\ ctxs \in Seq(Context) /\ ctxs # <<>> /\ Len(ctxs) \in Nat
    BY SeqLen DEF IInv, Typed
<1>3. /\ fs # <<>> /\ Frames(fs) /\ Awaited(fs) = Awaited(stack)
      /\ fs[Len(fs)].ctx = Len(ctxs)
    BY <1>1, <1>2, SameFrames
<1>4. Len(fs) \in Nat /\ Len(fs) >= 2
    BY <1>1, SeqLen
<1>5. f.how # "tx" /\ ~Entered(f)
    BY DEF Entered
<1>6. /\ Answered(ctxs[1].store, {})
      /\ \A i \in 2 .. Len(ctxs) : Answered(ctxs[i].store, Awaited(stack))
    BY OpenAnswered
<1>7. /\ cs \in Seq(Context)
      /\ Len(cs) = fs[Len(fs)].ctx + IF Boxed(f) THEN 1 ELSE 0
      /\ Answered(cs[1].store, {})
      /\ \A i \in 2 .. Len(cs) : Answered(cs[i].store, Awaited(stack))
  <2>1. CASE f.how = "reply"
    <3>1. cs = ctxs /\ ~Boxed(f)
        BY <2>1 DEF Boxed
    <3> QED
        BY <3>1, <1>2, <1>3, <1>6
  <2>2. CASE f.how # "reply"
    <3>1. cs = Branch(ctxs) /\ Boxed(f)
        BY <2>2 DEF Boxed
    <3>2. /\ cs \in Seq(Context) /\ Len(cs) = Len(ctxs) + 1
          /\ cs[Len(ctxs) + 1].store = ctxs[Len(ctxs)].store
          /\ \A i \in 1 .. Len(ctxs) : cs[i] = ctxs[i]
        BY <3>1, <1>2, BranchEffect
    <3>3. Answered(cs[1].store, {})
        BY <3>2, <1>1, <1>2, <1>6
    <3>4. ASSUME NEW i \in 2 .. Len(cs) PROVE Answered(cs[i].store, Awaited(stack))
      <4>1. CASE i = Len(ctxs) + 1
        <5>1. Len(ctxs) \in 2 .. Len(ctxs)
            BY <1>1, <1>2
        <5> QED
            BY <5>1, <4>1, <3>2, <1>6
      <4>2. CASE i # Len(ctxs) + 1
        <5>1. i \in 2 .. Len(ctxs) /\ i \in 1 .. Len(ctxs)
            BY <4>2, <3>2, <1>2
        <5> QED
            BY <5>1, <3>2, <1>6
      <4> QED
          BY <4>1, <4>2
    <3> QED
        BY <3>1, <3>2, <3>3, <3>4, <1>3
  <2> QED
      BY <2>1, <2>2
<1>8. Len(fs) # 1
    BY <1>1
<1>9. Awaited(stack) = IF Len(fs) >= 2 THEN Awaited(fs)
                       ELSE IF f.how = "recv" THEN f.packets ELSE {}
    BY <1>3, <1>4
<1> QED
    BY <1>2, <1>3, <1>5, <1>7, <1>8, <1>9, InvokeKeeps

LEMMA SubMessageKeeps == ASSUME IInv, SubMessage PROVE IInv'
<1>1. stack # <<>> /\ ret = "none" /\ Top.runs # "tx"
    BY DEF SubMessage, CanCall
<1>2. PICK runs \in {"contract", "native", "ack"}, replyOn \in ReplyOn,
           limit \in SubGas \cup {NoLimit}, packets \in {{}} \cup {{p} : p \in Packet} :
         Invoke(NewFrame("sub", runs, replyOn, limit < Remaining(meters), packets), stack,
                Branch(ctxs),
                IF limit < Remaining(meters) THEN Append(meters, NewMeter(limit)) ELSE meters)
    BY DEF SubMessage
<1> DEFINE f == NewFrame("sub", runs, replyOn, limit < Remaining(meters), packets)
           ms == IF limit < Remaining(meters) THEN Append(meters, NewMeter(limit)) ELSE meters
<1>3. Typed /\ stack \in Seq(Frame)
    BY DEF IInv, Typed
<1>4. (limit < Remaining(meters)) \in BOOLEAN /\ packets \in SUBSET Packet /\ runs \in Runs
    BY DEF Runs
<1>5. f \in Frame /\ f.how = "sub"
    BY <1>3, <1>4, NewFrameFacts DEF NewFrame, Frame, How
<1>6. Invoke(f, stack, Branch(ctxs), ms)
    BY <1>2
<1> HIDE DEF f, ms
<1> QED
    BY <1>1, <1>3, <1>5, <1>6, InnerCallKeeps

\* Editing one field of the innermost frame.
LEMMA HooksEdit ==
    ASSUME NEW fs \in Seq(Frame), fs # <<>>, fs[Len(fs)].hooks > 0
    PROVE  /\ [fs EXCEPT ![Len(fs)].hooks = @ - 1] \in Seq(Frame)
           /\ Len([fs EXCEPT ![Len(fs)].hooks = @ - 1]) = Len(fs)
           /\ \A i \in 1 .. Len(fs) :
                 /\ [fs EXCEPT ![Len(fs)].hooks = @ - 1][i].how = fs[i].how
                 /\ [fs EXCEPT ![Len(fs)].hooks = @ - 1][i].runs = fs[i].runs
                 /\ [fs EXCEPT ![Len(fs)].hooks = @ - 1][i].ctx = fs[i].ctx
                 /\ [fs EXCEPT ![Len(fs)].hooks = @ - 1][i].packets = fs[i].packets
<1> DEFINE n == Len(fs)
           g == [fs[n] EXCEPT !.hooks = @ - 1]
           gs == [fs EXCEPT ![n].hooks = @ - 1]
<1>1. n \in 1 .. Len(fs) /\ fs[n] \in Frame
    BY SeqEmpty, SeqLen, SeqElement
<1>2. /\ g \in Frame /\ g.how = fs[n].how /\ g.runs = fs[n].runs
      /\ g.ctx = fs[n].ctx /\ g.packets = fs[n].packets
  <2> DEFINE k == fs[n].hooks - 1
  <2>1. k \in Nat
      BY <1>1 DEF Frame
  <2>2. g = [fs[n] EXCEPT !.hooks = k]
      OBVIOUS
  <2> HIDE DEF k
  <2> QED
      BY <2>1, <2>2, <1>1 DEF Frame
<1>3. gs = [fs EXCEPT ![n] = g]
    BY <1>1
<1> HIDE DEF g, gs
<1>4. /\ gs \in Seq(Frame) /\ Len(gs) = n
      /\ \A i \in 1 .. n : gs[i] = IF i = n THEN g ELSE fs[i]
    BY <1>1, <1>2, <1>3, SeqExcept
<1>5. \A i \in 1 .. n : /\ gs[i].how = fs[i].how /\ gs[i].runs = fs[i].runs
                        /\ gs[i].ctx = fs[i].ctx /\ gs[i].packets = fs[i].packets
    BY <1>2, <1>4
<1> QED
    BY <1>4, <1>5 DEF gs

LEMMA ReplyEdit ==
    ASSUME NEW fs \in Seq(Frame), fs # <<>>, NEW due, due \in BOOLEAN
    PROVE  /\ [fs EXCEPT ![Len(fs)].reply = due] \in Seq(Frame)
           /\ Len([fs EXCEPT ![Len(fs)].reply = due]) = Len(fs)
           /\ \A i \in 1 .. Len(fs) :
                 /\ [fs EXCEPT ![Len(fs)].reply = due][i].how = fs[i].how
                 /\ [fs EXCEPT ![Len(fs)].reply = due][i].runs = fs[i].runs
                 /\ [fs EXCEPT ![Len(fs)].reply = due][i].ctx = fs[i].ctx
                 /\ [fs EXCEPT ![Len(fs)].reply = due][i].packets = fs[i].packets
<1> DEFINE n == Len(fs)
           g == [fs[n] EXCEPT !.reply = due]
           gs == [fs EXCEPT ![n].reply = due]
<1>1. n \in 1 .. Len(fs) /\ fs[n] \in Frame
    BY SeqEmpty, SeqLen, SeqElement
<1>2. /\ g \in Frame /\ g.how = fs[n].how /\ g.runs = fs[n].runs
      /\ g.ctx = fs[n].ctx /\ g.packets = fs[n].packets
    BY <1>1 DEF Frame
<1>3. gs = [fs EXCEPT ![n] = g]
    BY <1>1
<1> HIDE DEF g, gs
<1>4. /\ gs \in Seq(Frame) /\ Len(gs) = n
      /\ \A i \in 1 .. n : gs[i] = IF i = n THEN g ELSE fs[i]
    BY <1>1, <1>2, <1>3, SeqExcept
<1>5. \A i \in 1 .. n : /\ gs[i].how = fs[i].how /\ gs[i].runs = fs[i].runs
                        /\ gs[i].ctx = fs[i].ctx /\ gs[i].packets = fs[i].packets
    BY <1>2, <1>4
<1> QED
    BY <1>4, <1>5 DEF gs

LEMMA DataEdit ==
    ASSUME NEW fs \in Seq(Frame), fs # <<>>, NEW d, d \in BOOLEAN
    PROVE  /\ [fs EXCEPT ![Len(fs)].data = d] \in Seq(Frame)
           /\ Len([fs EXCEPT ![Len(fs)].data = d]) = Len(fs)
           /\ \A i \in 1 .. Len(fs) :
                 /\ [fs EXCEPT ![Len(fs)].data = d][i].how = fs[i].how
                 /\ [fs EXCEPT ![Len(fs)].data = d][i].runs = fs[i].runs
                 /\ [fs EXCEPT ![Len(fs)].data = d][i].ctx = fs[i].ctx
                 /\ [fs EXCEPT ![Len(fs)].data = d][i].packets = fs[i].packets
<1> DEFINE n == Len(fs)
           g == [fs[n] EXCEPT !.data = d]
           gs == [fs EXCEPT ![n].data = d]
<1>1. n \in 1 .. Len(fs) /\ fs[n] \in Frame
    BY SeqEmpty, SeqLen, SeqElement
<1>2. /\ g \in Frame /\ g.how = fs[n].how /\ g.runs = fs[n].runs
      /\ g.ctx = fs[n].ctx /\ g.packets = fs[n].packets
    BY <1>1 DEF Frame
<1>3. gs = [fs EXCEPT ![n] = g]
    BY <1>1
<1> HIDE DEF g, gs
<1>4. /\ gs \in Seq(Frame) /\ Len(gs) = n
      /\ \A i \in 1 .. n : gs[i] = IF i = n THEN g ELSE fs[i]
    BY <1>1, <1>2, <1>3, SeqExcept
<1>5. \A i \in 1 .. n : /\ gs[i].how = fs[i].how /\ gs[i].runs = fs[i].runs
                        /\ gs[i].ctx = fs[i].ctx /\ gs[i].packets = fs[i].packets
    BY <1>2, <1>4
<1> QED
    BY <1>4, <1>5 DEF gs

LEMMA HookKeeps == ASSUME IInv, Hook PROVE IInv'
<1>1. stack # <<>> /\ ret = "none" /\ Top.runs # "tx" /\ Top.hooks > 0
    BY DEF Hook, CanCall
<1> DEFINE f == NewFrame("hook", "contract", "never", TRUE, {})
           fs == [stack EXCEPT ![Len(stack)].hooks = @ - 1]
           ms == Append(meters, NewMeter(HookGas))
<1>2. Typed /\ stack \in Seq(Frame) /\ Top = stack[Len(stack)]
    BY DEF IInv, Typed, Top, Last
<1>3. f \in Frame /\ f.how = "hook"
    BY <1>2, NewFrameFacts DEF NewFrame, Frame, How, Runs, ReplyOn
<1>4. /\ fs \in Seq(Frame) /\ Len(fs) = Len(stack)
      /\ \A i \in 1 .. Len(stack) : /\ fs[i].how = stack[i].how
                                    /\ fs[i].runs = stack[i].runs
                                    /\ fs[i].ctx = stack[i].ctx
                                    /\ fs[i].packets = stack[i].packets
    BY <1>1, <1>2, HooksEdit
<1>5. Invoke(f, fs, Branch(ctxs), ms)
    BY DEF Hook
<1>6. Branch(ctxs) = IF f.how = "reply" THEN ctxs ELSE Branch(ctxs)
    BY <1>3
<1> HIDE DEF f, fs, ms
<1> QED
    BY <1>1, <1>2, <1>3, <1>4, <1>5, <1>6, InnerCallKeeps

LEMMA ReplyKeeps == ASSUME IInv, Reply PROVE IInv'
<1>1. stack # <<>> /\ ret = "none" /\ Top.runs # "tx"
    BY DEF Reply
<1> DEFINE f == NewFrame("reply", "contract", "never", FALSE, {})
           fs == [stack EXCEPT ![Len(stack)].reply = FALSE]
<1>2. Typed /\ stack \in Seq(Frame)
    BY DEF IInv, Typed
<1>3. f \in Frame /\ f.how = "reply"
    BY <1>2, NewFrameFacts DEF NewFrame, Frame, How, Runs, ReplyOn
<1>4. /\ fs \in Seq(Frame) /\ Len(fs) = Len(stack)
      /\ \A i \in 1 .. Len(stack) : /\ fs[i].how = stack[i].how
                                    /\ fs[i].runs = stack[i].runs
                                    /\ fs[i].ctx = stack[i].ctx
                                    /\ fs[i].packets = stack[i].packets
    BY <1>1, <1>2, ReplyEdit
<1>5. Invoke(f, fs, ctxs, meters)
    BY DEF Reply
<1>6. ctxs = IF f.how = "reply" THEN ctxs ELSE Branch(ctxs)
    BY <1>3
<1> HIDE DEF f, fs
<1> QED
    BY <1>1, <1>2, <1>3, <1>4, <1>5, <1>6, InnerCallKeeps

LEMMA BeginTxKeeps == ASSUME IInv, BeginTx PROVE IInv'
<1> DEFINE c == [store |-> [ctxs[1].store EXCEPT !.writes = {}], events |-> <<>>]
           cs == <<c>>
<1>1. stack = <<>> /\ ctxs \in Seq(Context) /\ ctxs # <<>> /\ Len(ctxs) = 1
    BY DEF IInv, Typed, BeginTx, Aligned
<1>2. ctxs[1] \in Context
    BY <1>1, SeqElement
<1>3. /\ c \in Context
      /\ c.store.pending = ctxs[1].store.pending
      /\ c.store.acks = ctxs[1].store.acks
      /\ c.store.receipts = ctxs[1].store.receipts
    BY <1>2 DEF Context, Store
<1>4. Answered(ctxs[1].store, {})
    BY DEF IInv, AllAnswered
<1>5. Answered(c.store, {})
    BY <1>3, <1>4 DEF Answered
<1>6. ctxs' = Branch(cs)
    BY DEF BeginTx
<1> HIDE DEF c
<1>7. cs \in Seq(Context) /\ cs # <<>> /\ Len(cs) = 1 /\ cs[1] = c
    BY <1>3
<1> HIDE DEF cs
<1>8. /\ ctxs' \in Seq(Context) /\ Len(ctxs') = 2 /\ ctxs' # <<>>
      /\ ctxs'[1] = c /\ ctxs'[2].store = c.store
  <2>1. /\ Branch(cs) \in Seq(Context) /\ Len(Branch(cs)) = 1 + 1
        /\ Branch(cs)[1 + 1].store = cs[1].store
        /\ \A i \in 1 .. 1 : Branch(cs)[i] = cs[i]
      BY <1>7, BranchEffect
  <2>2. Len(ctxs') = 2
      BY <2>1, <1>6
  <2> QED
      BY <2>1, <2>2, <1>6, <1>7, SeqEmpty
<1> DEFINE g == [how |-> "tx", runs |-> "tx", id |-> 0, replyOn |-> "never",
                 ctx |-> 2, metered |-> TRUE, hooks |-> 0, reply |-> FALSE,
                 data |-> FALSE, packets |-> {}]
<1>9. g \in Frame /\ g.how = "tx" /\ g.runs = "tx" /\ g.ctx = 2
    BY DEF Frame, How, Runs, ReplyOn
<1>10. stack' = <<g>>
    BY DEF BeginTx
<1> HIDE DEF g
<1>11. stack' \in Seq(Frame) /\ Len(stack') = 1 /\ stack' # <<>> /\ stack'[1] = g
    BY <1>9, <1>10
<1>12. Aligned(stack', ctxs')
    BY <1>8, <1>9, <1>11 DEF Aligned, Frames
<1>13. Awaited(stack') = {}
    BY <1>11 DEF Awaited
<1>14. AllAnswered(stack', ctxs', ret')
    BY <1>5, <1>8, <1>13 DEF AllAnswered
<1>15. Typed'
  <2>1. log' = <<>> /\ ret' = ret
      BY DEF BeginTx
  <2> QED
      BY <2>1, <1>8, <1>11 DEF IInv, Typed
<1> QED
    BY <1>8, <1>12, <1>14, <1>15 DEF IInv

LEMMA EndTxKeeps == ASSUME IInv, EndTx PROVE IInv'
<1>1. stack # <<>> /\ Top.how = "tx" /\ stack' = <<>> /\ ret' = "none" /\ log' = log
    BY DEF EndTx
<1>2. Len(stack) = 1 /\ Len(ctxs) = stack[Len(stack)].ctx /\ Frames(stack)
    BY <1>1, TopFrame
<1>3. Len(ctxs) = 2 /\ Awaited(stack) = {}
    BY <1>1, <1>2 DEF Frames, Awaited
<1>4. ctxs \in Seq(Context) /\ Typed
    BY DEF IInv, Typed
<1>5. /\ ctxs' \in Seq(Context) /\ Len(ctxs') = 1
      /\ Answered(ctxs'[1].store, {})
  <2>1. CASE ret = "none"
    <3>1. ctxs' = WriteBack(ctxs)
        BY <2>1 DEF EndTx
    <3>2. /\ ctxs' \in Seq(Context) /\ Len(ctxs') = 1
          /\ ctxs'[1].store = ctxs[2].store
      <4>1. Len(ctxs) - 1 = 1 /\ Len(ctxs) >= 2
          BY <1>3
      <4>2. /\ WriteBack(ctxs) \in Seq(Context)
            /\ Len(WriteBack(ctxs)) = Len(ctxs) - 1
            /\ WriteBack(ctxs)[Len(ctxs) - 1].store = ctxs[Len(ctxs)].store
          BY <4>1, <1>4, WriteBackEffect
      <4> QED
          BY <4>1, <4>2, <3>1, <1>3
    <3>3. Answered(ctxs[2].store, {})
        BY <2>1, <1>1, <1>3, OpenAnswered
    <3> QED
        BY <3>2, <3>3
  <2>2. CASE ret # "none"
    <3>1. ctxs' = Discard(ctxs)
        BY <2>2 DEF EndTx
    <3>2. ctxs' \in Seq(Context) /\ Len(ctxs') = 1 /\ ctxs'[1] = ctxs[1]
      <4>1. Len(ctxs) - 1 = 1 /\ Len(ctxs) >= 2 /\ 1 \in 1 .. Len(ctxs) - 1
          BY <1>3
      <4>2. /\ Discard(ctxs) \in Seq(Context)
            /\ Len(Discard(ctxs)) = Len(ctxs) - 1
            /\ \A i \in 1 .. Len(ctxs) - 1 : Discard(ctxs)[i] = ctxs[i]
          BY <4>1, <1>4, DiscardEffect
      <4> QED
          BY <4>1, <4>2, <3>1
    <3> QED
        BY <3>2 DEF IInv, AllAnswered
  <2> QED
      BY <2>1, <2>2
<1>6. Typed'
    BY <1>1, <1>4, <1>5 DEF Typed
<1>7. Aligned(stack', ctxs')
    BY <1>1, <1>5 DEF Aligned, Frames
<1>8. AllAnswered(stack', ctxs', ret')
    BY <1>1, <1>5 DEF AllAnswered
<1>9. ctxs' # <<>>
    BY <1>5, SeqEmpty
<1> QED
    BY <1>6, <1>7, <1>8, <1>9 DEF IInv

LEMMA FinishKeeps == ASSUME IInv, Finish PROVE IInv'
<1>1. /\ stack # <<>> /\ ret = "none" /\ Top.runs # "tx"
      /\ stack' = stack /\ ctxs' = ctxs /\ log' = log /\ ret' \in {"ok", "err"}
    BY DEF Finish, CanCall
<1>2. Len(stack) # 1
    BY <1>1, TopFrame
<1>3. AllAnswered(stack', ctxs', ret')
    BY <1>1, <1>2, OpenAnswered DEF AllAnswered
<1>4. Typed'
    BY <1>1 DEF IInv, Typed
<1> QED
    BY <1>1, <1>3, <1>4 DEF IInv

LEMMA SettledType ==
    ASSUME IInv, stack # <<>>, NEW status \in {"open", "ok", "failed"}
    PROVE  Settled(status) \in Seq(Entry)
<1>1. log \in Seq(Entry) /\ Top \in Frame /\ Top.id \in Nat
    BY TopFrame DEF IInv, Typed, Frame
<1>2. CASE Top.id \in 1 .. Len(log)
  <2>1. log[Top.id] \in Entry
      BY <1>1, <1>2, SeqElement
  <2>2. [log[Top.id] EXCEPT !.status = status] \in Entry
      BY <2>1 DEF Entry
  <2>3. Settled(status) = [log EXCEPT ![Top.id] = [log[Top.id] EXCEPT !.status = status]]
      BY DEF Settled
  <2> QED
      BY <2>2, <2>3, <1>1, <1>2, SeqExcept
<1>3. CASE Top.id \notin 1 .. Len(log)
  <2>1. DOMAIN log = 1 .. Len(log) /\ log \in [1 .. Len(log) -> Entry]
      BY <1>1, SeqLen
  <2>2. Settled(status) = log
      BY <2>1, <1>3 DEF Settled
  <2> QED
      BY <2>2, <1>1
<1> QED
    BY <1>2, <1>3

\* The innermost call returns: its frame is dropped, and its context too if it
\* has one, written back or not.
LEMMA ReturnKeeps ==
    ASSUME IInv, stack # <<>>, Top.how \in {"msg", "reply", "sub", "hook"},
           NEW gs \in Seq(Frame), Len(gs) = Len(stack) - 1,
           \A i \in 1 .. Len(stack) - 1 : /\ gs[i].how = stack[i].how
                                          /\ gs[i].runs = stack[i].runs
                                          /\ gs[i].ctx = stack[i].ctx
                                          /\ gs[i].packets = stack[i].packets,
           stack' = gs,
           ~Boxed(Top) => ctxs' = ctxs,
           Boxed(Top) => ctxs' = WriteBack(ctxs) \/ ctxs' = Discard(ctxs),
           ret' \in {"none", "ok", "err", "oog", "panic"},
           log' \in Seq(Entry)
    PROVE  IInv'
<1>1. /\ Len(stack) \in Nat \ {0} /\ Len(stack) # 1 /\ Frames(stack)
      /\ Top = stack[Len(stack)] /\ Len(ctxs) = Top.ctx /\ Len(ctxs) >= 2
    BY TopFrame
<1>2. Typed /\ stack \in Seq(Frame) /\ ctxs \in Seq(Context) /\ Len(ctxs) \in Nat
    BY SeqLen DEF IInv, Typed
<1> DEFINE n == Len(stack)
<1>3. n \in Nat /\ n >= 2 /\ n \in 2 .. n
    BY <1>1
<1>4. /\ Front(stack) \in Seq(Frame) /\ Front(stack) # <<>>
      /\ Len(Front(stack)) = n - 1
      /\ \A i \in 1 .. n - 1 : Front(stack)[i] = stack[i]
      /\ Frames(Front(stack))
      /\ n >= 3 => Awaited(Front(stack)) = Awaited(stack)
      /\ n = 2 => Awaited(Front(stack)) = {}
    BY <1>1, <1>2, <1>3, FrontFrames
<1>5. /\ gs # <<>> /\ Frames(gs) /\ Awaited(gs) = Awaited(Front(stack))
      /\ gs[n - 1].ctx = stack[n - 1].ctx
  <2>1. \A i \in 1 .. Len(Front(stack)) : /\ gs[i].how = Front(stack)[i].how
                                          /\ gs[i].runs = Front(stack)[i].runs
                                          /\ gs[i].ctx = Front(stack)[i].ctx
                                          /\ gs[i].packets = Front(stack)[i].packets
      BY <1>4
  <2>2. gs # <<>> /\ Frames(gs) /\ Awaited(gs) = Awaited(Front(stack))
      BY <2>1, <1>4, SameFrames
  <2>3. n - 1 \in 1 .. n - 1
      BY <1>3
  <2> QED
      BY <2>2, <2>3
<1>6. n = 2 => Awaited(stack) = {}
    BY <1>1, <1>3 DEF Awaited
<1>7. Awaited(gs) = Awaited(stack)
  <2>1. CASE n = 2
      BY <2>1, <1>4, <1>5, <1>6
  <2>2. CASE n # 2
    <3>1. n >= 3
        BY <2>2, <1>3
    <3> QED
        BY <3>1, <1>4, <1>5
  <2> QED
      BY <2>1, <2>2
<1>8. Top.ctx = stack[n - 1].ctx + IF Boxed(Top) THEN 1 ELSE 0
    BY <1>1, <1>3 DEF Frames
<1>9. /\ Answered(ctxs[1].store, {})
      /\ \A i \in 2 .. Len(ctxs) : Answered(ctxs[i].store, Awaited(stack))
    BY <1>1 DEF IInv, AllAnswered
<1>10. stack[n - 1].ctx \in Nat /\ stack[n - 1].ctx >= 2
  <2>1. n - 1 \in 1 .. n
      BY <1>3
  <2>2. stack[n - 1] \in Frame
      BY <2>1, <1>2, SeqElement
  <2> QED
      BY <2>1, <2>2, <1>1 DEF Frames, Frame
<1>11. /\ ctxs' \in Seq(Context) /\ Len(ctxs') = stack[n - 1].ctx
       /\ Answered(ctxs'[1].store, {})
       /\ \A i \in 2 .. Len(ctxs') : Answered(ctxs'[i].store, Awaited(stack))
  <2>1. CASE ~Boxed(Top)
      BY <2>1, <1>1, <1>2, <1>8, <1>9, <1>10
  <2>2. CASE Boxed(Top)
    <3> DEFINE k == Len(ctxs)
    <3>1. k \in Nat /\ k >= 3 /\ k - 1 = stack[n - 1].ctx
        BY <2>2, <1>1, <1>8, <1>10
    <3>2. CASE ctxs' = WriteBack(ctxs)
      <4>1. /\ ctxs' \in Seq(Context) /\ Len(ctxs') = k - 1
            /\ ctxs'[k - 1].store = ctxs[k].store
            /\ \A i \in 1 .. k - 2 : ctxs'[i] = ctxs[i]
          BY <3>1, <3>2, <1>1, <1>2, WriteBackEffect
      <4>2. Answered(ctxs'[1].store, {})
          BY <4>1, <3>1, <1>9
      <4>3. ASSUME NEW i \in 2 .. Len(ctxs') PROVE Answered(ctxs'[i].store, Awaited(stack))
        <5>1. CASE i = k - 1
          <6>1. k \in 2 .. Len(ctxs)
              BY <3>1
          <6> QED
              BY <6>1, <5>1, <4>1, <1>9
        <5>2. CASE i # k - 1
          <6>1. i \in 1 .. k - 2 /\ i \in 2 .. Len(ctxs)
              BY <5>2, <4>1, <3>1
          <6> QED
              BY <6>1, <4>1, <1>9
        <5> QED
            BY <5>1, <5>2
      <4> QED
          BY <4>1, <4>2, <4>3, <3>1
    <3>3. CASE ctxs' = Discard(ctxs)
      <4>1. /\ ctxs' \in Seq(Context) /\ Len(ctxs') = k - 1
            /\ \A i \in 1 .. k - 1 : ctxs'[i] = ctxs[i]
          BY <3>1, <3>3, <1>1, <1>2, DiscardEffect
      <4>2. Answered(ctxs'[1].store, {})
          BY <4>1, <3>1, <1>9
      <4>3. ASSUME NEW i \in 2 .. Len(ctxs') PROVE Answered(ctxs'[i].store, Awaited(stack))
        <5>1. i \in 1 .. k - 1 /\ i \in 2 .. Len(ctxs)
            BY <4>1, <3>1
        <5> QED
            BY <5>1, <4>1, <1>9
      <4> QED
          BY <4>1, <4>2, <4>3, <3>1
    <3> QED
        BY <2>2, <3>2, <3>3
  <2> QED
      BY <2>1, <2>2
<1>12. Aligned(stack', ctxs')
    BY <1>5, <1>11 DEF Aligned
<1>13. AllAnswered(stack', ctxs', ret')
    BY <1>7, <1>11 DEF AllAnswered
<1>14. Typed'
    BY <1>11 DEF Typed
<1>15. ctxs' # <<>>
    BY <1>10, <1>11, SeqEmpty
<1> QED
    BY <1>12, <1>13, <1>14, <1>15 DEF IInv

\* The frames below the innermost one.
LEMMA CallerFrames ==
    ASSUME IInv, stack # <<>>, Top.how # "tx"
    PROVE  /\ Len(stack) \in Nat /\ Len(stack) >= 2
           /\ Front(stack) \in Seq(Frame) /\ Front(stack) # <<>>
           /\ Len(Front(stack)) = Len(stack) - 1
           /\ \A i \in 1 .. Len(stack) - 1 : Front(stack)[i] = stack[i]
<1>1. Len(stack) \in Nat \ {0} /\ Len(stack) # 1 /\ Frames(stack) /\ stack \in Seq(Frame)
    BY TopFrame DEF IInv, Typed
<1>2. Len(stack) \in Nat /\ Len(stack) >= 2
    BY <1>1, NotOne
<1> QED
    BY <1>1, <1>2, FrontFrames

LEMMA ReturnMsgKeeps == ASSUME IInv, ReturnMsg PROVE IInv'
<1>1. stack # <<>> /\ Top.how = "msg" /\ stack' = Front(stack) /\ ctxs' = ctxs
    BY DEF ReturnMsg, Returning
<1>2. ret' \in {"none", "ok", "err", "oog", "panic"}
    BY DEF ReturnMsg, IInv, Typed
<1>3. log' \in Seq(Entry)
    BY <1>1, SettledType DEF ReturnMsg
<1>4. ~Boxed(Top)
    BY <1>1 DEF Boxed
<1> QED
    BY <1>1, <1>2, <1>3, <1>4, CallerFrames, ReturnKeeps

LEMMA ReturnHookKeeps == ASSUME IInv, ReturnHook PROVE IInv'
<1>1. /\ stack # <<>> /\ Top.how = "hook" /\ stack' = Front(stack)
      /\ ctxs' = WriteBack(ctxs) \/ ctxs' = Discard(ctxs)
    BY DEF ReturnHook, Returning
<1>2. ret' \in {"none", "ok", "err", "oog", "panic"}
    BY DEF ReturnHook, IInv, Typed
<1>3. log' \in Seq(Entry)
    BY <1>1, SettledType DEF ReturnHook
<1>4. Boxed(Top)
    BY <1>1 DEF Boxed
<1> QED
    BY <1>1, <1>2, <1>3, <1>4, CallerFrames, ReturnKeeps

LEMMA ReturnSubKeeps == ASSUME IInv, ReturnSub PROVE IInv'
<1> DEFINE caught == ret = "oog" /\ Top.metered
           failed == ret = "err" \/ caught
           due == \/ ret = "ok" /\ Top.replyOn \in {"success", "always"}
                  \/ failed /\ Top.replyOn \in {"error", "always"}
           fs == Front(stack)
           gs == [fs EXCEPT ![Len(fs)].reply = due]
<1>1. /\ stack # <<>> /\ Top.how = "sub"
      /\ ctxs' = WriteBack(ctxs) \/ ctxs' = Discard(ctxs)
      /\ stack' = [Front(stack) EXCEPT ![Len(stack) - 1].reply = due]
    BY DEF ReturnSub, Returning
<1>2. ret' \in {"none", "ok", "err", "oog", "panic"}
    BY DEF ReturnSub, IInv, Typed
<1>3. log' \in Seq(Entry)
    BY <1>1, SettledType DEF ReturnSub
<1>4. Boxed(Top)
    BY <1>1 DEF Boxed
<1>5. /\ fs \in Seq(Frame) /\ fs # <<>> /\ Len(fs) = Len(stack) - 1
      /\ \A i \in 1 .. Len(stack) - 1 : fs[i] = stack[i]
    BY <1>1, CallerFrames
<1>6. due \in BOOLEAN
    OBVIOUS
<1>7. stack' = gs
    BY <1>1, <1>5
<1> HIDE DEF due, fs
<1>8. /\ gs \in Seq(Frame) /\ Len(gs) = Len(fs)
      /\ \A i \in 1 .. Len(fs) : /\ gs[i].how = fs[i].how /\ gs[i].runs = fs[i].runs
                                 /\ gs[i].ctx = fs[i].ctx /\ gs[i].packets = fs[i].packets
    BY <1>5, <1>6, ReplyEdit
<1> HIDE DEF gs
<1>9. \A i \in 1 .. Len(stack) - 1 :
         /\ gs[i].how = stack[i].how /\ gs[i].runs = stack[i].runs
         /\ gs[i].ctx = stack[i].ctx /\ gs[i].packets = stack[i].packets
    BY <1>5, <1>8
<1> QED
    BY <1>1, <1>2, <1>3, <1>4, <1>5, <1>7, <1>8, <1>9, ReturnKeeps

LEMMA ReturnReplyKeeps == ASSUME IInv, ReturnReply PROVE IInv'
<1> DEFINE fs == Front(stack)
           d == fs[Len(fs)].data \/ (ret = "ok" /\ Top.data)
           gs == [fs EXCEPT ![Len(fs)].data = d]
<1>1. /\ stack # <<>> /\ Top.how = "reply" /\ ctxs' = ctxs
      /\ stack' = [Front(stack) EXCEPT ![Len(stack) - 1].data = @ \/ (ret = "ok" /\ Top.data)]
    BY DEF ReturnReply, Returning
<1>2. ret' \in {"none", "ok", "err", "oog", "panic"}
    BY DEF ReturnReply, IInv, Typed
<1>3. log' \in Seq(Entry)
    BY <1>1, SettledType DEF ReturnReply
<1>4. ~Boxed(Top)
    BY <1>1 DEF Boxed
<1>5. /\ fs \in Seq(Frame) /\ fs # <<>> /\ Len(fs) = Len(stack) - 1
      /\ \A i \in 1 .. Len(stack) - 1 : fs[i] = stack[i]
    BY <1>1, CallerFrames
<1>6. d \in BOOLEAN
    OBVIOUS
<1>7. stack' = gs
    BY <1>1, <1>5
<1> HIDE DEF d, fs
<1>8. /\ gs \in Seq(Frame) /\ Len(gs) = Len(fs)
      /\ \A i \in 1 .. Len(fs) : /\ gs[i].how = fs[i].how /\ gs[i].runs = fs[i].runs
                                 /\ gs[i].ctx = fs[i].ctx /\ gs[i].packets = fs[i].packets
    BY <1>5, <1>6, DataEdit
<1> HIDE DEF gs
<1>9. \A i \in 1 .. Len(stack) - 1 :
         /\ gs[i].how = stack[i].how /\ gs[i].runs = stack[i].runs
         /\ gs[i].ctx = stack[i].ctx /\ gs[i].packets = stack[i].packets
    BY <1>5, <1>8
<1> QED
    BY <1>1, <1>2, <1>3, <1>4, <1>5, <1>7, <1>8, <1>9, ReturnKeeps

LEMMA ReturnRecvKeeps == ASSUME IInv, ReturnRecv PROVE IInv'
<1> DEFINE base == IF ret = "ok" THEN WriteBack(ctxs) ELSE Discard(ctxs)
           w == Top.packets
           b == base[Len(base)]
           A == IF ret = "err" \/ (ret = "ok" /\ Top.data) THEN b.store.acks \cup w ELSE b.store.acks
           P == IF ret = "ok" /\ ~Top.data THEN b.store.pending \cup w ELSE b.store.pending
           c == [b EXCEPT !.store = [@ EXCEPT !.acks = A, !.pending = P]]
<1>1. /\ stack # <<>> /\ ret # "none" /\ Top.how = "recv" /\ stack' = Front(stack)
      /\ ctxs' = [base EXCEPT ![Len(base)].store.acks = A, ![Len(base)].store.pending = P]
    BY DEF ReturnRecv, Returning
<1>2. /\ Len(stack) \in Nat \ {0} /\ Len(stack) # 1 /\ Frames(stack)
      /\ Top = stack[Len(stack)] /\ Top \in Frame /\ Len(ctxs) = Top.ctx
    BY <1>1, TopFrame
<1>3. Len(stack) = 2
  <2>1. Len(stack) \in 2 .. Len(stack)
      BY <1>2, NotOne
  <2>2. Entered(stack[Len(stack)])
      BY <1>1, <1>2 DEF Entered
  <2> QED
      BY <2>1, <2>2, <1>2 DEF Frames
<1>4. Len(ctxs) = 3
  <2>1. stack[1].ctx = 2 /\ Boxed(stack[2])
      BY <1>1, <1>2, <1>3 DEF Frames, Boxed
  <2>2. stack[2].ctx = stack[2 - 1].ctx + IF Boxed(stack[2]) THEN 1 ELSE 0
      BY <1>2, <1>3 DEF Frames
  <2> QED
      BY <2>1, <2>2, <1>2, <1>3
<1>5. Awaited(stack) = w
    BY <1>1, <1>2, <1>3 DEF Awaited
<1>6. ctxs \in Seq(Context) /\ Typed
    BY DEF IInv, Typed
<1>7. /\ Answered(ctxs[1].store, {})
      /\ Answered(ctxs[2].store, w) /\ Answered(ctxs[3].store, w)
  <2>1. /\ Answered(ctxs[1].store, {})
        /\ \A i \in 2 .. Len(ctxs) : Answered(ctxs[i].store, Awaited(stack))
      BY <1>2 DEF IInv, AllAnswered
  <2> QED
      BY <2>1, <1>4, <1>5
<1>8. Len(ctxs) >= 2 /\ Len(stack) >= 2
    BY <1>3, <1>4
<1>9. /\ base \in Seq(Context) /\ Len(base) = 2 /\ base[1] = ctxs[1]
      /\ base[2].store = IF ret = "ok" THEN ctxs[3].store ELSE ctxs[2].store
  <2>1. CASE ret = "ok"
    <3>1. /\ WriteBack(ctxs) \in Seq(Context)
          /\ Len(WriteBack(ctxs)) = Len(ctxs) - 1
          /\ WriteBack(ctxs)[Len(ctxs) - 1].store = ctxs[Len(ctxs)].store
          /\ \A i \in 1 .. Len(ctxs) - 2 : WriteBack(ctxs)[i] = ctxs[i]
        BY <1>6, <1>8, WriteBackEffect
    <3>2. Len(ctxs) - 1 = 2 /\ 1 \in 1 .. Len(ctxs) - 2
        BY <1>4
    <3> QED
        BY <2>1, <3>1, <3>2, <1>4
  <2>2. CASE ret # "ok"
    <3>1. /\ Discard(ctxs) \in Seq(Context)
          /\ Len(Discard(ctxs)) = Len(ctxs) - 1
          /\ \A i \in 1 .. Len(ctxs) - 1 : Discard(ctxs)[i] = ctxs[i]
        BY <1>6, <1>8, DiscardEffect
    <3>2. Len(ctxs) - 1 = 2 /\ 1 \in 1 .. Len(ctxs) - 1 /\ 2 \in 1 .. Len(ctxs) - 1
        BY <1>4
    <3> QED
        BY <2>2, <3>1, <3>2
  <2> QED
      BY <2>1, <2>2
<1> HIDE DEF base
<1>10. b = base[2] /\ b \in Context /\ w \in SUBSET Packet
  <2>1. 2 \in 1 .. Len(base)
      BY <1>9
  <2> QED
      BY <2>1, <1>2, <1>9, SeqElement DEF Frame
<1>11. A \in SUBSET Packet /\ P \in SUBSET Packet
  <2>1. /\ b.store.acks \in SUBSET Packet /\ b.store.pending \in SUBSET Packet
        /\ b.store.receipts \in SUBSET Packet
      BY <1>10 DEF Context, Store
  <2> QED
      BY <1>10, <2>1
<1>12. ctxs' = [base EXCEPT ![2] = c]
    BY <1>1, <1>9, <1>10
<1> HIDE DEF A, P
<1>13. /\ c \in Context /\ c.store.acks = A /\ c.store.pending = P
       /\ c.store.receipts = b.store.receipts
    BY <1>10, <1>11 DEF Context, Store
<1> HIDE DEF b, c
<1>14. /\ ctxs' \in Seq(Context) /\ Len(ctxs') = 2 /\ ctxs' # <<>>
       /\ ctxs'[1] = ctxs[1] /\ ctxs'[2] = c
  <2>1. 2 \in 1 .. Len(base) /\ 1 \in 1 .. Len(base)
      BY <1>9
  <2> DEFINE new == [base EXCEPT ![2] = c]
  <2>2. /\ new \in Seq(Context) /\ Len(new) = Len(base)
        /\ \A j \in 1 .. Len(base) : new[j] = IF j = 2 THEN c ELSE base[j]
      BY <2>1, <1>9, <1>13, SeqExcept
  <2> HIDE DEF new
  <2>3. new[1] = base[1] /\ new[2] = c
      BY <2>1, <2>2
  <2>4. Len(new) = 2
      BY <2>2, <1>9
  <2>5. new # <<>>
      BY <2>4
  <2> QED
      BY <2>2, <2>3, <2>4, <2>5, <1>9, <1>12 DEF new
<1>15. ret \in {"ok", "err"} => Answered(c.store, {})
  <2>1. Answered(b.store, w)
      BY <1>7, <1>9, <1>10
  <2> QED
      BY <2>1, <1>13 DEF Answered, A, P
<1>16. /\ Front(stack) \in Seq(Frame) /\ Front(stack) # <<>>
       /\ Len(Front(stack)) = 1 /\ Frames(Front(stack))
       /\ Front(stack)[1] = stack[1] /\ Awaited(Front(stack)) = {}
  <2>1. /\ Front(stack) \in Seq(Frame) /\ Front(stack) # <<>>
        /\ Len(Front(stack)) = Len(stack) - 1 /\ Frames(Front(stack))
        /\ \A i \in 1 .. Len(stack) - 1 : Front(stack)[i] = stack[i]
        /\ Len(stack) = 2 => Awaited(Front(stack)) = {}
      BY <1>2, <1>6, <1>8, FrontFrames DEF Typed
  <2>2. Len(stack) - 1 = 1 /\ 1 \in 1 .. Len(stack) - 1
      BY <1>3
  <2> QED
      BY <2>1, <2>2, <1>3
<1>17. Aligned(stack', ctxs')
    BY <1>1, <1>2, <1>14, <1>16 DEF Aligned, Frames
<1>18. AllAnswered(stack', ctxs', ret')
  <2>1. CASE ret \in {"ok", "err"}
    <3>1. \A i \in 2 .. Len(ctxs') : i = 2
        BY <1>14
    <3>2. Answered(ctxs'[1].store, {}) /\ Answered(ctxs'[2].store, {})
        BY <2>1, <1>7, <1>14, <1>15
    <3>3. Awaited(stack') = {}
        BY <1>1, <1>16
    <3> QED
        BY <3>1, <3>2, <3>3 DEF AllAnswered
  <2>2. CASE ret \notin {"ok", "err"}
    <3>1. ret' # "none"
        BY <2>2, <1>1 DEF ReturnRecv
    <3> QED
        BY <3>1, <1>1, <1>7, <1>14, <1>16 DEF AllAnswered
  <2> QED
      BY <2>1, <2>2
<1>19. Typed'
  <2>1. ret' \in {"none", "ok", "err", "oog", "panic"}
      BY <1>6 DEF ReturnRecv, Typed
  <2>2. log' \in Seq(Entry)
      BY <1>1, SettledType DEF ReturnRecv
  <2> QED
      BY <2>1, <2>2, <1>1, <1>14, <1>16 DEF Typed
<1> QED
    BY <1>14, <1>17, <1>18, <1>19 DEF IInv

LEMMA NextKeepsIInv == IInv /\ [Next]_vars => IInv'
<1> SUFFICES ASSUME IInv, [Next]_vars PROVE IInv'
    OBVIOUS
<1>1. CASE BeginTx BY <1>1, BeginTxKeeps
<1>2. CASE Message BY <1>2, MessageKeeps
<1>3. CASE RecvPacket BY <1>3, RecvPacketKeeps
<1>4. CASE EndTx BY <1>4, EndTxKeeps
<1>5. CASE SubMessage BY <1>5, SubMessageKeeps
<1>6. CASE Reply BY <1>6, ReplyKeeps
<1>7. CASE Hook BY <1>7, HookKeeps
<1>8. CASE Finish BY <1>8, FinishKeeps
<1>9. CASE ReturnMsg BY <1>9, ReturnMsgKeeps
<1>10. CASE ReturnReply BY <1>10, ReturnReplyKeeps
<1>11. CASE ReturnSub BY <1>11, ReturnSubKeeps
<1>12. CASE ReturnHook BY <1>12, ReturnHookKeeps
<1>13. CASE ReturnRecv BY <1>13, ReturnRecvKeeps
<1>14. CASE UNCHANGED vars
    BY <1>14 DEF vars, IInv, Typed
<1> QED
    BY <1>1, <1>2, <1>3, <1>4, <1>5, <1>6, <1>7, <1>8, <1>9, <1>10, <1>11, <1>12, <1>13,
       <1>14 DEF Next, Step

-----------------------------------------------------------------------------
(***************************************************************************)
(* What a step does, said once for all calls and once for all returns: a   *)
(* call adds a frame, an entry in the log, a unit of gas and perhaps a     *)
(* context and a meter; a return takes the frame away and keeps or drops   *)
(* the rest.                                                               *)
(***************************************************************************)
Meter == [used : Nat, limit : Nat]

\* What does not change of a frame while its call runs.
Same(f, g) == /\ f.how = g.how /\ f.id = g.id /\ f.ctx = g.ctx
              /\ f.metered = g.metered /\ f.replyOn = g.replyOn

AllSame(fs, gs, n) == \A i \in 1 .. n : Same(gs[i], fs[i])

\* Contexts ds hold what cs do, up to the nth.
Below(cs, ds, n) ==
    \A i \in 1 .. n : ds[i].store.writes = cs[i].store.writes /\ ds[i].events = cs[i].events

\* Nothing has failed that is not dealt with.
Clean(r) == r \in {"none", "ok"}

AddsFrame(g, fs, gs) ==
    /\ Len(gs) = Len(fs) + 1
    /\ AllSame(fs, gs, Len(fs))
    /\ gs[Len(fs) + 1] = g
    /\ g.how # "tx"
    /\ g.metered => g.how \in {"sub", "hook"}
    /\ g.how = "hook" => g.metered

AddsEntry(g, caller, ns, lg, lh, r) ==
    \E e \in Entry :
        /\ lh = Append(lg, e)
        /\ e.caller = caller
        /\ e.optional <=> Optional(g)
        /\ e.status = "open"
        /\ e.ran <=> r # "oog"
        /\ e.nested <=> g.how = "hook" /\ Len(ns) > 2

\* The writes and events of contexts cs, where call id writes to the last one.
Records(id, W, E, d, r) ==
    \/ r = "none" /\ d.store.writes = W \cup {id} /\ d.events = Append(E, id)
    \/ ~Clean(r) /\ d.store.writes \in {W, W \cup {id}} /\ d.events = E

AddsWrite(g, cs, ds, r) ==
    IF Boxed(g)
    THEN /\ Len(ds) = Len(cs) + 1
         /\ Below(cs, ds, Len(cs))
         /\ Records(g.id, cs[Len(cs)].store.writes, <<>>, ds[Len(cs) + 1], r)
    ELSE /\ Len(ds) = Len(cs)
         /\ Below(cs, ds, Len(cs) - 1)
         /\ Records(g.id, cs[Len(cs)].store.writes, cs[Len(cs)].events, ds[Len(cs)], r)

AddsGas(g, ms, ns, r) ==
    /\ ns \in Seq(Meter)
    /\ IF g.metered
       THEN /\ Len(ns) = Len(ms) + 1
            /\ \A i \in 1 .. Len(ms) : ns[i] = ms[i]
            /\ ns[Len(ns)].used = 1
            /\ g.how = "sub" => ns[Len(ns)].limit + ms[Len(ms)].used <= ms[Len(ms)].limit
       ELSE /\ Len(ns) = Len(ms)
            /\ \A i \in 1 .. Len(ms) - 1 : ns[i] = ms[i]
            /\ ns[Len(ns)].used = ms[Len(ms)].used + 1
            /\ ns[Len(ns)].limit = ms[Len(ms)].limit
    /\ r = "oog" <=> ns[Len(ns)].used > ns[Len(ns)].limit

\* Call g is made.
Called(g) ==
    /\ stack # <<>> /\ ret = "none" /\ g \in Frame
    /\ g.id = Len(log) + 1
    /\ AddsFrame(g, stack, stack')
    /\ AddsEntry(g, Top.id, meters', log, log', ret')
    /\ AddsWrite(g, ctxs, ctxs', ret')
    /\ AddsGas(g, meters, meters', ret')

\* What a call writes, whatever it was given.
WritesLast(id, cs, ds, r) ==
    /\ Len(ds) = Len(cs)
    /\ \A i \in 1 .. Len(cs) - 1 : ds[i] = cs[i]
    /\ Records(id, cs[Len(cs)].store.writes, cs[Len(cs)].events, ds[Len(cs)], r)

LEMMA FrameKept ==
    ASSUME NEW f \in Frame, NEW n \in Nat, NEW data \in BOOLEAN
    PROVE  /\ [f EXCEPT !.ctx = n] \in Frame
           /\ [f EXCEPT !.ctx = n].how = f.how
           /\ [f EXCEPT !.ctx = n].id = f.id
           /\ [f EXCEPT !.ctx = n].metered = f.metered
           /\ [f EXCEPT !.ctx = n].replyOn = f.replyOn
           /\ [f EXCEPT !.ctx = n, !.data = data] \in Frame
           /\ [f EXCEPT !.ctx = n, !.data = data].how = f.how
           /\ [f EXCEPT !.ctx = n, !.data = data].id = f.id
           /\ [f EXCEPT !.ctx = n, !.data = data].metered = f.metered
           /\ [f EXCEPT !.ctx = n, !.data = data].replyOn = f.replyOn
    BY DEF Frame

LEMMA InvokeShape ==
    ASSUME Typed,
           NEW f \in Frame, NEW fs \in Seq(Frame), fs # <<>>,
           NEW cs \in Seq(Context), cs # <<>>,
           NEW ms,
           Invoke(f, fs, cs, ms)
    PROVE  /\ \E g \in Frame : /\ stack' = Append(fs, g)
                               /\ g.how = f.how /\ g.id = f.id
                               /\ g.metered = f.metered /\ g.replyOn = f.replyOn
           /\ AddsEntry(f, Last(fs).id, ms, log, log', ret')
           /\ WritesLast(f.id, cs, ctxs', ret')
           /\ meters' = ConsumeGas(ms, 1)
           /\ ret' = "oog" <=> OutOfGas(meters')
<1> DEFINE n == Len(cs)
           charged == ConsumeGas(ms, 1)
           written == [cs EXCEPT ![n].store.writes = @ \cup {f.id}]
<1>1. n \in 1 .. Len(cs) /\ n \in Nat /\ cs[n] \in Context /\ Last(cs) = cs[n]
    BY SeqEmpty, SeqLen, SeqElement DEF Last
<1>2. meters' = charged
    BY DEF Invoke
<1>3. ret' = "oog" <=> OutOfGas(charged)
    BY Zenon DEF Invoke, Outcomes
<1>4. ASSUME NEW g, g = [f EXCEPT !.ctx = n] \/ \E data \in BOOLEAN : g = [f EXCEPT !.ctx = n, !.data = data]
      PROVE  /\ g \in Frame
             /\ g.how = f.how /\ g.id = f.id
             /\ g.metered = f.metered /\ g.replyOn = f.replyOn
  <2>1. CASE g = [f EXCEPT !.ctx = n]
      BY <1>1, <2>1, FrameKept
  <2>2. CASE \E data \in BOOLEAN : g = [f EXCEPT !.ctx = n, !.data = data]
    <3>1. PICK data \in BOOLEAN : g = [f EXCEPT !.ctx = n, !.data = data]
        BY Zenon, <2>2
    <3> QED
        BY Zenon, <3>1, <1>1, FrameKept
  <2> QED
      BY Zenon, <1>4, <2>1, <2>2
<1>5. \E g : /\ g = [f EXCEPT !.ctx = n] \/ \E data \in BOOLEAN : g = [f EXCEPT !.ctx = n, !.data = data]
             /\ stack' = Append(fs, g)
    BY Zenon DEF Invoke
<1>6. \E g \in Frame : /\ stack' = Append(fs, g)
                       /\ g.how = f.how /\ g.id = f.id
                       /\ g.metered = f.metered /\ g.replyOn = f.replyOn
    BY Zenon, <1>4, <1>5
<1>7. AddsEntry(f, Last(fs).id, ms, log, log', ret')
  <2> DEFINE e == [caller |-> Last(fs).id, optional |-> Optional(f), status |-> "open",
                   ran |-> ~OutOfGas(charged), nested |-> f.how = "hook" /\ Len(ms) > 2]
  <2>1. Last(fs) \in Frame
      BY SeqEmpty, SeqLen, SeqElement DEF Last
  <2>2. e \in Entry
      BY <2>1 DEF Frame, Optional, Entry
  <2>3. log' = Append(log, e)
      BY Zenon DEF Invoke
  <2>4. /\ e.caller = Last(fs).id /\ e.optional = Optional(f) /\ e.status = "open"
        /\ e.ran = ~OutOfGas(charged) /\ e.nested = (f.how = "hook" /\ Len(ms) > 2)
      OBVIOUS
  <2> HIDE DEF e, charged
  <2> QED
      BY Zenon, <2>2, <2>3, <2>4, <1>3 DEF AddsEntry
<1>8. WritesLast(f.id, cs, ctxs', ret')
  <2> DEFINE c0 == cs[n]
             c1 == [c0 EXCEPT !.store.writes = @ \cup {f.id}]
             c2 == [c1 EXCEPT !.events = Append(@, f.id)]
             c3 == [c2 EXCEPT !.store = Acknowledged(@, f.packets)]
  <2>1. /\ c1 \in Context /\ c1.events = c0.events
        /\ c1.store.writes = c0.store.writes \cup {f.id}
      BY <1>1 DEF Context, Store, Frame
  <2>2. /\ c2 \in Context /\ c2.store = c1.store
        /\ c2.events = Append(c0.events, f.id)
    <3>1. f.id \in Nat
        BY DEF Frame
    <3> HIDE DEF c1
    <3>2. Append(c1.events, f.id) \in Seq(Nat)
        BY <2>1, <3>1, SeqAppend DEF Context
    <3> QED
        BY <2>1, <3>2 DEF Context
  <2>3. /\ c3.store.writes = c0.store.writes \cup {f.id}
        /\ c3.events = Append(c0.events, f.id)
      BY Zenon, <2>1, <2>2 DEF Context, Store, Frame, Acknowledged
  <2>4. written = [cs EXCEPT ![n] = c1]
      BY <1>1
  <2>5. \/ ctxs' = cs /\ ~Clean(ret')
        \/ ctxs' = written /\ ~Clean(ret')
        \/ /\ ctxs' = [written EXCEPT ![n].events = Append(@, f.id),
                                      ![n].store = IF f.runs = "ack"
                                                   THEN Acknowledged(@, f.packets) ELSE @]
           /\ ret' = "none"
      BY Zenon, <1>1 DEF Invoke, Outcomes, Clean
  <2>6. ASSUME NEW d, ctxs' = [cs EXCEPT ![n] = d],
               Records(f.id, c0.store.writes, c0.events, d, ret')
        PROVE  WritesLast(f.id, cs, ctxs', ret')
    <3> HIDE DEF c0
    <3>1. /\ Len(ctxs') = Len(cs) /\ ctxs'[n] = d
          /\ \A i \in 1 .. Len(cs) - 1 : ctxs'[i] = cs[i]
        BY <1>1, <2>6
    <3> QED
        BY <3>1, <2>6 DEF WritesLast, c0
  <2>7. CASE ctxs' = cs /\ ~Clean(ret')
    <3>1. ctxs' = [cs EXCEPT ![n] = c0]
        BY <2>7, <1>1
    <3> QED
        BY <3>1, <2>6, <2>7 DEF Records
  <2>8. CASE ctxs' = written /\ ~Clean(ret')
      BY <2>1, <2>4, <2>6, <2>8 DEF Records
  <2>9. CASE /\ ctxs' = [written EXCEPT ![n].events = Append(@, f.id),
                                        ![n].store = IF f.runs = "ack"
                                                     THEN Acknowledged(@, f.packets) ELSE @]
             /\ ret' = "none"
    <3>1. CASE f.runs = "ack"
      <4>1. ctxs' = [cs EXCEPT ![n] = c3]
          BY <2>9, <3>1, <2>4, <2>2, <1>1
      <4> HIDE DEF c3
      <4> QED
          BY <4>1, <2>3, <2>6, <2>9 DEF Records
    <3>2. CASE f.runs # "ack"
      <4>1. ctxs' = [cs EXCEPT ![n] = c2]
          BY <2>9, <3>2, <2>4, <2>2, <1>1
      <4> HIDE DEF c2
      <4> QED
          BY <4>1, <2>1, <2>2, <2>6, <2>9 DEF Records
    <3> QED
        BY <3>1, <3>2
  <2> QED
      BY <2>5, <2>7, <2>8, <2>9
<1> QED
    BY <1>2, <1>3, <1>6, <1>7, <1>8

\* A meter is open for the transaction, and one more for a call with its own.
MetersOpen ==
    /\ meters \in Seq(Meter)
    /\ stack # <<>> => Len(meters) >= 1
    /\ stack # <<>> /\ Top.how # "tx" /\ Top.metered => Len(meters) >= 2
    /\ stack # <<>> /\ Top.metered => Top.how \in {"tx", "sub", "hook"}
    /\ stack # <<>> /\ Top.how = "hook" => Top.metered

\* Contexts ds are the ones that a call f on contexts cs is given.
Backs(f, cs, ds) ==
    IF Boxed(f)
    THEN /\ Len(ds) = Len(cs) + 1
         /\ Below(cs, ds, Len(cs))
         /\ ds[Len(cs) + 1].store.writes = cs[Len(cs)].store.writes
         /\ ds[Len(cs) + 1].events = <<>>
    ELSE ds = cs

LEMMA ConsumeEffect ==
    ASSUME NEW ms \in Seq(Meter), Len(ms) >= 1, NEW amount \in Nat
    PROVE  /\ ConsumeGas(ms, amount) \in Seq(Meter)
           /\ Len(ConsumeGas(ms, amount)) = Len(ms)
           /\ \A i \in 1 .. Len(ms) - 1 : ConsumeGas(ms, amount)[i] = ms[i]
           /\ ConsumeGas(ms, amount)[Len(ms)].used = ms[Len(ms)].used + amount
           /\ ConsumeGas(ms, amount)[Len(ms)].limit = ms[Len(ms)].limit
<1> DEFINE n == Len(ms)
           m == [ms[n] EXCEPT !.used = @ + amount]
           new == [ms EXCEPT ![n] = m]
<1>1. n \in 1 .. Len(ms) /\ ms[n] \in Meter
    BY SeqLen, SeqElement
<1>2. m \in Meter /\ m.used = ms[n].used + amount /\ m.limit = ms[n].limit
    BY <1>1 DEF Meter
<1>3. ConsumeGas(ms, amount) = new
    BY DEF ConsumeGas
<1> HIDE DEF m
<1>4. new \in Seq(Meter) /\ Len(new) = Len(ms)
      /\ \A i \in 1 .. Len(ms) : new[i] = IF i = n THEN m ELSE ms[i]
    BY <1>1, <1>2, SeqExcept
<1> HIDE DEF new
<1> QED
    BY <1>1, <1>2, <1>3, <1>4

LEMMA GasAdded ==
    ASSUME NEW ms \in Seq(Meter), Len(ms) >= 1, NEW g \in Frame, NEW l \in Nat,
           NEW base, base = IF g.metered THEN Append(ms, NewMeter(l)) ELSE ms,
           g.metered /\ g.how = "sub" => l < Remaining(ms),
           NEW r, r = "oog" <=> OutOfGas(ConsumeGas(base, 1))
    PROVE  /\ AddsGas(g, ms, ConsumeGas(base, 1), r)
           /\ Len(ConsumeGas(base, 1)) = Len(base)
<1> DEFINE n == Len(ms)
           ns == ConsumeGas(base, 1)
<1>1. n \in Nat \ {0} /\ ms[n] \in Meter /\ ms[n].used \in Nat /\ ms[n].limit \in Nat
  <2>1. n \in 1 .. Len(ms)
      BY SeqLen
  <2>2. ms[n] \in Meter
      BY <2>1, SeqElement
  <2> QED
      BY <2>1, <2>2 DEF Meter
<1>2. NewMeter(l) \in Meter /\ NewMeter(l).used = 0 /\ NewMeter(l).limit = l
    BY DEF Meter, NewMeter
<1>3. /\ base \in Seq(Meter) /\ Len(base) >= 1
      /\ Len(base) = IF g.metered THEN n + 1 ELSE n
      /\ \A i \in 1 .. n : base[i] = ms[i]
      /\ g.metered => base[n + 1] = NewMeter(l)
    BY <1>1, <1>2, SeqAppend
<1>4. /\ ns \in Seq(Meter) /\ Len(ns) = Len(base)
      /\ \A i \in 1 .. Len(base) - 1 : ns[i] = base[i]
      /\ ns[Len(base)].used = base[Len(base)].used + 1
      /\ ns[Len(base)].limit = base[Len(base)].limit
  <2>1. base \in Seq(Meter) /\ Len(base) >= 1 /\ 1 \in Nat
      BY <1>3
  <2> QED
      BY <2>1, ConsumeEffect
<1>5. r = "oog" <=> ns[Len(ns)].used > ns[Len(ns)].limit
    BY <1>4 DEF OutOfGas, Last
<1>6. g.metered /\ g.how = "sub" => l + ms[n].used <= ms[n].limit
    BY <1>1 DEF Remaining, Last
<1> HIDE DEF ns
<1>7. CASE g.metered
  <2>1. /\ Len(ns) = n + 1 /\ ns[n + 1].used = 1 /\ ns[n + 1].limit = l
        /\ \A i \in 1 .. n : ns[i] = ms[i]
      BY <1>7, <1>1, <1>2, <1>3, <1>4
  <2> QED
      BY <1>4, <1>5, <1>6, <1>7, <2>1 DEF AddsGas, ns
<1>8. CASE ~g.metered
  <2>1. /\ Len(ns) = n /\ ns[n].used = ms[n].used + 1 /\ ns[n].limit = ms[n].limit
        /\ \A i \in 1 .. n - 1 : ns[i] = ms[i]
      BY <1>8, <1>1, <1>3, <1>4
  <2> QED
      BY <1>4, <1>5, <1>8, <2>1 DEF AddsGas, ns
<1> QED
    BY <1>7, <1>8

LEMMA CallMade ==
    ASSUME IInv, MetersOpen, stack # <<>>, ret = "none",
           NEW f \in Frame, f.id = Len(log) + 1, f.how # "tx",
           f.metered => f.how \in {"sub", "hook"}, f.how = "hook" => f.metered,
           NEW fs \in Seq(Frame), Len(fs) = Len(stack), AllSame(stack, fs, Len(stack)),
           NEW cs \in Seq(Context), Backs(f, ctxs, cs),
           NEW l \in Nat, f.metered /\ f.how = "sub" => l < Remaining(meters),
           NEW ms, ms = IF f.metered THEN Append(meters, NewMeter(l)) ELSE meters,
           Invoke(f, fs, cs, ms)
    PROVE  \E g \in Frame : Called(g)
<1>1. /\ Typed /\ fs # <<>> /\ Len(stack) \in Nat \ {0} /\ Len(ctxs) \in Nat \ {0}
      /\ ctxs \in Seq(Context) /\ Top = stack[Len(stack)]
    BY TopFrame, SeqLen, SeqEmpty DEF IInv, Typed
<1>2. cs # <<>> /\ Len(cs) = IF Boxed(f) THEN Len(ctxs) + 1 ELSE Len(ctxs)
    BY <1>1, SeqEmpty DEF Backs
<1>3. /\ \E g \in Frame : /\ stack' = Append(fs, g)
                          /\ g.how = f.how /\ g.id = f.id
                          /\ g.metered = f.metered /\ g.replyOn = f.replyOn
      /\ AddsEntry(f, Last(fs).id, ms, log, log', ret')
      /\ WritesLast(f.id, cs, ctxs', ret')
      /\ meters' = ConsumeGas(ms, 1)
      /\ ret' = "oog" <=> OutOfGas(meters')
    BY <1>1, <1>2, InvokeShape
<1>4. PICK g \in Frame : /\ stack' = Append(fs, g)
                         /\ g.how = f.how /\ g.id = f.id
                         /\ g.metered = f.metered /\ g.replyOn = f.replyOn
    BY <1>3
<1>5. AddsFrame(g, stack, stack')
  <2>1. /\ Len(stack') = Len(fs) + 1 /\ stack'[Len(fs) + 1] = g
        /\ \A i \in 1 .. Len(fs) : stack'[i] = fs[i]
      BY <1>4, SeqAppend
  <2> QED
      BY <2>1, <1>4 DEF AddsFrame, AllSame
<1>6. Last(fs).id = Top.id
  <2>1. Len(stack) \in 1 .. Len(stack)
      BY <1>1
  <2> QED
      BY <2>1, <1>1 DEF AllSame, Same, Last
<1>7. (Optional(g) <=> Optional(f)) /\ (Boxed(g) <=> Boxed(f))
    BY <1>4 DEF Optional, Boxed
<1>8. meters \in Seq(Meter) /\ Len(meters) >= 1
    BY DEF MetersOpen
<1>9. AddsGas(g, meters, meters', ret') /\ Len(meters') = Len(ms)
  <2>1. ms = IF g.metered THEN Append(meters, NewMeter(l)) ELSE meters
      BY <1>4
  <2>2. g.metered /\ g.how = "sub" => l < Remaining(meters)
      BY <1>4
  <2>3. ret' = "oog" <=> OutOfGas(ConsumeGas(ms, 1))
      BY <1>3
  <2>4. AddsGas(g, meters, ConsumeGas(ms, 1), ret') /\ Len(ConsumeGas(ms, 1)) = Len(ms)
      BY <1>8, <2>1, <2>2, <2>3, GasAdded
  <2> QED
      BY <1>3, <2>4
<1>10. AddsEntry(g, Top.id, meters', log, log', ret')
    BY <1>3, <1>4, <1>6, <1>7, <1>9 DEF AddsEntry
<1>11. AddsWrite(g, ctxs, ctxs', ret')
  <2>1. /\ Len(ctxs') = Len(cs)
        /\ \A i \in 1 .. Len(cs) - 1 : ctxs'[i] = cs[i]
        /\ Records(g.id, cs[Len(cs)].store.writes, cs[Len(cs)].events, ctxs'[Len(cs)], ret')
      BY <1>3, <1>4 DEF WritesLast
  <2>2. CASE Boxed(f)
    <3>1. /\ Len(cs) = Len(ctxs) + 1 /\ Below(ctxs, cs, Len(ctxs))
          /\ cs[Len(cs)].store.writes = ctxs[Len(ctxs)].store.writes
          /\ cs[Len(cs)].events = <<>>
        BY <2>2 DEF Backs
    <3>2. Below(ctxs, ctxs', Len(ctxs))
        BY <1>1, <2>1, <3>1 DEF Below
    <3> QED
        BY <2>1, <2>2, <3>1, <3>2, <1>7 DEF AddsWrite
  <2>3. CASE ~Boxed(f)
    <3>1. cs = ctxs
        BY <2>3 DEF Backs
    <3>2. Below(ctxs, ctxs', Len(ctxs) - 1)
        BY <2>1, <3>1 DEF Below
    <3> QED
        BY <2>1, <2>3, <3>1, <3>2, <1>7 DEF AddsWrite
  <2> QED
      BY <2>2, <2>3
<1> QED
    BY <1>4, <1>5, <1>9, <1>10, <1>11 DEF Called

LEMMA NewFrameShape ==
    ASSUME Typed, NEW how \in How, NEW runs \in Runs, NEW replyOn \in ReplyOn,
           NEW metered \in BOOLEAN, NEW packets \in SUBSET Packet
    PROVE  /\ NewFrame(how, runs, replyOn, metered, packets) \in Frame
           /\ NewFrame(how, runs, replyOn, metered, packets).how = how
           /\ NewFrame(how, runs, replyOn, metered, packets).id = Len(log) + 1
           /\ NewFrame(how, runs, replyOn, metered, packets).metered = metered
    BY NewFrameFacts DEF NewFrame, Frame

LEMMA BranchBacks ==
    ASSUME NEW cs \in Seq(Context), cs # <<>>, NEW f, Boxed(f)
    PROVE  Branch(cs) \in Seq(Context) /\ Backs(f, cs, Branch(cs))
<1> DEFINE c == [store |-> Last(cs).store, events |-> <<>>]
           ds == Branch(cs)
<1>1. /\ ds \in Seq(Context) /\ Len(ds) = Len(cs) + 1
      /\ ds[Len(cs) + 1].store = cs[Len(cs)].store
      /\ \A i \in 1 .. Len(cs) : ds[i] = cs[i]
    BY BranchEffect
<1>2. ds = Append(cs, c) /\ c.events = <<>>
    BY DEF Branch
<1>3. ds[Len(cs) + 1] = c
  <2> HIDE DEF c
  <2> QED
      BY <1>2, SeqAppend
<1> HIDE DEF ds
<1> QED
    BY <1>1, <1>2, <1>3 DEF Backs, Below, ds

LEMMA SelfSame == ASSUME NEW fs PROVE AllSame(fs, fs, Len(fs))
    BY DEF AllSame, Same

LEMMA MessageCalls == ASSUME IInv, MetersOpen, Message PROVE \E g \in Frame : Called(g)
<1>1. stack # <<>> /\ ret = "none"
    BY DEF Message, Running
<1>2. PICK runs \in {"contract", "native"} :
         Invoke(NewFrame("msg", runs, "never", FALSE, {}), stack, ctxs, meters)
    BY DEF Message
<1> DEFINE f == NewFrame("msg", runs, "never", FALSE, {})
<1>3. Typed /\ stack \in Seq(Frame) /\ ctxs \in Seq(Context)
    BY DEF IInv, Typed
<1>4. f \in Frame /\ f.how = "msg" /\ f.id = Len(log) + 1 /\ f.metered = FALSE
    BY <1>3, NewFrameFacts DEF NewFrame, Frame, How, Runs, ReplyOn
<1>5. Invoke(f, stack, ctxs, meters)
    BY <1>2
<1> HIDE DEF f
<1>6. Backs(f, ctxs, ctxs)
    BY <1>4 DEF Backs, Boxed
<1> QED
    BY <1>1, <1>3, <1>4, <1>5, <1>6, CallMade, SelfSame, 0 \in Nat

LEMMA RecvPacketCalls == ASSUME IInv, MetersOpen, RecvPacket PROVE \E g \in Frame : Called(g)
<1>1. stack # <<>> /\ ret = "none"
    BY DEF RecvPacket, Running
<1>2. PICK p \in Packet :
         Invoke(NewFrame("recv", "contract", "never", FALSE, {p}), stack,
                Branch([ctxs EXCEPT ![Len(ctxs)].store.receipts = @ \cup {p}]), meters)
    BY DEF RecvPacket
<1> DEFINE f == NewFrame("recv", "contract", "never", FALSE, {p})
           n == Len(ctxs)
           c == [ctxs[n] EXCEPT !.store.receipts = @ \cup {p}]
           received == [ctxs EXCEPT ![n] = c]
           cs == Branch(received)
<1>3. Typed /\ stack \in Seq(Frame) /\ ctxs \in Seq(Context) /\ n \in 1 .. Len(ctxs)
    BY <1>1, TopFrame, SeqLen DEF IInv, Typed
<1>4. f \in Frame /\ f.how = "recv" /\ f.id = Len(log) + 1 /\ f.metered = FALSE
    BY <1>3, NewFrameFacts DEF NewFrame, Frame, How, Runs, ReplyOn
<1>5. ctxs[n] \in Context
    BY <1>3, SeqElement
<1>6. /\ c \in Context /\ c.store.writes = ctxs[n].store.writes
      /\ c.events = ctxs[n].events
    BY <1>5 DEF Context, Store
<1>7. [ctxs EXCEPT ![Len(ctxs)].store.receipts = @ \cup {p}] = received
    OBVIOUS
<1>8. Invoke(f, stack, cs, meters)
    BY <1>2, <1>7
<1> HIDE DEF c
<1>9. /\ received \in Seq(Context) /\ received # <<>> /\ Len(received) = n
      /\ Below(ctxs, received, n)
      /\ received[n].store.writes = ctxs[n].store.writes
    BY <1>3, <1>6, SeqExcept, SeqEmpty DEF Below
<1> HIDE DEF received, f
<1>10. Boxed(f)
    BY <1>4 DEF Boxed
<1>11. cs \in Seq(Context) /\ Backs(f, received, cs)
    BY <1>9, <1>10, BranchBacks
<1>12. Backs(f, ctxs, cs)
    BY <1>9, <1>10, <1>11 DEF Backs, Below
<1> HIDE DEF cs
<1> QED
    BY <1>1, <1>3, <1>4, <1>8, <1>11, <1>12, CallMade, SelfSame, 0 \in Nat

LEMMA SubMessageCalls == ASSUME IInv, MetersOpen, SubMessage PROVE \E g \in Frame : Called(g)
<1>1. stack # <<>> /\ ret = "none"
    BY DEF SubMessage, CanCall
<1>2. PICK runs \in {"contract", "native", "ack"}, replyOn \in ReplyOn,
           limit \in SubGas \cup {NoLimit}, packets \in {{}} \cup {{p} : p \in Packet} :
         Invoke(NewFrame("sub", runs, replyOn, limit < Remaining(meters), packets), stack,
                Branch(ctxs),
                IF limit < Remaining(meters) THEN Append(meters, NewMeter(limit)) ELSE meters)
    BY DEF SubMessage
<1> DEFINE limited == limit < Remaining(meters)
           f == NewFrame("sub", runs, replyOn, limited, packets)
           ms == IF limited THEN Append(meters, NewMeter(limit)) ELSE meters
           cs == Branch(ctxs)
<1>3. Typed /\ stack \in Seq(Frame) /\ ctxs \in Seq(Context) /\ ctxs # <<>>
    BY DEF IInv, Typed
<1>4. limited \in BOOLEAN /\ packets \in SUBSET Packet /\ runs \in Runs /\ limit \in Nat
    BY GasAssumption DEF Runs, NoLimit
<1>5. Invoke(f, stack, cs, ms)
    BY <1>2
<1>6. limited => limit < Remaining(meters)
    OBVIOUS
<1> HIDE DEF limited
<1>7. f \in Frame /\ f.how = "sub" /\ f.id = Len(log) + 1 /\ f.metered = limited
    BY <1>3, <1>4, NewFrameShape DEF How
<1> HIDE DEF f
<1>8. ms = IF f.metered THEN Append(meters, NewMeter(limit)) ELSE meters
    BY <1>7
<1>9. cs \in Seq(Context) /\ Backs(f, ctxs, cs)
    BY <1>3, <1>7, BranchBacks DEF Boxed
<1> HIDE DEF cs, ms
<1> QED
    BY <1>1, <1>3, <1>4, <1>5, <1>6, <1>7, <1>8, <1>9, CallMade, SelfSame

LEMMA ReplyCalls == ASSUME IInv, MetersOpen, Reply PROVE \E g \in Frame : Called(g)
<1> DEFINE f == NewFrame("reply", "contract", "never", FALSE, {})
           n == Len(stack)
           h == [stack[n] EXCEPT !.reply = FALSE]
           fs == [stack EXCEPT ![n] = h]
<1>1. stack # <<>> /\ ret = "none" /\ Invoke(f, fs, ctxs, meters)
    BY DEF Reply
<1>2. Typed /\ stack \in Seq(Frame) /\ ctxs \in Seq(Context) /\ n \in 1 .. Len(stack)
    BY <1>1, SeqLen, SeqEmpty DEF IInv, Typed
<1>3. f \in Frame /\ f.how = "reply" /\ f.id = Len(log) + 1 /\ f.metered = FALSE
    BY <1>2, NewFrameFacts DEF NewFrame, Frame, How, Runs, ReplyOn
<1>4. stack[n] \in Frame
    BY <1>2, SeqElement
<1>5. h \in Frame /\ Same(h, stack[n])
    BY <1>4 DEF Frame, Same
<1> HIDE DEF f, h
<1>6. /\ fs \in Seq(Frame) /\ Len(fs) = Len(stack)
      /\ AllSame(stack, fs, Len(stack))
    BY <1>2, <1>5, SeqExcept DEF AllSame, Same
<1>7. Backs(f, ctxs, ctxs)
    BY <1>3 DEF Backs, Boxed
<1> HIDE DEF fs
<1> QED
    BY <1>1, <1>2, <1>3, <1>6, <1>7, CallMade, 0 \in Nat

LEMMA HookCalls == ASSUME IInv, MetersOpen, Hook PROVE \E g \in Frame : Called(g)
<1> DEFINE f == NewFrame("hook", "contract", "never", TRUE, {})
           n == Len(stack)
           h == [stack[n] EXCEPT !.hooks = @ - 1]
           fs == [stack EXCEPT ![n] = h]
           cs == Branch(ctxs)
           ms == Append(meters, NewMeter(HookGas))
<1>1. /\ stack # <<>> /\ ret = "none" /\ stack[n].hooks > 0
      /\ Invoke(f, fs, cs, ms)
    BY DEF Hook, CanCall, Top, Last
<1>2. /\ Typed /\ stack \in Seq(Frame) /\ ctxs \in Seq(Context) /\ ctxs # <<>>
      /\ n \in 1 .. Len(stack) /\ HookGas \in Nat
    BY <1>1, SeqLen, SeqEmpty, GasAssumption DEF IInv, Typed
<1>3. f \in Frame /\ f.how = "hook" /\ f.id = Len(log) + 1 /\ f.metered = TRUE
    BY <1>2, NewFrameFacts DEF NewFrame, Frame, How, Runs, ReplyOn
<1>4. stack[n] \in Frame
    BY <1>2, SeqElement
<1>5. h \in Frame /\ Same(h, stack[n])
  <2>1. stack[n].hooks - 1 \in Nat
      BY <1>1, <1>4 DEF Frame
  <2> QED
      BY <2>1, <1>4 DEF Frame, Same
<1> HIDE DEF f, h
<1>6. /\ fs \in Seq(Frame) /\ Len(fs) = Len(stack)
      /\ AllSame(stack, fs, Len(stack))
    BY <1>2, <1>5, SeqExcept DEF AllSame, Same
<1>7. cs \in Seq(Context) /\ Backs(f, ctxs, cs)
    BY <1>2, <1>3, BranchBacks DEF Boxed
<1>8. ms = IF f.metered THEN Append(meters, NewMeter(HookGas)) ELSE meters
    BY <1>3
<1> HIDE DEF fs, cs, ms
<1> QED
    BY <1>1, <1>2, <1>3, <1>6, <1>7, <1>8, CallMade

DropsFrame(fs, gs) ==
    /\ Len(gs) = Len(fs) - 1
    /\ AllSame(fs, gs, Len(fs) - 1)

DropsWrite(f, cs, ds, r) ==
    IF Boxed(f)
    THEN /\ Len(ds) = Len(cs) - 1
         /\ r # "ok" => Below(cs, ds, Len(cs) - 1)
         /\ r = "ok" =>
               /\ Below(cs, ds, Len(cs) - 2)
               /\ ds[Len(cs) - 1].store.writes = cs[Len(cs)].store.writes
               /\ ds[Len(cs) - 1].events = cs[Len(cs) - 1].events \o cs[Len(cs)].events
    ELSE Len(ds) = Len(cs) /\ Below(cs, ds, Len(cs))

Spent(m) == IF m.used > m.limit THEN m.limit ELSE m.used

DropsGas(f, ms, ns, r) ==
    /\ ns \in Seq(Meter)
    /\ IF f.metered
       THEN /\ Len(ns) = Len(ms) - 1
            /\ \A i \in 1 .. Len(ms) - 2 : ns[i] = ms[i]
            /\ ns[Len(ms) - 1].limit = ms[Len(ms) - 1].limit
            /\ r # "panic" =>
                  ns[Len(ms) - 1].used = ms[Len(ms) - 1].used + Spent(ms[Len(ms)])
       ELSE ns = ms

\* Call f returned r and its caller goes on with s, its meters being ns.
Resumes(f, r, s, ns) ==
    /\ s \in {"none", "err", "oog", "panic"}
    /\ s = "none" => r = "ok" \/ (Optional(f) /\ r # "panic" /\ (r = "oog" => f.metered))
    /\ r = "ok" => s = "none" \/ (s = "oog" /\ f.how = "hook")
    /\ s = "err" => f.how # "hook" /\ (r = "err" \/ (r = "oog" /\ f.metered))
    /\ s = "oog" => f.how = "hook" \/ (r = "oog" /\ ~f.metered)
    /\ s = "none" /\ f.how = "hook" => ns[Len(ns)].used <= ns[Len(ns)].limit

\* The innermost call returns.
Returned ==
    /\ stack # <<>> /\ Top.how # "tx" /\ ret # "none"
    /\ DropsFrame(stack, stack')
    /\ log' = Settled(IF ret = "ok" THEN "ok" ELSE "failed")
    /\ DropsWrite(Top, ctxs, ctxs', ret)
    /\ DropsGas(Top, meters, meters', ret)
    /\ Resumes(Top, ret, ret', meters')

LEMMA BillEffect ==
    ASSUME NEW ms \in Seq(Meter), Len(ms) >= 2
    PROVE  /\ Front(ms) \in Seq(Meter) /\ Bill(ms) \in Seq(Meter)
           /\ Len(Front(ms)) = Len(ms) - 1 /\ Len(Bill(ms)) = Len(ms) - 1
           /\ \A i \in 1 .. Len(ms) - 1 : Front(ms)[i] = ms[i]
           /\ \A i \in 1 .. Len(ms) - 2 : Bill(ms)[i] = ms[i]
           /\ Bill(ms)[Len(ms) - 1].limit = ms[Len(ms) - 1].limit
           /\ Bill(ms)[Len(ms) - 1].used = ms[Len(ms) - 1].used + Spent(ms[Len(ms)])
<1> DEFINE n == Len(ms)
           base == Front(ms)
           spent == Spent(ms[n])
<1>1. n \in Nat /\ n - 1 \in Nat /\ 1 \in Int
    BY SeqLen
<1>2. \A i \in 1 .. n - 1 : ms[i] \in Meter
    BY <1>1, SeqElement
<1>3. base = SubSeq(ms, 1, n - 1)
    BY DEF Front
<1>4. /\ base \in Seq(Meter) /\ Len(base) = n - 1
      /\ \A i \in 1 .. n - 1 : base[i] = ms[i]
    BY <1>1, <1>2, <1>3, SeqPart
<1>5. spent \in Nat
  <2>1. n \in 1 .. Len(ms)
      BY <1>1
  <2>2. ms[n] \in Meter
      BY <2>1, SeqElement
  <2> QED
      BY <2>2 DEF Meter, Spent
<1>6. Bill(ms) = ConsumeGas(base, spent)
    BY DEF Bill, OutOfGas, Last, Spent
<1> HIDE DEF spent, base
<1>7. Len(base) >= 1
    BY <1>1, <1>4
<1>8. /\ ConsumeGas(base, spent) \in Seq(Meter)
      /\ Len(ConsumeGas(base, spent)) = n - 1
      /\ \A i \in 1 .. n - 2 : ConsumeGas(base, spent)[i] = base[i]
      /\ ConsumeGas(base, spent)[n - 1].used = base[n - 1].used + spent
      /\ ConsumeGas(base, spent)[n - 1].limit = base[n - 1].limit
  <2>1. /\ ConsumeGas(base, spent) \in Seq(Meter)
        /\ Len(ConsumeGas(base, spent)) = Len(base)
        /\ \A i \in 1 .. Len(base) - 1 : ConsumeGas(base, spent)[i] = base[i]
        /\ ConsumeGas(base, spent)[Len(base)].used = base[Len(base)].used + spent
        /\ ConsumeGas(base, spent)[Len(base)].limit = base[Len(base)].limit
      BY <1>4, <1>5, <1>7, ConsumeEffect
  <2>2. Len(base) - 1 = n - 2
      BY <1>1, <1>4
  <2> QED
      BY <2>1, <2>2, <1>4
<1>9. n - 1 \in 1 .. n - 1 /\ \A i \in 1 .. n - 2 : i \in 1 .. n - 1
    BY <1>1
<1> QED
    BY <1>4, <1>6, <1>8, <1>9 DEF base, spent

LEMMA BackEffect ==
    ASSUME NEW cs \in Seq(Context), Len(cs) >= 2, NEW f, Boxed(f), NEW ds, NEW r,
           ds = IF r = "ok" THEN WriteBack(cs) ELSE Discard(cs)
    PROVE  DropsWrite(f, cs, ds, r)
<1> DEFINE n == Len(cs)
<1>1. n \in Nat
    BY SeqLen
<1>2. CASE r # "ok"
  <2>1. Len(ds) = n - 1 /\ \A i \in 1 .. n - 1 : ds[i] = cs[i]
      BY <1>2, DiscardEffect
  <2> QED
      BY <1>2, <2>1 DEF DropsWrite, Below
<1>3. CASE r = "ok"
  <2>1. /\ Len(ds) = n - 1 /\ ds[n - 1].store = cs[n].store
        /\ \A i \in 1 .. n - 2 : ds[i] = cs[i]
      BY <1>3, WriteBackEffect
  <2>2. ds[n - 1].events = cs[n - 1].events \o cs[n].events
    <3> DEFINE base == SubSeq(cs, 1, n - 2)
               c == [store |-> Last(cs).store, events |-> cs[n - 1].events \o Last(cs).events]
               k == n - 2
    <3>1. k \in Nat /\ 1 \in Int /\ \A i \in 1 .. k : cs[i] \in Context
        BY <1>1, SeqElement
    <3>2. base \in Seq(Context) /\ Len(base) = k
      <4> HIDE DEF k
      <4>1. SubSeq(cs, 1, k) \in Seq(Context) /\ Len(SubSeq(cs, 1, k)) = k
          BY <3>1, SeqPart
      <4> QED
          BY <4>1 DEF k
    <3>3. ds = Append(base, c)
        BY <1>3 DEF WriteBack
    <3>4. c.events = cs[n - 1].events \o cs[n].events
        BY DEF Last
    <3> HIDE DEF c, base
    <3>5. ds[Len(base) + 1] = c
        BY <3>2, <3>3, SeqAppend
    <3>6. Len(base) + 1 = n - 1
        BY <1>1, <3>2
    <3> QED
        BY <3>4, <3>5, <3>6
  <2> QED
      BY <1>3, <2>1, <2>2 DEF DropsWrite, Below
<1> QED
    BY <1>2, <1>3

\* What all returns have in common.
LEMMA ReturnBasics ==
    ASSUME IInv, MetersOpen, stack # <<>>, Top.how # "tx"
    PROVE  /\ Len(stack) \in Nat /\ Len(stack) >= 2 /\ Len(ctxs) >= 2
           /\ ctxs \in Seq(Context) /\ Top \in Frame /\ meters \in Seq(Meter)
           /\ ret \in {"none", "ok", "err", "oog", "panic"}
           /\ Front(stack) \in Seq(Frame) /\ Len(Front(stack)) = Len(stack) - 1
           /\ \A i \in 1 .. Len(stack) - 1 : Front(stack)[i] = stack[i]
           /\ DropsFrame(stack, Front(stack))
<1>1. /\ Len(stack) \in Nat /\ Len(stack) >= 2 /\ Front(stack) \in Seq(Frame)
      /\ Len(Front(stack)) = Len(stack) - 1
      /\ \A i \in 1 .. Len(stack) - 1 : Front(stack)[i] = stack[i]
    BY CallerFrames
<1>2. Len(ctxs) >= 2 /\ Top \in Frame
    BY TopFrame
<1>3. DropsFrame(stack, Front(stack))
    BY <1>1 DEF DropsFrame, AllSame, Same
<1> QED
    BY <1>1, <1>2, <1>3 DEF IInv, Typed, MetersOpen

LEMMA SameBelow ==
    ASSUME NEW f, ~Boxed(f), NEW cs, NEW r PROVE DropsWrite(f, cs, cs, r)
    BY DEF DropsWrite, Below

LEMMA ReturnMsgReturns == ASSUME IInv, MetersOpen, ReturnMsg PROVE Returned
<1>1. /\ stack # <<>> /\ Top.how = "msg" /\ ret # "none" /\ stack' = Front(stack)
      /\ ctxs' = ctxs /\ meters' = meters /\ ret' = IF ret = "ok" THEN "none" ELSE ret
      /\ log' = Settled(IF ret = "ok" THEN "ok" ELSE "failed")
    BY DEF ReturnMsg, Returning
<1>2. DropsWrite(Top, ctxs, ctxs', ret)
    BY <1>1, SameBelow DEF Boxed
<1>3. DropsGas(Top, meters, meters', ret) /\ ~Top.metered
    BY <1>1 DEF MetersOpen, DropsGas
<1>4. Resumes(Top, ret, ret', meters')
    BY <1>1, <1>3, ReturnBasics DEF Resumes
<1> QED
    BY <1>1, <1>2, <1>3, <1>4, ReturnBasics DEF Returned

LEMMA ReturnReplyReturns == ASSUME IInv, MetersOpen, ReturnReply PROVE Returned
<1> DEFINE fs == Front(stack)
           n == Len(stack) - 1
           h == [fs[n] EXCEPT !.data = @ \/ (ret = "ok" /\ Top.data)]
<1>1. /\ stack # <<>> /\ Top.how = "reply" /\ ret # "none" /\ stack' = [fs EXCEPT ![n] = h]
      /\ ctxs' = ctxs /\ meters' = meters /\ ret' = IF ret = "ok" THEN "none" ELSE ret
      /\ log' = Settled(IF ret = "ok" THEN "ok" ELSE "failed")
    BY DEF ReturnReply, Returning
<1>2. DropsWrite(Top, ctxs, ctxs', ret)
    BY <1>1, SameBelow DEF Boxed
<1>3. DropsGas(Top, meters, meters', ret) /\ ~Top.metered
    BY <1>1 DEF MetersOpen, DropsGas
<1>4. Resumes(Top, ret, ret', meters')
    BY <1>1, <1>3, ReturnBasics DEF Resumes
<1>5. /\ fs \in Seq(Frame) /\ Len(fs) = n /\ n \in 1 .. Len(fs)
      /\ \A i \in 1 .. n : fs[i] = stack[i]
    BY <1>1, ReturnBasics
<1>6. fs[n] \in Frame
    BY <1>5, SeqElement
<1>7. Same(h, fs[n])
    BY <1>6 DEF Frame, Same
<1> HIDE DEF h, fs
<1>8. Len(stack') = n /\ \A i \in 1 .. n : stack'[i] = IF i = n THEN h ELSE stack[i]
    BY <1>1, <1>5
<1>9. DropsFrame(stack, stack')
    BY <1>5, <1>7, <1>8 DEF DropsFrame, AllSame, Same
<1> QED
    BY <1>1, <1>2, <1>3, <1>4, <1>9 DEF Returned

LEMMA ReturnSubReturns == ASSUME IInv, MetersOpen, ReturnSub PROVE Returned
<1> DEFINE fs == Front(stack)
           n == Len(stack) - 1
           caught == ret = "oog" /\ Top.metered
           failed == ret = "err" \/ caught
           due == \/ ret = "ok" /\ Top.replyOn \in {"success", "always"}
                  \/ failed /\ Top.replyOn \in {"error", "always"}
           h == [fs[n] EXCEPT !.reply = due]
<1>1. /\ stack # <<>> /\ Top.how = "sub" /\ ret # "none" /\ stack' = [fs EXCEPT ![n] = h]
      /\ ctxs' = IF ret = "ok" THEN WriteBack(ctxs) ELSE Discard(ctxs)
      /\ meters' = IF Top.metered THEN Bill(meters) ELSE meters
      /\ ret' = IF ret = "ok" \/ due THEN "none" ELSE IF failed THEN "err" ELSE ret
      /\ log' = Settled(IF ret = "ok" THEN "ok" ELSE "failed")
    BY DEF ReturnSub, Returning
<1>2. DropsWrite(Top, ctxs, ctxs', ret)
  <2>1. Boxed(Top) /\ ctxs \in Seq(Context) /\ Len(ctxs) >= 2
      BY <1>1, ReturnBasics DEF Boxed
  <2> QED
      BY <1>1, <2>1, BackEffect
<1>3. DropsGas(Top, meters, meters', ret)
  <2>1. CASE Top.metered
    <3>1. meters \in Seq(Meter) /\ Len(meters) >= 2 /\ meters' = Bill(meters)
        BY <1>1, <2>1 DEF MetersOpen
    <3> QED
        BY <2>1, <3>1, BillEffect DEF DropsGas
  <2>2. CASE ~Top.metered
      BY <1>1, <2>2 DEF MetersOpen, DropsGas
  <2> QED
      BY <2>1, <2>2
<1>4. Resumes(Top, ret, ret', meters')
  <2>1. ret \in {"none", "ok", "err", "oog", "panic"} /\ Top.metered \in BOOLEAN
      BY <1>1, ReturnBasics DEF Frame
  <2> QED
      BY <1>1, <2>1 DEF Resumes, Optional
<1>5. /\ fs \in Seq(Frame) /\ Len(fs) = n /\ n \in 1 .. Len(fs)
      /\ \A i \in 1 .. n : fs[i] = stack[i]
    BY <1>1, ReturnBasics
<1>6. fs[n] \in Frame
    BY <1>5, SeqElement
<1>7. Same(h, fs[n])
    BY <1>6 DEF Frame, Same
<1> HIDE DEF h, fs
<1>8. Len(stack') = n /\ \A i \in 1 .. n : stack'[i] = IF i = n THEN h ELSE stack[i]
    BY <1>1, <1>5
<1>9. DropsFrame(stack, stack')
    BY <1>5, <1>7, <1>8 DEF DropsFrame, AllSame, Same
<1> QED
    BY <1>1, <1>2, <1>3, <1>4, <1>9 DEF Returned

LEMMA ReturnHookReturns == ASSUME IInv, MetersOpen, ReturnHook PROVE Returned
<1>1. /\ stack # <<>> /\ Top.how = "hook" /\ ret # "none" /\ stack' = Front(stack)
      /\ ctxs' = IF ret = "ok" THEN WriteBack(ctxs) ELSE Discard(ctxs)
      /\ meters' = IF ret = "panic" THEN Front(meters) ELSE Bill(meters)
      /\ ret' = IF ret = "panic" THEN ret
                ELSE IF OutOfGas(Bill(meters)) THEN "oog" ELSE "none"
      /\ log' = Settled(IF ret = "ok" THEN "ok" ELSE "failed")
    BY DEF ReturnHook, Returning
<1>2. DropsWrite(Top, ctxs, ctxs', ret)
  <2>1. Boxed(Top) /\ ctxs \in Seq(Context) /\ Len(ctxs) >= 2
      BY <1>1, ReturnBasics DEF Boxed
  <2> QED
      BY <1>1, <2>1, BackEffect
<1>3. Top.metered /\ meters \in Seq(Meter) /\ Len(meters) >= 2
    BY <1>1 DEF MetersOpen
<1>4. DropsGas(Top, meters, meters', ret)
  <2>1. Len(meters) \in Nat /\ Len(meters) - 1 \in 1 .. Len(meters) - 1
      BY <1>3, SeqLen
  <2>2. \A i \in 1 .. Len(meters) - 2 : i \in 1 .. Len(meters) - 1
      BY <2>1
  <2> QED
      BY <1>1, <1>3, <2>1, <2>2, BillEffect DEF DropsGas
<1>5. ret' = "none" => meters'[Len(meters')].used <= meters'[Len(meters')].limit
  <2>1. SUFFICES ASSUME ret' = "none"
                 PROVE  meters'[Len(meters')].used <= meters'[Len(meters')].limit
      OBVIOUS
  <2>2. meters' = Bill(meters) /\ ~OutOfGas(Bill(meters))
      BY <1>1, <2>1
  <2>3. Bill(meters) \in Seq(Meter) /\ Len(Bill(meters)) = Len(meters) - 1
      BY <1>3, BillEffect
  <2> DEFINE ms == Bill(meters)
  <2>4. ~(ms[Len(ms)].used > ms[Len(ms)].limit)
      BY <2>2 DEF OutOfGas, Last
  <2>5. Len(ms) \in 1 .. Len(ms)
      BY <1>3, <2>3, SeqLen
  <2> HIDE DEF ms
  <2>6. ms[Len(ms)] \in Meter
      BY <2>3, <2>5, SeqElement DEF ms
  <2>7. ms[Len(ms)].used <= ms[Len(ms)].limit
      BY <2>4, <2>6 DEF Meter
  <2> QED
      BY <2>2, <2>7 DEF ms
<1>6. Resumes(Top, ret, ret', meters')
  <2>1. ret \in {"none", "ok", "err", "oog", "panic"}
      BY <1>1, ReturnBasics
  <2> QED
      BY <1>1, <1>3, <1>5, <2>1 DEF Resumes, Optional
<1> QED
    BY <1>1, <1>2, <1>4, <1>6, ReturnBasics DEF Returned

LEMMA ReturnRecvReturns == ASSUME IInv, MetersOpen, ReturnRecv PROVE Returned
<1> DEFINE base == IF ret = "ok" THEN WriteBack(ctxs) ELSE Discard(ctxs)
           n == Len(base)
           A == IF ret = "err" \/ (ret = "ok" /\ Top.data)
                THEN base[n].store.acks \cup Top.packets ELSE base[n].store.acks
           P == IF ret = "ok" /\ ~Top.data
                THEN base[n].store.pending \cup Top.packets ELSE base[n].store.pending
           c == [base[n] EXCEPT !.store = [@ EXCEPT !.acks = A, !.pending = P]]
<1>1. /\ stack # <<>> /\ Top.how = "recv" /\ ret # "none" /\ stack' = Front(stack)
      /\ ctxs' = [base EXCEPT ![n].store.acks = A, ![n].store.pending = P]
      /\ meters' = meters /\ ret' = IF ret \in {"ok", "err"} THEN "none" ELSE ret
      /\ log' = Settled(IF ret = "ok" THEN "ok" ELSE "failed")
    BY DEF ReturnRecv, Returning
<1>2. DropsWrite(Top, ctxs, base, ret)
  <2>1. Boxed(Top) /\ ctxs \in Seq(Context) /\ Len(ctxs) >= 2
      BY <1>1, ReturnBasics DEF Boxed
  <2>2. base = IF ret = "ok" THEN WriteBack(ctxs) ELSE Discard(ctxs)
      OBVIOUS
  <2> HIDE DEF base
  <2> QED
      BY <2>1, <2>2, BackEffect
<1>3. base \in Seq(Context) /\ Len(base) = Len(ctxs) - 1
    BY <1>1, ReturnBasics, WriteBackEffect, DiscardEffect
<1>4. Len(ctxs) \in Nat /\ Len(ctxs) >= 2
    BY <1>1, ReturnBasics, SeqLen
<1> HIDE DEF base
<1>5. n \in 1 .. Len(base) /\ base[n] \in Context
    BY <1>3, <1>4, SeqElement
<1>6. ctxs' = [base EXCEPT ![n] = c]
    BY <1>1, <1>3, <1>5
<1>7. c.store.writes = base[n].store.writes /\ c.events = base[n].events
    BY <1>5 DEF Context, Store
<1> HIDE DEF c, A, P
<1>8. Len(ctxs') = Len(base) /\ Below(base, ctxs', Len(base))
    BY <1>3, <1>5, <1>6, <1>7 DEF Below
<1>9. DropsWrite(Top, ctxs, ctxs', ret)
  <2>1. Boxed(Top)
      BY <1>1 DEF Boxed
  <2>2. \A i \in 1 .. Len(ctxs) - 2 : i \in 1 .. Len(base)
      BY <1>3, <1>4
  <2>3. Len(ctxs) - 1 \in 1 .. Len(base)
      BY <1>3, <1>4
  <2> QED
      BY <1>2, <1>3, <1>8, <2>1, <2>2, <2>3 DEF DropsWrite, Below
<1>10. DropsGas(Top, meters, meters', ret) /\ ~Top.metered
    BY <1>1 DEF MetersOpen, DropsGas
<1>11. Resumes(Top, ret, ret', meters')
  <2>1. ret \in {"none", "ok", "err", "oog", "panic"}
      BY <1>1, ReturnBasics
  <2> QED
      BY <1>1, <1>10, <2>1 DEF Resumes, Optional
<1> QED
    BY <1>1, <1>9, <1>10, <1>11, ReturnBasics DEF Returned

-----------------------------------------------------------------------------
(***************************************************************************)
(* Events and writes.                                                      *)
(***************************************************************************)

\* In a context with writes W and events E on top of one with writes V, every
\* event is that of a write made in it; n calls were made so far.
Level(V, W, E, n) ==
    /\ IsInjective(E)
    /\ Range(E) \subseteq W \ V
    /\ V \subseteq W
    /\ W \subseteq 1 .. n

\* Every write made in it has its event.
Told(V, W, E) == W \ V \subseteq Range(E)

\* EventsFollowWrites is inductive only with what it leaves out: contexts build
\* on one another, ids are not used again, and a write without its event is in
\* the innermost context, which is dropped with the failing call.
Emitted(cs, r, n) ==
    \A i \in 2 .. Len(cs) :
        /\ Level(cs[i - 1].store.writes, cs[i].store.writes, cs[i].events, n)
        /\ i < Len(cs) \/ Clean(r) =>
              Told(cs[i - 1].store.writes, cs[i].store.writes, cs[i].events)

LEMMA LevelLater ==
    ASSUME NEW n \in Nat, NEW V, NEW W, NEW E, Level(V, W, E, n)
    PROVE  Level(V, W, E, n + 1)
<1>1. 1 .. n \subseteq 1 .. n + 1
    OBVIOUS
<1> QED
    BY <1>1 DEF Level

LEMMA LevelBegins ==
    ASSUME NEW n \in Nat, NEW V, V \subseteq 1 .. n
    PROVE  Level(V, V, <<>>, n) /\ Told(V, V, <<>>)
    BY DEF Level, Told, IsInjective, Range

LEMMA RangeAppend ==
    ASSUME NEW E \in Seq(Nat), NEW e \in Nat
    PROVE  /\ Range(Append(E, e)) = Range(E) \cup {e}
           /\ IsInjective(E) /\ e \notin Range(E) => IsInjective(Append(E, e))
<1> DEFINE F == Append(E, e)
           n == Len(E)
<1>1. /\ n \in Nat /\ DOMAIN E = 1 .. n /\ DOMAIN F = 1 .. n + 1 /\ F[n + 1] = e
      /\ \A i \in 1 .. n : F[i] = E[i]
    BY SeqAppend, SeqLen
<1> HIDE DEF F, n
<1>2. Range(F) = Range(E) \cup {e}
  <2>1. ASSUME NEW x \in Range(F) PROVE x \in Range(E) \cup {e}
    <3>1. PICK i \in 1 .. n + 1 : x = F[i]
        BY <1>1 DEF Range
    <3>2. i = n + 1 \/ i \in 1 .. n
        BY <1>1
    <3> QED
        BY <1>1, <3>1, <3>2 DEF Range
  <2>2. ASSUME NEW x \in Range(E) \cup {e} PROVE x \in Range(F)
    <3>1. n + 1 \in 1 .. n + 1 /\ \A i \in 1 .. n : i \in 1 .. n + 1
        BY <1>1
    <3> QED
        BY <1>1, <3>1 DEF Range
  <2> QED
      BY <2>1, <2>2
<1>3. ASSUME IsInjective(E), e \notin Range(E), NEW i \in 1 .. n + 1, NEW j \in 1 .. n + 1,
             F[i] = F[j]
      PROVE  i = j
  <2>1. (i = n + 1 \/ i \in 1 .. n) /\ (j = n + 1 \/ j \in 1 .. n)
      BY <1>1
  <2>2. \A k \in 1 .. n : F[k] \in Range(E)
      BY <1>1 DEF Range
  <2>3. CASE i \in 1 .. n /\ j \in 1 .. n
      BY <1>1, <1>3, <2>3 DEF IsInjective
  <2> QED
      BY <1>1, <1>3, <2>1, <2>2, <2>3
<1> QED
    BY <1>1, <1>2, <1>3 DEF IsInjective, F

LEMMA RangeConcat ==
    ASSUME NEW E \in Seq(Nat), NEW F \in Seq(Nat)
    PROVE  /\ Range(E \o F) = Range(E) \cup Range(F)
           /\ IsInjective(E) /\ IsInjective(F) /\ Range(E) \cap Range(F) = {} =>
                 IsInjective(E \o F)
<1> DEFINE G == E \o F
           m == Len(E)
           n == Len(F)
<1>1. /\ m \in Nat /\ n \in Nat /\ DOMAIN E = 1 .. m /\ DOMAIN F = 1 .. n
      /\ DOMAIN G = 1 .. m + n
      /\ \A i \in 1 .. m + n : G[i] = IF i <= m THEN E[i] ELSE F[i - m]
    BY SeqConcat, SeqLen
<1> HIDE DEF G, m, n
<1>2. \A i \in 1 .. m : i \in 1 .. m + n /\ G[i] = E[i]
    BY <1>1
<1>3. \A i \in 1 .. n : m + i \in 1 .. m + n /\ G[m + i] = F[i]
    BY <1>1
<1>4. \A i \in 1 .. m + n : i \in 1 .. m \/ \E k \in 1 .. n : i = m + k
  <2> SUFFICES ASSUME NEW i \in 1 .. m + n, i \notin 1 .. m PROVE \E k \in 1 .. n : i = m + k
      OBVIOUS
  <2>1. i - m \in 1 .. n /\ i = m + (i - m)
      BY <1>1
  <2> QED
      BY <2>1
<1>5. Range(G) = Range(E) \cup Range(F)
  <2>1. ASSUME NEW x \in Range(G) PROVE x \in Range(E) \cup Range(F)
    <3>1. PICK i \in 1 .. m + n : x = G[i]
        BY <1>1 DEF Range
    <3>2. CASE i \in 1 .. m
      <4>1. x = E[i]
          BY <1>2, <3>1, <3>2
      <4> QED
          BY <1>1, <3>2, <4>1 DEF Range
    <3>3. CASE \E k \in 1 .. n : i = m + k
      <4>1. PICK k \in 1 .. n : i = m + k
          BY <3>3
      <4>2. x = F[k]
          BY <1>3, <3>1, <4>1
      <4> QED
          BY <1>1, <4>2 DEF Range
    <3> QED
        BY <1>4, <3>2, <3>3
  <2>2. ASSUME NEW x \in Range(E) PROVE x \in Range(G)
    <3>1. PICK i \in 1 .. m : x = E[i]
        BY <1>1 DEF Range
    <3>2. i \in 1 .. m + n /\ x = G[i]
        BY <1>2, <3>1
    <3> QED
        BY <1>1, <3>2 DEF Range
  <2>3. ASSUME NEW x \in Range(F) PROVE x \in Range(G)
    <3>1. PICK i \in 1 .. n : x = F[i]
        BY <1>1 DEF Range
    <3>2. m + i \in 1 .. m + n /\ x = G[m + i]
        BY <1>3, <3>1
    <3> QED
        BY <1>1, <3>2 DEF Range
  <2> QED
      BY <2>1, <2>2, <2>3
<1>6. ASSUME IsInjective(E), IsInjective(F), Range(E) \cap Range(F) = {},
             NEW i \in 1 .. m + n, NEW j \in 1 .. m + n, G[i] = G[j]
      PROVE  i = j
  <2>1. \A k \in 1 .. m : E[k] \in Range(E)
      BY <1>1 DEF Range
  <2>2. \A k \in 1 .. n : F[k] \in Range(F)
      BY <1>1 DEF Range
  <2>3. CASE i \in 1 .. m /\ j \in 1 .. m
      BY <1>1, <1>2, <1>6, <2>3 DEF IsInjective
  <2>4. CASE i \notin 1 .. m /\ j \notin 1 .. m
    <3>1. PICK k \in 1 .. n : i = m + k
        BY <1>4, <2>4
    <3>2. PICK l \in 1 .. n : j = m + l
        BY <1>4, <2>4
    <3>3. F[k] = F[l]
        BY <1>3, <1>6, <3>1, <3>2
    <3> QED
        BY <1>1, <1>6, <3>1, <3>2, <3>3 DEF IsInjective
  <2>5. CASE i \in 1 .. m /\ j \notin 1 .. m
      BY <1>2, <1>3, <1>4, <1>6, <2>1, <2>2, <2>5
  <2>6. CASE i \notin 1 .. m /\ j \in 1 .. m
      BY <1>2, <1>3, <1>4, <1>6, <2>1, <2>2, <2>6
  <2> QED
      BY <2>3, <2>4, <2>5, <2>6
<1> QED
    BY <1>1, <1>5, <1>6 DEF IsInjective, G

\* A call adds its write and, if it goes well, its event.
LEMMA LevelCalls ==
    ASSUME NEW n \in Nat, NEW V, NEW W, NEW E \in Seq(Nat), Level(V, W, E, n), Told(V, W, E),
           NEW d, NEW r, Records(n + 1, W, E, d, r)
    PROVE  /\ Level(V, d.store.writes, d.events, n + 1)
           /\ Clean(r) => Told(V, d.store.writes, d.events)
<1>1. n + 1 \notin W /\ n + 1 \notin V /\ n + 1 \notin Range(E) /\ n + 1 \in Nat
  <2>1. n + 1 \notin 1 .. n
      OBVIOUS
  <2> QED
      BY <2>1 DEF Level
<1>2. 1 .. n + 1 = (1 .. n) \cup {n + 1}
    OBVIOUS
<1> DEFINE e == n + 1
<1>3. /\ Range(Append(E, e)) = Range(E) \cup {e}
      /\ IsInjective(Append(E, e))
    BY <1>1, RangeAppend DEF Level
<1> HIDE DEF e
<1>4. CASE r = "none" /\ d.store.writes = W \cup {e} /\ d.events = Append(E, e)
    BY <1>1, <1>2, <1>3, <1>4 DEF Level, Told, e
<1>5. CASE ~Clean(r) /\ d.store.writes \in {W, W \cup {e}} /\ d.events = E
    BY <1>1, <1>2, <1>5 DEF Level, e
<1> QED
    BY <1>4, <1>5 DEF Records, e

\* A cache that is written back passes its writes and events on.
LEMMA LevelJoins ==
    ASSUME NEW n, NEW U, NEW V, NEW W, NEW E \in Seq(Nat), NEW F \in Seq(Nat),
           Level(U, V, E, n), Told(U, V, E), Level(V, W, F, n), Told(V, W, F)
    PROVE  Level(U, W, E \o F, n) /\ Told(U, W, E \o F)
<1>1. Range(E) \cap Range(F) = {}
    BY DEF Level
<1>2. Range(E \o F) = Range(E) \cup Range(F) /\ IsInjective(E \o F)
    BY <1>1, RangeConcat DEF Level
<1> QED
    BY <1>2 DEF Level, Told

LEMMA CallEmits ==
    ASSUME NEW n \in Nat, NEW cs \in Seq(Context), Len(cs) >= 2, Emitted(cs, "none", n),
           NEW g, g.id = n + 1, NEW ds, NEW r, AddsWrite(g, cs, ds, r)
    PROVE  Emitted(ds, r, n + 1)
<1> DEFINE m == Len(cs)
           W(i) == cs[i].store.writes
<1>1. m \in Nat /\ m \in 2 .. m
    BY SeqLen
<1>2. \A i \in 2 .. m : Level(W(i - 1), W(i), cs[i].events, n) /\ Told(W(i - 1), W(i), cs[i].events)
    BY DEF Emitted, Clean
<1>3. \A i \in 2 .. m : Level(W(i - 1), W(i), cs[i].events, n + 1)
    BY <1>2, LevelLater
<1>4. cs[m].events \in Seq(Nat)
  <2>1. cs[m] \in Context
      BY <1>1, SeqElement
  <2> QED
      BY <2>1 DEF Context
<1>5. CASE Boxed(g)
  <2>1. /\ Len(ds) = m + 1 /\ Below(cs, ds, m)
        /\ Records(n + 1, W(m), <<>>, ds[m + 1], r)
      BY <1>5 DEF AddsWrite
  <2>2. W(m) \subseteq 1 .. n
      BY <1>1, <1>2 DEF Level
  <2>3. /\ Level(W(m), ds[m + 1].store.writes, ds[m + 1].events, n + 1)
        /\ Clean(r) => Told(W(m), ds[m + 1].store.writes, ds[m + 1].events)
    <3>1. Level(W(m), W(m), <<>>, n) /\ Told(W(m), W(m), <<>>) /\ <<>> \in Seq(Nat)
        BY <2>2, LevelBegins
    <3> DEFINE V == W(m)
               d == ds[m + 1]
    <3>2. Records(n + 1, V, <<>>, d, r)
        BY <2>1
    <3> HIDE DEF V, d
    <3> QED
        BY <3>1, <3>2, LevelCalls DEF V, d
  <2> SUFFICES ASSUME NEW i \in 2 .. Len(ds)
               PROVE  /\ Level(ds[i - 1].store.writes, ds[i].store.writes, ds[i].events, n + 1)
                      /\ i < Len(ds) \/ Clean(r) =>
                            Told(ds[i - 1].store.writes, ds[i].store.writes, ds[i].events)
      BY DEF Emitted
  <2>4. CASE i = m + 1
    <3>1. i - 1 = m /\ m \in 1 .. m /\ ~(i < Len(ds))
        BY <1>1, <2>1, <2>4
    <3>2. ds[i - 1].store.writes = W(m)
        BY <2>1, <3>1 DEF Below
    <3> QED
        BY <2>3, <2>4, <3>1, <3>2
  <2>5. CASE i # m + 1
    <3>1. i \in 2 .. m /\ i \in 1 .. m /\ i - 1 \in 1 .. m
        BY <1>1, <2>1, <2>5
    <3>2. /\ ds[i - 1].store.writes = W(i - 1) /\ ds[i].store.writes = W(i)
          /\ ds[i].events = cs[i].events
        BY <2>1, <3>1 DEF Below
    <3> QED
        BY <1>2, <1>3, <3>1, <3>2
  <2> QED
      BY <2>4, <2>5
<1>6. CASE ~Boxed(g)
  <2>1. /\ Len(ds) = m /\ Below(cs, ds, m - 1)
        /\ Records(n + 1, W(m), cs[m].events, ds[m], r)
      BY <1>6 DEF AddsWrite
  <2>2. /\ Level(W(m - 1), ds[m].store.writes, ds[m].events, n + 1)
        /\ Clean(r) => Told(W(m - 1), ds[m].store.writes, ds[m].events)
    <3>1. Level(W(m - 1), W(m), cs[m].events, n) /\ Told(W(m - 1), W(m), cs[m].events)
        BY <1>1, <1>2
    <3> DEFINE U == W(m - 1)
               V == W(m)
               E == cs[m].events
               d == ds[m]
    <3>2. Records(n + 1, V, E, d, r) /\ E \in Seq(Nat)
        BY <1>4, <2>1
    <3> HIDE DEF U, V, E, d
    <3> QED
        BY <3>1, <3>2, LevelCalls DEF U, V, E, d
  <2> SUFFICES ASSUME NEW i \in 2 .. Len(ds)
               PROVE  /\ Level(ds[i - 1].store.writes, ds[i].store.writes, ds[i].events, n + 1)
                      /\ i < Len(ds) \/ Clean(r) =>
                            Told(ds[i - 1].store.writes, ds[i].store.writes, ds[i].events)
      BY DEF Emitted
  <2>3. CASE i = m
    <3>1. i - 1 \in 1 .. m - 1 /\ ~(i < Len(ds))
        BY <1>1, <2>1, <2>3
    <3>2. ds[i - 1].store.writes = W(m - 1)
        BY <2>1, <2>3, <3>1 DEF Below
    <3> QED
        BY <2>2, <2>3, <3>1, <3>2
  <2>4. CASE i # m
    <3>1. i \in 2 .. m /\ i \in 1 .. m - 1 /\ i - 1 \in 1 .. m - 1
        BY <1>1, <2>1, <2>4
    <3>2. /\ ds[i - 1].store.writes = W(i - 1) /\ ds[i].store.writes = W(i)
          /\ ds[i].events = cs[i].events
        BY <2>1, <3>1 DEF Below
    <3> QED
        BY <1>2, <1>3, <3>1, <3>2
  <2> QED
      BY <2>3, <2>4
<1> QED
    BY <1>5, <1>6

LEMMA ReturnEmits ==
    ASSUME NEW n \in Nat, NEW cs \in Seq(Context), Len(cs) >= 2, NEW f, Boxed(f) => Len(cs) >= 3,
           NEW r, Emitted(cs, r, n), NEW ds, DropsWrite(f, cs, ds, r),
           NEW s, ~Boxed(f) /\ Clean(s) => Clean(r)
    PROVE  Emitted(ds, s, n)
<1> DEFINE m == Len(cs)
           W(i) == cs[i].store.writes
<1>1. m \in Nat /\ \A i \in 2 .. m : i \in 1 .. m /\ i - 1 \in 1 .. m
    BY SeqLen
<1>2. \A i \in 2 .. m : /\ Level(W(i - 1), W(i), cs[i].events, n)
                        /\ i < m \/ Clean(r) => Told(W(i - 1), W(i), cs[i].events)
    BY DEF Emitted
<1>3. CASE ~Boxed(f)
  <2>1. Len(ds) = m /\ Below(cs, ds, m)
      BY <1>3 DEF DropsWrite
  <2> SUFFICES ASSUME NEW i \in 2 .. m
               PROVE  /\ Level(ds[i - 1].store.writes, ds[i].store.writes, ds[i].events, n)
                      /\ i < m \/ Clean(s) =>
                            Told(ds[i - 1].store.writes, ds[i].store.writes, ds[i].events)
      BY <2>1 DEF Emitted
  <2> QED
      BY <1>1, <1>2, <1>3, <2>1 DEF Below
<1>4. CASE Boxed(f) /\ r # "ok"
  <2>1. Len(ds) = m - 1 /\ Below(cs, ds, m - 1)
      BY <1>4 DEF DropsWrite
  <2> SUFFICES ASSUME NEW i \in 2 .. m - 1
               PROVE  /\ Level(ds[i - 1].store.writes, ds[i].store.writes, ds[i].events, n)
                      /\ Told(ds[i - 1].store.writes, ds[i].store.writes, ds[i].events)
      BY <2>1 DEF Emitted
  <2>2. i \in 2 .. m /\ i < m /\ i \in 1 .. m - 1 /\ i - 1 \in 1 .. m - 1
      BY <1>1
  <2> QED
      BY <1>2, <2>1, <2>2 DEF Below
<1>5. CASE Boxed(f) /\ r = "ok"
  <2>1. /\ Len(ds) = m - 1 /\ Below(cs, ds, m - 2)
        /\ ds[m - 1].store.writes = W(m)
        /\ ds[m - 1].events = cs[m - 1].events \o cs[m].events
      BY <1>5 DEF DropsWrite
  <2>2. m >= 3 /\ m - 1 \in 2 .. m /\ m \in 2 .. m /\ m - 1 < m /\ (m - 1) - 1 = m - 2
      BY <1>1, <1>5
  <2>3. /\ Level(W(m - 2), W(m - 1), cs[m - 1].events, n)
        /\ Told(W(m - 2), W(m - 1), cs[m - 1].events)
      BY <1>2, <2>2
  <2>4. /\ Level(W(m - 1), W(m), cs[m].events, n)
        /\ Told(W(m - 1), W(m), cs[m].events)
      BY <1>2, <1>5, <2>2 DEF Clean
  <2>5. cs[m].events \in Seq(Nat) /\ cs[m - 1].events \in Seq(Nat)
    <3>1. cs[m] \in Context /\ cs[m - 1] \in Context
        BY <1>1, <2>2, SeqElement
    <3> QED
        BY <3>1 DEF Context
  <2>6. /\ Level(W(m - 2), W(m), cs[m - 1].events \o cs[m].events, n)
        /\ Told(W(m - 2), W(m), cs[m - 1].events \o cs[m].events)
    <3> DEFINE U == W(m - 2)
               V == W(m - 1)
               X == W(m)
               E == cs[m - 1].events
               F == cs[m].events
    <3> HIDE DEF U, V, X, E, F
    <3> QED
        BY <2>3, <2>4, <2>5, LevelJoins DEF U, V, X, E, F
  <2> SUFFICES ASSUME NEW i \in 2 .. m - 1
               PROVE  /\ Level(ds[i - 1].store.writes, ds[i].store.writes, ds[i].events, n)
                      /\ Told(ds[i - 1].store.writes, ds[i].store.writes, ds[i].events)
      BY <2>1 DEF Emitted
  <2>7. CASE i = m - 1
    <3>1. i - 1 = m - 2 /\ m - 2 \in 1 .. m - 2
        BY <1>1, <2>2, <2>7
    <3> QED
        BY <2>1, <2>6, <2>7, <3>1 DEF Below
  <2>8. CASE i # m - 1
    <3>1. i \in 2 .. m /\ i < m /\ i \in 1 .. m - 2 /\ i - 1 \in 1 .. m - 2
        BY <1>1, <2>8
    <3> QED
        BY <1>2, <2>1, <3>1 DEF Below
  <2> QED
      BY <2>7, <2>8
<1> QED
    BY <1>3, <1>4, <1>5

-----------------------------------------------------------------------------
(***************************************************************************)
(* The tree of calls, and which of them take effect.                       *)
(***************************************************************************)

\* The open calls of the log are the running frames, each called by the one
\* below it.
Tree(fs, lg) ==
    /\ fs # <<>> => fs[1].id = 0
    /\ \A i, j \in 1 .. Len(fs) : i < j => fs[i].id < fs[j].id /\ fs[i].ctx <= fs[j].ctx
    /\ \A j \in 2 .. Len(fs) :
          /\ fs[j].id \in 1 .. Len(lg)
          /\ lg[fs[j].id].status = "open"
          /\ lg[fs[j].id].caller = fs[j - 1].id
          /\ lg[fs[j].id].optional <=> Optional(fs[j])
    /\ \A d \in 1 .. Len(lg) :
          /\ lg[d].status = "open" => \E j \in 2 .. Len(fs) : fs[j].id = d
          /\ lg[d].caller < d

\* A call whose caller needs it takes the caller down with it: the caller has
\* failed, or is the innermost one and about to.
Needed(fs, lg, r) ==
    fs # <<>> =>
        \A d \in 1 .. Len(lg) :
            lg[d].status = "failed" /\ ~lg[d].optional =>
                \/ lg[d].caller # 0 /\ lg[lg[d].caller].status = "failed"
                \/ lg[d].caller = fs[Len(fs)].id /\ ~Clean(r)

\* Log lh is lg with call c ended.
Settles(lg, c, status, lh) ==
    /\ Len(lh) = Len(lg)
    /\ \A d \in 1 .. Len(lg) : d # c => lh[d] = lg[d]
    /\ lh[c].status = status /\ lh[c].caller = lg[c].caller
    /\ lh[c].optional = lg[c].optional
    /\ lh[c].ran = lg[c].ran /\ lh[c].nested = lg[c].nested

LEMMA SettledIs ==
    ASSUME NEW lg \in Seq(Entry), NEW c \in 1 .. Len(lg), NEW status \in {"ok", "failed"}
    PROVE  /\ [lg EXCEPT ![c].status = status] \in Seq(Entry)
           /\ Settles(lg, c, status, [lg EXCEPT ![c].status = status])
<1> DEFINE e == [lg[c] EXCEPT !.status = status]
           lh == [lg EXCEPT ![c] = e]
<1>1. lg[c] \in Entry
    BY SeqElement
<1>2. /\ e \in Entry /\ e.status = status /\ e.caller = lg[c].caller
      /\ e.optional = lg[c].optional /\ e.ran = lg[c].ran /\ e.nested = lg[c].nested
    BY <1>1 DEF Entry
<1> HIDE DEF e
<1>3. /\ lh \in Seq(Entry) /\ Len(lh) = Len(lg)
      /\ \A d \in 1 .. Len(lg) : lh[d] = IF d = c THEN e ELSE lg[d]
    BY <1>2, SeqExcept
<1>4. [lg EXCEPT ![c].status = status] = lh
    BY DEF e
<1> HIDE DEF lh
<1> QED
    BY <1>2, <1>3, <1>4 DEF Settles

\* What is appended to the log.
LEMMA EntryAdded ==
    ASSUME NEW lg \in Seq(Entry), NEW g, NEW k, NEW ns, NEW lh, NEW r,
           AddsEntry(g, k, ns, lg, lh, r)
    PROVE  /\ lh \in Seq(Entry) /\ Len(lh) = Len(lg) + 1
           /\ \A d \in 1 .. Len(lg) : lh[d] = lg[d]
           /\ lh[Len(lg) + 1].caller = k
           /\ lh[Len(lg) + 1].optional <=> Optional(g)
           /\ lh[Len(lg) + 1].status = "open"
           /\ lh[Len(lg) + 1].ran <=> r # "oog"
           /\ lh[Len(lg) + 1].nested <=> g.how = "hook" /\ Len(ns) > 2
<1>1. PICK e \in Entry : /\ lh = Append(lg, e)
                         /\ e.caller = k
                         /\ e.optional <=> Optional(g)
                         /\ e.status = "open"
                         /\ e.ran <=> r # "oog"
                         /\ e.nested <=> g.how = "hook" /\ Len(ns) > 2
    BY DEF AddsEntry
<1>2. /\ lh \in Seq(Entry) /\ Len(lh) = Len(lg) + 1 /\ lh[Len(lg) + 1] = e
      /\ \A d \in 1 .. Len(lg) : lh[d] = lg[d]
    BY <1>1, SeqAppend
<1> QED
    BY <1>1, <1>2

\* The ids and the levels of frames, and the callers in the log, are numbers.
LEMMA FrameNumbers ==
    ASSUME NEW fs \in Seq(Frame), NEW i \in 1 .. Len(fs)
    PROVE  fs[i].id \in Nat /\ fs[i].ctx \in Nat
<1>1. fs[i] \in Frame
    BY SeqElement
<1> QED
    BY <1>1 DEF Frame

LEMMA CallerNumber ==
    ASSUME NEW lg \in Seq(Entry), NEW d \in 1 .. Len(lg)
    PROVE  lg[d].caller \in Nat
<1>1. lg[d] \in Entry
    BY SeqElement
<1> QED
    BY <1>1 DEF Entry

\* The running calls are told apart by their ids.
LEMMA OneFrame ==
    ASSUME NEW fs \in Seq(Frame), NEW lg, Tree(fs, lg),
           NEW i \in 1 .. Len(fs), NEW j \in 1 .. Len(fs), fs[i].id = fs[j].id
    PROVE  i = j
<1>1. fs[i].id \in Nat /\ fs[j].id \in Nat
    BY FrameNumbers
<1>2. ~(i < j) /\ ~(j < i)
    BY <1>1 DEF Tree
<1> QED
    BY <1>2

LEMMA CallTree ==
    ASSUME NEW fs \in Seq(Frame), fs # <<>>, NEW lg \in Seq(Entry), Tree(fs, lg),
           NEW g \in Frame, NEW gs, AddsFrame(g, fs, gs), g.id = Len(lg) + 1,
           fs[Len(fs)].ctx <= g.ctx,
           NEW ns, NEW lh, NEW r, AddsEntry(g, fs[Len(fs)].id, ns, lg, lh, r)
    PROVE  Tree(gs, lh)
<1> DEFINE n == Len(fs)
           k == Len(lg)
<1>1. n \in Nat \ {0} /\ n \in Nat /\ k \in Nat /\ n \in 1 .. n
    BY SeqEmpty, SeqLen
<1>2. Len(gs) = n + 1 /\ gs[n + 1] = g /\ \A i \in 1 .. n : Same(gs[i], fs[i])
    BY DEF AddsFrame, AllSame
<1>3. /\ Len(lh) = k + 1 /\ \A d \in 1 .. k : lh[d] = lg[d]
      /\ lh[k + 1].caller = fs[n].id /\ (lh[k + 1].optional <=> Optional(g))
      /\ lh[k + 1].status = "open"
    BY EntryAdded
<1>4. \A i \in 1 .. n : fs[i].id \in Nat /\ fs[i].ctx \in Nat /\ fs[i].id < k + 1
  <2> SUFFICES ASSUME NEW i \in 1 .. n
               PROVE  fs[i].id \in Nat /\ fs[i].ctx \in Nat /\ fs[i].id < k + 1
      OBVIOUS
  <2>1. fs[i].id \in Nat /\ fs[i].ctx \in Nat
      BY FrameNumbers
  <2>2. i = 1 \/ i \in 2 .. n
      BY <1>1
  <2>3. CASE i = 1
    <3>1. fs[1].id = 0
        BY DEF Tree
    <3> QED
        BY <1>1, <2>1, <2>3, <3>1
  <2>4. CASE i \in 2 .. n
    <3>1. fs[i].id \in 1 .. k
        BY <2>4 DEF Tree
    <3> QED
        BY <2>1, <3>1, <1>1
  <2> QED
      BY <2>1, <2>2, <2>3, <2>4
<1>5. gs[1].id = 0
  <2>1. 1 \in 1 .. n
      BY <1>1
  <2> QED
      BY <2>1, <1>2 DEF Tree, Same
<1>6. ASSUME NEW i \in 1 .. n + 1, NEW j \in 1 .. n + 1, i < j
      PROVE  gs[i].id < gs[j].id /\ gs[i].ctx <= gs[j].ctx
  <2>1. i \in 1 .. n
      BY <1>1, <1>6
  <2>2. CASE j = n + 1
    <3>1. gs[i].id = fs[i].id /\ gs[i].ctx = fs[i].ctx /\ gs[j] = g
        BY <1>2, <2>1, <2>2 DEF Same
    <3>2. fs[i].ctx <= g.ctx
      <4>1. CASE i = n
          BY <4>1
      <4>2. CASE i # n
        <5>1. i < n
            BY <1>1, <2>1, <4>2
        <5>2. fs[i].ctx <= fs[n].ctx
            BY <1>1, <2>1, <5>1 DEF Tree
        <5>3. fs[i].ctx \in Nat /\ fs[n].ctx \in Nat /\ g.ctx \in Nat
            BY <1>1, <1>4, <2>1 DEF Frame
        <5> QED
            BY <5>2, <5>3
      <4> QED
          BY <4>1, <4>2
    <3> QED
        BY <1>4, <2>1, <3>1, <3>2
  <2>3. CASE j # n + 1
    <3>1. j \in 1 .. n
        BY <1>1, <2>3
    <3> QED
        BY <1>2, <1>6, <2>1, <3>1 DEF Tree, Same
  <2> QED
      BY <2>2, <2>3
<1>7. ASSUME NEW j \in 2 .. n + 1
      PROVE  /\ gs[j].id \in 1 .. k + 1
             /\ lh[gs[j].id].status = "open"
             /\ lh[gs[j].id].caller = gs[j - 1].id
             /\ lh[gs[j].id].optional <=> Optional(gs[j])
  <2>1. CASE j = n + 1
    <3>1. gs[j] = g /\ gs[j].id = k + 1 /\ j - 1 = n /\ k + 1 \in 1 .. k + 1
        BY <1>1, <1>2, <2>1
    <3>2. gs[j - 1].id = fs[n].id
        BY <1>1, <1>2, <3>1 DEF Same
    <3> QED
        BY <1>3, <3>1, <3>2
  <2>2. CASE j # n + 1
    <3>1. j \in 2 .. n /\ j \in 1 .. n /\ j - 1 \in 1 .. n
        BY <1>1, <2>2
    <3>2. /\ gs[j].id = fs[j].id /\ gs[j - 1].id = fs[j - 1].id
          /\ Optional(gs[j]) <=> Optional(fs[j])
        BY <1>2, <3>1 DEF Same, Optional
    <3>3. /\ fs[j].id \in 1 .. k /\ lg[fs[j].id].status = "open"
          /\ lg[fs[j].id].caller = fs[j - 1].id
          /\ lg[fs[j].id].optional <=> Optional(fs[j])
        BY <3>1 DEF Tree
    <3>4. lh[fs[j].id] = lg[fs[j].id] /\ fs[j].id \in 1 .. k + 1
        BY <1>1, <1>3, <3>3
    <3> QED
        BY <3>2, <3>3, <3>4
  <2> QED
      BY <2>1, <2>2
<1>8. ASSUME NEW d \in 1 .. k + 1
      PROVE  /\ lh[d].status = "open" => \E j \in 2 .. n + 1 : gs[j].id = d
             /\ lh[d].caller < d
  <2>1. CASE d = k + 1
    <3>1. n + 1 \in 2 .. n + 1 /\ gs[n + 1].id = d
        BY <1>1, <1>2, <2>1
    <3> QED
        BY <1>1, <1>3, <1>4, <2>1, <3>1
  <2>2. CASE d # k + 1
    <3>1. d \in 1 .. k /\ lh[d] = lg[d]
        BY <1>1, <1>3, <2>2
    <3>2. ASSUME lg[d].status = "open" PROVE \E j \in 2 .. n + 1 : gs[j].id = d
      <4>1. PICK j \in 2 .. n : fs[j].id = d
          BY <3>1, <3>2 DEF Tree
      <4>2. j \in 1 .. n /\ j \in 2 .. n + 1
          BY <1>1
      <4> QED
          BY <1>2, <4>1, <4>2 DEF Same
    <3> QED
        BY <3>1, <3>2 DEF Tree
  <2> QED
      BY <2>1, <2>2
<1> QED
    BY <1>2, <1>3, <1>5, <1>6, <1>7, <1>8 DEF Tree

LEMMA ReturnTree ==
    ASSUME NEW fs \in Seq(Frame), Len(fs) >= 2, NEW lg \in Seq(Entry), Tree(fs, lg),
           NEW gs, DropsFrame(fs, gs), NEW status \in {"ok", "failed"},
           NEW lh, Settles(lg, fs[Len(fs)].id, status, lh)
    PROVE  Tree(gs, lh)
<1> DEFINE n == Len(fs)
           k == Len(lg)
           c == fs[n].id
<1>1. n \in Nat /\ n >= 2 /\ k \in Nat /\ n \in 1 .. n /\ n \in 2 .. n
    BY SeqLen
<1>2. Len(gs) = n - 1 /\ \A i \in 1 .. n - 1 : Same(gs[i], fs[i])
    BY DEF DropsFrame, AllSame
<1>3. c \in 1 .. k /\ lg[c].status = "open"
    BY <1>1 DEF Tree
<1>4. ASSUME NEW j \in 1 .. n - 1 PROVE fs[j].id # c /\ j \in 1 .. n /\ gs[j].id = fs[j].id
                                        /\ gs[j].ctx = fs[j].ctx
  <2>1. j \in 1 .. n /\ j # n
      BY <1>1
  <2> QED
      BY <1>1, <1>2, <2>1, OneFrame DEF Same
<1>5. gs # <<>> => gs[1].id = 0
    BY <1>1, <1>2, <1>4, SeqEmpty DEF Tree
<1>6. ASSUME NEW i \in 1 .. n - 1, NEW j \in 1 .. n - 1, i < j
      PROVE  gs[i].id < gs[j].id /\ gs[i].ctx <= gs[j].ctx
    BY <1>4, <1>6 DEF Tree
<1>7. ASSUME NEW j \in 2 .. n - 1
      PROVE  /\ gs[j].id \in 1 .. k
             /\ lh[gs[j].id].status = "open"
             /\ lh[gs[j].id].caller = gs[j - 1].id
             /\ lh[gs[j].id].optional <=> Optional(gs[j])
  <2>1. j \in 2 .. n /\ j \in 1 .. n - 1 /\ j - 1 \in 1 .. n - 1
      BY <1>1
  <2>2. gs[j].id = fs[j].id /\ gs[j - 1].id = fs[j - 1].id /\ fs[j].id # c
      BY <1>4, <2>1
  <2>3. Optional(gs[j]) <=> Optional(fs[j])
      BY <1>2, <2>1 DEF Same, Optional
  <2>4. /\ fs[j].id \in 1 .. k /\ lg[fs[j].id].status = "open"
        /\ lg[fs[j].id].caller = fs[j - 1].id
        /\ lg[fs[j].id].optional <=> Optional(fs[j])
      BY <2>1 DEF Tree
  <2>5. lh[fs[j].id] = lg[fs[j].id]
      BY <2>2, <2>4 DEF Settles
  <2> QED
      BY <2>2, <2>3, <2>4, <2>5
<1>8. ASSUME NEW d \in 1 .. k
      PROVE  /\ lh[d].status = "open" => \E j \in 2 .. n - 1 : gs[j].id = d
             /\ lh[d].caller < d
  <2>1. CASE d = c
    <3>1. lh[d].status # "open" /\ lh[d].caller = lg[d].caller
        BY <2>1 DEF Settles
    <3> QED
        BY <3>1 DEF Tree
  <2>2. CASE d # c
    <3>1. lh[d] = lg[d]
        BY <2>2 DEF Settles
    <3>2. ASSUME lg[d].status = "open" PROVE \E j \in 2 .. n - 1 : gs[j].id = d
      <4>1. PICK j \in 2 .. n : fs[j].id = d
          BY <3>2 DEF Tree
      <4>2. j # n
          BY <2>2, <4>1
      <4>3. j \in 2 .. n - 1 /\ j \in 1 .. n - 1
          BY <1>1, <4>2
      <4> QED
          BY <1>4, <4>1, <4>3
    <3> QED
        BY <3>1, <3>2 DEF Tree
  <2> QED
      BY <2>1, <2>2
<1>9. Len(lh) = k
    BY DEF Settles
<1> QED
    BY <1>2, <1>5, <1>6, <1>7, <1>8, <1>9 DEF Tree

LEMMA CallNeeds ==
    ASSUME NEW fs, fs # <<>>, NEW lg \in Seq(Entry), Tree(fs, lg), Needed(fs, lg, "none"),
           NEW g, NEW k, NEW ns, NEW lh, NEW r, NEW gs, AddsEntry(g, k, ns, lg, lh, r)
    PROVE  Needed(gs, lh, r)
<1> DEFINE n == Len(lg)
<1>1. n \in Nat
    BY SeqLen
<1>2. /\ Len(lh) = n + 1 /\ \A d \in 1 .. n : lh[d] = lg[d]
      /\ lh[n + 1].status = "open"
    BY EntryAdded
<1>3. SUFFICES ASSUME NEW d \in 1 .. n + 1, lh[d].status = "failed", ~lh[d].optional
               PROVE  lh[d].caller # 0 /\ lh[lh[d].caller].status = "failed"
    BY <1>2 DEF Needed
<1>4. d \in 1 .. n /\ lh[d] = lg[d]
  <2>1. d # n + 1
      BY <1>2, <1>3
  <2> QED
      BY <1>1, <1>2, <2>1
<1>5. lg[d].caller # 0 /\ lg[lg[d].caller].status = "failed"
    BY <1>3, <1>4 DEF Needed, Clean
<1>6. lg[d].caller \in 1 .. n
  <2>1. lg[d].caller \in Nat /\ lg[d].caller < d
      BY <1>4, CallerNumber DEF Tree
  <2> QED
      BY <1>1, <1>4, <1>5, <2>1
<1> QED
    BY <1>2, <1>4, <1>5, <1>6

LEMMA ReturnNeeds ==
    ASSUME NEW fs \in Seq(Frame), Len(fs) >= 2, NEW lg \in Seq(Entry), Tree(fs, lg),
           NEW r, Needed(fs, lg, r), NEW gs, DropsFrame(fs, gs),
           NEW lh, Settles(lg, fs[Len(fs)].id, IF r = "ok" THEN "ok" ELSE "failed", lh),
           r # "none", NEW s, NEW ns, Resumes(fs[Len(fs)], r, s, ns)
    PROVE  Needed(gs, lh, s)
<1> DEFINE n == Len(fs)
           k == Len(lg)
           c == fs[n].id
<1>1. n \in Nat /\ n >= 2 /\ k \in Nat /\ n \in 2 .. n /\ fs # <<>>
    BY SeqLen, SeqEmpty
<1>2. /\ c \in 1 .. k /\ lg[c].status = "open" /\ lg[c].caller = fs[n - 1].id
      /\ lg[c].optional <=> Optional(fs[n])
    BY <1>1 DEF Tree
<1>3. Len(gs) = n - 1 /\ gs[n - 1].id = fs[n - 1].id
  <2>1. n - 1 \in 1 .. n - 1
      BY <1>1
  <2> QED
      BY <2>1 DEF DropsFrame, AllSame, Same
<1>4. /\ Len(lh) = k /\ \A d \in 1 .. k : d # c => lh[d] = lg[d]
      /\ lh[c].status = IF r = "ok" THEN "ok" ELSE "failed"
      /\ lh[c].caller = lg[c].caller /\ lh[c].optional = lg[c].optional
    BY DEF Settles
<1>5. SUFFICES ASSUME NEW d \in 1 .. k, lh[d].status = "failed", ~lh[d].optional
               PROVE  \/ lh[d].caller # 0 /\ lh[lh[d].caller].status = "failed"
                      \/ lh[d].caller = fs[n - 1].id /\ ~Clean(s)
    BY <1>3, <1>4 DEF Needed
<1>6. CASE d = c
  <2>1. r # "ok" /\ ~Optional(fs[n])
      BY <1>2, <1>4, <1>5, <1>6
  <2>2. ~Clean(s)
      BY <2>1 DEF Resumes, Clean
  <2> QED
      BY <1>2, <1>4, <1>6, <2>2
<1>7. CASE d # c
  <2>1. lh[d] = lg[d]
      BY <1>4, <1>7
  <2>2. \/ lg[d].caller # 0 /\ lg[lg[d].caller].status = "failed"
        \/ lg[d].caller = c /\ ~Clean(r)
      BY <1>1, <1>5, <2>1 DEF Needed
  <2>3. CASE lg[d].caller # 0 /\ lg[lg[d].caller].status = "failed"
    <3>1. lg[d].caller \in 1 .. k
      <4>1. lg[d].caller \in Nat /\ lg[d].caller < d
          BY CallerNumber DEF Tree
      <4> QED
          BY <1>1, <2>3, <4>1
    <3>2. lg[d].caller # c
        BY <1>2, <2>3
    <3> QED
        BY <1>4, <2>1, <2>3, <3>1, <3>2
  <2>4. CASE lg[d].caller = c /\ ~Clean(r)
    <3>1. lh[c].status = "failed"
        BY <1>4, <2>4 DEF Clean
    <3>2. c # 0
        BY <1>2
    <3> QED
        BY <2>1, <2>4, <3>1, <3>2
  <2> QED
      BY <2>2, <2>3, <2>4
<1> QED
    BY <1>6, <1>7

\* Call c runs in context i or in one below it.
Within(fs, c, i) == \E j \in 2 .. Len(fs) : fs[j].id = c /\ fs[j].ctx <= i

\* The writes W of context i are those of the calls that ended well or run in
\* it, and whose callers are among them.
Lives(fs, W, lg, i) ==
    \A c \in 1 .. Len(lg) :
        c \in W <=> /\ lg[c].status = "ok" \/ Within(fs, c, i)
                    /\ lg[c].caller # 0 => lg[c].caller \in W

Held(fs, W, i) == \A j \in 2 .. Len(fs) : fs[j].ctx <= i => fs[j].id \in W

\* What the transaction will commit is inductive only as a statement about all
\* open contexts; the innermost one counts once the call in it is not to fail.
Effects(fs, cs, lg, r) ==
    /\ fs # <<>> => cs[1].store.writes = {}
    /\ \A i \in 2 .. Len(cs) : i < Len(cs) \/ Clean(r) =>
          /\ Lives(fs, cs[i].store.writes, lg, i)
          /\ Held(fs, cs[i].store.writes, i)

\* A new call g is not seen in a context i below its own ...
LEMMA LivesBelow ==
    ASSUME NEW fs \in Seq(Frame), NEW lg \in Seq(Entry), Tree(fs, lg), fs # <<>>,
           NEW g \in Frame, NEW gs, AddsFrame(g, fs, gs), g.id = Len(lg) + 1,
           NEW ns, NEW lh, NEW r, AddsEntry(g, fs[Len(fs)].id, ns, lg, lh, r),
           NEW i \in Nat, i < g.ctx,
           NEW W, W \subseteq 1 .. Len(lg), Lives(fs, W, lg, i), Held(fs, W, i)
    PROVE  Lives(gs, W, lh, i) /\ Held(gs, W, i)
<1> DEFINE n == Len(fs)
           k == Len(lg)
<1>1. n \in Nat \ {0} /\ n \in Nat /\ k \in Nat /\ g.ctx \in Nat
    BY SeqEmpty, SeqLen DEF Frame
<1>2. Len(gs) = n + 1 /\ gs[n + 1] = g /\ \A j \in 1 .. n : Same(gs[j], fs[j])
    BY DEF AddsFrame, AllSame
<1>3. /\ Len(lh) = k + 1 /\ \A d \in 1 .. k : lh[d] = lg[d]
      /\ lh[k + 1].status = "open"
    BY EntryAdded
<1>4. ASSUME NEW j \in 2 .. n + 1, gs[j].ctx <= i
      PROVE  j \in 2 .. n /\ gs[j].id = fs[j].id /\ fs[j].ctx <= i
  <2>1. j # n + 1
    <3> SUFFICES ASSUME j = n + 1 PROVE FALSE
        OBVIOUS
    <3>1. g.ctx <= i
        BY <1>2, <1>4
    <3> QED
        BY <1>1, <3>1
  <2>2. j \in 2 .. n /\ j \in 1 .. n
      BY <1>1, <2>1
  <2> QED
      BY <1>2, <1>4, <2>2 DEF Same
<1>5. Held(gs, W, i)
    BY <1>2, <1>4 DEF Held
<1>6. ASSUME NEW c PROVE Within(gs, c, i) <=> Within(fs, c, i)
  <2>1. ASSUME Within(gs, c, i) PROVE Within(fs, c, i)
      BY <1>2, <1>4, <2>1 DEF Within
  <2>2. ASSUME Within(fs, c, i) PROVE Within(gs, c, i)
    <3>1. PICK j \in 2 .. n : fs[j].id = c /\ fs[j].ctx <= i
        BY <2>2 DEF Within
    <3>2. j \in 2 .. n + 1 /\ j \in 1 .. n
        BY <1>1
    <3>3. gs[j].id = c /\ gs[j].ctx <= i
        BY <1>2, <3>1, <3>2 DEF Same
    <3> QED
        BY <1>2, <3>2, <3>3 DEF Within
  <2> QED
      BY <2>1, <2>2
<1>7. ~Within(fs, k + 1, i)
  <2>1. \A j \in 2 .. n : fs[j].id \in 1 .. k
      BY DEF Tree
  <2> QED
      BY <1>1, <2>1 DEF Within
<1>8. ASSUME NEW c \in 1 .. k + 1
      PROVE  c \in W <=> /\ lh[c].status = "ok" \/ Within(gs, c, i)
                         /\ lh[c].caller # 0 => lh[c].caller \in W
  <2>1. CASE c = k + 1
    <3>1. c \notin W
        BY <1>1, <2>1
    <3> QED
        BY <1>3, <1>6, <1>7, <2>1, <3>1
  <2>2. CASE c # k + 1
    <3>1. c \in 1 .. k /\ lh[c] = lg[c]
        BY <1>1, <1>3, <2>2
    <3>2. c \in W <=> /\ lg[c].status = "ok" \/ Within(fs, c, i)
                      /\ lg[c].caller # 0 => lg[c].caller \in W
        BY <3>1 DEF Lives
    <3> QED
        BY <1>6, <3>1, <3>2
  <2> QED
      BY <2>1, <2>2
<1> QED
    BY <1>3, <1>5, <1>8 DEF Lives

\* ... and is part of its own, which starts from the caller's context m.
LEMMA LivesWithin ==
    ASSUME NEW fs \in Seq(Frame), NEW lg \in Seq(Entry), Tree(fs, lg), fs # <<>>,
           NEW g \in Frame, NEW gs, AddsFrame(g, fs, gs), g.id = Len(lg) + 1,
           NEW ns, NEW lh, NEW r, AddsEntry(g, fs[Len(fs)].id, ns, lg, lh, r),
           NEW m \in Nat, m = fs[Len(fs)].ctx, m <= g.ctx,
           NEW W, W \subseteq 1 .. Len(lg), Lives(fs, W, lg, m), Held(fs, W, m)
    PROVE  /\ Lives(gs, W \cup {Len(lg) + 1}, lh, g.ctx)
           /\ Held(gs, W \cup {Len(lg) + 1}, g.ctx)
<1> DEFINE n == Len(fs)
           k == Len(lg)
           U == W \cup {k + 1}
<1>1. n \in Nat \ {0} /\ n \in Nat /\ k \in Nat /\ g.ctx \in Nat /\ n \in 1 .. n
    BY SeqEmpty, SeqLen DEF Frame
<1>2. Len(gs) = n + 1 /\ gs[n + 1] = g /\ \A j \in 1 .. n : Same(gs[j], fs[j])
    BY DEF AddsFrame, AllSame
<1>3. /\ Len(lh) = k + 1 /\ \A d \in 1 .. k : lh[d] = lg[d]
      /\ lh[k + 1].caller = fs[n].id /\ lh[k + 1].status = "open"
    BY EntryAdded
<1>4. ASSUME NEW j \in 2 .. n
      PROVE  /\ j \in 1 .. n /\ j \in 2 .. n + 1 /\ gs[j].id = fs[j].id
             /\ gs[j].ctx <= g.ctx /\ fs[j].ctx <= m /\ fs[j].id \in 1 .. k
  <2>1. j \in 1 .. n /\ j \in 2 .. n + 1
      BY <1>1
  <2>2. gs[j].id = fs[j].id /\ gs[j].ctx = fs[j].ctx
      BY <1>2, <2>1 DEF Same
  <2>3. fs[j].ctx \in Nat /\ fs[j].id \in 1 .. k
      BY <2>1, FrameNumbers DEF Tree
  <2>4. fs[j].ctx <= m
    <3>1. CASE j = n
        BY <2>3, <3>1
    <3>2. CASE j # n
      <4>1. j < n
          BY <1>1, <3>2
      <4> QED
          BY <1>1, <2>1, <4>1 DEF Tree
    <3> QED
        BY <3>1, <3>2
  <2> QED
      BY <1>1, <2>1, <2>2, <2>3, <2>4
<1>5. Held(gs, U, g.ctx)
  <2> SUFFICES ASSUME NEW j \in 2 .. n + 1 PROVE gs[j].id \in U
      BY <1>2 DEF Held
  <2>1. CASE j = n + 1
      BY <1>2, <2>1
  <2>2. CASE j # n + 1
    <3>1. j \in 2 .. n
        BY <1>1, <2>2
    <3> QED
        BY <1>4, <3>1 DEF Held
  <2> QED
      BY <2>1, <2>2
<1>6. ASSUME NEW c \in 1 .. k PROVE Within(gs, c, g.ctx) <=> Within(fs, c, m)
  <2>1. ASSUME Within(gs, c, g.ctx) PROVE Within(fs, c, m)
    <3>1. PICK j \in 2 .. n + 1 : gs[j].id = c
        BY <1>2, <2>1 DEF Within
    <3>2. j # n + 1
        BY <1>1, <1>2, <3>1
    <3>3. j \in 2 .. n
        BY <1>1, <3>2
    <3> QED
        BY <1>4, <3>1, <3>3 DEF Within
  <2>2. ASSUME Within(fs, c, m) PROVE Within(gs, c, g.ctx)
    <3>1. PICK j \in 2 .. n : fs[j].id = c
        BY <2>2 DEF Within
    <3> QED
        BY <1>2, <1>4, <3>1 DEF Within
  <2> QED
      BY <2>1, <2>2
<1>7. Within(gs, k + 1, g.ctx)
  <2>1. n + 1 \in 2 .. n + 1 /\ g.ctx <= g.ctx
      BY <1>1
  <2> QED
      BY <1>2, <2>1 DEF Within
<1>8. fs[n].id # 0 => fs[n].id \in W
  <2>1. CASE n = 1
      BY <2>1 DEF Tree
  <2>2. CASE n # 1
    <3>1. n \in 2 .. n
        BY <1>1, <2>2, NotOne
    <3> QED
        BY <1>4, <3>1 DEF Held
  <2> QED
      BY <2>1, <2>2
<1>9. ASSUME NEW c \in 1 .. k + 1
      PROVE  c \in U <=> /\ lh[c].status = "ok" \/ Within(gs, c, g.ctx)
                         /\ lh[c].caller # 0 => lh[c].caller \in U
  <2>1. CASE c = k + 1
      BY <1>3, <1>7, <1>8, <2>1
  <2>2. CASE c # k + 1
    <3>1. c \in 1 .. k /\ lh[c] = lg[c]
        BY <1>1, <1>3, <2>2
    <3>2. c \in W <=> /\ lg[c].status = "ok" \/ Within(fs, c, m)
                      /\ lg[c].caller # 0 => lg[c].caller \in W
        BY <3>1 DEF Lives
    <3>3. lg[c].caller # k + 1
      <4>1. lg[c].caller \in Nat /\ lg[c].caller < c
          BY <3>1, CallerNumber DEF Tree
      <4> QED
          BY <1>1, <3>1, <4>1
    <3> QED
        BY <1>6, <2>2, <3>1, <3>2, <3>3
  <2> QED
      BY <2>1, <2>2
<1> QED
    BY <1>3, <1>5, <1>9 DEF Lives

LEMMA CallEffects ==
    ASSUME NEW fs \in Seq(Frame), NEW lg \in Seq(Entry), Tree(fs, lg), fs # <<>>,
           NEW g \in Frame, NEW gs, AddsFrame(g, fs, gs), g.id = Len(lg) + 1,
           NEW ns, NEW lh, NEW r, AddsEntry(g, fs[Len(fs)].id, ns, lg, lh, r),
           NEW cs \in Seq(Context), Len(cs) = fs[Len(fs)].ctx, Len(cs) >= 2,
           Emitted(cs, "none", Len(lg)), Effects(fs, cs, lg, "none"),
           NEW ds, AddsWrite(g, cs, ds, r), g.ctx = Len(ds)
    PROVE  Effects(gs, ds, lh, r)
<1> DEFINE m == Len(cs)
           k == Len(ds)
<1>1. m \in Nat /\ m >= 2 /\ k \in {m, m + 1}
    BY SeqLen DEF AddsWrite
<1>2. /\ \A i \in 1 .. k - 1 : i \in 1 .. m /\ ds[i].store.writes = cs[i].store.writes
      /\ Clean(r) => ds[k].store.writes = cs[m].store.writes \cup {Len(lg) + 1}
  <2>1. CASE Boxed(g)
    <3>1. /\ k = m + 1 /\ k - 1 = m
          /\ \A i \in 1 .. m : ds[i].store.writes = cs[i].store.writes
          /\ Records(g.id, cs[m].store.writes, <<>>, ds[m + 1], r)
        BY <1>1, <2>1 DEF AddsWrite, Below
    <3> QED
        BY <3>1 DEF Records
  <2>2. CASE ~Boxed(g)
    <3>1. /\ k = m /\ \A i \in 1 .. m - 1 : ds[i].store.writes = cs[i].store.writes
          /\ Records(g.id, cs[m].store.writes, cs[m].events, ds[m], r)
        BY <2>2 DEF AddsWrite, Below
    <3>2. \A i \in 1 .. k - 1 : i \in 1 .. m /\ i \in 1 .. m - 1
        BY <1>1, <3>1
    <3>3. Clean(r) => ds[m].store.writes = cs[m].store.writes \cup {Len(lg) + 1}
        BY <3>1 DEF Records
    <3> QED
        BY <3>1, <3>2, <3>3
  <2> QED
      BY <2>1, <2>2
<1>3. ASSUME NEW i \in 2 .. m
      PROVE  /\ cs[i].store.writes \subseteq 1 .. Len(lg)
             /\ Lives(fs, cs[i].store.writes, lg, i) /\ Held(fs, cs[i].store.writes, i)
    BY DEF Emitted, Level, Effects, Clean
<1>4. ds[1].store.writes = {}
  <2>1. 1 \in 1 .. k - 1
      BY <1>1
  <2> QED
      BY <1>2, <2>1 DEF Effects
<1>5. ASSUME NEW i \in 2 .. k, i < k \/ Clean(r)
      PROVE  Lives(gs, ds[i].store.writes, lh, i) /\ Held(gs, ds[i].store.writes, i)
  <2> DEFINE W == ds[i].store.writes
             V == cs[m].store.writes
  <2>1. CASE i < k
    <3>1. i \in 1 .. k - 1 /\ i \in Nat
        BY <1>1, <2>1
    <3>2. i \in 2 .. m /\ W = cs[i].store.writes
        BY <1>1, <1>2, <3>1
    <3>3. W \subseteq 1 .. Len(lg) /\ Lives(fs, W, lg, i) /\ Held(fs, W, i)
        BY <1>3, <3>2
    <3> HIDE DEF W
    <3>4. Lives(gs, W, lh, i) /\ Held(gs, W, i)
        BY <2>1, <3>1, <3>3, LivesBelow
    <3> QED
        BY <3>4 DEF W
  <2>2. CASE i = k
    <3>1. W = V \cup {Len(lg) + 1}
        BY <1>1, <1>2, <1>5, <2>2
    <3>2. m \in 2 .. m
        BY <1>1
    <3>3. V \subseteq 1 .. Len(lg) /\ Lives(fs, V, lg, m) /\ Held(fs, V, m)
        BY <1>3, <3>2
    <3>4. m <= g.ctx
        BY <1>1
    <3> HIDE DEF V
    <3>5. /\ Lives(gs, V \cup {Len(lg) + 1}, lh, g.ctx)
          /\ Held(gs, V \cup {Len(lg) + 1}, g.ctx)
        BY <1>1, <3>3, <3>4, LivesWithin
    <3> QED
        BY <2>2, <3>1, <3>5
  <2> QED
      BY <1>1, <2>1, <2>2
<1> QED
    BY <1>4, <1>5 DEF Effects

\* A call that ends was not seen in the contexts below its own, and is seen
\* only in those its caller writes to.
LEMMA LivesAfter ==
    ASSUME NEW fs \in Seq(Frame), Len(fs) >= 2, NEW lg \in Seq(Entry), Tree(fs, lg),
           NEW gs, DropsFrame(fs, gs), NEW status \in {"ok", "failed"},
           NEW lh, Settles(lg, fs[Len(fs)].id, status, lh),
           fs[1].ctx = 2, NEW i \in Nat, i >= 2, i < fs[Len(fs)].ctx,
           status = "failed" \/ i < fs[Len(fs) - 1].ctx,
           NEW W, Lives(fs, W, lg, i), Held(fs, W, i)
    PROVE  Lives(gs, W, lh, i) /\ Held(gs, W, i)
<1> DEFINE n == Len(fs)
           k == Len(lg)
           c0 == fs[n].id
<1>1. n \in Nat /\ n >= 2 /\ k \in Nat /\ n \in 1 .. n /\ n \in 2 .. n /\ n - 1 \in 1 .. n
    BY SeqLen
<1>2. Len(gs) = n - 1 /\ \A j \in 1 .. n - 1 : Same(gs[j], fs[j])
    BY DEF DropsFrame, AllSame
<1>3. /\ c0 \in 1 .. k /\ lg[c0].status = "open" /\ lg[c0].caller = fs[n - 1].id
      /\ fs[n].ctx \in Nat /\ fs[n - 1].ctx \in Nat
    BY <1>1, FrameNumbers DEF Tree
<1>4. /\ Len(lh) = k /\ \A d \in 1 .. k : d # c0 => lh[d] = lg[d]
      /\ lh[c0].status = status /\ lh[c0].caller = lg[c0].caller
    BY DEF Settles
<1>5. ASSUME NEW j \in 2 .. n - 1
      PROVE  /\ j \in 2 .. n /\ j \in 1 .. n /\ fs[j].id # c0
             /\ gs[j].id = fs[j].id /\ gs[j].ctx = fs[j].ctx
  <2>1. j \in 1 .. n /\ j \in 1 .. n - 1 /\ j \in 2 .. n /\ j # n
      BY <1>1
  <2> QED
      BY <1>1, <1>2, <2>1, OneFrame DEF Same
<1>6. Held(gs, W, i)
  <2> SUFFICES ASSUME NEW j \in 2 .. n - 1, gs[j].ctx <= i PROVE gs[j].id \in W
      BY <1>2 DEF Held
  <2> QED
      BY <1>5 DEF Held
<1>7. ASSUME NEW c, c # c0 PROVE Within(gs, c, i) <=> Within(fs, c, i)
  <2>1. ASSUME Within(gs, c, i) PROVE Within(fs, c, i)
      BY <1>2, <1>5, <2>1 DEF Within
  <2>2. ASSUME Within(fs, c, i) PROVE Within(gs, c, i)
    <3>1. PICK j \in 2 .. n : fs[j].id = c /\ fs[j].ctx <= i
        BY <2>2 DEF Within
    <3>2. j # n
        BY <1>7, <3>1
    <3>3. j \in 2 .. n - 1
        BY <1>1, <3>2
    <3> QED
        BY <1>2, <1>5, <3>1, <3>3 DEF Within
  <2> QED
      BY <2>1, <2>2
<1>8. ~Within(gs, c0, i)
    BY <1>2, <1>5 DEF Within
<1>9. ASSUME NEW j \in 2 .. n, i < fs[j].ctx PROVE fs[j].id \notin W
  <2>1. ~Within(fs, fs[j].id, i)
    <3> SUFFICES ASSUME NEW h \in 2 .. n, fs[h].id = fs[j].id, fs[h].ctx <= i PROVE FALSE
        BY DEF Within
    <3>1. j \in 1 .. n /\ h \in 1 .. n
        BY <1>1
    <3>2. h = j
        BY <3>1, OneFrame
    <3>3. fs[j].ctx \in Nat
        BY <3>1, FrameNumbers
    <3> QED
        BY <1>9, <3>2, <3>3
  <2>2. fs[j].id \in 1 .. k /\ lg[fs[j].id].status = "open"
      BY DEF Tree
  <2> QED
      BY <2>1, <2>2 DEF Lives
<1>10. c0 \notin W
    BY <1>1, <1>9
<1>11. status = "ok" => lh[c0].caller # 0 /\ lh[c0].caller \notin W
  <2> SUFFICES ASSUME status = "ok" PROVE fs[n - 1].id # 0 /\ fs[n - 1].id \notin W
      BY <1>3, <1>4
  <2>1. n - 1 # 1
    <3> SUFFICES ASSUME n - 1 = 1 PROVE FALSE
        OBVIOUS
    <3>1. i < 2
        OBVIOUS
    <3> QED
        BY <3>1
  <2>2. n - 1 \in 2 .. n
      BY <1>1, <2>1
  <2>3. fs[n - 1].id \in 1 .. k
      BY <2>2 DEF Tree
  <2> QED
      BY <1>9, <2>2, <2>3
<1>12. ASSUME NEW c \in 1 .. k
       PROVE  c \in W <=> /\ lh[c].status = "ok" \/ Within(gs, c, i)
                          /\ lh[c].caller # 0 => lh[c].caller \in W
  <2>1. CASE c = c0
      BY <1>4, <1>8, <1>10, <1>11, <2>1
  <2>2. CASE c # c0
    <3>1. lh[c] = lg[c]
        BY <1>4, <2>2
    <3>2. c \in W <=> /\ lg[c].status = "ok" \/ Within(fs, c, i)
                      /\ lg[c].caller # 0 => lg[c].caller \in W
        BY DEF Lives
    <3> QED
        BY <1>7, <2>2, <3>1, <3>2
  <2> QED
      BY <2>1, <2>2
<1> QED
    BY <1>4, <1>6, <1>12 DEF Lives

\* A call that ends well stays, now in the context of its caller.
LEMMA LivesJoined ==
    ASSUME NEW fs \in Seq(Frame), Len(fs) >= 2, NEW lg \in Seq(Entry), Tree(fs, lg),
           NEW gs, DropsFrame(fs, gs),
           NEW lh, Settles(lg, fs[Len(fs)].id, "ok", lh),
           NEW W, Lives(fs, W, lg, fs[Len(fs)].ctx), Held(fs, W, fs[Len(fs)].ctx)
    PROVE  Lives(gs, W, lh, fs[Len(fs) - 1].ctx) /\ Held(gs, W, fs[Len(fs) - 1].ctx)
<1> DEFINE n == Len(fs)
           k == Len(lg)
           c0 == fs[n].id
           m == fs[n].ctx
           p == fs[n - 1].ctx
<1>1. n \in Nat /\ n >= 2 /\ k \in Nat /\ n \in 1 .. n /\ n \in 2 .. n /\ n - 1 \in 1 .. n
    BY SeqLen
<1>2. Len(gs) = n - 1 /\ \A j \in 1 .. n - 1 : Same(gs[j], fs[j])
    BY DEF DropsFrame, AllSame
<1>3. c0 \in 1 .. k /\ m \in Nat /\ p \in Nat
    BY <1>1, FrameNumbers DEF Tree
<1>4. /\ Len(lh) = k /\ \A d \in 1 .. k : d # c0 => lh[d] = lg[d]
      /\ lh[c0].status = "ok" /\ lh[c0].caller = lg[c0].caller
    BY DEF Settles
<1>5. ASSUME NEW j \in 2 .. n - 1
      PROVE  /\ j \in 2 .. n /\ j \in 1 .. n /\ fs[j].id # c0
             /\ gs[j].id = fs[j].id /\ gs[j].ctx <= p /\ fs[j].ctx <= m
  <2>1. j \in 1 .. n /\ j \in 1 .. n - 1 /\ j \in 2 .. n /\ j # n /\ j < n
      BY <1>1
  <2>2. fs[j].ctx \in Nat /\ fs[j].ctx <= m
      BY <1>1, <2>1, FrameNumbers DEF Tree
  <2>3. fs[j].ctx <= p
    <3>1. CASE j = n - 1
        BY <2>2, <3>1
    <3>2. CASE j # n - 1
      <4>1. j < n - 1
          BY <1>1, <3>2
      <4> QED
          BY <1>1, <2>1, <4>1 DEF Tree
    <3> QED
        BY <3>1, <3>2
  <2> QED
      BY <1>1, <1>2, <2>1, <2>2, <2>3, OneFrame DEF Same
<1>6. Held(gs, W, p)
  <2> SUFFICES ASSUME NEW j \in 2 .. n - 1 PROVE gs[j].id \in W
      BY <1>2 DEF Held
  <2> QED
      BY <1>5 DEF Held
<1>7. ASSUME NEW c, c # c0 PROVE Within(gs, c, p) <=> Within(fs, c, m)
  <2>1. ASSUME Within(gs, c, p) PROVE Within(fs, c, m)
      BY <1>2, <1>5, <2>1 DEF Within
  <2>2. ASSUME Within(fs, c, m) PROVE Within(gs, c, p)
    <3>1. PICK j \in 2 .. n : fs[j].id = c
        BY <2>2 DEF Within
    <3>2. j # n
        BY <1>7, <3>1
    <3>3. j \in 2 .. n - 1
        BY <1>1, <3>2
    <3> QED
        BY <1>2, <1>5, <3>1, <3>3 DEF Within
  <2> QED
      BY <2>1, <2>2
<1>8. Within(fs, c0, m)
  <2>1. m <= m
      BY <1>3
  <2> QED
      BY <1>1, <2>1 DEF Within
<1>9. ASSUME NEW c \in 1 .. k
      PROVE  c \in W <=> /\ lh[c].status = "ok" \/ Within(gs, c, p)
                         /\ lh[c].caller # 0 => lh[c].caller \in W
  <2>1. c \in W <=> /\ lg[c].status = "ok" \/ Within(fs, c, m)
                    /\ lg[c].caller # 0 => lg[c].caller \in W
      BY DEF Lives
  <2>2. CASE c = c0
      BY <1>4, <1>8, <2>1, <2>2
  <2>3. CASE c # c0
    <3>1. lh[c] = lg[c]
        BY <1>4, <2>3
    <3> QED
        BY <1>7, <2>1, <2>3, <3>1
  <2> QED
      BY <2>2, <2>3
<1> QED
    BY <1>4, <1>6, <1>9 DEF Lives

LEMMA ReturnEffects ==
    ASSUME NEW fs \in Seq(Frame), Len(fs) >= 2, NEW lg \in Seq(Entry), Tree(fs, lg),
           NEW gs, DropsFrame(fs, gs), NEW r, r # "none",
           NEW lh, Settles(lg, fs[Len(fs)].id, IF r = "ok" THEN "ok" ELSE "failed", lh),
           Frames(fs), NEW cs \in Seq(Context), Len(cs) = fs[Len(fs)].ctx,
           Effects(fs, cs, lg, r),
           NEW ds, DropsWrite(fs[Len(fs)], cs, ds, r),
           NEW s, NEW ns, Resumes(fs[Len(fs)], r, s, ns)
    PROVE  Effects(gs, ds, lh, s)
<1> DEFINE n == Len(fs)
           m == Len(cs)
           p == fs[n - 1].ctx
           k == Len(ds)
           status == IF r = "ok" THEN "ok" ELSE "failed"
<1>1. n \in Nat /\ n >= 2 /\ n \in 2 .. n /\ n - 1 \in 1 .. n /\ m \in Nat /\ fs # <<>>
    BY SeqLen, SeqEmpty
<1>2. /\ fs[1].ctx = 2 /\ p >= 2 /\ p \in Nat
      /\ m = p + IF Boxed(fs[n]) THEN 1 ELSE 0
    BY <1>1, FrameNumbers DEF Frames
<1>3. k = p
  <2>1. CASE Boxed(fs[n])
    <3>1. k = m - 1
        BY <2>1 DEF DropsWrite
    <3> QED
        BY <1>2, <2>1, <3>1
  <2>2. CASE ~Boxed(fs[n])
    <3>1. k = m
        BY <2>2 DEF DropsWrite
    <3> QED
        BY <1>2, <2>2, <3>1
  <2> QED
      BY <2>1, <2>2
<1>4. ASSUME NEW i \in 1 .. k, i < k \/ (r # "ok" /\ Boxed(fs[n]))
      PROVE  ds[i].store.writes = cs[i].store.writes /\ i < m /\ i \in 1 .. m
  <2>1. CASE Boxed(fs[n])
    <3>1. m = k + 1 /\ i \in 1 .. m - 1 /\ (i < k => i \in 1 .. m - 2) /\ i < m /\ i \in 1 .. m
        BY <1>2, <1>3, <2>1
    <3> QED
        BY <1>4, <2>1, <3>1 DEF DropsWrite, Below
  <2>2. CASE ~Boxed(fs[n])
    <3>1. m = k /\ i < m /\ i \in 1 .. m
        BY <1>2, <1>3, <1>4, <2>2
    <3> QED
        BY <2>2, <3>1 DEF DropsWrite, Below
  <2> QED
      BY <2>1, <2>2
<1>5. r = "ok" => ds[k].store.writes = cs[m].store.writes
  <2> SUFFICES ASSUME r = "ok" PROVE ds[k].store.writes = cs[m].store.writes
      OBVIOUS
  <2>1. CASE Boxed(fs[n])
    <3>1. m - 1 = k
        BY <1>2, <1>3, <2>1
    <3> QED
        BY <2>1, <3>1 DEF DropsWrite
  <2>2. CASE ~Boxed(fs[n])
    <3>1. m = k /\ m \in 1 .. m
        BY <1>2, <1>3, <2>2
    <3> QED
        BY <2>2, <3>1 DEF DropsWrite, Below
  <2> QED
      BY <2>1, <2>2
<1>6. ds[1].store.writes = {}
  <2>1. 1 \in 1 .. k /\ 1 < k
      BY <1>2, <1>3
  <2> QED
      BY <1>1, <1>4, <2>1 DEF Effects
<1>7. ASSUME NEW i \in 2 .. k, i < k \/ Clean(s)
      PROVE  Lives(gs, ds[i].store.writes, lh, i) /\ Held(gs, ds[i].store.writes, i)
  <2> DEFINE W == ds[i].store.writes
  <2>1. CASE i < k \/ r # "ok"
    <3>1. i < k \/ (r # "ok" /\ Boxed(fs[n]))
      <4>1. r # "ok" /\ s = "none" => Boxed(fs[n])
          BY DEF Resumes, Optional, Boxed
      <4>2. Clean(s) => s = "none"
          BY DEF Clean, Resumes
      <4> QED
          BY <1>7, <2>1, <4>1, <4>2
    <3>2. i \in 1 .. k /\ i \in Nat /\ i >= 2
        BY <1>2, <1>3
    <3>3. W = cs[i].store.writes /\ i < m /\ i \in 2 .. m
      <4>1. W = cs[i].store.writes /\ i < m /\ i \in 1 .. m
          BY <1>4, <3>1, <3>2
      <4> QED
          BY <1>1, <3>2, <4>1
    <3>4. Lives(fs, W, lg, i) /\ Held(fs, W, i)
        BY <3>3 DEF Effects
    <3>5. /\ status \in {"ok", "failed"} /\ (status = "failed" \/ i < fs[Len(fs) - 1].ctx)
          /\ i < fs[Len(fs)].ctx
        BY <1>3, <2>1, <3>3
    <3>6. Settles(lg, fs[n].id, status, lh)
        OBVIOUS
    <3> HIDE DEF W, status
    <3>7. Lives(gs, W, lh, i) /\ Held(gs, W, i)
      <4>1. fs[1].ctx = 2
          BY <1>2
      <4> QED
          BY <3>2, <3>4, <3>5, <3>6, <4>1, LivesAfter, ZenonT(60)
    <3> QED
        BY <3>7 DEF W
  <2>2. CASE i = k /\ r = "ok"
    <3>1. W = cs[m].store.writes /\ m \in 2 .. m /\ m = fs[n].ctx
        BY <1>2, <1>5, <2>2
    <3>2. Lives(fs, W, lg, fs[n].ctx) /\ Held(fs, W, fs[n].ctx)
        BY <2>2, <3>1 DEF Effects, Clean
    <3>3. Settles(lg, fs[n].id, "ok", lh)
        BY <2>2
    <3> HIDE DEF W
    <3>4. Lives(gs, W, lh, p) /\ Held(gs, W, p)
        BY <3>2, <3>3, LivesJoined
    <3> QED
        BY <1>3, <2>2, <3>4 DEF W
  <2>3. i < k \/ i = k
      BY <1>2, <1>3
  <2> QED
      BY <2>1, <2>2, <2>3
<1> QED
    BY <1>6, <1>7 DEF Effects
=============================================================================
