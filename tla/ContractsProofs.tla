-------------------------- MODULE ContractsProofs --------------------------
(***************************************************************************)
(* Proofs about Contracts and Registrations, for every set of accounts,    *)
(* binaries, hooks and access configurations, every choice of what         *)
(* propagates, and all bounds.                                             *)
(***************************************************************************)
EXTENDS Registrations, TLAPS, SequenceTheorems, FiniteSetTheorems

\* A call under way: of a deployed contract, by a policy that is never the one
\* of governance itself, but may be the part of it that propagates.
Lendable == {"default"} \cup Propagate
Calls(D) == [self : D, policy : Lendable]

IsHistory(h) == h \in Seq(Range(h)) /\ h # <<>>

Typed ==
    /\ DOMAIN history = Deployed
    /\ \A c \in Deployed : IsHistory(history[c])
    /\ \A c \in Deployed : DOMAIN contracts[c] = {"code", "creator", "admin", "port"}
    /\ stack \in Seq(Calls(Deployed))

\* No contract has the address of an account, in particular that of governance.
Separate == \A a \in Account \cup {NoAdmin} : a \notin Deployed

\* Power is lent in a transaction of governance only.
Lent == \A i \in 1 .. Len(stack) : stack[i].policy # "default" => sender = Gov

IInv == Typed /\ Separate /\ Lent /\ ContractsIndexed

-----------------------------------------------------------------------------
(* Sequences *)

LEMMA AppendHistory ==
    ASSUME NEW h, IsHistory(h), NEW e
    PROVE  /\ IsHistory(Append(h, e))
           /\ Last(Append(h, e)) = e
           /\ Head(Append(h, e)) = Head(h)
<1> DEFINE S == Range(h) \cup {e}
<1>1. h \in Seq(S)
  BY SeqMonotonic DEF IsHistory
<1>2. Append(h, e) \in Seq(S) /\ Append(h, e) # <<>> /\ Len(Append(h, e)) = Len(h) + 1
      /\ Append(h, e)[Len(h) + 1] = e /\ \A i \in 1 .. Len(h) : Append(h, e)[i] = h[i]
  BY <1>1, AppendProperties
<1>3. Len(h) \in Nat /\ Len(h) > 0
  BY <1>1, EmptySeq, LenProperties DEF IsHistory
<1>4. Append(h, e) \in Seq(Range(Append(h, e)))
  BY <1>2, SeqOfRange
<1>5. Head(Append(h, e)) = Append(h, e)[1] /\ Head(h) = h[1]
  BY <1>1, <1>2, <1>3, HeadTailProperties DEF IsHistory
<1> QED
  BY <1>2, <1>3, <1>4, <1>5 DEF IsHistory, Last

LEMMA NewHistory ==
    ASSUME NEW e
    PROVE  IsHistory(<<e>>) /\ Last(<<e>>) = e /\ Head(<<e>>) = e
<1>1. <<e>> \in Seq({e}) /\ <<e>> # <<>> /\ Len(<<e>>) = 1 /\ <<e>>[1] = e
  OBVIOUS
<1>2. <<e>> \in Seq(Range(<<e>>))
  BY <1>1, SeqOfRange
<1>3. Head(<<e>>) = <<e>>[1]
  BY <1>1, HeadTailProperties
<1> QED
  BY <1>1, <1>2, <1>3 DEF IsHistory, Last

\* The last of the calls under way is one of a deployed contract.
LEMMA LastCall ==
    ASSUME Typed, stack # <<>>
    PROVE  /\ Len(stack) \in Nat /\ Len(stack) > 0
           /\ Last(stack) = stack[Len(stack)]
           /\ Last(stack).self \in Deployed /\ Last(stack).policy \in Lendable
<1>1. Len(stack) \in Nat /\ Len(stack) > 0
  BY EmptySeq, LenProperties DEF Typed
<1>2. stack[Len(stack)] \in Calls(Deployed)
  BY <1>1, ElementOfSeq DEF Typed
<1> QED
  BY <1>1, <1>2 DEF Last, Calls

-----------------------------------------------------------------------------
(* Policies *)

\* Who acts, and with which power: all of governance's for governance itself,
\* outside of any call; a part of it in calls of a transaction of governance.
LEMMA Judged ==
    ASSUME IInv, NEW a, Acting(a), NEW p, p = selectAuthorizationPolicy(a)
    PROVE  /\ a # NoAdmin
           /\ stack # <<>> => sender' = sender
           /\ p = "gov" => sender' = Gov /\ stack = <<>>
           /\ p # "gov" => p \in Lendable
           /\ p # "gov" /\ p # "default" => sender' = Gov /\ stack # <<>>
<1>1. CASE stack = <<>>
  BY <1>1, AccountAssumption DEF Acting, selectAuthorizationPolicy, Lendable
<1>2. CASE stack # <<>>
  <2>1. a = Last(stack).self /\ sender' = sender
    BY <1>2 DEF Acting
  <2>2. a \in Deployed /\ Last(stack).policy \in Lendable
    BY <1>2, <2>1, LastCall DEF IInv
  <2>3. a # NoAdmin /\ a # Gov
    BY <2>2, AccountAssumption DEF IInv, Separate
  <2>4. p = Last(stack).policy
    BY <1>2, <2>3 DEF selectAuthorizationPolicy
  <2>5. p # "default" => sender = Gov
    BY <1>2, <2>4, LastCall DEF IInv, Lent
  <2>6. p # "gov"
    BY <2>2, <2>4, PropagateAssumption DEF Lendable
  <2> QED
    BY <1>2, <2>1, <2>2, <2>3, <2>4, <2>5, <2>6
<1> QED
  BY <1>1, <1>2

\* The policy that is passed on to the messages of the called contract.
LEMMA PassedOn ==
    ASSUME NEW p, p # "gov" => p \in Lendable, NEW action,
           NEW q, q = SubMessageAuthorizationPolicy(p, action, Propagate)
    PROVE  q \in Lendable /\ (q # "default" => p # "default")
BY DEF SubMessageAuthorizationPolicy, Lendable

\* A call keeps the calls typed and power lent by governance only.
LEMMA CallKeeps ==
    ASSUME Typed, Lent, NEW c, NEW p, Call(c, p), NEW D, Deployed \subseteq D, c \in D,
           p \in Lendable, p # "default" => sender' = Gov,
           stack # <<>> => sender' = sender
    PROVE  stack' \in Seq(Calls(D)) /\ Lent'
<1> DEFINE f == [self |-> c, policy |-> p]
<1>1. stack \in Seq(Calls(D))
  <2>1. Calls(Deployed) \subseteq Calls(D)
    BY DEF Calls
  <2> QED
    BY <2>1, SeqMonotonic DEF Typed
<1>2. f \in Calls(D)
  BY DEF Calls
<1>3. stack' = Append(stack, f)
  BY DEF Call
<1>4. /\ stack' \in Seq(Calls(D)) /\ Len(stack') = Len(stack) + 1
      /\ stack'[Len(stack) + 1] = f /\ \A i \in 1 .. Len(stack) : stack'[i] = stack[i]
  <2> HIDE DEF f
  <2> QED
    BY <1>1, <1>2, <1>3, AppendProperties
<1>5. Len(stack) \in Nat /\ (stack = <<>> => Len(stack) = 0)
  BY <1>1, LenProperties, EmptySeq
<1>6. ASSUME NEW i \in 1 .. Len(stack'), stack'[i].policy # "default"
      PROVE  sender' = Gov
  <2>1. CASE i = Len(stack) + 1
    BY <1>4, <1>6, <2>1
  <2>2. CASE i # Len(stack) + 1
    <3>1. i \in 1 .. Len(stack) /\ stack # <<>>
      BY <1>4, <1>5, <1>6, <2>2
    <3> QED
      BY <1>4, <1>6, <3>1 DEF Lent
  <2> QED
    BY <2>1, <2>2
<1> QED
  BY <1>4, <1>6 DEF Lent

-----------------------------------------------------------------------------
(* The steps that change contracts *)

\* What an instantiation does to the rows: contract c is added, with a history
\* of one entry, and its rows to the indexes.
LEMMA Instantiates ==
    ASSUME IInv, NEW a, Acting(a), NEW id, NEW code, NEW admin, NEW c,
           instantiate(a, id, code, admin, c)
    PROVE  /\ Typed' /\ Separate' /\ Lent' /\ ContractsIndexed'
           /\ DOMAIN contracts' = Deployed \cup {c}
           /\ contracts'[c].code = id /\ contracts'[c].creator = a
           /\ \A d \in Deployed : contracts'[d] = contracts[d]
           /\ CanInstantiateContract(selectAuthorizationPolicy(a), code.access, a)
<1> DEFINE e == [code |-> id, pos |-> pos]
           p == selectAuthorizationPolicy(a)
           q == SubMessageAuthorizationPolicy(p, "instantiate", Propagate)
           new == [code |-> id, creator |-> a, admin |-> admin,
                   port |-> code.binary \in IBCBinary]
<1>1. /\ c \notin Deployed /\ c \notin Account \cup {NoAdmin}
      /\ contracts' = [d \in Deployed \cup {c} |-> IF d = c THEN new ELSE contracts[d]]
      /\ history' = [d \in Deployed \cup {c} |-> IF d = c THEN <<e>> ELSE history[d]]
      /\ byCode' = byCode \cup {<<id, pos, c>>}
      /\ byCreator' = byCreator \cup {<<a, pos, c>>}
      /\ Call(c, q)
      /\ CanInstantiateContract(p, code.access, a)
  BY DEF instantiate, addToSecondaryIndexes
<1>2. /\ new.code = id /\ new.creator = a
      /\ DOMAIN new = {"code", "creator", "admin", "port"}
      /\ e.code = id /\ e.pos = pos
  OBVIOUS
<1>3. IsHistory(<<e>>) /\ Last(<<e>>) = e /\ Head(<<e>>) = e
  BY NewHistory
<1>4. stack' \in Seq(Calls(Deployed \cup {c})) /\ Lent'
  <2>1. q \in Lendable /\ (q # "default" => sender' = Gov) /\ (stack # <<>> => sender' = sender)
    <3> HIDE DEF p
    <3>1. /\ stack # <<>> => sender' = sender
          /\ p = "gov" => sender' = Gov
          /\ p # "gov" => p \in Lendable
          /\ p # "gov" /\ p # "default" => sender' = Gov
      BY Judged DEF p
    <3>2. q \in Lendable /\ (q # "default" => p # "default")
      BY <3>1, PassedOn
    <3> QED
      BY <3>1, <3>2
  <2> HIDE DEF q
  <2> QED
    BY <1>1, <2>1, CallKeeps DEF IInv
<1> HIDE DEF e, p, q, new
<1>5. /\ DOMAIN contracts' = Deployed \cup {c} /\ contracts'[c] = new
      /\ \A d \in Deployed : contracts'[d] = contracts[d]
      /\ DOMAIN history' = Deployed \cup {c} /\ history'[c] = <<e>>
      /\ \A d \in Deployed : history'[d] = history[d]
  BY <1>1 DEF IInv, Typed
<1>6. Typed'
  BY <1>2, <1>3, <1>4, <1>5 DEF IInv, Typed, Deployed
<1>7. Separate'
  BY <1>1, <1>5 DEF IInv, Separate, Deployed
<1>8. ContractsIndexed'
  <2>1. byCode' = {<<contracts'[d].code, Last(history'[d]).pos, d>> : d \in Deployed \cup {c}}
    <3>1. byCode = {<<contracts[d].code, Last(history[d]).pos, d>> : d \in Deployed}
      BY DEF IInv, ContractsIndexed
    <3>2. \A d \in Deployed : <<contracts'[d].code, Last(history'[d]).pos, d>>
                              = <<contracts[d].code, Last(history[d]).pos, d>>
      BY <1>5
    <3>3. <<contracts'[c].code, Last(history'[c]).pos, c>> = <<id, pos, c>>
      BY <1>2, <1>3, <1>5
    <3>4. byCode' = byCode \cup {<<id, pos, c>>}
      BY <1>1
    <3> QED
      BY <3>1, <3>2, <3>3, <3>4, Zenon
  <2>2. byCreator' = {<<contracts'[d].creator, Head(history'[d]).pos, d>> : d \in Deployed \cup {c}}
    <3>1. byCreator = {<<contracts[d].creator, Head(history[d]).pos, d>> : d \in Deployed}
      BY DEF IInv, ContractsIndexed
    <3>2. \A d \in Deployed : <<contracts'[d].creator, Head(history'[d]).pos, d>>
                              = <<contracts[d].creator, Head(history[d]).pos, d>>
      BY <1>5
    <3>3. <<contracts'[c].creator, Head(history'[c]).pos, c>> = <<a, pos, c>>
      BY <1>2, <1>3, <1>5
    <3>4. byCreator' = byCreator \cup {<<a, pos, c>>}
      BY <1>1
    <3> QED
      BY <3>1, <3>2, <3>3, <3>4, Zenon
  <2>3. \A d \in Deployed \cup {c} : Last(history'[d]).code = contracts'[d].code
    BY <1>2, <1>3, <1>5 DEF IInv, ContractsIndexed
  <2> QED
    BY <1>5, <2>1, <2>2, <2>3 DEF ContractsIndexed, Deployed
<1> QED
  BY <1>1, <1>2, <1>4, <1>5, <1>6, <1>7, <1>8 DEF p

\* A call that is not made leaves the calls under way as they are.
LEMMA NoCallKeeps ==
    ASSUME Typed, Lent, UNCHANGED stack, stack # <<>> => sender' = sender
    PROVE  stack' \in Seq(Calls(Deployed)) /\ Lent'
<1>1. stack = <<>> => Len(stack) = 0
  BY EmptySeq
<1> QED
  BY <1>1 DEF Typed, Lent

\* What a migration does to the rows: contract c has a new code and one entry
\* more in its history, and its row in the index by code is the new one.
LEMMA Migrates ==
    ASSUME IInv, NEW a, Acting(a), NEW c \in Deployed, NEW id, NEW code,
           NEW called, migrate(a, c, id, code, called), UNCHANGED byCreator
    PROVE  /\ Typed' /\ Separate' /\ Lent' /\ ContractsIndexed'
           /\ DOMAIN contracts' = Deployed
           /\ \A d \in Deployed \ {c} : contracts'[d] = contracts[d]
           /\ CanModifyContract(selectAuthorizationPolicy(a), contracts[c].admin, a)
<1> DEFINE e == [code |-> id, pos |-> pos]
           p == selectAuthorizationPolicy(a)
           q == SubMessageAuthorizationPolicy(p, "migrate", Propagate)
<1>1. /\ contracts' = [contracts EXCEPT ![c].code = id,
                                      ![c].port = @ \/ code.binary \in IBCBinary]
      /\ history' = [history EXCEPT ![c] = Append(@, e)]
      /\ byCode' = (byCode \ {<<Last(history[c]).code, Last(history[c]).pos, c>>})
                     \cup {<<id, pos, c>>}
      /\ byCreator' = byCreator
      /\ IF called THEN Call(c, q) ELSE UNCHANGED stack
      /\ CanModifyContract(p, contracts[c].admin, a)
  BY DEF migrate, reindex, storeMigratedInfo
<1>2. e.code = id /\ e.pos = pos
  OBVIOUS
<1>3. stack' \in Seq(Calls(Deployed)) /\ Lent'
  <2>1. q \in Lendable /\ (q # "default" => sender' = Gov) /\ (stack # <<>> => sender' = sender)
    <3> HIDE DEF p
    <3>1. /\ stack # <<>> => sender' = sender
          /\ p = "gov" => sender' = Gov
          /\ p # "gov" => p \in Lendable
          /\ p # "gov" /\ p # "default" => sender' = Gov
      BY Judged DEF p
    <3>2. q \in Lendable /\ (q # "default" => p # "default")
      BY <3>1, PassedOn
    <3> QED
      BY <3>1, <3>2
  <2> HIDE DEF q
  <2> QED
    BY <1>1, <2>1, CallKeeps, NoCallKeeps DEF IInv
<1> HIDE DEF e, p, q
<1>4. /\ IsHistory(Append(history[c], e)) /\ Last(Append(history[c], e)) = e
      /\ Head(Append(history[c], e)) = Head(history[c])
  BY AppendHistory DEF IInv, Typed
<1>5. /\ DOMAIN history' = Deployed /\ history'[c] = Append(history[c], e)
      /\ \A d \in Deployed \ {c} : history'[d] = history[d]
  BY <1>1 DEF IInv, Typed
<1>6. /\ DOMAIN contracts' = Deployed
      /\ \A d \in Deployed \ {c} : contracts'[d] = contracts[d]
      /\ DOMAIN contracts'[c] = DOMAIN contracts[c]
      /\ contracts'[c].code = id /\ contracts'[c].creator = contracts[c].creator
  BY <1>1 DEF IInv, Typed, Deployed
<1>7. Typed'
  BY <1>3, <1>4, <1>5, <1>6 DEF IInv, Typed, Deployed
<1>8. Separate'
  BY <1>6 DEF IInv, Separate, Deployed
<1>9. ContractsIndexed'
  <2>1. byCode' = {<<contracts'[d].code, Last(history'[d]).pos, d>> : d \in Deployed}
    <3>1. byCode = {<<contracts[d].code, Last(history[d]).pos, d>> : d \in Deployed}
      BY DEF IInv, ContractsIndexed
    <3>2. \A d \in Deployed \ {c} : <<contracts'[d].code, Last(history'[d]).pos, d>>
                                    = <<contracts[d].code, Last(history[d]).pos, d>>
      BY <1>5, <1>6
    <3>3. <<contracts'[c].code, Last(history'[c]).pos, c>> = <<id, pos, c>>
      BY <1>2, <1>4, <1>5, <1>6
    <3>4. byCode' = (byCode \ {<<contracts[c].code, Last(history[c]).pos, c>>})
                      \cup {<<id, pos, c>>}
      BY <1>1 DEF IInv, ContractsIndexed
    <3>5. byCode \ {<<contracts[c].code, Last(history[c]).pos, c>>}
            = {<<contracts[d].code, Last(history[d]).pos, d>> : d \in Deployed \ {c}}
      BY <3>1
    <3> QED
      BY <3>2, <3>3, <3>4, <3>5, Zenon
  <2>2. byCreator' = {<<contracts'[d].creator, Head(history'[d]).pos, d>> : d \in Deployed}
    <3>1. \A d \in Deployed : contracts'[d].creator = contracts[d].creator
                               /\ Head(history'[d]).pos = Head(history[d]).pos
      BY <1>4, <1>5, <1>6
    <3>2. byCreator' = {<<contracts[d].creator, Head(history[d]).pos, d>> : d \in Deployed}
      BY <1>1 DEF IInv, ContractsIndexed
    <3> QED
      BY <3>1, <3>2, Zenon
  <2>3. \A d \in Deployed : Last(history'[d]).code = contracts'[d].code
    BY <1>2, <1>4, <1>5, <1>6 DEF IInv, ContractsIndexed
  <2> QED
    BY <1>6, <2>1, <2>2, <2>3 DEF ContractsIndexed, Deployed
<1> QED
  BY <1>1, <1>3, <1>6, <1>7, <1>8, <1>9 DEF p

\* A new admin changes nothing else.
LEMMA Administers ==
    ASSUME IInv, NEW a, NEW c, NEW new, setContractAdmin(a, c, new)
    PROVE  /\ Typed' /\ Separate' /\ Lent' /\ ContractsIndexed'
           /\ c \in Deployed /\ DOMAIN contracts' = Deployed
           /\ \A d \in Deployed \ {c} : contracts'[d] = contracts[d]
           /\ Acting(a)
           /\ CanModifyContract(selectAuthorizationPolicy(a), contracts[c].admin, a)
<1>1. /\ c \in Deployed /\ Acting(a)
      /\ CanModifyContract(selectAuthorizationPolicy(a), contracts[c].admin, a)
      /\ contracts' = [contracts EXCEPT ![c].admin = new]
      /\ UNCHANGED <<history, byCode, byCreator, stack>>
  BY DEF setContractAdmin
<1>2. /\ DOMAIN contracts' = Deployed
      /\ \A d \in Deployed \ {c} : contracts'[d] = contracts[d]
      /\ DOMAIN contracts'[c] = DOMAIN contracts[c]
      /\ contracts'[c].code = contracts[c].code /\ contracts'[c].creator = contracts[c].creator
  BY <1>1 DEF IInv, Typed, Deployed
<1>3. stack' \in Seq(Calls(Deployed)) /\ Lent'
  BY <1>1, NoCallKeeps DEF IInv, Acting
<1>4. Typed' /\ Separate'
  BY <1>1, <1>2, <1>3 DEF IInv, Typed, Separate, Deployed
<1>5. ContractsIndexed'
  <2>1. \A d \in Deployed : /\ contracts'[d].code = contracts[d].code
                             /\ contracts'[d].creator = contracts[d].creator
    BY <1>2
  <2>2. byCode' = {<<contracts'[d].code, Last(history'[d]).pos, d>> : d \in Deployed}
    <3>1. byCode' = {<<contracts[d].code, Last(history'[d]).pos, d>> : d \in Deployed}
      BY <1>1 DEF IInv, ContractsIndexed
    <3> QED
      BY <2>1, <3>1, Zenon
  <2>3. byCreator' = {<<contracts'[d].creator, Head(history'[d]).pos, d>> : d \in Deployed}
    <3>1. byCreator' = {<<contracts[d].creator, Head(history'[d]).pos, d>> : d \in Deployed}
      BY <1>1 DEF IInv, ContractsIndexed
    <3> QED
      BY <2>1, <3>1, Zenon
  <2>4. \A d \in Deployed : Last(history'[d]).code = contracts'[d].code
    BY <1>1, <2>1 DEF IInv, ContractsIndexed
  <2> QED
    BY <1>2, <2>2, <2>3, <2>4 DEF ContractsIndexed, Deployed
<1> QED
  BY <1>1, <1>2, <1>3, <1>4, <1>5

-----------------------------------------------------------------------------
(* Every step is one of four *)

\* The code a contract will run was stored before, or by the same message.
CodeChosen(a, id, code) ==
    /\ codes'[id] = code
    /\ \/ id \in CodeIds /\ UNCHANGED codes
       \/ id = Len(codes) + 1 /\ \E binary \in Binary, config \in Configs : create(a, binary, config)

InstantiatedBy(a, id, code, admin, c) ==
    /\ Acting(a) /\ instantiate(a, id, code, admin, c) /\ CodeChosen(a, id, code)
    /\ nextInstance' \in {nextInstance, nextInstance + 1}
MigratedBy(a, c, id, code, called) ==
    /\ Acting(a) /\ c \in Deployed /\ UNCHANGED <<byCreator, nextInstance>>
    /\ migrate(a, c, id, code, called) /\ CodeChosen(a, id, code)

Instantiated == \E a, id, code, admin, c : InstantiatedBy(a, id, code, admin, c)
Migrated == \E a, c, id, code, called : MigratedBy(a, c, id, code, called)
Administered == \E a, c, new : setContractAdmin(a, c, new)

\* The rows stay, and the calls under way keep what Typed and Lent say of them.
Quiet ==
    /\ UNCHANGED <<nextInstance, contracts, history, byCode, byCreator>>
    /\ stack' \in Seq(Calls(Deployed)) /\ Lent'

LEMMA CodeSteps ==
    ASSUME IInv, NEW a, CodeMessage(a)
    PROVE  Quiet
<1>1. /\ UNCHANGED <<nextInstance, contracts, history, byCode, byCreator, stack>>
      /\ Acting(a)
  BY DEF CodeMessage, StoreCode, setAccessConfig
<1> QED
  BY <1>1, NoCallKeeps DEF IInv, Acting, Quiet

LEMMA CallSteps ==
    ASSUME IInv, NEW a, NEW c,
           ExecuteContract(a, c) \/ SudoContract(c)
    PROVE  Quiet
<1>1. CASE ExecuteContract(a, c)
  <2> DEFINE p == IF stack = <<>> THEN "default" ELSE Last(stack).policy
  <2>1. /\ Acting(a) /\ c \in Deployed /\ Call(c, p)
        /\ UNCHANGED <<nextInstance, contracts, history, byCode, byCreator>>
    BY <1>1 DEF ExecuteContract, rows
  <2>2. stack # <<>> => sender' = sender
    BY <2>1 DEF Acting
  <2>3. p \in Lendable
    BY LastCall DEF IInv, Lendable
  <2>4. p # "default" => sender' = Gov
    BY <2>2, LastCall DEF IInv, Lent
  <2> HIDE DEF p
  <2> QED
    BY <2>1, <2>2, <2>3, <2>4, CallKeeps DEF IInv, Quiet
<1>2. CASE SudoContract(c)
  <2>1. /\ Acting(Gov) /\ c \in Deployed /\ Call(c, "default")
        /\ UNCHANGED <<nextInstance, contracts, history, byCode, byCreator>>
    BY <1>2 DEF SudoContract, rows
  <2>2. stack # <<>> => sender' = sender
    BY <2>1 DEF Acting
  <2>3. "default" \in Lendable
    BY DEF Lendable
  <2> QED
    BY <2>1, <2>2, <2>3, CallKeeps DEF IInv, Quiet
<1> QED
  BY <1>1, <1>2

LEMMA ContractSteps ==
    ASSUME IInv, NEW a, ContractMessage(a)
    PROVE  Quiet \/ Instantiated \/ Migrated \/ Administered
<1>1. ASSUME NEW id \in CodeIds, NEW admin \in Admins, InstantiateContract(a, id, admin)
      PROVE  Instantiated
  <2>1. InstantiatedBy(a, id, codes[id], admin, ClassicAddress)
    BY <1>1 DEF InstantiateContract, NextInstance, InstantiatedBy, CodeChosen
  <2> QED
    BY <2>1 DEF Instantiated
<1>2. ASSUME NEW id \in CodeIds, NEW admin \in Admins, InstantiateContract2(a, id, admin)
      PROVE  Instantiated
  <2>1. InstantiatedBy(a, id, codes[id], admin, PredictableAddress(a, codes[id].binary))
    BY <1>2 DEF InstantiateContract2, InstantiatedBy, CodeChosen
  <2> QED
    BY <2>1 DEF Instantiated
<1>3. ASSUME NEW binary \in Binary, NEW config \in Configs, NEW admin \in Admins,
             StoreAndInstantiateContract(a, binary, config, admin)
      PROVE  Instantiated
  <2>1. InstantiatedBy(a, Len(codes) + 1, codes'[Len(codes) + 1], admin, ClassicAddress)
    BY <1>3 DEF StoreAndInstantiateContract, NextInstance, InstantiatedBy, CodeChosen
  <2> QED
    BY <2>1 DEF Instantiated
<1>4. ASSUME NEW c \in Deployed, NEW id \in CodeIds, NEW called \in BOOLEAN,
             MigrateContract(a, c, id, called)
      PROVE  Migrated
  <2>1. MigratedBy(a, c, id, codes[id], called)
    BY <1>4 DEF MigrateContract, MigratedBy, CodeChosen
  <2> QED
    BY <2>1 DEF Migrated
<1>5. ASSUME NEW c \in Deployed, NEW binary \in Binary, NEW config \in Configs,
             NEW called \in BOOLEAN, StoreAndMigrateContract(a, binary, config, c, called)
      PROVE  Migrated
  <2>1. MigratedBy(a, c, Len(codes) + 1, codes'[Len(codes) + 1], called)
    BY <1>5 DEF StoreAndMigrateContract, MigratedBy, CodeChosen
  <2> QED
    BY <2>1 DEF Migrated
<1>6. ASSUME NEW c \in Deployed, NEW new \in Admins, setContractAdmin(a, c, new)
      PROVE  Administered
  BY <1>6 DEF Administered
<1>7. ASSUME NEW c \in Deployed, ExecuteContract(a, c)
      PROVE  Quiet
  BY <1>7, CallSteps
<1> QED
  BY <1>1, <1>2, <1>3, <1>4, <1>5, <1>6, <1>7 DEF ContractMessage

LEMMA Steps ==
    ASSUME IInv, Next
    PROVE  Quiet \/ Instantiated \/ Migrated \/ Administered
<1>1. ASSUME NEW a \in Actors, CodeMessage(a) \/ ContractMessage(a)
      PROVE  Quiet \/ Instantiated \/ Migrated \/ Administered
  BY <1>1, CodeSteps, ContractSteps
<1>2. ASSUME NEW c \in Deployed, SudoContract(c)
      PROVE  Quiet
  BY <1>2, CallSteps
<1>3. CASE ParamsMessage
  <2>1. UNCHANGED <<nextInstance, contracts, history, byCode, byCreator, stack>> /\ Acting(Gov)
    BY <1>3 DEF ParamsMessage, UpdateParams, AddCodeUploadParamsAddresses,
         RemoveCodeUploadParamsAddresses, AddCircuitUploadParamsAddresses,
         RemoveCircuitUploadParamsAddresses, editUploadList, rows
  <2> QED
    BY <2>1, NoCallKeeps DEF IInv, Acting, Quiet
<1>4. CASE Return
  <2>1. /\ UNCHANGED <<nextInstance, contracts, history, byCode, byCreator, sender>>
        /\ stack # <<>> /\ stack' = SubSeq(stack, 1, Len(stack) - 1)
    BY <1>4 DEF Return, rows, Front
  <2>2. Len(stack) \in Nat /\ Len(stack) > 0
    BY <2>1, LastCall DEF IInv
  <2>3. /\ stack' \in Seq(Calls(Deployed)) /\ Len(stack') = Len(stack) - 1
        /\ \A i \in 1 .. Len(stack) - 1 : stack'[i] = stack[i]
    <3> DEFINE n == Len(stack) - 1
    <3>1. n \in Int /\ n >= 0
      BY <2>2
    <3>2. \A i \in 1 .. n : stack[i] \in Calls(Deployed)
      BY <2>2, ElementOfSeq DEF IInv, Typed
    <3> HIDE DEF n
    <3>3. /\ SubSeq(stack, 1, n) \in Seq(Calls(Deployed))
          /\ Len(SubSeq(stack, 1, n)) = IF 1 <= n THEN n - 1 + 1 ELSE 0
          /\ \A i \in 1 .. n - 1 + 1 : SubSeq(stack, 1, n)[i] = stack[1 + i - 1]
      BY <3>1, <3>2, SubSeqProperties
    <3>4. stack' = SubSeq(stack, 1, n)
      BY <2>1 DEF n
    <3>5. Len(stack') = n /\ \A i \in 1 .. n : stack'[i] = stack[i]
      BY <3>1, <3>3, <3>4
    <3> QED
      BY <3>3, <3>4, <3>5 DEF n
  <2>4. Lent'
    BY <2>1, <2>2, <2>3 DEF IInv, Lent
  <2> QED
    BY <2>1, <2>3, <2>4 DEF Quiet
<1>5. CASE NextTx
  <2>1. UNCHANGED <<nextInstance, contracts, history, byCode, byCreator, stack, sender>>
    BY <1>5 DEF NextTx, rows
  <2> QED
    BY <2>1, NoCallKeeps DEF IInv, Quiet
<1> QED
  BY <1>1, <1>2, <1>3, <1>4, <1>5 DEF Next

-----------------------------------------------------------------------------
(* The theorems *)

LEMMA Initially == Init => IInv
<1> SUFFICES ASSUME Init PROVE IInv
  OBVIOUS
<1>1. Deployed = {} /\ DOMAIN history = {} /\ byCode = {} /\ byCreator = {} /\ stack = <<>>
  BY DEF Init, Deployed
<1>2. stack \in Seq(Calls(Deployed)) /\ Len(stack) = 0
  BY <1>1, EmptySeq
<1> QED
  BY <1>1, <1>2 DEF IInv, Typed, Separate, Lent, ContractsIndexed

LEMMA Preserved ==
    ASSUME IInv, Quiet \/ Instantiated \/ Migrated \/ Administered
    PROVE  IInv'
<1>1. CASE Quiet
  <2>1. Typed'
    BY <1>1 DEF IInv, Quiet, Typed, Deployed
  <2>2. Separate'
    BY <1>1 DEF IInv, Quiet, Separate, Deployed
  <2>3. ContractsIndexed'
    BY <1>1 DEF IInv, Quiet, ContractsIndexed, Deployed
  <2> QED
    BY <1>1, <2>1, <2>2, <2>3 DEF IInv, Quiet
<1>2. CASE Instantiated
  BY <1>2, Instantiates DEF IInv, Instantiated, InstantiatedBy
<1>3. CASE Migrated
  BY <1>3, Migrates DEF IInv, Migrated, MigratedBy
<1>4. CASE Administered
  BY <1>4, Administers DEF IInv, Administered
<1> QED
  BY <1>1, <1>2, <1>3, <1>4

LEMMA Stutters == ASSUME IInv, UNCHANGED vars PROVE IInv'
  BY DEF IInv, Typed, Separate, Lent, ContractsIndexed, Deployed, vars, rows

LEMMA Inductive == Spec => []IInv
<1>1. IInv /\ [Next]_vars => IInv'
  BY Steps, Preserved, Stutters
<1> QED
  BY <1>1, Initially, PTL DEF Spec

\* Registrations leave contracts, calls and the power that is lent alone.
LEMMA RegSteps ==
    ASSUME IInv, RegNext
    PROVE  Quiet \/ Instantiated \/ Migrated \/ Administered
<1>1. ASSUME NEW a, Acting(a), UNCHANGED <<rows, stack>> PROVE Quiet
  BY <1>1, NoCallKeeps DEF IInv, Acting, Quiet, rows
<1>2. ASSUME NEW a, NEW c, RegMessage(a, c) PROVE Acting(a) /\ UNCHANGED <<rows, stack>>
  BY <1>2 DEF RegMessage, handleContractRegister, handleContractRemoval, RegisterFeeShare,
     UpdateFeeShare, CancelFeeShare
<1>3. ASSUME NEW on, UpdateFeeShareParams(on) PROVE Acting(Gov) /\ UNCHANGED <<rows, stack>>
  BY <1>3 DEF UpdateFeeShareParams
<1> QED
  BY <1>1, <1>2, <1>3, Steps DEF RegNext

LEMMA RegInductive == RegSpec => []IInv
<1>1. IInv /\ [RegNext]_<<vars, regVars>> => IInv'
  BY RegSteps, Preserved, Stutters
<1>2. RegInit => IInv
  BY Initially DEF RegInit
<1> QED
  BY <1>1, <1>2, PTL DEF RegSpec

\* In every state the indexes by code and by creator, the history and the
\* contract rows agree, however contracts are nested, migrated and administered.
THEOREM IndexesAgree == Spec => []ContractsIndexed
<1>1. IInv => ContractsIndexed
  BY DEF IInv
<1> QED
  BY <1>1, Inductive, PTL

\* The steps that change a contract without admin, and those that add a contract.
LEMMA LockedStep ==
    ASSUME IInv, Quiet \/ Instantiated \/ Migrated \/ Administered,
           NEW c \in Deployed, contracts[c].admin = NoAdmin, contracts'[c] # contracts[c]
    PROVE  sender' = Gov /\ (stack = <<>> \/ "migrate" \in Propagate)
<1>1. ASSUME NEW a, Acting(a), CanModifyContract(selectAuthorizationPolicy(a), NoAdmin, a)
      PROVE  sender' = Gov /\ (stack = <<>> \/ "migrate" \in Propagate)
  BY <1>1, Judged DEF CanModifyContract, Lendable
<1>2. ~Quiet
  BY DEF Quiet
<1>3. ~Instantiated
  BY Instantiates DEF Instantiated, InstantiatedBy
<1>4. CASE Migrated
  <2>1. PICK a, d, id, code, called : MigratedBy(a, d, id, code, called)
    BY <1>4 DEF Migrated
  <2>2. /\ \A e \in Deployed \ {d} : contracts'[e] = contracts[e]
        /\ CanModifyContract(selectAuthorizationPolicy(a), contracts[d].admin, a)
        /\ Acting(a)
    BY <2>1, Migrates DEF MigratedBy
  <2>3. c = d
    BY <2>2
  <2> QED
    BY <1>1, <2>2, <2>3
<1>5. CASE Administered
  <2>1. PICK a, d, new : setContractAdmin(a, d, new)
    BY <1>5 DEF Administered
  <2>2. /\ \A e \in Deployed \ {d} : contracts'[e] = contracts[e]
        /\ CanModifyContract(selectAuthorizationPolicy(a), contracts[d].admin, a)
        /\ Acting(a)
    BY <2>1, Administers
  <2>3. c = d
    BY <2>2
  <2> QED
    BY <1>1, <2>2, <2>3
<1> QED
  BY <1>2, <1>3, <1>4, <1>5

LEMMA RightStep ==
    ASSUME IInv, Quiet \/ Instantiated \/ Migrated \/ Administered,
           NEW c \in (DOMAIN contracts') \ Deployed
    PROVE  \/ Allowed(codes'[contracts'[c].code].access, contracts'[c].creator)
           \/ sender' = Gov /\ (stack = <<>> \/ "instantiate" \in Propagate)
<1>1. CASE Instantiated
  <2>1. PICK a, id, code, admin, d : InstantiatedBy(a, id, code, admin, d)
    BY <1>1 DEF Instantiated
  <2>2. Acting(a) /\ instantiate(a, id, code, admin, d) /\ codes'[id] = code
    BY <2>1 DEF InstantiatedBy, CodeChosen
  <2>3. /\ DOMAIN contracts' = Deployed \cup {d}
        /\ CanInstantiateContract(selectAuthorizationPolicy(a), code.access, a)
    BY <2>2, Instantiates
  <2>4. c = d
    BY <2>3
  <2>5. contracts'[d].code = id /\ contracts'[d].creator = a
    BY <2>2 DEF instantiate
  <2>6. selectAuthorizationPolicy(a) \in {"gov", "instantiate"} \/ Allowed(code.access, a)
    BY <2>3 DEF CanInstantiateContract
  <2>7. ASSUME selectAuthorizationPolicy(a) \in {"gov", "instantiate"}
        PROVE  sender' = Gov /\ (stack = <<>> \/ "instantiate" \in Propagate)
    <3> DEFINE p == selectAuthorizationPolicy(a)
    <3>1. /\ p = "gov" => sender' = Gov /\ stack = <<>>
          /\ p # "gov" => p \in Lendable
          /\ p # "gov" /\ p # "default" => sender' = Gov
      BY <2>2, Judged
    <3> HIDE DEF p
    <3>2. p \in {"gov", "instantiate"}
      BY <2>7 DEF p
    <3> QED
      BY <3>1, <3>2 DEF Lendable
  <2> QED
    BY <2>2, <2>4, <2>5, <2>6, <2>7
<1>2. ~Migrated
  BY Migrates DEF Migrated, MigratedBy
<1>3. ~Administered
  BY Administers DEF Administered
<1>4. ~Quiet
  BY DEF Quiet, Deployed
<1> QED
  BY <1>1, <1>2, <1>3, <1>4

\* Nobody but governance itself, or a migration it lends its power to, changes a
\* contract without admin (selectAuthorizationPolicy, CanModifyContract).
THEOREM LockedStaysLocked == Spec => LockedContracts
<1> DEFINE Locked ==
        \A c \in Deployed : contracts[c].admin = NoAdmin /\ contracts'[c] # contracts[c] =>
            /\ sender' = Gov
            /\ stack = <<>> \/ "migrate" \in Propagate
<1>1. ASSUME IInv, Next PROVE Locked
  BY <1>1, Steps, LockedStep
<1>2. IInv /\ [Next]_vars => [Locked]_vars
  BY <1>1 DEF vars, params, rows, Deployed
<1>3. Spec => [][Locked]_vars
  BY <1>2, Inductive, PTL DEF Spec
<1> QED
  BY <1>3 DEF LockedContracts

\* Nor when owners register their contracts with x/cw-hooks and x/feeshare.
THEOREM LockedWithRegistrations == RegSpec => LockedContracts
<1> DEFINE Locked ==
        \A c \in Deployed : contracts[c].admin = NoAdmin /\ contracts'[c] # contracts[c] =>
            /\ sender' = Gov
            /\ stack = <<>> \/ "migrate" \in Propagate
<1>1. ASSUME IInv, RegNext PROVE Locked
  BY <1>1, RegSteps, LockedStep
<1>2. IInv /\ [RegNext]_<<vars, regVars>> => [Locked]_vars
  BY <1>1 DEF vars, params, rows, Deployed
<1>3. RegSpec => [][Locked]_vars
  BY <1>2, RegInductive, PTL DEF RegSpec
<1> QED
  BY <1>3 DEF LockedContracts

\* A code is instantiated by whom it allows, by governance, or with the power to
\* instantiate that governance lent in its own transaction.
THEOREM InstantiatedRightly == Spec => InstantiatedByRight
<1> DEFINE Rightly ==
        \A c \in (DOMAIN contracts') \ Deployed :
            \/ Allowed(codes'[contracts'[c].code].access, contracts'[c].creator)
            \/ sender' = Gov /\ (stack = <<>> \/ "instantiate" \in Propagate)
<1>1. ASSUME IInv, Next PROVE Rightly
  BY <1>1, Steps, RightStep
<1>2. IInv /\ [Next]_vars => [Rightly]_vars
  BY <1>1 DEF vars, params, rows, Deployed
<1>3. Spec => [][Rightly]_vars
  BY <1>2, Inductive, PTL DEF Spec
<1> QED
  BY <1>3 DEF InstantiatedByRight

\* The same with registrations, whose messages change who sent last.
THEOREM RightlyWithRegistrations == RegSpec => InstantiatedByRight
<1> DEFINE Rightly ==
        \A c \in (DOMAIN contracts') \ Deployed :
            \/ Allowed(codes'[contracts'[c].code].access, contracts'[c].creator)
            \/ sender' = Gov /\ (stack = <<>> \/ "instantiate" \in Propagate)
<1>1. ASSUME IInv, RegNext PROVE Rightly
  BY <1>1, RegSteps, RightStep
<1>2. IInv /\ [RegNext]_<<vars, regVars>> => [Rightly]_vars
  BY <1>1 DEF vars, params, rows, Deployed
<1>3. RegSpec => [][Rightly]_vars
  BY <1>2, RegInductive, PTL DEF RegSpec
<1> QED
  BY <1>3 DEF InstantiatedByRight

-----------------------------------------------------------------------------
(* Codes, deployments, counters and context *)

CodeRow(r) == DOMAIN r = {"creator", "access", "binary"} /\ r.binary \in Binary

Stocked ==
    /\ codes \in Seq(Range(codes)) /\ Len(codes) <= MaxCodes
    /\ \A i \in 1 .. Len(codes) : CodeRow(codes[i])

\* No code changes its binary, whatever happens to the codes.
CodesGrow ==
    /\ Stocked' /\ Len(codes') >= Len(codes)
    /\ \A i \in 1 .. Len(codes) : codes'[i].binary = codes[i].binary

Running ==
    /\ \A c \in Deployed :
          /\ contracts[c].code \in 1 .. Len(codes)
          /\ history[c] \in Seq(Entry) /\ Len(history[c]) <= MaxHistory
    /\ PortBacked

\* Each classic address used up one number; other addresses used none.
Counted ==
    /\ IsFiniteSet(Deployed) /\ Cardinality(Deployed) <= MaxContracts
    /\ nextInstance \in Nat \ {0} /\ nextInstance <= Cardinality(Deployed) + 1

Context ==
    /\ instDefault \in AccessTypes
    /\ upload.permission \in AccessTypes /\ circuitUpload.permission \in AccessTypes
    /\ pos \in 1 .. MaxPos /\ sender \in Account
    /\ Len(stack) <= MaxCallDepth

State == IInv /\ Stocked /\ Running /\ Counted /\ Context

LEMMA CodesTyped ==
    ASSUME Stocked
    PROVE  /\ Len(codes) \in Nat /\ CodeIds = 1 .. Len(codes)
           /\ \A i \in 1 .. Len(codes) : codes[i] \in Range(codes)
BY LenProperties, ElementOfSeq DEF Stocked, CodeIds

\* create appends a row with the binary of the message.
LEMMA CodeCreated ==
    ASSUME Stocked, NEW a, NEW binary \in Binary, NEW config, create(a, binary, config)
    PROVE  CodesGrow /\ Len(codes') = Len(codes) + 1
<1> DEFINE r == [creator |-> a, access |-> config, binary |-> binary]
           S == Range(codes) \cup {r}
<1>1. codes' = Append(codes, r) /\ Len(codes) < MaxCodes
  BY DEF create
<1>2. CodeRow(r)
  BY DEF CodeRow
<1> HIDE DEF r
<1>3. codes \in Seq(S) /\ r \in S
  <2>1. Range(codes) \subseteq S
    OBVIOUS
  <2> QED
    BY <2>1, SeqMonotonic DEF Stocked
<1> HIDE DEF S
<1>4. /\ codes' \in Seq(S) /\ Len(codes') = Len(codes) + 1
      /\ codes'[Len(codes) + 1] = r /\ \A i \in 1 .. Len(codes) : codes'[i] = codes[i]
  BY <1>1, <1>3, AppendProperties
<1>5. codes' \in Seq(Range(codes'))
  BY <1>4, SeqOfRange
<1>6. Len(codes) \in Nat
  BY CodesTyped
<1>7. ASSUME NEW i \in 1 .. Len(codes') PROVE CodeRow(codes'[i])
  <2>1. i \in 1 .. Len(codes) \/ i = Len(codes) + 1
    BY <1>4, <1>6
  <2> QED
    BY <1>2, <1>4, <2>1 DEF Stocked
<1>8. Stocked'
  BY <1>1, <1>4, <1>5, <1>6, <1>7, BoundAssumption DEF Stocked
<1> QED
  BY <1>4, <1>6, <1>8 DEF CodesGrow

\* A new access configuration keeps the binary.
LEMMA CodeConfigured ==
    ASSUME Stocked, NEW id \in CodeIds, NEW config,
           codes' = [codes EXCEPT ![id].access = config]
    PROVE  CodesGrow
<1> DEFINE r == [codes[id] EXCEPT !.access = config]
           S == Range(codes) \cup {r}
<1>1. id \in 1 .. Len(codes) /\ Len(codes) \in Nat
  BY CodesTyped
<1>2. CodeRow(r) /\ r.binary = codes[id].binary
  BY <1>1 DEF Stocked, CodeRow
<1>3. codes' = [codes EXCEPT ![id] = r]
  OBVIOUS
<1> HIDE DEF r
<1>4. codes \in Seq(S) /\ r \in S
  <2>1. Range(codes) \subseteq S
    OBVIOUS
  <2> QED
    BY <2>1, SeqMonotonic DEF Stocked
<1> HIDE DEF S
<1>5. /\ codes' \in Seq(S) /\ Len(codes') = Len(codes)
      /\ \A i \in 1 .. Len(codes) : codes'[i] = IF i = id THEN r ELSE codes[i]
  BY <1>1, <1>3, <1>4, ExceptSeq
<1>6. codes' \in Seq(Range(codes'))
  BY <1>5, SeqOfRange
<1>7. Stocked'
  BY <1>2, <1>5, <1>6 DEF Stocked
<1> QED
  BY <1>1, <1>2, <1>5, <1>7 DEF CodesGrow

LEMMA CodesKept == ASSUME Stocked, UNCHANGED codes PROVE CodesGrow
BY CodesTyped DEF CodesGrow, Stocked

LEMMA Chosen ==
    ASSUME Stocked, NEW a, NEW id, NEW code, CodeChosen(a, id, code)
    PROVE  CodesGrow /\ id \in 1 .. Len(codes') /\ code = codes'[id]
<1>1. CASE id \in CodeIds /\ UNCHANGED codes
  BY <1>1, CodesTyped, CodesKept DEF CodeChosen
<1>2. CASE id = Len(codes) + 1 /\ \E binary \in Binary, config \in Configs :
             create(a, binary, config)
  BY <1>2, CodesTyped, CodeCreated DEF CodeChosen
<1> QED
  BY <1>1, <1>2 DEF CodeChosen

\* Contracts that keep their row and history keep what Running says of them.
LEMMA RowKept ==
    ASSUME Running, Stocked, CodesGrow, NEW c \in Deployed,
           contracts'[c].code = contracts[c].code, contracts'[c].port = contracts[c].port
    PROVE  /\ contracts'[c].code \in 1 .. Len(codes')
           /\ contracts'[c].port => codes'[contracts'[c].code].binary \in IBCBinary
<1>1. /\ Len(codes) \in Nat /\ Len(codes') >= Len(codes) /\ Len(codes') \in Nat
      /\ \A i \in 1 .. Len(codes) : codes'[i].binary = codes[i].binary
  BY CodesTyped, LenProperties DEF CodesGrow, Stocked
<1>2. /\ contracts[c].code \in 1 .. Len(codes)
      /\ contracts[c].port => codes[contracts[c].code].binary \in IBCBinary
  BY DEF Running, PortBacked
<1> QED
  BY <1>1, <1>2

LEMMA RunningInstantiated ==
    ASSUME State, NEW a, NEW id, NEW code, NEW admin, NEW c,
           InstantiatedBy(a, id, code, admin, c)
    PROVE  Running' /\ CodesGrow
<1> DEFINE e == [code |-> id, pos |-> pos]
           new == [code |-> id, creator |-> a, admin |-> admin,
                   port |-> code.binary \in IBCBinary]
<1>1. CodesGrow /\ id \in 1 .. Len(codes') /\ code = codes'[id]
  BY Chosen DEF State, InstantiatedBy
<1>2. /\ c \notin Deployed
      /\ contracts' = [d \in Deployed \cup {c} |-> IF d = c THEN new ELSE contracts[d]]
      /\ history' = [d \in Deployed \cup {c} |-> IF d = c THEN <<e>> ELSE history[d]]
  BY DEF InstantiatedBy, instantiate
<1>3. new.code = id /\ (new.port => code.binary \in IBCBinary)
  OBVIOUS
<1>4. <<e>> \in Seq(Entry) /\ Len(<<e>>) <= MaxHistory
  <2>1. Len(codes') <= MaxCodes /\ Len(codes') \in Nat
    BY <1>1, LenProperties DEF CodesGrow, Stocked
  <2>2. e \in Entry
    BY <1>1, <2>1, BoundAssumption DEF Entry, State, Context
  <2> QED
    BY <2>2, BoundAssumption
<1> HIDE DEF e, new
<1>5. /\ Deployed' = Deployed \cup {c} /\ contracts'[c] = new /\ history'[c] = <<e>>
      /\ \A d \in Deployed : contracts'[d] = contracts[d] /\ history'[d] = history[d]
  BY <1>2 DEF Deployed
<1>6. ASSUME NEW d \in Deployed'
      PROVE  /\ contracts'[d].code \in 1 .. Len(codes')
             /\ contracts'[d].port => codes'[contracts'[d].code].binary \in IBCBinary
             /\ history'[d] \in Seq(Entry) /\ Len(history'[d]) <= MaxHistory
  <2>1. CASE d = c
    BY <1>1, <1>3, <1>4, <1>5, <2>1
  <2>2. CASE d \in Deployed
    BY <1>1, <1>5, <2>2, RowKept DEF State, Running
  <2> QED
    BY <1>5, <2>1, <2>2
<1> QED
  BY <1>1, <1>6 DEF Running, PortBacked

\* A migration keeps IBC entry points under a port, or gives it a port with them.
LEMMA RunningMigrated ==
    ASSUME State, NEW a, NEW c, NEW id, NEW code, NEW called,
           MigratedBy(a, c, id, code, called)
    PROVE  Running' /\ CodesGrow
<1> DEFINE e == [code |-> id, pos |-> pos]
<1>1. CodesGrow /\ id \in 1 .. Len(codes') /\ code = codes'[id]
  BY Chosen DEF State, MigratedBy
<1>2. /\ c \in Deployed /\ Len(history[c]) < MaxHistory
      /\ contracts[c].port => code.binary \in IBCBinary
      /\ contracts' = [contracts EXCEPT ![c].code = id,
                                      ![c].port = @ \/ code.binary \in IBCBinary]
      /\ history' = [history EXCEPT ![c] = Append(@, e)]
  BY DEF MigratedBy, migrate, keepsPort, storeMigratedInfo
<1>3. e \in Entry
  <2>1. Len(codes') <= MaxCodes /\ Len(codes') \in Nat
    BY <1>1, LenProperties DEF CodesGrow, Stocked
  <2> QED
    BY <1>1, <2>1, BoundAssumption DEF Entry, State, Context
<1> HIDE DEF e
<1>4. history[c] \in Seq(Entry)
  BY <1>2 DEF State, Running
<1>5. /\ Append(history[c], e) \in Seq(Entry)
      /\ Len(Append(history[c], e)) = Len(history[c]) + 1 /\ Len(history[c]) \in Nat
  BY <1>3, <1>4, AppendProperties, LenProperties
<1>6. /\ Deployed' = Deployed
      /\ \A d \in Deployed \ {c} : contracts'[d] = contracts[d] /\ history'[d] = history[d]
      /\ history'[c] = Append(history[c], e)
  BY <1>2 DEF State, IInv, Typed, Deployed
<1>7. contracts'[c].code = id
  BY <1>2 DEF State, IInv, Typed, Deployed
<1>8. contracts'[c].port = (contracts[c].port \/ code.binary \in IBCBinary)
  BY <1>2 DEF State, IInv, Typed, Deployed
<1>9. ASSUME NEW d \in Deployed'
      PROVE  /\ contracts'[d].code \in 1 .. Len(codes')
             /\ contracts'[d].port => codes'[contracts'[d].code].binary \in IBCBinary
             /\ history'[d] \in Seq(Entry) /\ Len(history'[d]) <= MaxHistory
  <2>1. CASE d = c
    <3>1. history'[d] \in Seq(Entry) /\ Len(history'[d]) <= MaxHistory
      BY <1>2, <1>5, <1>6, <2>1, BoundAssumption
    <3>2. contracts'[d].port => code.binary \in IBCBinary
      BY <1>2, <1>4, <1>8, <2>1
    <3> QED
      BY <1>1, <1>7, <2>1, <3>1, <3>2
  <2>2. CASE d \in Deployed \ {c}
    BY <1>1, <1>6, <2>2, RowKept DEF State, Running
  <2> QED
    BY <1>6, <2>1, <2>2
<1> QED
  BY <1>1, <1>9 DEF Running, PortBacked

LEMMA RunningAdministered ==
    ASSUME State, NEW a, NEW c, NEW new, setContractAdmin(a, c, new)
    PROVE  Running' /\ CodesGrow
<1>1. /\ c \in Deployed /\ UNCHANGED <<codes, history>>
      /\ contracts' = [contracts EXCEPT ![c].admin = new]
  BY DEF setContractAdmin
<1>2. CodesGrow
  BY <1>1, CodesKept DEF State
<1>3. Deployed' = Deployed
  BY <1>1 DEF Deployed
<1>4. \A d \in Deployed : /\ contracts'[d].code = contracts[d].code
                           /\ contracts'[d].port = contracts[d].port
  BY <1>1 DEF State, IInv, Typed, Deployed
<1> QED
  BY <1>1, <1>2, <1>3, <1>4, RowKept DEF State, Running, PortBacked

\* Who neither instantiates nor migrates nor administers keeps the rows.
LEMMA RunningQuiet ==
    ASSUME State, Quiet, CodesGrow
    PROVE  Running'
<1>1. Deployed' = Deployed /\ contracts' = contracts /\ history' = history
  BY DEF Quiet, Deployed
<1> QED
  BY <1>1, RowKept DEF State, Running, PortBacked

LEMMA CountKept ==
    ASSUME State, Quiet \/ Instantiated \/ Migrated \/ Administered
    PROVE  Counted'
<1>1. CASE Quiet
  BY <1>1 DEF State, Counted, Quiet, Deployed
<1>2. CASE Migrated
  <2>1. DOMAIN contracts' = Deployed /\ nextInstance' = nextInstance
    BY <1>2, Migrates DEF State, Migrated, MigratedBy
  <2> QED
    BY <2>1 DEF State, Counted, Deployed
<1>3. CASE Administered
  <2>1. DOMAIN contracts' = Deployed /\ nextInstance' = nextInstance
    BY <1>3, Administers DEF State, Administered, setContractAdmin
  <2> QED
    BY <2>1 DEF State, Counted, Deployed
<1>4. CASE Instantiated
  <2>1. PICK a, id, code, admin, c : InstantiatedBy(a, id, code, admin, c)
    BY <1>4 DEF Instantiated
  <2>2. /\ c \notin Deployed /\ Cardinality(Deployed) < MaxContracts
        /\ DOMAIN contracts' = Deployed \cup {c}
        /\ nextInstance' \in {nextInstance, nextInstance + 1}
    BY <2>1 DEF InstantiatedBy, instantiate
  <2>3. /\ IsFiniteSet(Deployed \cup {c})
        /\ Cardinality(Deployed \cup {c}) = Cardinality(Deployed) + 1
        /\ Cardinality(Deployed) \in Nat
    BY <2>2, FS_AddElement, FS_CardinalityType DEF State, Counted
  <2> QED
    BY <2>2, <2>3, BoundAssumption DEF State, Counted, Deployed
<1> QED
  BY <1>1, <1>2, <1>3, <1>4

\* Every step keeps the codes, stores one or configures one.
LEMMA CodesStep == ASSUME State, Next PROVE CodesGrow
<1>1. ASSUME NEW a, NEW binary \in Binary, NEW config, create(a, binary, config)
      PROVE  CodesGrow
  BY <1>1, CodeCreated DEF State
<1>2. CASE UNCHANGED codes
  BY <1>2, CodesKept DEF State
<1>3. ASSUME NEW a, CodeMessage(a) PROVE CodesGrow
  BY <1>1, <1>3, CodeConfigured DEF State, CodeMessage, StoreCode, setAccessConfig
<1>4. ASSUME NEW a, ContractMessage(a) PROVE CodesGrow
  <2>1. \/ UNCHANGED codes
        \/ \E binary \in Binary, config \in Configs : create(a, binary, config)
    BY <1>4 DEF ContractMessage, InstantiateContract, InstantiateContract2,
       StoreAndInstantiateContract, ExecuteContract, MigrateContract, StoreAndMigrateContract,
       setContractAdmin, rows
  <2> QED
    BY <1>1, <1>2, <2>1
<1>5. CASE ParamsMessage \/ Return \/ NextTx \/ \E c \in Deployed : SudoContract(c)
  <2>1. UNCHANGED codes
    BY <1>5 DEF ParamsMessage, UpdateParams, AddCodeUploadParamsAddresses,
       RemoveCodeUploadParamsAddresses, AddCircuitUploadParamsAddresses,
       RemoveCircuitUploadParamsAddresses, editUploadList, Return, NextTx, SudoContract, rows
  <2> QED
    BY <1>2, <2>1
<1> QED
  BY <1>3, <1>4, <1>5 DEF Next

\* The depth of calls is bounded, and only accounts send transactions.
LEMMA ContextStep == ASSUME State, Next PROVE Context'
<1> DEFINE Calm == Len(stack') <= MaxCallDepth
<1>1. Len(stack) \in Nat /\ Context
  BY LenProperties DEF State, IInv, Typed
<1>2. ASSUME NEW a, Acting(a) PROVE sender' \in Account
  BY <1>1, <1>2 DEF Acting, Context
<1>3. ASSUME NEW c, NEW p, Call(c, p) PROVE Calm
  <2> DEFINE f == [self |-> c, policy |-> p]
             S == Calls(Deployed) \cup {f}
  <2>1. stack \in Seq(S)
    <3>1. Calls(Deployed) \subseteq S
      OBVIOUS
    <3> QED
      BY <3>1, SeqMonotonic DEF State, IInv, Typed
  <2>2. f \in S /\ stack' = Append(stack, f)
    BY <1>3 DEF Call
  <2> HIDE DEF f, S
  <2>3. Len(stack') = Len(stack) + 1
    BY <2>1, <2>2, AppendProperties
  <2> QED
    BY <1>1, <1>3, <2>3, BoundAssumption DEF Call
<1>4. ASSUME UNCHANGED stack PROVE Calm
  BY <1>1, <1>4 DEF Context
<1>5. ASSUME NEW a \in Actors, CodeMessage(a) \/ ContractMessage(a)
      PROVE  Acting(a) /\ UNCHANGED <<params, pos>> /\ Calm
  <2>1. CASE CodeMessage(a)
    BY <1>4, <2>1 DEF CodeMessage, StoreCode, setAccessConfig
  <2>2. CASE ContractMessage(a)
    <3>1. ASSUME NEW id, NEW code, NEW admin, NEW c, instantiate(a, id, code, admin, c) PROVE Calm
      BY <1>3, <3>1 DEF instantiate
    <3>2. ASSUME NEW c, NEW id, NEW code, NEW called, migrate(a, c, id, code, called) PROVE Calm
      BY <1>3, <1>4, <3>2 DEF migrate
    <3>3. ASSUME NEW c, ExecuteContract(a, c) PROVE Calm
      BY <1>3, <3>3 DEF ExecuteContract
    <3>4. ASSUME NEW c, NEW new, setContractAdmin(a, c, new) PROVE Calm
      BY <1>4, <3>4 DEF setContractAdmin
    <3>5. Calm
      BY <2>2, <3>1, <3>2, <3>3, <3>4 DEF ContractMessage, InstantiateContract,
         InstantiateContract2, StoreAndInstantiateContract, MigrateContract,
         StoreAndMigrateContract
    <3>6. Acting(a) /\ UNCHANGED <<params, pos>>
      BY <2>2 DEF ContractMessage, InstantiateContract, InstantiateContract2,
         StoreAndInstantiateContract, ExecuteContract, MigrateContract,
         StoreAndMigrateContract, setContractAdmin
    <3> QED
      BY <3>5, <3>6
  <2> QED
    BY <1>5, <2>1, <2>2
<1>6. CASE \E a \in Actors : CodeMessage(a) \/ ContractMessage(a)
  BY <1>1, <1>2, <1>5, <1>6 DEF Context, params
<1>7. CASE \E c \in Deployed : SudoContract(c)
  BY <1>1, <1>2, <1>3, <1>7 DEF Context, params, SudoContract
<1>8. CASE ParamsMessage
  <2>1. ASSUME NEW codeConfig \in Uploads, NEW circuitConfig \in Uploads, NEW default \in Defaults,
               UpdateParams(codeConfig, circuitConfig, default)
        PROVE  Context'
    BY <1>1, <1>2, <2>1, ConfigAssumption DEF UpdateParams, Context
  <2>2. ASSUME NEW S, editUploadList(S) PROVE Context'
    BY <1>1, <1>2, <2>2 DEF editUploadList, Context, AnyOf, AccessTypes
  <2> QED
    BY <1>8, <2>1, <2>2 DEF ParamsMessage, AddCodeUploadParamsAddresses,
       RemoveCodeUploadParamsAddresses, AddCircuitUploadParamsAddresses,
       RemoveCircuitUploadParamsAddresses
<1>9. CASE Return
  <2> DEFINE n == Len(stack) - 1
  <2>1. stack # <<>> /\ stack' = SubSeq(stack, 1, n) /\ UNCHANGED <<params, pos, sender>>
    BY <1>9 DEF Return, Front
  <2>2. n \in Int /\ n >= 0
    BY <2>1, LastCall DEF State, IInv
  <2>3. \A i \in 1 .. n : stack[i] \in Calls(Deployed)
    BY <1>1, ElementOfSeq DEF State, IInv, Typed
  <2> HIDE DEF n
  <2>4. Len(SubSeq(stack, 1, n)) = IF 1 <= n THEN n - 1 + 1 ELSE 0
    BY <2>2, <2>3, SubSeqProperties
  <2>5. Calm
    BY <1>1, <2>1, <2>2, <2>4, BoundAssumption DEF n, Context
  <2> QED
    BY <1>1, <2>1, <2>5 DEF Context, params
<1>10. CASE NextTx
  BY <1>1, <1>10, BoundAssumption DEF NextTx, Context, params
<1> QED
  BY <1>6, <1>7, <1>8, <1>9, <1>10 DEF Next

LEMMA StateInductive == Spec => []State
<1>1. Init => State
  <2> SUFFICES ASSUME Init PROVE State
    OBVIOUS
  <2>1. IInv
    BY Initially
  <2>2. /\ Deployed = {} /\ codes = <<>> /\ stack = <<>> /\ nextInstance = 1
        /\ pos = 1 /\ sender = Gov
        /\ upload \in Uploads /\ circuitUpload \in Uploads /\ instDefault \in Defaults
    BY DEF Init, Deployed
  <2>3. codes \in Seq(Range(codes)) /\ Len(codes) = 0 /\ Len(stack) = 0
    BY <2>2, EmptySeq
  <2>4. Stocked
    BY <2>3, BoundAssumption DEF Stocked
  <2>5. Running
    BY <2>2 DEF Running, PortBacked
  <2>6. Counted
    BY <2>2, FS_EmptySet, BoundAssumption DEF Counted
  <2>7. Context
    BY <2>2, <2>3, BoundAssumption, ConfigAssumption, AccountAssumption DEF Context
  <2> QED
    BY <2>1, <2>4, <2>5, <2>6, <2>7 DEF State
<1>2. ASSUME State, Next PROVE State'
  <2>1. IInv /\ (Quiet \/ Instantiated \/ Migrated \/ Administered)
    BY <1>2, Steps DEF State
  <2>2. CodesGrow /\ Context' /\ Counted' /\ IInv'
    BY <1>2, <2>1, CodesStep, ContextStep, CountKept, Preserved
  <2>3. Running'
    BY <1>2, <2>1, <2>2, RunningQuiet, RunningInstantiated, RunningMigrated,
       RunningAdministered DEF Instantiated, Migrated, Administered
  <2> QED
    BY <2>2, <2>3 DEF State, CodesGrow
<1>3. ASSUME State, UNCHANGED vars PROVE State'
  <2>1. IInv'
    BY <1>3, Stutters DEF State
  <2>2. Stocked' /\ Counted' /\ Context'
    BY <1>3 DEF State, Stocked, Counted, Context, Deployed, vars, rows, params
  <2>3. Running'
    BY <1>3 DEF State, Running, PortBacked, Deployed, vars, rows
  <2> QED
    BY <2>1, <2>2, <2>3 DEF State
<1>4. State /\ [Next]_vars => State'
  BY <1>2, <1>3
<1> QED
  BY <1>1, <1>4, PTL DEF Spec

\* A contract with an IBC port runs a code with IBC entry points in every state,
\* however it was migrated: the check in migrate is enough because no code ever
\* changes its binary.
THEOREM PortsAreBacked == Spec => []PortBacked
<1>1. State => PortBacked
  BY DEF State, Running
<1> QED
  BY <1>1, StateInductive, PTL

\* Every state has its type: calls are never nested deeper than maxCallDepth, and
\* contract rows, histories and calls under way name codes and contracts that exist.
THEOREM ContractsTyped == Spec => []TypeOK
<1>1. ASSUME State PROVE TypeOK
  <2> USE <1>1
  <2>1. Len(codes) <= MaxCodes /\ \A i \in CodeIds : codes[i].binary \in Binary
    BY CodesTyped DEF State, Stocked, CodeRow
  <2>2. nextInstance \in 1 .. (MaxContracts + 1)
    <3>1. Cardinality(Deployed) \in Nat
      BY FS_CardinalityType DEF State, Counted
    <3> QED
      BY <3>1, BoundAssumption DEF State, Counted
  <2>3. ASSUME NEW c \in Deployed
        PROVE  /\ contracts[c].code \in CodeIds
               /\ history[c] \in Seq(Entry) /\ Len(history[c]) \in 1 .. MaxHistory
    <3>1. /\ contracts[c].code \in CodeIds
          /\ history[c] \in Seq(Entry) /\ Len(history[c]) <= MaxHistory
      BY CodesTyped DEF State, Running
    <3>2. Len(history[c]) \in Nat /\ Len(history[c]) > 0
      BY <3>1, EmptySeq, LenProperties DEF State, IInv, Typed, IsHistory
    <3> QED
      BY <3>1, <3>2, BoundAssumption
  <2>4. \A i \in DOMAIN stack : stack[i].self \in Deployed
    <3>1. stack \in Seq(Calls(Deployed))
      BY DEF State, IInv, Typed
    <3>2. \A i \in DOMAIN stack : stack[i] \in Calls(Deployed)
      BY <3>1, LenProperties, ElementOfSeq
    <3> QED
      BY <3>2 DEF Calls
  <2>5. DOMAIN history = Deployed
    BY DEF State, IInv, Typed
  <2> QED
    BY <2>1, <2>2, <2>3, <2>4, <2>5 DEF TypeOK, State, Context
<1> QED
  BY <1>1, StateInductive, PTL

-----------------------------------------------------------------------------
(* The shares of x/feeshare *)

ShareRows == \A c \in Shared : DOMAIN shares[c] = {"deployer", "withdrawer"}

ShareInv == ShareRows /\ SharesIndexed

\* A new share adds one row to each map: the contract had none.
LEMMA Registered ==
    ASSUME ShareInv, NEW a, NEW c, NEW to, RegisterFeeShare(a, c, to)
    PROVE  ShareInv'
<1>1. PICK deployer :
        /\ c \notin Shared
        /\ shares' = [d \in Shared \cup {c} |->
                        IF d = c THEN [deployer |-> deployer, withdrawer |-> to] ELSE shares[d]]
        /\ byDeployer' = byDeployer \cup {<<deployer, c>>}
        /\ byWithdrawer' = byWithdrawer \cup {<<to, c>>}
  BY DEF RegisterFeeShare, SetFeeShare
<1>2. /\ Shared' = Shared \cup {c}
      /\ \A d \in Shared : shares'[d] = shares[d]
      /\ DOMAIN shares'[c] = {"deployer", "withdrawer"}
      /\ shares'[c].deployer = deployer /\ shares'[c].withdrawer = to
  BY <1>1 DEF Shared
<1>3. ShareRows'
  BY <1>2 DEF ShareInv, ShareRows
<1>4. byDeployer' = {<<shares'[d].deployer, d>> : d \in Shared'}
  <2>1. \A d \in Shared : <<shares'[d].deployer, d>> = <<shares[d].deployer, d>>
    BY <1>2
  <2>2. <<shares'[c].deployer, c>> = <<deployer, c>>
    BY <1>2
  <2>3. byDeployer = {<<shares[d].deployer, d>> : d \in Shared}
    BY DEF ShareInv, SharesIndexed
  <2>4. Shared' = Shared \cup {c} /\ byDeployer' = byDeployer \cup {<<deployer, c>>}
    BY <1>1, <1>2
  <2> QED
    BY <2>1, <2>2, <2>3, <2>4, Zenon
<1>5. byWithdrawer' = {<<shares'[d].withdrawer, d>> : d \in Shared'}
  <2>1. \A d \in Shared : <<shares'[d].withdrawer, d>> = <<shares[d].withdrawer, d>>
    BY <1>2
  <2>2. <<shares'[c].withdrawer, c>> = <<to, c>>
    BY <1>2
  <2>3. byWithdrawer = {<<shares[d].withdrawer, d>> : d \in Shared}
    BY DEF ShareInv, SharesIndexed
  <2>4. Shared' = Shared \cup {c} /\ byWithdrawer' = byWithdrawer \cup {<<to, c>>}
    BY <1>1, <1>2
  <2> QED
    BY <2>1, <2>2, <2>3, <2>4, Zenon
<1> QED
  BY <1>3, <1>4, <1>5 DEF ShareInv, SharesIndexed

\* A change replaces the row by withdrawer and keeps the one by deployer.
LEMMA Updated ==
    ASSUME ShareInv, NEW a, NEW c, NEW to, UpdateFeeShare(a, c, to)
    PROVE  ShareInv'
<1>1. /\ c \in Shared
      /\ shares' = [d \in Shared \cup {c} |->
                      IF d = c THEN [shares[c] EXCEPT !.withdrawer = to] ELSE shares[d]]
      /\ byWithdrawer' = (byWithdrawer \ {<<shares[c].withdrawer, c>>}) \cup {<<to, c>>}
      /\ byDeployer' = byDeployer
  BY DEF UpdateFeeShare, SetFeeShare
<1>2. /\ Shared' = Shared
      /\ \A d \in Shared \ {c} : shares'[d] = shares[d]
      /\ DOMAIN shares'[c] = {"deployer", "withdrawer"}
      /\ shares'[c].deployer = shares[c].deployer /\ shares'[c].withdrawer = to
  BY <1>1 DEF Shared, ShareInv, ShareRows
<1>3. ShareRows'
  BY <1>2 DEF ShareInv, ShareRows
<1>4. byDeployer' = {<<shares'[d].deployer, d>> : d \in Shared'}
  <2>1. \A d \in Shared : shares'[d].deployer = shares[d].deployer
    BY <1>2
  <2>2. byDeployer = {<<shares[d].deployer, d>> : d \in Shared}
    BY DEF ShareInv, SharesIndexed
  <2>3. Shared' = Shared /\ byDeployer' = byDeployer
    BY <1>1, <1>2
  <2> QED
    BY <2>1, <2>2, <2>3, Zenon
<1>5. byWithdrawer' = {<<shares'[d].withdrawer, d>> : d \in Shared'}
  <2>1. \A x : x \in byWithdrawer <=> \E d \in Shared : x = <<shares[d].withdrawer, d>>
    BY DEF ShareInv, SharesIndexed
  <2>2. \A x : x \in byWithdrawer' <=> \/ x = <<to, c>>
                                       \/ \E d \in Shared \ {c} : x = <<shares[d].withdrawer, d>>
    BY <1>1, <2>1
  <2>3. \A x : x \in byWithdrawer' <=> \E d \in Shared : x = <<shares'[d].withdrawer, d>>
    BY <1>1, <1>2, <2>2
  <2> QED
    BY <1>2, <2>3
<1> QED
  BY <1>3, <1>4, <1>5 DEF ShareInv, SharesIndexed

\* A cancellation takes exactly the rows of the share, not those of the sender.
LEMMA Cancelled ==
    ASSUME ShareInv, NEW a, NEW c, CancelFeeShare(a, c)
    PROVE  ShareInv'
<1>1. /\ c \in Shared
      /\ shares' = [d \in Shared \ {c} |-> shares[d]]
      /\ byDeployer' = byDeployer \ {<<shares[c].deployer, c>>}
      /\ byWithdrawer' = byWithdrawer \ {<<shares[c].withdrawer, c>>}
  BY DEF CancelFeeShare, Restrict
<1>2. Shared' = Shared \ {c} /\ \A d \in Shared \ {c} : shares'[d] = shares[d]
  BY <1>1 DEF Shared
<1>3. ShareRows'
  BY <1>2 DEF ShareInv, ShareRows
<1>4. byDeployer' = {<<shares'[d].deployer, d>> : d \in Shared'}
  <2>1. \A x : x \in byDeployer <=> \E d \in Shared : x = <<shares[d].deployer, d>>
    BY DEF ShareInv, SharesIndexed
  <2>2. \A x : x \in byDeployer' <=> \E d \in Shared \ {c} : x = <<shares[d].deployer, d>>
    BY <1>1, <2>1
  <2> QED
    BY <1>2, <2>2
<1>5. byWithdrawer' = {<<shares'[d].withdrawer, d>> : d \in Shared'}
  <2>1. \A x : x \in byWithdrawer <=> \E d \in Shared : x = <<shares[d].withdrawer, d>>
    BY DEF ShareInv, SharesIndexed
  <2>2. \A x : x \in byWithdrawer' <=> \E d \in Shared \ {c} : x = <<shares[d].withdrawer, d>>
    BY <1>1, <2>1
  <2> QED
    BY <1>2, <2>2
<1> QED
  BY <1>3, <1>4, <1>5 DEF ShareInv, SharesIndexed

\* The two maps of x/feeshare agree with the shares in every state, whatever happens
\* to the contracts and to their owners between the messages of x/feeshare.
THEOREM SharesAgree == RegSpec => []SharesIndexed
<1>1. RegInit => ShareInv
  BY DEF RegInit, ShareInv, ShareRows, SharesIndexed, Shared
<1>2. ASSUME ShareInv, [RegNext]_<<vars, regVars>> PROVE ShareInv'
  <2>1. ASSUME UNCHANGED <<shares, byDeployer, byWithdrawer>> PROVE ShareInv'
    BY <1>2, <2>1 DEF ShareInv, ShareRows, SharesIndexed, Shared
  <2>2. CASE UNCHANGED regVars
    BY <2>1, <2>2 DEF regVars
  <2>3. ASSUME NEW a \in Actors, NEW c \in Deployed, RegMessage(a, c) PROVE ShareInv'
    <3>1. ASSUME NEW hook \in Hook,
                 handleContractRegister(a, c, hook) \/ handleContractRemoval(a, c, hook)
          PROVE  ShareInv'
      BY <2>1, <3>1 DEF handleContractRegister, handleContractRemoval
    <3> QED
      BY <1>2, <2>3, <3>1, Registered, Updated, Cancelled DEF RegMessage
  <2>4. ASSUME NEW on \in BOOLEAN, UpdateFeeShareParams(on) PROVE ShareInv'
    BY <2>1, <2>4 DEF UpdateFeeShareParams
  <2> QED
    BY <1>2, <2>2, <2>3, <2>4 DEF RegNext
<1>3. ShareInv => SharesIndexed
  BY DEF ShareInv
<1> QED
  BY <1>1, <1>2, <1>3, PTL DEF RegSpec
=============================================================================
